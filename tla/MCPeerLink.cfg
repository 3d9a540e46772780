\* A message takes two calls (3 bytes, 2 a call), the connection holds less
\* than two messages, the queue overflows on the fourth offer.
CONSTANTS
    MsgSize = 3
    MaxSend = 2
    QueueSize = 3
    PipeSize = 5
    SizeMax = 255
    MaxOffers = 5
SPECIFICATION FairSpec
INVARIANTS TypeOK IntactDelivery IInv
PROPERTIES ImplementsMailbox AcceptedIsHandled
