\* Two clients with a slot each; one client and the operator type a line.
\* A connection has room for one message, so that send() waits.
CONSTANTS
    Clients = {c1, c2}
    Server = server
    Nobody = nobody
    MaxClients = 2
    QueueSize = 2
    Calls = 2
    PipeSize = 2
    ServerLines = 1
    Typists = {c1}
    ClientLines = 1
SPECIFICATION FairSpec
INVARIANTS TypeOK SlotTable NoEcho ServerLinesWhole
PROPERTIES TurnEnds LineReachesServer HangupReclaimed EndReachesClients
\* An idle chat waits for its users; one that is over stays so.
CHECK_DEADLOCK FALSE
