------------------------------- MODULE PeerLink -------------------------------
(***************************************************************************)
(* One direction of one chat connection, byte by byte: the sending half of *)
(* a peer_t (send_buffer, sending_buffer, current_sending_byte), the TCP   *)
(* byte stream, and the receiving half of the peer_t at the other end      *)
(* (receiving_buffer, current_receiving_byte).  Messages have a fixed      *)
(* size, nothing on the wire separates them, and both ends count bytes.    *)
(*                                                                         *)
(* Both sockets block, so send() waits for room, and recv() runs with      *)
(* MSG_DONTWAIT; how many bytes one call moves is up to the kernel.        *)
(***************************************************************************)
EXTENDS MessageQueue

CONSTANTS MsgSize,      \* sizeof(message_t)
          MaxSend,      \* MAX_SEND_SIZE, the most one call asks for
          QueueSize,    \* MAX_MESSAGES_BUFFER_SIZE
          PipeSize,     \* bytes the two socket buffers hold between them
          SizeMax,      \* (size_t) -1
          MaxOffers     \* bound: messages offered on one connection

ASSUME SizesAssumption == /\ MsgSize \in Nat \ {0}
                          /\ MaxSend \in Nat \ {0}
                          /\ QueueSize \in Nat \ {0}
                          /\ PipeSize \in Nat \ {0}
                          /\ MaxOffers \in Nat \ {0}
                          /\ SizeMax \in Nat
                          /\ SizeMax > MsgSize

VARIABLES queue,        \* send_buffer; messages are named by their offer
          offers,       \* how many messages peerAdd() was called with
          inSend,       \* the sender is inside sendPeerMsg()
          sending,      \* sending_buffer: the index in taken of its message
          sendAt,       \* current_sending_byte
          pipe,         \* bytes sent and not yet received
          recvBuf,      \* receiving_buffer
          recvAt,       \* current_receiving_byte
          taken,        \* history: the messages dequeue() returned
          delivered     \* history: the buffers given to message_handler()

senderVars == <<queue, offers, inSend, sending, sendAt, taken>>
receiverVars == <<recvBuf, recvAt, delivered>>
vars == <<queue, offers, inSend, sending, sendAt, pipe,
          recvBuf, recvAt, taken, delivered>>

Messages == 1 .. MaxOffers

(* A byte is known by the message it belongs to and its place in it. *)
Byte == [of : Nat, pos : 0 .. MsgSize]
Blank == [of |-> 0, pos |-> 0]
Frame(i) == [p \in 1 .. MsgSize |-> [of |-> i, pos |-> p]]

(* current_sending_byte < 0 is never true of a size_t: -1 is SizeMax, and  *)
(* the second half of the test at message.h:315 is what notices it.        *)
SendIdle == sendAt >= MsgSize

(* The most one send() or recv() call may move from cursor `at`. *)
CallSize(at) == IF MsgSize - at > MaxSend THEN MaxSend ELSE MsgSize - at

(* The next n bytes of sending_buffer. *)
Chunk(n) == [k \in 1 .. n |-> [of |-> sending, pos |-> sendAt + k]]

Init == /\ queue = Empty
        /\ offers = 0
        /\ inSend = FALSE
        /\ sending = 0
        /\ sendAt = SizeMax
        /\ pipe = << >>
        /\ recvBuf = [p \in 1 .. MsgSize |-> Blank]
        /\ recvAt = 0
        /\ taken = << >>
        /\ delivered = << >>

-----------------------------------------------------------------------------
(* peerAdd(): the program's single thread is not sending when it queues. *)
PeerAdd == /\ ~inSend
           /\ offers < MaxOffers
           /\ offers' = offers + 1
           /\ queue' = Enqueue(queue, QueueSize, offers + 1)
           /\ UNCHANGED <<inSend, sending, sendAt, pipe, taken>>
           /\ UNCHANGED receiverVars

(* Mutant: write only when more than one message waits (`current > 1`). *)
SendStartLate == /\ ~inSend
                 /\ Len(queue) > 1
                 /\ inSend' = TRUE
                 /\ UNCHANGED <<queue, offers, sending, sendAt, pipe, taken>>
                 /\ UNCHANGED receiverVars

(* sendPeerMsg() is called when the queue was seen non-empty. *)
SendStart == /\ ~inSend
             /\ queue # Empty
             /\ inSend' = TRUE
             /\ UNCHANGED <<queue, offers, sending, sendAt, pipe, taken>>
             /\ UNCHANGED receiverVars

(* Mutant: dequeue() copies the message out and leaves `current` alone. *)
SendFetchPeek == /\ inSend
                 /\ SendIdle
                 /\ queue # Empty
                 /\ taken' = Append(taken, Top(queue))
                 /\ sending' = Len(taken) + 1
                 /\ sendAt' = 0
                 /\ UNCHANGED <<queue, offers, inSend, pipe>>
                 /\ UNCHANGED receiverVars

(* The head of its loop: fetch the next message when the last is gone. *)
SendFetch == /\ inSend
             /\ SendIdle
             /\ queue # Empty
             /\ taken' = Append(taken, Top(queue))
             /\ queue' = Dequeue(queue)
             /\ sending' = Len(taken) + 1
             /\ sendAt' = 0
             /\ UNCHANGED <<offers, inSend, pipe>>
             /\ UNCHANGED receiverVars

(* Mutant: the cursor is set to what this call sent, not advanced by it. *)
SendBytesRestart(n) ==
    /\ inSend
    /\ ~SendIdle
    /\ n \in 1 .. CallSize(sendAt)
    /\ Len(pipe) + n <= PipeSize
    /\ pipe' = pipe \o Chunk(n)
    /\ sendAt' = n
    /\ UNCHANGED <<queue, offers, inSend, sending, taken>>
    /\ UNCHANGED receiverVars

(* One send() that moves n bytes. *)
SendBytes(n) ==
    /\ inSend
    /\ ~SendIdle
    /\ n \in 1 .. CallSize(sendAt)
    /\ Len(pipe) + n <= PipeSize
    /\ pipe' = pipe \o Chunk(n)
    /\ sendAt' = sendAt + n
    /\ UNCHANGED <<queue, offers, inSend, sending, taken>>
    /\ UNCHANGED receiverVars

(* The loop ends when there is nothing left to fetch. *)
SendDone == /\ inSend
            /\ SendIdle
            /\ queue = Empty
            /\ inSend' = FALSE
            /\ sendAt' = SizeMax
            /\ UNCHANGED <<queue, offers, sending, pipe, taken>>
            /\ UNCHANGED receiverVars

(* The head of the receive loop: a full buffer goes to the handler. *)
Handle == /\ recvAt >= MsgSize
          /\ delivered' = Append(delivered, recvBuf)
          /\ recvAt' = 0
          /\ UNCHANGED <<recvBuf, pipe>>
          /\ UNCHANGED senderVars

(* One recv() that returns n bytes. *)
RecvBytes(n) ==
    /\ recvAt < MsgSize
    /\ n \in 1 .. CallSize(recvAt)
    /\ n <= Len(pipe)
    /\ recvBuf' = [p \in 1 .. MsgSize |->
                       IF p \in recvAt + 1 .. recvAt + n
                       THEN pipe[p - recvAt] ELSE recvBuf[p]]
    /\ recvAt' = recvAt + n
    /\ pipe' = SubSeq(pipe, n + 1, Len(pipe))
    /\ UNCHANGED delivered
    /\ UNCHANGED senderVars

(* Mutant: closeClientConnection() and newConnection() forget one cursor. *)
ReopenMidMessage == /\ queue' = Empty
                    /\ offers' = 0
                    /\ inSend' = FALSE
                    /\ sendAt' = SizeMax
                    /\ pipe' = << >>
                    /\ taken' = << >>
                    /\ delivered' = << >>
                    /\ UNCHANGED <<sending, recvBuf, recvAt>>

(* The connection ends at any point, even inside sendPeerMsg(), and the    *)
(* next one uses the same peer_t: closeClientConnection() and              *)
(* newConnection() reset the queue and both cursors, not the two buffers.  *)
Reopen == /\ queue' = Empty
          /\ offers' = 0
          /\ inSend' = FALSE
          /\ sendAt' = SizeMax
          /\ pipe' = << >>
          /\ recvAt' = 0
          /\ taken' = << >>
          /\ delivered' = << >>
          /\ UNCHANGED <<sending, recvBuf>>

Sender == \/ SendFetch
          \/ SendDone
          \/ \E n \in 1 .. MaxSend : SendBytes(n)

Receiver == \/ Handle
            \/ \E n \in 1 .. MaxSend : RecvBytes(n)

Next == \/ PeerAdd
        \/ SendStart
        \/ Sender
        \/ Receiver
        \/ Reopen

Spec == Init /\ [][Next]_vars

(* The main loops select() and then call sendPeerMsg() and the receive      *)
(* function of every ready socket, so a started or possible call proceeds.  *)
(* Nothing is assumed of users typing or of connections ending.             *)
FairSpec == /\ Spec
            /\ WF_vars(SendStart)
            /\ WF_vars(Sender)
            /\ WF_vars(Receiver)

-----------------------------------------------------------------------------
(* The state has its types; in particular a cursor in use never passes the *)
(* end of its buffer and the connection never holds more than it has room  *)
(* for (message.h:315, 324-328, 260-270).                                  *)
TypeOK == /\ queue \in Seq(Messages)
          /\ Len(queue) <= QueueSize
          /\ offers \in 0 .. MaxOffers
          /\ inSend \in BOOLEAN
          /\ sending \in Nat
          /\ sendAt \in 0 .. MsgSize \cup {SizeMax}
          /\ pipe \in Seq(Byte)
          /\ Len(pipe) <= PipeSize
          /\ recvBuf \in [1 .. MsgSize -> Byte]
          /\ recvAt \in 0 .. MsgSize
          /\ taken \in Seq(Messages)
          /\ delivered \in Seq([1 .. MsgSize -> Byte])

(* Framing: although only byte counts separate messages on the wire, each  *)
(* buffer handed to the message handler (message.h:260-262) is one whole   *)
(* message, and the d-th of them is the d-th the sender dequeued: nothing  *)
(* torn, mixed, lost, repeated or reordered once it left the queue.        *)
IntactDelivery == \A d \in 1 .. Len(delivered) : delivered[d] = Frame(d)

-----------------------------------------------------------------------------
(* Why IntactDelivery holds: the bytes under way, and the byte each end    *)
(* will touch next, are consecutive bytes of the sequence of all frames.   *)
NextSend == IF SendIdle THEN [of |-> Len(taken) + 1, pos |-> 1]
                        ELSE [of |-> sending, pos |-> sendAt + 1]
NextRecv == IF recvAt >= MsgSize
            THEN [of |-> Len(delivered) + 2, pos |-> 1]
            ELSE [of |-> Len(delivered) + 1, pos |-> recvAt + 1]

Stream == [k \in 1 .. Len(pipe) + 1 |->
               IF k <= Len(pipe) THEN pipe[k] ELSE NextSend]

(* sending_buffer is the newest dequeued message while its cursor is used. *)
CursorInv == /\ ~inSend => sendAt = SizeMax
             /\ sendAt # SizeMax => /\ Len(taken) > 0
                                    /\ sending = Len(taken)

(* Within a message places rise by one; after the last place comes the     *)
(* first place of the next message.                                        *)
Consecutive(s, len) ==
    \A i \in 1 .. len :
        /\ s[i].pos > 0
        /\ \A j \in i .. len :
              s[i].pos + (j - i) <= MsgSize =>
                  s[j] = [of |-> s[i].of, pos |-> s[i].pos + (j - i)]
        /\ i < len /\ s[i].pos = MsgSize =>
              s[i + 1] = [of |-> s[i].of + 1, pos |-> 1]

StreamInv == /\ Stream[1] = NextRecv
             /\ Consecutive(Stream, Len(pipe) + 1)

(* What receiving_buffer holds below its cursor is the message expected.   *)
BufferInv == \A p \in 1 .. recvAt :
                recvBuf[p] = [of |-> Len(delivered) + 1, pos |-> p]

(* Nothing is received that was not dequeued. *)
CountInv == /\ \A k \in 1 .. Len(pipe) : pipe[k].of <= Len(taken)
            /\ Len(delivered) <= Len(taken)
            /\ recvAt > 0 => Len(delivered) < Len(taken)

IInv == TypeOK /\ CursorInv /\ StreamInv /\ BufferInv /\ CountInv
               /\ IntactDelivery

-----------------------------------------------------------------------------
(* The byte-level connection keeps the promise of a Mailbox: the refinement*)
(* forgets cursors, buffers and bytes.                                     *)
MB == INSTANCE Mailbox WITH
          Capacity  <- QueueSize,
          waiting   <- queue,
          transit   <- SubSeq(taken, Len(delivered) + 1, Len(taken)),
          delivered <- [d \in 1 .. Len(delivered) |->
                            taken[delivered[d][1].of]]

ImplementsMailbox == MB!MailSpec

(* Every message the queue accepted is handled at the other end, in spite  *)
(* of the LIFO order, or the connection is replaced (offers starts over):  *)
(* sendPeerMsg() empties the queue before it returns (message.h:313-351).  *)
AcceptedIsHandled ==
    \A m \in Messages :
        (\E k \in 1 .. Len(queue) : queue[k] = m)
            ~> \/ \E d \in 1 .. Len(delivered) :
                    taken[delivered[d][1].of] = m
               \/ offers < m
=============================================================================
