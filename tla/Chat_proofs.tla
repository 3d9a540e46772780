----------------------------- MODULE Chat_proofs -----------------------------
(***************************************************************************)
(* Proofs about Chat, for any number of clients, slots and lines, any size *)
(* of a queue and of the socket buffers, and messages of any number of     *)
(* parts.                                                                  *)
(***************************************************************************)
EXTENDS Chat, SequenceTheorems, TLAPS

-----------------------------------------------------------------------------
(* Queues and peers.                                                       *)

(* enqueue() keeps a queue one of at most QueueSize messages, and adds at  *)
(* most the one it is given.                                               *)
LEMMA EnqueueIs ==
  ASSUME NEW S, NEW q \in Seq(S), Len(q) <= QueueSize, NEW f \in S
  PROVE  /\ Enqueue(q, QueueSize, f) \in Seq(S)
         /\ Len(Enqueue(q, QueueSize, f)) <= QueueSize
         /\ Enqueue(q, QueueSize, f) \in {q, Append(q, f)}
BY ChatAssumption DEF Enqueue, Full

(* dequeue() takes the last message of a queue that has one.               *)
LEMMA DequeueIs ==
  ASSUME NEW S, NEW q \in Seq(S), q # Empty
  PROVE  /\ Top(q) \in S
         /\ Dequeue(q) \in Seq(S)
         /\ Len(Dequeue(q)) = Len(q) - 1
         /\ Len(q) \in Nat \ {0}
         /\ \A k \in 1 .. Len(q) - 1 : Dequeue(q)[k] = q[k]
         /\ Top(q) = q[Len(q)]
<1>1. Len(q) \in Nat /\ Len(q) > 0
  BY DEF Empty
<1>2. Top(q) \in S /\ Top(q) = q[Len(q)]
  BY <1>1 DEF Top
<1>3. /\ Dequeue(q) \in Seq(S) /\ Len(Dequeue(q)) = Len(q) - 1
      /\ \A k \in 1 .. Len(q) - 1 : Dequeue(q)[k] = q[k]
  BY <1>1 DEF Dequeue
<1> QED BY <1>1, <1>2, <1>3

(* Buffers: those of createPeer(), and those that hold a line.             *)
LEMMA FramesTyped ==
  /\ Blank \in Part /\ BlankFrame \in Buffer
  /\ \A c \in Senders, n \in Nat : /\ Line(c, n) \in Message
                                   /\ Frame(Line(c, n)) \in Buffer
<1>1. Blank \in Part
  BY ChatAssumption DEF Blank, Part, Message
<1>2. BlankFrame \in Buffer
  BY <1>1 DEF BlankFrame, Buffer
<1>3. ASSUME NEW c \in Senders, NEW n \in Nat
      PROVE  Line(c, n) \in Message /\ Frame(Line(c, n)) \in Buffer
  <2>1. Line(c, n) \in Message
    BY DEF Line, Message
  <2> QED BY <2>1, ChatAssumption DEF Frame, Buffer, Part
<1> QED BY <1>1, <1>2, <1>3

(* A peer within its bounds.                                               *)
Peers == {p \in Peer : Bounded(p)}

Made(q, s, sa, rb, ra) == [queue |-> q, sending |-> s, sendAt |-> sa, recvBuf |-> rb, recvAt |-> ra]

LEMMA PeerTyped ==
  ASSUME NEW p \in Peers
  PROVE  /\ p.queue \in Seq(Buffer) /\ Len(p.queue) <= QueueSize
         /\ p.sending \in Buffer /\ p.sendAt \in -1 .. Calls
         /\ p.recvBuf \in Buffer /\ p.recvAt \in 0 .. Calls - 1
         /\ Len(p.queue) \in Nat
         /\ p = Made(p.queue, p.sending, p.sendAt, p.recvBuf, p.recvAt)
BY DEF Peers, Peer, Bounded, Made

LEMMA MadeTyped ==
  ASSUME NEW q \in Seq(Buffer), Len(q) <= QueueSize, NEW s \in Buffer, NEW sa \in -1 .. Calls,
         NEW rb \in Buffer, NEW ra \in 0 .. Calls - 1
  PROVE  Made(q, s, sa, rb, ra) \in Peers
BY DEF Peers, Peer, Bounded, Made

(* A peer with one field changed.                                          *)
LEMMA MadeExcept ==
  ASSUME NEW q, NEW s, NEW sa, NEW rb, NEW ra
  PROVE  /\ \A x : [Made(q, s, sa, rb, ra) EXCEPT !.queue = x] = Made(x, s, sa, rb, ra)
         /\ \A x : [Made(q, s, sa, rb, ra) EXCEPT !.sending = x] = Made(q, x, sa, rb, ra)
         /\ \A x : [Made(q, s, sa, rb, ra) EXCEPT !.sendAt = x] = Made(q, s, x, rb, ra)
         /\ \A x : [Made(q, s, sa, rb, ra) EXCEPT !.recvBuf = x] = Made(q, s, sa, x, ra)
         /\ \A x : [Made(q, s, sa, rb, ra) EXCEPT !.recvAt = x] = Made(q, s, sa, rb, x)
         /\ Made(q, s, sa, rb, ra).queue = q
         /\ Made(q, s, sa, rb, ra).sending = s
         /\ Made(q, s, sa, rb, ra).sendAt = sa
         /\ Made(q, s, sa, rb, ra).recvBuf = rb
         /\ Made(q, s, sa, rb, ra).recvAt = ra
BY DEF Made

LEMMA FreshTyped == Fresh \in Peers /\ Fresh.queue = Empty /\ Fresh.sendAt = -1
                    /\ Fresh.recvAt = 0 /\ Fresh.recvBuf = BlankFrame
<1>1. <<>> \in Seq(Buffer) /\ Len(<<>>) = 0
  OBVIOUS
<1> QED BY <1>1, FramesTyped, ChatAssumption DEF Fresh, Peers, Peer, Bounded, Empty

(* peerAdd() changes the queue only.                                       *)
LEMMA PeerAddIs ==
  ASSUME NEW p \in Peers, NEW f \in Buffer
  PROVE  /\ PeerAdd(p, f) \in Peers
         /\ PeerAdd(p, f).queue \in {p.queue, Append(p.queue, f)}
         /\ PeerAdd(p, f).sending = p.sending /\ PeerAdd(p, f).sendAt = p.sendAt
         /\ PeerAdd(p, f).recvBuf = p.recvBuf /\ PeerAdd(p, f).recvAt = p.recvAt
<1> DEFINE q == Enqueue(p.queue, QueueSize, f)
<1>1. q \in Seq(Buffer) /\ Len(q) <= QueueSize /\ q \in {p.queue, Append(p.queue, f)}
  BY EnqueueIs, PeerTyped
<1>2. PeerAdd(p, f) = [p EXCEPT !.queue = q]
  BY DEF PeerAdd
<1> HIDE DEF q
<1>3. PeerAdd(p, f) = Made(q, p.sending, p.sendAt, p.recvBuf, p.recvAt)
  BY <1>2, PeerTyped, MadeExcept
<1>4. PeerAdd(p, f) \in Peers
  BY <1>1, <1>3, PeerTyped, MadeTyped
<1> QED BY <1>1, <1>3, <1>4, MadeExcept

(* closeClientConnection() and newConnection() reset the cursors.          *)
LEMMA ResetIs ==
  ASSUME NEW p \in Peers
  PROVE  /\ ResetCursors(p) \in Peers
         /\ ResetCursors(p).queue = p.queue
         /\ ResetCursors(p).sending = p.sending /\ ResetCursors(p).sendAt = -1
         /\ ResetCursors(p).recvBuf = p.recvBuf /\ ResetCursors(p).recvAt = 0
<1>1. ResetCursors(p) = Made(p.queue, p.sending, -1, p.recvBuf, 0)
  <2>1. p = Made(p.queue, p.sending, p.sendAt, p.recvBuf, p.recvAt)
    BY PeerTyped
  <2>2. [p EXCEPT !.sendAt = -1] = Made(p.queue, p.sending, -1, p.recvBuf, p.recvAt)
    BY <2>1 DEF Made
  <2>3. ResetCursors(p) = [[p EXCEPT !.sendAt = -1] EXCEPT !.recvAt = 0]
    BY DEF ResetCursors
  <2> QED BY <2>2, <2>3 DEF Made
<1>2. ResetCursors(p) \in Peers
  BY <1>1, PeerTyped, MadeTyped, ChatAssumption
<1> QED BY <1>1, <1>2, MadeExcept

LEMMA EmptiedIs ==
  ASSUME NEW p \in Peers
  PROVE  LET r == ResetCursors([p EXCEPT !.queue = Empty])
         IN  /\ r \in Peers /\ r.queue = Empty /\ r.sendAt = -1
             /\ r.sending = p.sending /\ r.recvBuf = p.recvBuf /\ r.recvAt = 0
<1> DEFINE e == [p EXCEPT !.queue = Empty]
<1>1. Empty \in Seq(Buffer) /\ Len(Empty) = 0
  BY DEF Empty
<1>2. e = Made(Empty, p.sending, p.sendAt, p.recvBuf, p.recvAt)
  BY PeerTyped DEF Made
<1>3. Made(Empty, p.sending, p.sendAt, p.recvBuf, p.recvAt) \in Peers
  <2>1. /\ p.sending \in Buffer /\ p.sendAt \in -1 .. Calls
        /\ p.recvBuf \in Buffer /\ p.recvAt \in 0 .. Calls - 1
    BY PeerTyped
  <2>2. Len(Empty) <= QueueSize
    BY <1>1, ChatAssumption
  <2> QED BY <1>1, <2>1, <2>2, MadeTyped
<1>4. e \in Peers /\ e.queue = Empty /\ e.sending = p.sending /\ e.recvBuf = p.recvBuf
  BY <1>2, <1>3, MadeExcept
<1> HIDE DEF e
<1>5. /\ ResetCursors(e) \in Peers /\ ResetCursors(e).queue = Empty
      /\ ResetCursors(e).sendAt = -1 /\ ResetCursors(e).recvAt = 0
      /\ ResetCursors(e).sending = p.sending /\ ResetCursors(e).recvBuf = p.recvBuf
  BY <1>4, ResetIs
<1> QED BY <1>5 DEF e

(* At the end of the send loop there is nothing left to send.              *)
LEMMA SendEndIs ==
  ASSUME NEW p \in Peers, ~HasMore(p)
  PROVE  LET r == [p EXCEPT !.sendAt = -1]
         IN  /\ r \in Peers /\ r.queue = p.queue /\ p.queue = Empty
             /\ r.sending = p.sending /\ r.sendAt = -1
             /\ r.recvBuf = p.recvBuf /\ r.recvAt = p.recvAt
             /\ SendIdle(p)
<1> DEFINE r == [p EXCEPT !.sendAt = -1]
<1>1. r = Made(p.queue, p.sending, -1, p.recvBuf, p.recvAt)
  BY PeerTyped DEF Made
<1>2. Made(p.queue, p.sending, -1, p.recvBuf, p.recvAt) \in Peers
  BY PeerTyped, MadeTyped, ChatAssumption
<1>3. SendIdle(p) /\ p.queue = Empty
  BY DEF HasMore
<1> QED BY <1>1, <1>2, <1>3, MadeExcept

(* One turn of the send loop.                                              *)
LEMMA AfterSendIs ==
  ASSUME NEW p \in Peers, HasMore(p)
  PROVE  /\ AfterSend(p) \in Peers
         /\ AfterSend(p).recvBuf = p.recvBuf /\ AfterSend(p).recvAt = p.recvAt
         /\ NextPart(p) = AfterSend(p).sending[AfterSend(p).sendAt]
         /\ NextPart(p) \in Part
         /\ SendIdle(p) => /\ p.queue # Empty
                           /\ AfterSend(p).queue = Dequeue(p.queue)
                           /\ AfterSend(p).sending = Top(p.queue)
                           /\ AfterSend(p).sendAt = 1
         /\ ~SendIdle(p) => /\ AfterSend(p).queue = p.queue
                            /\ AfterSend(p).sending = p.sending
                            /\ AfterSend(p).sendAt = p.sendAt + 1
                            /\ p.sendAt \in 0 .. Calls - 1
<1>1. CASE SendIdle(p)
  <2>1. p.queue # Empty
    BY <1>1 DEF HasMore
  <2>2. /\ Top(p.queue) \in Buffer /\ Dequeue(p.queue) \in Seq(Buffer)
        /\ Len(Dequeue(p.queue)) <= QueueSize
    BY <2>1, DequeueIs, PeerTyped, ChatAssumption
  <2>3. Fetch(p) = [p EXCEPT !.sending = Top(p.queue), !.queue = Dequeue(p.queue), !.sendAt = 0]
    BY <1>1 DEF Fetch
  <2>4. Fetch(p) = Made(Dequeue(p.queue), Top(p.queue), 0, p.recvBuf, p.recvAt)
    BY <2>3, PeerTyped DEF Made
  <2>5. AfterSend(p) = Made(Dequeue(p.queue), Top(p.queue), 1, p.recvBuf, p.recvAt)
    BY <2>4 DEF AfterSend, Made
  <2>6. AfterSend(p) \in Peers
    BY <2>2, <2>5, PeerTyped, MadeTyped, ChatAssumption
  <2>7. NextPart(p) = Top(p.queue)[1]
    BY <2>4, MadeExcept DEF NextPart
  <2>8. Top(p.queue)[1] \in Part
    BY <2>2, ChatAssumption DEF Buffer
  <2> QED BY <1>1, <2>1, <2>5, <2>6, <2>7, <2>8, MadeExcept
<1>2. CASE ~SendIdle(p)
  <2>1. p.sendAt \in 0 .. Calls - 1
    BY <1>2, PeerTyped, ChatAssumption DEF SendIdle
  <2>2. Fetch(p) = p
    BY <1>2 DEF Fetch
  <2>3. AfterSend(p) = Made(p.queue, p.sending, p.sendAt + 1, p.recvBuf, p.recvAt)
    BY <2>2, PeerTyped DEF AfterSend, Made
  <2>4. AfterSend(p) \in Peers
    <3>1. /\ p.queue \in Seq(Buffer) /\ Len(p.queue) <= QueueSize /\ p.sending \in Buffer
          /\ p.recvBuf \in Buffer /\ p.recvAt \in 0 .. Calls - 1
      BY PeerTyped
    <3>2. p.sendAt + 1 \in -1 .. Calls
      BY <2>1, ChatAssumption
    <3> QED BY <2>3, <3>1, <3>2, MadeTyped
  <2>5. NextPart(p) = p.sending[p.sendAt + 1]
    BY <2>2 DEF NextPart
  <2>6. p.sending[p.sendAt + 1] \in Part
    BY <2>1, PeerTyped, ChatAssumption DEF Buffer
  <2> QED BY <1>2, <2>1, <2>3, <2>4, <2>5, <2>6, MadeExcept
<1> QED BY <1>1, <1>2

(* One turn of the receive loop.                                           *)
LEMMA AfterRecvIs ==
  ASSUME NEW p \in Peers, NEW part \in Part
  PROVE  /\ AfterRecv(p, part) \in Peers
         /\ AfterRecv(p, part).queue = p.queue
         /\ AfterRecv(p, part).sending = p.sending /\ AfterRecv(p, part).sendAt = p.sendAt
         /\ AfterRecv(p, part).recvBuf = [p.recvBuf EXCEPT ![p.recvAt + 1] = part]
         /\ Fill(p, part).recvBuf = AfterRecv(p, part).recvBuf
         /\ AfterRecv(p, part).recvBuf \in Buffer
         /\ Completes(p) => AfterRecv(p, part).recvAt = 0 /\ p.recvAt = Calls - 1
         /\ ~Completes(p) => /\ AfterRecv(p, part).recvAt = p.recvAt + 1
                             /\ p.recvAt + 1 \in 1 .. Calls - 1
<1> DEFINE buf == [p.recvBuf EXCEPT ![p.recvAt + 1] = part]
           at == IF Completes(p) THEN 0 ELSE p.recvAt + 1
<1>1. buf \in Buffer
  BY PeerTyped DEF Buffer
<1>2. at \in 0 .. Calls - 1
  BY PeerTyped, ChatAssumption DEF Completes
<1>3. /\ Completes(p) => p.recvAt = Calls - 1
      /\ ~Completes(p) => p.recvAt + 1 \in 1 .. Calls - 1
  BY PeerTyped, ChatAssumption DEF Completes
<1>4. Fill(p, part) = Made(p.queue, p.sending, p.sendAt, buf, p.recvAt)
  BY PeerTyped DEF Fill, Made
<1>5. AfterRecv(p, part) = [Fill(p, part) EXCEPT !.recvAt = at]
  BY <1>4 DEF AfterRecv, Made
<1> HIDE DEF buf, at
<1>6. AfterRecv(p, part) = Made(p.queue, p.sending, p.sendAt, buf, at)
  BY <1>4, <1>5 DEF Made
<1>7. AfterRecv(p, part) \in Peers
  BY <1>1, <1>2, <1>6, PeerTyped, MadeTyped
<1>8. /\ AfterRecv(p, part).queue = p.queue
      /\ AfterRecv(p, part).sending = p.sending /\ AfterRecv(p, part).sendAt = p.sendAt
      /\ AfterRecv(p, part).recvBuf = buf
      /\ AfterRecv(p, part).recvAt = at
      /\ Fill(p, part).recvBuf = buf
  BY <1>4, <1>6, MadeExcept
<1> QED BY <1>1, <1>3, <1>7, <1>8 DEF buf, at

-----------------------------------------------------------------------------
(* Types and the table of connections.                                     *)

(* TypeOK, the peers with their bounds.                                    *)
TypeInv == /\ srv \in {"running", "stopped", "killed"}
           /\ sock \in [Slots -> Clients \cup {Nobody}]
           /\ slot \in [Slots -> Peers]
           /\ rd \subseteq {Stdin, Listener} \cup Slots
           /\ wr \subseteq Slots
           /\ cst \in [Clients -> {"new", "running"} \cup Ended]
           /\ cli \in [Clients -> Peers]
           /\ ready \in [Clients -> SUBSET {"stdin", "read", "write"}]
           /\ backlog \in Seq(Clients)
           /\ link \in [Clients -> {"none", "queued", "open", "reset", "closed"}]
           /\ up \in [Clients -> Seq(Part)] /\ down \in [Clients -> Seq(Part)]
           /\ \A c \in Clients : Len(up[c]) <= PipeSize /\ Len(down[c]) <= PipeSize
           /\ lines \in [Terminals -> Nat]
           /\ since \in [Clients -> Nat]
           /\ sent \in [Clients -> Seq(Buffer)]
           /\ log \in [Clients -> Seq(Buffer)]
           /\ screen \in [Clients -> Seq(Buffer)]

(* What a turn serves is there: a client in the backlog, a slot that is    *)
(* held.  A connection is in the backlog or in a slot, once, or in neither *)
(* when it is closed or was never made.                                    *)
TableInv == /\ Listener \in rd => backlog # << >>
            /\ (rd \cup wr) \cap Slots \subseteq Held
            /\ \A i, j \in Held : sock[i] = sock[j] => i = j
            /\ \A i \in Held : link[sock[i]] \in {"open", "reset"}
            /\ \A c \in Clients : link[c] \in {"open", "reset"} => \E i \in Held : sock[i] = c
            /\ \A k \in 1 .. Len(backlog) : link[backlog[k]] = "queued"
            /\ \A c \in Clients : link[c] = "queued" => \E k \in 1 .. Len(backlog) : backlog[k] = c
            /\ \A j, k \in 1 .. Len(backlog) : backlog[j] = backlog[k] => j = k
            /\ \A c \in Clients : cst[c] = "new" => link[c] = "none"

Base == TypeInv /\ TableInv

LEMMA SameTypes == TypeInv <=> TypeOK
BY DEF TypeInv, TypeOK, Peers

(* The numbers of slots are none of the other descriptors'.                *)
LEMMA SlotNumbers ==
  /\ Stdin \notin Slots /\ Listener \notin Slots /\ Stdin # Listener
  /\ Nobody \notin Clients /\ Server \notin Clients /\ Server # Nobody
  /\ Clients \subseteq Terminals /\ Server \in Terminals
  /\ Clients \subseteq Senders /\ Server \in Senders
BY ChatAssumption DEF Slots, Stdin, Listener, Terminals, Senders

(* The connection that a slot holds.                                       *)
LEMMA HeldSlot ==
  ASSUME Base, NEW i \in Held
  PROVE  i \in Slots /\ sock[i] \in Clients /\ slot[i] \in Peers
BY DEF Base, TypeInv, Held

(* The slot that is served is held.                                        *)
LEMMA ServedSlot ==
  ASSUME Base, NEW i \in Slots, Reading(i) \/ Writing(i)
  PROVE  i \in Held /\ sock[i] \in Clients /\ slot[i] \in Peers /\ srv = "running"
<1>1. i \in Held
  BY DEF Base, TableInv, Reading, Writing, Next1
<1> QED BY <1>1, HeldSlot DEF Reading, Writing

(* The initial states.                                                     *)
LEMMA InitBase == Init => Base
<1> SUFFICES ASSUME Init PROVE Base
  OBVIOUS
<1>1. TypeInv
  BY FreshTyped, SlotNumbers, ChatAssumption DEF Init, TypeInv, Ended
<1>2. TableInv
  BY DEF Init, TableInv, Held
<1> QED BY <1>1, <1>2 DEF Base

LEMMA StutterBase == ASSUME Base, UNCHANGED vars PROVE Base'
BY DEF Base, TypeInv, TableInv, Held, vars, serverVars, clientVars, netVars, histVars

LEMMA SelectBase == ASSUME Base, NEW typed \in BOOLEAN, SrvSelect(typed) PROVE Base'
<1> USE DEF Base
<1>1. /\ rd' = Readable \cup (IF typed THEN {Stdin} ELSE {})
      /\ wr' = Writable
      /\ UNCHANGED <<srv, sock, slot, cst, cli, ready, backlog, link, up, down,
                     lines, sent, since, log, screen>>
  BY DEF SrvSelect, clientVars, netVars, histVars
<1>2. /\ Writable \subseteq Held /\ Held \subseteq Slots
      /\ Readable \subseteq Held \cup {Listener}
      /\ Listener \in Readable => backlog # <<>>
  BY SlotNumbers DEF Writable, Readable, Held
<1>3. TypeInv'
  BY <1>1, <1>2 DEF TypeInv
<1>4. Held' = Held
  BY <1>1 DEF Held
<1>5. (rd' \cup wr') \cap Slots \subseteq Held /\ (Listener \in rd' => backlog' # <<>>)
  BY <1>1, <1>2, SlotNumbers
<1>6. TableInv'
  BY <1>1, <1>4, <1>5 DEF TableInv
<1> QED BY <1>3, <1>6

(* Steps that leave the table as it is, but for a connection that turns    *)
(* out to be reset.                                                        *)
LEMMA SameTable ==
  ASSUME Base, UNCHANGED <<sock, backlog>>, rd' \subseteq rd, wr' \subseteq wr,
         \/ UNCHANGED link
         \/ \E i \in Held : link' = [link EXCEPT ![sock[i]] = "reset"],
         \A c \in Clients : cst'[c] = "new" => cst[c] = "new"
  PROVE  TableInv'
<1> USE DEF Base
<1>1. Held' = Held
  BY DEF Held
<1>2. /\ \A i \in Held : link'[sock[i]] \in {"open", "reset"}
      /\ \A c \in Clients : link'[c] \in {"open", "reset"} => link[c] \in {"open", "reset"}
      /\ \A c \in Clients : link'[c] = "queued" <=> link[c] = "queued"
      /\ \A c \in Clients : link[c] = "none" => link'[c] = "none"
  <2>1. CASE UNCHANGED link
    BY <2>1 DEF TableInv
  <2>2. ASSUME NEW i \in Held, link' = [link EXCEPT ![sock[i]] = "reset"]
        PROVE  <1>2!1 /\ <1>2!2 /\ <1>2!3 /\ <1>2!4
    <3>1. sock[i] \in Clients /\ link[sock[i]] \in {"open", "reset"}
      BY HeldSlot DEF TableInv
    <3>2. \A c \in Clients : link'[c] = IF c = sock[i] THEN "reset" ELSE link[c]
      BY <2>2 DEF TypeInv
    <3>3. \A j \in Held : link'[sock[j]] \in {"open", "reset"}
      BY <3>1, <3>2, HeldSlot DEF TableInv
    <3> QED BY <3>1, <3>2, <3>3
  <2> QED BY <2>1, <2>2
<1>3. \A k \in 1 .. Len(backlog) : backlog[k] \in Clients
  BY DEF TypeInv
<1> QED BY <1>1, <1>2, <1>3 DEF TableInv

LEMMA ReadinBase == ASSUME Base, NEW n \in 1 .. ServerLines, Readin(n) PROVE Base'
<1>1. /\ UNCHANGED <<srv, sock, wr, cst, cli, ready, backlog, link, up, down,
                     sent, since, log, screen>>
      /\ rd' = rd \ {Stdin}
      /\ lines' = [lines EXCEPT ![Server] = n]
      /\ slot' = [i \in Slots |-> IF i \in Held
                                  THEN PeerAdd(slot[i], Frame(Line(Server, n))) ELSE slot[i]]
  BY DEF Readin, clientVars, netVars
<1>2. Frame(Line(Server, n)) \in Buffer /\ n \in Nat
  BY FramesTyped, SlotNumbers, ChatAssumption
<1>3. slot' \in [Slots -> Peers]
  BY <1>1, <1>2, PeerAddIs DEF Base, TypeInv
<1>4. TypeInv'
  BY <1>1, <1>2, <1>3 DEF Base, TypeInv
<1>5. TableInv'
  BY <1>1, SameTable
<1> QED BY <1>4, <1>5 DEF Base

LEMMA AcceptBase == ASSUME Base, Accept PROVE Base'
<1> USE DEF Base
<1> DEFINE c == Head(backlog)
<1>1. /\ backlog # <<>> /\ c \in Clients /\ backlog' = Tail(backlog)
      /\ rd' = rd \ {Listener}
      /\ UNCHANGED <<srv, wr, down, cst, cli, ready, lines, sent, log, screen>>
  BY DEF Accept, clientVars, Reading, TableInv, TypeInv
<1>2. /\ Len(backlog) \in Nat /\ Len(backlog) > 0 /\ c = backlog[1]
      /\ Len(backlog') = Len(backlog) - 1 /\ backlog' \in Seq(Clients)
      /\ \A k \in 1 .. Len(backlog') : backlog'[k] = backlog[k + 1]
  BY <1>1 DEF TypeInv
<1>3. link[c] = "queued"
  BY <1>2 DEF TableInv
<1>4. \A i \in Held : sock[i] \in Clients /\ sock[i] # c
  BY <1>3, HeldSlot DEF TableInv
<1> HIDE DEF c
<1>5. \A d \in Clients : link[d] = "queued" /\ d # c => \E k \in 1 .. Len(backlog') : backlog'[k] = d
  <2> TAKE d \in Clients
  <2> HAVE link[d] = "queued" /\ d # c
  <2>1. PICK k \in 1 .. Len(backlog) : backlog[k] = d
    BY DEF TableInv
  <2>2. k # 1
    BY <1>2, <2>1
  <2>3. k - 1 \in 1 .. Len(backlog') /\ backlog'[k - 1] = backlog[(k - 1) + 1]
    BY <1>2, <2>2
  <2>4. (k - 1) + 1 = k
    BY <1>2
  <2> QED BY <2>1, <2>3, <2>4
<1>6. \A k \in 1 .. Len(backlog') : /\ k + 1 \in 1 .. Len(backlog)
                                    /\ backlog'[k] \in Clients /\ backlog'[k] # c
                                    /\ link[backlog'[k]] = "queued"
  <2> TAKE k \in 1 .. Len(backlog')
  <2>1. k + 1 \in 1 .. Len(backlog) /\ k + 1 # 1 /\ 1 \in 1 .. Len(backlog)
    BY <1>2
  <2>2. backlog'[k] = backlog[k + 1] /\ backlog[k + 1] \in Clients
    <3>1. backlog \in Seq(Clients)
      BY DEF TypeInv
    <3>2. backlog[k + 1] \in Clients
      BY <2>1, <3>1, ElementOfSeq
    <3> QED BY <1>2, <3>2
  <2>3. backlog[k + 1] # backlog[1] /\ link[backlog[k + 1]] = "queued"
    BY <2>1 DEF TableInv
  <2> QED BY <1>2, <2>1, <2>2, <2>3
<1>7. \A j, k \in 1 .. Len(backlog') : backlog'[j] = backlog'[k] => j = k
  <2> TAKE j, k \in 1 .. Len(backlog')
  <2> HAVE backlog'[j] = backlog'[k]
  <2>1. backlog[j + 1] = backlog[k + 1]
    BY <1>2
  <2>2. j + 1 = k + 1
    BY <1>6, <2>1 DEF TableInv
  <2> QED BY <1>2, <2>2
<1>8. CASE /\ link' = [link EXCEPT ![c] = "closed"]
           /\ up' = [up EXCEPT ![c] = << >>]
           /\ UNCHANGED <<sock, slot, since>>
  <2>1. TypeInv'
    BY <1>1, <1>2, <1>8, ChatAssumption DEF TypeInv
  <2>2. Held' = Held
    BY <1>8 DEF Held
  <2>3. \A d \in Clients : link'[d] = IF d = c THEN "closed" ELSE link[d]
    BY <1>1, <1>8 DEF TypeInv
  <2>4. Listener \notin rd' /\ (rd' \cup wr') \cap Slots \subseteq Held'
    BY <1>1, <2>2 DEF TableInv
  <2>5. \A i, j \in Held' : sock'[i] = sock'[j] => i = j
    BY <1>8, <2>2 DEF TableInv
  <2>6. \A i \in Held' : link'[sock'[i]] \in {"open", "reset"}
    BY <1>4, <1>8, <2>2, <2>3 DEF TableInv
  <2>7. \A d \in Clients : link'[d] \in {"open", "reset"} => \E i \in Held' : sock'[i] = d
    BY <1>8, <2>2, <2>3 DEF TableInv
  <2>8. /\ \A k \in 1 .. Len(backlog') : link'[backlog'[k]] = "queued"
        /\ \A d \in Clients : link'[d] = "queued" => \E k \in 1 .. Len(backlog') : backlog'[k] = d
    BY <1>5, <1>6, <2>3
  <2>9. \A d \in Clients : cst'[d] = "new" => link'[d] = "none"
    BY <1>1, <1>3, <2>3 DEF TableInv
  <2> QED BY <1>7, <2>1, <2>4, <2>5, <2>6, <2>7, <2>8, <2>9 DEF TableInv
<1>9. ASSUME NEW i \in Slots \ Held,
             sock' = [sock EXCEPT ![i] = c],
             slot' = [slot EXCEPT ![i] = ResetCursors(@)],
             link' = [link EXCEPT ![c] = "open"],
             since' = [since EXCEPT ![c] = lines[Server]],
             UNCHANGED up
      PROVE  Base'
  <2>1. slot' \in [Slots -> Peers]
    BY <1>9, ResetIs DEF TypeInv
  <2>2. since' \in [Clients -> Nat]
    BY <1>1, <1>9, SlotNumbers DEF TypeInv
  <2>3. TypeInv'
    BY <1>1, <1>2, <1>9, <2>1, <2>2 DEF TypeInv
  <2>4. \A j \in Slots : sock'[j] = IF j = i THEN c ELSE sock[j]
    BY <1>9 DEF TypeInv
  <2>5. Held' = Held \cup {i}
    BY <1>1, <2>4, SlotNumbers DEF Held
  <2>6. \A d \in Clients : link'[d] = IF d = c THEN "open" ELSE link[d]
    BY <1>1, <1>9 DEF TypeInv
  <2>7. Listener \notin rd' /\ (rd' \cup wr') \cap Slots \subseteq Held'
    BY <1>1, <2>5 DEF TableInv
  <2>8. \A j \in Held : j \in Slots /\ j # i /\ sock'[j] = sock[j] /\ sock'[j] # c
    BY <1>4, <1>9, <2>4 DEF Held
  <2>9. sock'[i] = c
    BY <2>4
  <2>10. \A j, k \in Held' : sock'[j] = sock'[k] => j = k
    BY <2>5, <2>8, <2>9 DEF TableInv
  <2>11. \A j \in Held' : link'[sock'[j]] \in {"open", "reset"}
    BY <1>1, <1>4, <2>5, <2>6, <2>8, <2>9 DEF TableInv
  <2>12. \A d \in Clients : link'[d] \in {"open", "reset"} => \E j \in Held' : sock'[j] = d
    BY <2>5, <2>6, <2>8, <2>9 DEF TableInv
  <2>13. /\ \A k \in 1 .. Len(backlog') : link'[backlog'[k]] = "queued"
         /\ \A d \in Clients : link'[d] = "queued" => \E k \in 1 .. Len(backlog') : backlog'[k] = d
    BY <1>5, <1>6, <2>6
  <2>14. \A d \in Clients : cst'[d] = "new" => link'[d] = "none"
    BY <1>1, <1>3, <2>6 DEF TableInv
  <2> QED BY <1>7, <2>3, <2>7, <2>10, <2>11, <2>12, <2>13, <2>14 DEF TableInv
<1> QED BY <1>8, <1>9 DEF Accept, c

LEMMA RecvBase == ASSUME Base, NEW i \in Slots, SrvRecv(i) PROVE Base'
<1> DEFINE c == sock[i]
<1>1. i \in Held /\ c \in Clients /\ slot[i] \in Peers
  BY ServedSlot DEF SrvRecv
<1>2. /\ up[c] # <<>>
      /\ up' = [up EXCEPT ![c] = Tail(@)]
      /\ slot' = [slot EXCEPT ![i] = AfterRecv(@, Head(up[c]))]
      /\ log' = IF Completes(slot[i])
                THEN [log EXCEPT ![c] = Append(@, Fill(slot[i], Head(up[c])).recvBuf)]
                ELSE log
      /\ UNCHANGED <<srv, sock, rd, wr, cst, cli, ready, backlog, link, down,
                     lines, sent, since, screen>>
  BY DEF SrvRecv, clientVars
<1> HIDE DEF c
<1>3. /\ Head(up[c]) \in Part /\ Tail(up[c]) \in Seq(Part)
      /\ Len(Tail(up[c])) <= PipeSize
  BY <1>1, <1>2, ChatAssumption DEF Base, TypeInv
<1>4. slot' \in [Slots -> Peers]
  BY <1>2, <1>3, AfterRecvIs DEF Base, TypeInv
<1>5. log' \in [Clients -> Seq(Buffer)]
  <2>1. Fill(slot[i], Head(up[c])).recvBuf \in Buffer
    BY <1>1, <1>3, AfterRecvIs
  <2>2. log \in [Clients -> Seq(Buffer)] /\ log[c] \in Seq(Buffer)
    BY <1>1 DEF Base, TypeInv
  <2>3. Append(log[c], Fill(slot[i], Head(up[c])).recvBuf) \in Seq(Buffer)
    BY <2>1, <2>2
  <2> QED BY <1>2, <2>2, <2>3
<1>6. up' \in [Clients -> Seq(Part)] /\ \A d \in Clients : Len(up'[d]) <= PipeSize
  BY <1>1, <1>2, <1>3 DEF Base, TypeInv
<1>7. TypeInv'
  BY <1>2, <1>4, <1>5, <1>6 DEF Base, TypeInv
<1>8. TableInv'
  BY <1>2, SameTable
<1> QED BY <1>7, <1>8 DEF Base

LEMMA RecvEndBase == ASSUME Base, NEW i \in Slots, SrvRecvEnd(i) PROVE Base'
<1>1. i \in Held /\ slot[i].recvBuf \in Buffer
  BY ServedSlot, PeerTyped DEF SrvRecvEnd
<1>2. /\ rd' = rd \ {i}
      /\ slot' = [j \in Slots |-> IF j \in Held \ {i} THEN PeerAdd(slot[j], slot[i].recvBuf)
                                                   ELSE slot[j]]
      /\ UNCHANGED <<srv, sock, wr, cst, cli, ready, backlog, link, up, down,
                     lines, sent, since, log, screen>>
  BY DEF SrvRecvEnd, Broadcast, clientVars, netVars, histVars
<1>3. slot' \in [Slots -> Peers]
  BY <1>1, <1>2, PeerAddIs DEF Base, TypeInv
<1>4. TypeInv'
  BY <1>2, <1>3 DEF Base, TypeInv
<1>5. TableInv'
  BY <1>2, SameTable
<1> QED BY <1>4, <1>5 DEF Base

(* A slot is given up.                                                     *)
LEMMA CloseBase ==
  ASSUME Base, NEW i \in Held, CloseSlot(i), UNCHANGED <<srv, backlog, down, clientVars, histVars>>
  PROVE  Base'
<1> USE DEF Base
<1> DEFINE c == sock[i]
<1>1. i \in Slots /\ c \in Clients /\ slot[i] \in Peers
  BY HeldSlot
<1>2. /\ sock' = [sock EXCEPT ![i] = Nobody]
      /\ slot' = [slot EXCEPT ![i] = ResetCursors([@ EXCEPT !.queue = Empty])]
      /\ link' = [link EXCEPT ![c] = "closed"]
      /\ up' = [up EXCEPT ![c] = << >>]
      /\ rd' = rd \ {i} /\ wr' = wr \ {i}
      /\ UNCHANGED <<srv, backlog, down, cst, cli, ready, lines, sent, since, log, screen>>
  BY DEF CloseSlot, clientVars, histVars
<1> HIDE DEF c
<1>3. slot' \in [Slots -> Peers]
  BY <1>1, <1>2, EmptiedIs DEF TypeInv
<1>4. up' \in [Clients -> Seq(Part)] /\ \A d \in Clients : Len(up'[d]) <= PipeSize
  BY <1>1, <1>2, ChatAssumption DEF TypeInv
<1>5. TypeInv'
  BY <1>1, <1>2, <1>3, <1>4 DEF TypeInv
<1>6. \A j \in Slots : sock'[j] = IF j = i THEN Nobody ELSE sock[j]
  BY <1>1, <1>2 DEF TypeInv
<1>7. Held' = Held \ {i}
  BY <1>1, <1>6 DEF Held
<1>8. \A d \in Clients : link'[d] = IF d = c THEN "closed" ELSE link[d]
  BY <1>1, <1>2 DEF TypeInv
<1>9. \A j \in Held' : j \in Held /\ sock'[j] = sock[j] /\ sock[j] \in Clients /\ sock[j] # c
  BY <1>6, <1>7, HeldSlot DEF TableInv, c
<1>10. link[c] # "queued" /\ \A k \in 1 .. Len(backlog) : backlog[k] \in Clients
  <2>1. link[c] # "queued"
    BY <1>1 DEF TableInv, c
  <2>2. backlog \in Seq(Clients)
    BY DEF TypeInv
  <2> QED BY <2>1, <2>2, ElementOfSeq
<1>11. \A d \in Clients : link'[d] \in {"open", "reset"} => \E j \in Held' : sock'[j] = d
  <2> TAKE d \in Clients
  <2> HAVE link'[d] \in {"open", "reset"}
  <2>1. d # c /\ link[d] \in {"open", "reset"}
    BY <1>8
  <2>2. PICK j \in Held : sock[j] = d
    BY <2>1 DEF TableInv
  <2>3. j # i
    BY <2>1, <2>2 DEF c
  <2> QED BY <1>7, <1>9, <2>2, <2>3
<1>12. /\ Listener \in rd' => backlog' # <<>>
       /\ (rd' \cup wr') \cap Slots \subseteq Held'
  BY <1>2, <1>7 DEF TableInv
<1>13. cst'[c] # "new"
  BY <1>1, <1>2 DEF TableInv, c
<1>14. \A j, k \in Held' : sock'[j] = sock'[k] => j = k
  BY <1>9 DEF TableInv
<1>15. \A j \in Held' : link'[sock'[j]] \in {"open", "reset"}
  BY <1>8, <1>9 DEF TableInv
<1>16. /\ \A k \in 1 .. Len(backlog') : link'[backlog'[k]] = "queued"
       /\ \A d \in Clients : link'[d] = "queued" => \E k \in 1 .. Len(backlog') : backlog'[k] = d
       /\ \A j, k \in 1 .. Len(backlog') : backlog'[j] = backlog'[k] => j = k
  BY <1>2, <1>8, <1>10 DEF TableInv
<1>17. \A d \in Clients : cst'[d] = "new" => link'[d] = "none"
  BY <1>2, <1>8, <1>13 DEF TableInv
<1>18. TableInv'
  BY <1>11, <1>12, <1>14, <1>15, <1>16, <1>17 DEF TableInv
<1> QED BY <1>5, <1>18

LEMMA SendBase == ASSUME Base, NEW i \in Slots, SrvSend(i) PROVE Base'
<1> DEFINE c == sock[i]
<1>1. i \in Held /\ c \in Clients /\ slot[i] \in Peers
  BY ServedSlot DEF SrvSend
<1>2. /\ HasMore(slot[i])
      /\ slot' = [slot EXCEPT ![i] = AfterSend(@)]
      /\ \/ /\ Room(down[c])
            /\ down' = [down EXCEPT ![c] = Append(@, NextPart(slot[i]))]
            /\ UNCHANGED link
         \/ /\ link' = [link EXCEPT ![c] = "reset"]
            /\ UNCHANGED down
      /\ UNCHANGED <<srv, sock, rd, wr, cst, cli, ready, backlog, up,
                     lines, sent, since, log, screen>>
  BY DEF SrvSend, clientVars, histVars
<1>3. slot' \in [Slots -> Peers]
  BY <1>1, <1>2, AfterSendIs DEF Base, TypeInv
<1>4. NextPart(slot[i]) \in Part
  BY <1>1, <1>2, AfterSendIs
<1>5. down' \in [Clients -> Seq(Part)] /\ \A d \in Clients : Len(down'[d]) <= PipeSize
  <2> DEFINE s == Append(down[c], NextPart(slot[i]))
  <2>1. /\ down \in [Clients -> Seq(Part)] /\ down[c] \in Seq(Part)
        /\ \A d \in Clients : Len(down[d]) <= PipeSize
    BY <1>1 DEF Base, TypeInv
  <2>2. s \in Seq(Part) /\ Len(s) = Len(down[c]) + 1 /\ Len(down[c]) \in Nat
    BY <1>4, <2>1
  <2>3. CASE Room(down[c]) /\ down' = [down EXCEPT ![c] = s]
    <3>1. Len(s) <= PipeSize
      BY <2>2, <2>3, ChatAssumption DEF Room
    <3> HIDE DEF s
    <3> QED BY <2>1, <2>2, <2>3, <3>1
  <2> QED BY <1>2, <2>1, <2>3
<1>6. link' \in [Clients -> {"none", "queued", "open", "reset", "closed"}]
  BY <1>2 DEF Base, TypeInv
<1>7. TypeInv'
  BY <1>2, <1>3, <1>5, <1>6 DEF Base, TypeInv
<1>8. TableInv'
  BY <1>1, <1>2, SameTable
<1> QED BY <1>7, <1>8 DEF Base

LEMMA SendEndBase == ASSUME Base, NEW i \in Slots, SrvSendEnd(i) PROVE Base'
<1>1. i \in Held /\ slot[i] \in Peers
  BY ServedSlot DEF SrvSendEnd
<1>2. /\ ~HasMore(slot[i])
      /\ slot' = [slot EXCEPT ![i].sendAt = -1]
      /\ wr' = wr \ {i}
      /\ UNCHANGED <<srv, sock, rd, cst, cli, ready, backlog, link, up, down,
                     lines, sent, since, log, screen>>
  BY DEF SrvSendEnd, clientVars, netVars, histVars
<1>3. slot' \in [Slots -> Peers]
  BY <1>1, <1>2, SendEndIs DEF Base, TypeInv
<1>4. TypeInv'
  BY <1>2, <1>3 DEF Base, TypeInv
<1>5. TableInv'
  BY <1>2, SameTable
<1> QED BY <1>4, <1>5 DEF Base

(* The server ends.                                                        *)
LEMMA StopBase ==
  ASSUME Base, NEW how \in {"stopped", "killed"}, StopServer(how)
  PROVE  Base' /\ Held' = {}
<1> USE DEF Base
<1>1. /\ srv' = how
      /\ link' = [c \in Clients |-> IF link[c] = "none" THEN "none" ELSE "closed"]
      /\ up' = [c \in Clients |-> << >>]
      /\ backlog' = << >>
      /\ sock' = [i \in Slots |-> Nobody]
      /\ slot' = [i \in Slots |-> Fresh]
      /\ rd' = {} /\ wr' = {}
      /\ UNCHANGED <<down, cst, cli, ready, lines, sent, since, log, screen>>
  BY DEF StopServer, clientVars, histVars
<1>2. TypeInv'
  BY <1>1, FreshTyped, ChatAssumption DEF TypeInv
<1>3. Held' = {}
  BY <1>1 DEF Held
<1>4. TableInv'
  BY <1>1, <1>3 DEF TableInv
<1> QED BY <1>2, <1>3, <1>4

LEMMA ConnectBase == ASSUME Base, NEW c \in Clients, Connect(c) PROVE Base'
<1> USE DEF Base
<1>1. /\ cst[c] = "new"
      /\ cst' = [cst EXCEPT ![c] = "running"]
      /\ backlog' = Append(backlog, c)
      /\ link' = [link EXCEPT ![c] = "queued"]
      /\ UNCHANGED <<srv, sock, slot, rd, wr, cli, ready, up, down,
                     lines, sent, since, log, screen>>
  BY DEF Connect, serverVars, histVars
<1>2. TypeInv'
  BY <1>1 DEF TypeInv
<1>3. link[c] = "none" /\ \A d \in Clients : link'[d] = IF d = c THEN "queued" ELSE link[d]
  BY <1>1 DEF TableInv, TypeInv
<1>4. Held' = Held /\ \A i \in Held : sock[i] \in Clients /\ sock[i] # c
  BY <1>1, <1>3, HeldSlot DEF Held, TableInv
<1>5. /\ Len(backlog) \in Nat /\ Len(backlog') = Len(backlog) + 1
      /\ backlog'[Len(backlog) + 1] = c
      /\ \A k \in 1 .. Len(backlog) : /\ backlog'[k] = backlog[k]
                                      /\ backlog[k] \in Clients /\ backlog[k] # c
                                      /\ link[backlog[k]] = "queued"
  <2>1. backlog \in Seq(Clients)
    BY DEF TypeInv
  <2>2. \A k \in 1 .. Len(backlog) : backlog[k] \in Clients /\ link[backlog[k]] = "queued"
    BY <2>1, ElementOfSeq DEF TableInv
  <2>3. /\ Len(backlog) \in Nat /\ Len(backlog') = Len(backlog) + 1
        /\ backlog'[Len(backlog) + 1] = c
        /\ \A k \in 1 .. Len(backlog) : backlog'[k] = backlog[k]
    BY <1>1, <2>1
  <2> QED BY <1>3, <2>2, <2>3
<1>6. \A k \in 1 .. Len(backlog') : k \in 1 .. Len(backlog) \/ k = Len(backlog) + 1
  BY <1>5
<1>7. \A k \in 1 .. Len(backlog') : link'[backlog'[k]] = "queued"
  BY <1>3, <1>5, <1>6
<1>8. \A d \in Clients : link'[d] = "queued" => \E k \in 1 .. Len(backlog') : backlog'[k] = d
  <2> TAKE d \in Clients
  <2> HAVE link'[d] = "queued"
  <2>1. CASE d = c
    <3>1. Len(backlog) + 1 \in 1 .. Len(backlog')
      BY <1>5
    <3> QED BY <1>5, <2>1, <3>1
  <2>2. CASE d # c
    <3>1. PICK k \in 1 .. Len(backlog) : backlog[k] = d
      BY <1>3, <2>2 DEF TableInv
    <3> QED BY <1>5, <3>1
  <2> QED BY <2>1, <2>2
<1>9. \A j, k \in 1 .. Len(backlog') : backlog'[j] = backlog'[k] => j = k
  BY <1>5, <1>6 DEF TableInv
<1>10. Listener \in rd' => backlog' # <<>>
  BY <1>5 DEF TypeInv
<1>11. /\ (rd' \cup wr') \cap Slots \subseteq Held'
       /\ \A i, j \in Held' : sock'[i] = sock'[j] => i = j
       /\ \A i \in Held' : link'[sock'[i]] \in {"open", "reset"}
       /\ \A d \in Clients : link'[d] \in {"open", "reset"} => \E i \in Held' : sock'[i] = d
  BY <1>1, <1>3, <1>4 DEF TableInv
<1>12. \A d \in Clients : cst'[d] = "new" => link'[d] = "none"
  BY <1>1, <1>3 DEF TableInv, TypeInv
<1>13. TableInv'
  BY <1>7, <1>8, <1>9, <1>10, <1>11, <1>12 DEF TableInv
<1> QED BY <1>2, <1>13

(* A client that gives up, or selects, leaves everything else alone.       *)
LEMMA ClientIdleBase ==
  ASSUME Base, NEW c \in Clients, Refused(c) \/ \E typed \in BOOLEAN : CliSelect(c, typed)
  PROVE  Base'
<1>1. CASE Refused(c)
  <2>1. /\ cst' = [cst EXCEPT ![c] = "left"]
        /\ UNCHANGED <<srv, sock, slot, rd, wr, cli, ready, backlog, link, up, down,
                       lines, sent, since, log, screen>>
    BY <1>1 DEF Refused, serverVars, netVars, histVars
  <2>2. TypeInv'
    BY <2>1 DEF Base, TypeInv, Ended
  <2>3. TableInv'
    BY <2>1, SameTable DEF Base, TypeInv
  <2> QED BY <2>2, <2>3 DEF Base
<1>2. ASSUME NEW typed \in BOOLEAN, CliSelect(c, typed) PROVE Base'
  <2> DEFINE R == {r \in {"stdin", "read", "write"} :
                        \/ r = "stdin" /\ typed
                        \/ r = "read" /\ CliReadable(c)
                        \/ r = "write" /\ CliWritable(c)}
  <2>1. R \in SUBSET {"stdin", "read", "write"}
    OBVIOUS
  <2>2. /\ ready' = [ready EXCEPT ![c] = R]
        /\ UNCHANGED <<srv, sock, slot, rd, wr, cst, cli, backlog, link, up, down,
                       lines, sent, since, log, screen>>
    BY <1>2 DEF CliSelect, serverVars, netVars, histVars
  <2> HIDE DEF R
  <2>3. TypeInv'
    BY <2>1, <2>2 DEF Base, TypeInv
  <2>4. TableInv'
    BY <2>2, SameTable
  <2> QED BY <2>3, <2>4 DEF Base
<1> QED BY <1>1, <1>2

(* What a client that ends leaves of the connection.                       *)
LEMMA LeaveIs ==
  ASSUME Base, NEW c \in Clients, Running(c), Leave(c)
  PROVE  /\ Base'
         /\ cst' = [cst EXCEPT ![c] = IF down[c] = << >> THEN "left" ELSE "aborted"]
         /\ \E k \in 0 .. Len(up[c]) : up' = [up EXCEPT ![c] = SubSeq(@, 1, k)]
         /\ down' = [down EXCEPT ![c] = << >>]
         /\ cli' = [cli EXCEPT ![c] = Fresh]
         /\ ready' = [ready EXCEPT ![c] = {}]
         /\ UNCHANGED <<srv, sock, slot, rd, wr, backlog, link,
                        lines, sent, since, log, screen>>
<1>1. /\ cst' = [cst EXCEPT ![c] = IF down[c] = << >> THEN "left" ELSE "aborted"]
      /\ down' = [down EXCEPT ![c] = << >>]
      /\ cli' = [cli EXCEPT ![c] = Fresh]
      /\ ready' = [ready EXCEPT ![c] = {}]
      /\ UNCHANGED <<srv, sock, slot, rd, wr, backlog, link,
                     lines, sent, since, log, screen>>
  BY DEF Leave, serverVars, histVars
<1>2. up[c] \in Seq(Part) /\ Len(up[c]) \in Nat /\ Len(up[c]) <= PipeSize
  BY DEF Base, TypeInv
<1>3. \E k \in 0 .. Len(up[c]) : up' = [up EXCEPT ![c] = SubSeq(@, 1, k)]
  <2>1. CASE UNCHANGED up
    <3>1. SubSeq(up[c], 1, Len(up[c])) = up[c]
      BY <1>2
    <3>2. up' = [up EXCEPT ![c] = SubSeq(@, 1, Len(up[c]))]
      BY <2>1, <3>1 DEF Base, TypeInv
    <3>3. Len(up[c]) \in 0 .. Len(up[c])
      BY <1>2
    <3> QED BY <3>2, <3>3
  <2> QED BY <2>1 DEF Leave
<1>4. PICK k \in 0 .. Len(up[c]) : up' = [up EXCEPT ![c] = SubSeq(@, 1, k)]
  BY <1>3
<1>5. SubSeq(up[c], 1, k) \in Seq(Part) /\ Len(SubSeq(up[c], 1, k)) = k
  BY <1>2
<1>6. up' \in [Clients -> Seq(Part)] /\ \A d \in Clients : Len(up'[d]) <= PipeSize
  BY <1>2, <1>4, <1>5, ChatAssumption DEF Base, TypeInv
<1>7. down' \in [Clients -> Seq(Part)] /\ \A d \in Clients : Len(down'[d]) <= PipeSize
  BY <1>1, ChatAssumption DEF Base, TypeInv
<1>8. TypeInv'
  BY <1>1, <1>6, <1>7, FreshTyped DEF Base, TypeInv, Ended
<1>9. TableInv'
  BY <1>1, SameTable DEF Base, TypeInv
<1> QED BY <1>1, <1>3, <1>8, <1>9 DEF Base

(* The ways in which a client ends.                                        *)
LEMMA LeavingIs ==
  ASSUME NEW c \in Clients, Exit(c) \/ CliHangup(c) \/ CliSendFail(c) \/ CliInterrupt(c)
  PROVE  Running(c) /\ Leave(c)
BY DEF Exit, CliHangup, CliSendFail, CliInterrupt, CliReading, CliWriting

LEMMA ReadInputBase ==
  ASSUME Base, NEW c \in Clients, NEW n \in 1 .. ClientLines, ReadInput(c, n)
  PROVE  Base'
<1>1. /\ lines' = [lines EXCEPT ![c] = n]
      /\ cli' = [cli EXCEPT ![c] = PeerAdd(@, Frame(Line(c, n)))]
      /\ ready' = [ready EXCEPT ![c] = @ \ {"stdin"}]
      /\ UNCHANGED <<srv, sock, slot, rd, wr, cst, backlog, link, up, down,
                     sent, since, log, screen>>
  BY DEF ReadInput, serverVars, netVars
<1>2. Frame(Line(c, n)) \in Buffer /\ n \in Nat
  BY FramesTyped, SlotNumbers, ChatAssumption
<1>3. cli' \in [Clients -> Peers]
  BY <1>1, <1>2, PeerAddIs DEF Base, TypeInv
<1>4. TypeInv'
  BY <1>1, <1>2, <1>3 DEF Base, TypeInv
<1>5. TableInv'
  BY <1>1, SameTable
<1> QED BY <1>4, <1>5 DEF Base

LEMMA CliRecvBase == ASSUME Base, NEW c \in Clients, CliRecv(c) PROVE Base'
<1>1. /\ down[c] # <<>>
      /\ down' = [down EXCEPT ![c] = Tail(@)]
      /\ cli' = [cli EXCEPT ![c] = AfterRecv(@, Head(down[c]))]
      /\ screen' = IF Completes(cli[c])
                   THEN [screen EXCEPT ![c] = Append(@, Fill(cli[c], Head(down[c])).recvBuf)]
                   ELSE screen
      /\ UNCHANGED <<srv, sock, slot, rd, wr, cst, ready, backlog, link, up,
                     lines, sent, since, log>>
  BY DEF CliRecv, serverVars
<1>2. /\ Head(down[c]) \in Part /\ Tail(down[c]) \in Seq(Part)
      /\ Len(Tail(down[c])) <= PipeSize /\ cli[c] \in Peers
  BY <1>1, ChatAssumption DEF Base, TypeInv
<1>3. cli' \in [Clients -> Peers]
  BY <1>1, <1>2, AfterRecvIs DEF Base, TypeInv
<1>4. screen' \in [Clients -> Seq(Buffer)]
  <2>1. Fill(cli[c], Head(down[c])).recvBuf \in Buffer
    BY <1>2, AfterRecvIs
  <2>2. screen \in [Clients -> Seq(Buffer)] /\ screen[c] \in Seq(Buffer)
    BY DEF Base, TypeInv
  <2>3. Append(screen[c], Fill(cli[c], Head(down[c])).recvBuf) \in Seq(Buffer)
    BY <2>1, <2>2
  <2> QED BY <1>1, <2>2, <2>3
<1>5. down' \in [Clients -> Seq(Part)] /\ \A d \in Clients : Len(down'[d]) <= PipeSize
  BY <1>1, <1>2 DEF Base, TypeInv
<1>6. TypeInv'
  BY <1>1, <1>3, <1>4, <1>5 DEF Base, TypeInv
<1>7. TableInv'
  BY <1>1, SameTable
<1> QED BY <1>6, <1>7 DEF Base

LEMMA CliSendBase == ASSUME Base, NEW c \in Clients, CliSend(c) PROVE Base'
<1>1. /\ HasMore(cli[c])
      /\ Room(up[c]) \/ Closed(c)
      /\ up' = IF Closed(c) THEN up ELSE [up EXCEPT ![c] = Append(@, NextPart(cli[c]))]
      /\ cli' = [cli EXCEPT ![c] = AfterSend(cli[c])]
      /\ sent' = IF SendIdle(cli[c]) THEN [sent EXCEPT ![c] = Append(@, Top(cli[c].queue))]
                                     ELSE sent
      /\ UNCHANGED <<srv, sock, slot, rd, wr, cst, ready, backlog, link, down,
                     lines, since, log, screen>>
  BY DEF CliSend, serverVars
<1>2. cli[c] \in Peers
  BY DEF Base, TypeInv
<1>3. NextPart(cli[c]) \in Part /\ AfterSend(cli[c]) \in Peers
  BY <1>1, <1>2, AfterSendIs
<1>4. up' \in [Clients -> Seq(Part)] /\ \A d \in Clients : Len(up'[d]) <= PipeSize
  BY <1>1, <1>3, ChatAssumption DEF Base, TypeInv, Room
<1>5. SendIdle(cli[c]) => Top(cli[c].queue) \in Buffer
  BY <1>1, <1>2, AfterSendIs, DequeueIs, PeerTyped
<1>6. sent' \in [Clients -> Seq(Buffer)]
  BY <1>1, <1>5 DEF Base, TypeInv
<1>7. TypeInv'
  BY <1>1, <1>3, <1>4, <1>6 DEF Base, TypeInv
<1>8. TableInv'
  BY <1>1, SameTable
<1> QED BY <1>7, <1>8 DEF Base

LEMMA CliEndBase ==
  ASSUME Base, NEW c \in Clients, CliRecvEnd(c) \/ CliSendEnd(c)
  PROVE  Base'
<1>1. CASE CliRecvEnd(c)
  <2>1. /\ ready' = [ready EXCEPT ![c] = @ \ {"read"}]
        /\ UNCHANGED <<srv, sock, slot, rd, wr, cst, cli, backlog, link, up, down,
                       lines, sent, since, log, screen>>
    BY <1>1 DEF CliRecvEnd, serverVars, netVars, histVars
  <2>2. TypeInv'
    BY <2>1 DEF Base, TypeInv
  <2>3. TableInv'
    BY <2>1, SameTable
  <2> QED BY <2>2, <2>3 DEF Base
<1>2. CASE CliSendEnd(c)
  <2>1. /\ ~HasMore(cli[c])
        /\ cli' = [cli EXCEPT ![c].sendAt = -1]
        /\ ready' = [ready EXCEPT ![c] = {}]
        /\ UNCHANGED <<srv, sock, slot, rd, wr, cst, backlog, link, up, down,
                       lines, sent, since, log, screen>>
    BY <1>2 DEF CliSendEnd, serverVars, netVars, histVars
  <2>2. cli' \in [Clients -> Peers]
    BY <2>1, SendEndIs DEF Base, TypeInv
  <2>3. TypeInv'
    BY <2>1, <2>2 DEF Base, TypeInv
  <2>4. TableInv'
    BY <2>1, SameTable
  <2> QED BY <2>3, <2>4 DEF Base
<1> QED BY <1>1, <1>2

(* Every step keeps the types and the table.                               *)
LEMMA NextBase == ASSUME Base, [Next]_vars PROVE Base'
<1>1. ASSUME NEW typed \in BOOLEAN, SrvSelect(typed) PROVE Base'
  BY <1>1, SelectBase
<1>2. ASSUME NEW n \in 1 .. ServerLines, Readin(n) PROVE Base'
  BY <1>2, ReadinBase
<1>3. CASE Accept
  BY <1>3, AcceptBase
<1>4. ASSUME NEW i \in Slots, SrvRecv(i) PROVE Base'
  BY <1>4, RecvBase
<1>5. ASSUME NEW i \in Slots, SrvRecvEnd(i) PROVE Base'
  BY <1>5, RecvEndBase
<1>6. ASSUME NEW i \in Slots, SrvHangup(i) \/ SrvSendFail(i) PROVE Base'
  <2>1. i \in Held
    BY <1>6, ServedSlot DEF SrvHangup, SrvSendFail
  <2>2. CloseSlot(i) /\ UNCHANGED <<srv, backlog, down, clientVars, histVars>>
    BY <1>6 DEF SrvHangup, SrvSendFail
  <2> QED BY <2>1, <2>2, CloseBase
<1>7. ASSUME NEW i \in Slots, SrvSend(i) PROVE Base'
  BY <1>7, SendBase
<1>8. ASSUME NEW i \in Slots, SrvSendEnd(i) PROVE Base'
  BY <1>8, SendEndBase
<1>9. ASSUME NEW i \in Slots, SrvSigpipe(i) PROVE Base'
  BY <1>9, StopBase DEF SrvSigpipe
<1>10. CASE SrvInterrupt
  BY <1>10, StopBase DEF SrvInterrupt
<1>11. ASSUME NEW c \in Clients, Connect(c) PROVE Base'
  BY <1>11, ConnectBase
<1>12. ASSUME NEW c \in Clients, Refused(c) \/ \E typed \in BOOLEAN : CliSelect(c, typed) PROVE Base'
  BY <1>12, ClientIdleBase
<1>13. ASSUME NEW c \in Clients, NEW n \in 1 .. ClientLines, ReadInput(c, n) PROVE Base'
  BY <1>13, ReadInputBase
<1>14. ASSUME NEW c \in Clients, Exit(c) \/ CliHangup(c) \/ CliSendFail(c) \/ CliInterrupt(c)
       PROVE  Base'
  <2>1. Running(c) /\ Leave(c)
    BY <1>14, LeavingIs
  <2> QED BY <2>1, LeaveIs
<1>15. ASSUME NEW c \in Clients, CliRecv(c) PROVE Base'
  BY <1>15, CliRecvBase
<1>16. ASSUME NEW c \in Clients, CliSend(c) PROVE Base'
  BY <1>16, CliSendBase
<1>17. ASSUME NEW c \in Clients, CliRecvEnd(c) \/ CliSendEnd(c) PROVE Base'
  BY <1>17, CliEndBase
<1>18. CASE UNCHANGED vars
  BY <1>18, StutterBase
<1> QED
  BY <1>1, <1>2, <1>3, <1>4, <1>5, <1>6, <1>7, <1>8, <1>9, <1>10, <1>11, <1>12, <1>13,
     <1>14, <1>15, <1>16, <1>17, <1>18 DEF Next, SrvServe, CliServe

(* The invariant under all others: types, and the table of connections     *)
(* with the descriptors a turn still serves.                               *)
THEOREM BaseHolds == Spec => []Base
<1>1. Base /\ [Next]_vars => Base'
  BY NextBase
<1> QED BY InitBase, <1>1, PTL DEF Spec

(* The chat keeps its types: cursors stay inside their buffers, queues and *)
(* pipes within their sizes, in every reachable state.                     *)
THEOREM TypeCorrect == Spec => []TypeOK
<1>1. Base => TypeOK
  BY SameTypes DEF Base
<1> QED BY BaseHolds, <1>1, PTL

(* connections[] is a table of the live connections, and a turn never      *)
(* serves a slot that has been given up.                                   *)
THEOREM TableIsLive == Spec => []SlotTable
<1>1. Base => SlotTable
  <2> SUFFICES ASSUME Base PROVE SlotTable
    OBVIOUS
  <2>1. /\ \A i, j \in Held : sock[i] = sock[j] => i = j
        /\ (rd \cup wr) \cap Slots \subseteq Held
    BY DEF Base, TableInv
  <2>2. \A c \in Clients : link[c] \in {"open", "reset"} <=> \E i \in Held : sock[i] = c
    BY DEF Base, TableInv
  <2>3. \A c \in Clients : link[c] = "queued" <=> \E k \in 1 .. Len(backlog) : backlog[k] = c
    BY DEF Base, TableInv
  <2> QED BY <2>1, <2>2, <2>3 DEF SlotTable
<1> QED BY BaseHolds, <1>1, PTL

-----------------------------------------------------------------------------
(* What the steps do, slot by slot and client by client.                   *)

(* Nothing of a connection changes. *)
Idles == /\ UNCHANGED <<sock, slot, cli, link, up, down, lines, sent, since, log, screen>>
         /\ Held' = Held
         /\ \A d \in Clients : cst'[d] = "running" <=> cst[d] = "running"

(* readin() *)
Tells(n) ==
  /\ UNCHANGED <<sock, cst, cli, link, up, down, sent, since, log, screen>>
  /\ Held' = Held
  /\ n \in Nat /\ n > lines[Server] /\ lines'[Server] = n
  /\ \A j \in Slots : slot'[j] = IF j \in Held THEN PeerAdd(slot[j], Frame(Line(Server, n)))
                                               ELSE slot[j]

(* newConnection(), with a slot and without *)
Takes(i, c) ==
  /\ UNCHANGED <<cst, cli, up, down, lines, sent, log, screen>>
  /\ link[c] = "queued" /\ i \notin Held /\ Held' = Held \cup {i}
  /\ \A j \in Slots : sock'[j] = IF j = i THEN c ELSE sock[j]
  /\ \A j \in Slots : slot'[j] = IF j = i THEN ResetCursors(slot[j]) ELSE slot[j]
  /\ \A d \in Clients : link'[d] = IF d = c THEN "open" ELSE link[d]
  /\ \A d \in Clients : since'[d] = IF d = c THEN lines[Server] ELSE since[d]

TurnsAway(c) ==
  /\ UNCHANGED <<sock, slot, cst, cli, down, lines, sent, since, log, screen>>
  /\ link[c] = "queued" /\ Held' = Held
  /\ \A d \in Clients : link'[d] = IF d = c THEN "closed" ELSE link[d]
  /\ \A d \in Clients : up'[d] = IF d = c THEN << >> ELSE up[d]

(* receiveServerMsg(), and the broadcast at its end *)
Receives(i, c) ==
  /\ UNCHANGED <<sock, cst, cli, link, down, lines, sent, since, screen>>
  /\ i \in Held /\ c = sock[i] /\ Held' = Held
  /\ up[c] # << >>
  /\ \A d \in Clients : up'[d] = IF d = c THEN Tail(up[d]) ELSE up[d]
  /\ \A j \in Slots : slot'[j] = IF j = i THEN AfterRecv(slot[j], Head(up[c])) ELSE slot[j]
  /\ \A d \in Clients : log'[d] = IF d = c /\ Completes(slot[i])
                                  THEN Append(log[d], AfterRecv(slot[i], Head(up[c])).recvBuf)
                                  ELSE log[d]

Broadcasts(i) ==
  /\ UNCHANGED <<sock, cst, cli, link, up, down, lines, sent, since, log, screen>>
  /\ i \in Held /\ Held' = Held
  /\ \A j \in Slots : slot'[j] = IF j \in Held \ {i} THEN PeerAdd(slot[j], slot[i].recvBuf)
                                                     ELSE slot[j]

(* closeClientConnection(), and the end of the server *)
Closes(i, c) ==
  /\ UNCHANGED <<cst, cli, down, lines, sent, since, log, screen>>
  /\ i \in Held /\ c = sock[i] /\ Held' = Held \ {i}
  /\ \A j \in Slots : sock'[j] = IF j = i THEN Nobody ELSE sock[j]
  /\ \A j \in Slots : slot'[j] = IF j = i THEN ResetCursors([slot[j] EXCEPT !.queue = Empty])
                                          ELSE slot[j]
  /\ \A d \in Clients : link'[d] = IF d = c THEN "closed" ELSE link[d]
  /\ \A d \in Clients : up'[d] = IF d = c THEN << >> ELSE up[d]

Stops ==
  /\ UNCHANGED <<cst, cli, down, lines, sent, since, log, screen>>
  /\ Held' = {}
  /\ \A j \in Slots : slot'[j] = Fresh
  /\ \A d \in Clients : link'[d] = IF link[d] = "none" THEN "none" ELSE "closed"
  /\ \A d \in Clients : up'[d] = << >>

(* sendPeerMsg() in the server *)
Sends(i, c) ==
  /\ UNCHANGED <<sock, cst, cli, up, lines, sent, since, log, screen>>
  /\ i \in Held /\ c = sock[i] /\ Held' = Held
  /\ HasMore(slot[i])
  /\ \A j \in Slots : slot'[j] = IF j = i THEN AfterSend(slot[j]) ELSE slot[j]
  /\ \/ UNCHANGED link /\ \A d \in Clients : down'[d] = IF d = c THEN Append(down[d], NextPart(slot[i]))
                                                                 ELSE down[d]
     \/ /\ UNCHANGED down /\ cst[c] # "running"
        /\ \A d \in Clients : link'[d] = IF d = c THEN "reset" ELSE link[d]

EndsSend(i) ==
  /\ UNCHANGED <<sock, cst, cli, link, up, down, lines, sent, since, log, screen>>
  /\ i \in Held /\ Held' = Held
  /\ ~HasMore(slot[i])
  /\ \A j \in Slots : slot'[j] = IF j = i THEN [slot[j] EXCEPT !.sendAt = -1] ELSE slot[j]

(* The client: connect(), ... *)
Joins(c) ==
  /\ UNCHANGED <<sock, slot, cli, up, down, lines, sent, since, log, screen>>
  /\ link[c] = "none" /\ Held' = Held
  /\ \A d \in Clients : cst'[d] = IF d = c THEN "running" ELSE cst[d]
  /\ \A d \in Clients : link'[d] = IF d = c THEN "queued" ELSE link[d]

(* ... shutdownClient(), ... *)
Leaves(c) ==
  /\ UNCHANGED <<sock, slot, link, lines, sent, since, log, screen>>
  /\ Held' = Held /\ cst[c] = "running"
  /\ \A d \in Clients : cst'[d] = "running" <=> cst[d] = "running" /\ d # c
  /\ \E k \in 0 .. Len(up[c]) :
        \A d \in Clients : up'[d] = IF d = c THEN SubSeq(up[d], 1, k) ELSE up[d]
  /\ \A d \in Clients : down'[d] = IF d = c THEN << >> ELSE down[d]
  /\ \A d \in Clients : cli'[d] = IF d = c THEN Fresh ELSE cli[d]

(* ... readInput(), ... *)
Asks(c, n) ==
  /\ UNCHANGED <<sock, slot, cst, link, up, down, sent, since, log, screen>>
  /\ Held' = Held /\ n \in Nat /\ lines'[Server] = lines[Server] /\ cst[c] = "running"
  /\ \A d \in Clients : cli'[d] = IF d = c THEN PeerAdd(cli[d], Frame(Line(c, n))) ELSE cli[d]

(* ... receivePeerMsg(), ... *)
Hears(c) ==
  /\ UNCHANGED <<sock, slot, cst, link, up, lines, sent, since, log>>
  /\ Held' = Held /\ cst[c] = "running"
  /\ down[c] # << >>
  /\ \A d \in Clients : down'[d] = IF d = c THEN Tail(down[d]) ELSE down[d]
  /\ \A d \in Clients : cli'[d] = IF d = c THEN AfterRecv(cli[d], Head(down[c])) ELSE cli[d]
  /\ \A d \in Clients : screen'[d] = IF d = c /\ Completes(cli[c])
                                     THEN Append(screen[d], AfterRecv(cli[c], Head(down[c])).recvBuf)
                                     ELSE screen[d]

(* ... and sendPeerMsg(). *)
Speaks(c) ==
  /\ UNCHANGED <<sock, slot, cst, link, down, lines, since, log, screen>>
  /\ Held' = Held /\ cst[c] = "running"
  /\ HasMore(cli[c])
  /\ \A d \in Clients : cli'[d] = IF d = c THEN AfterSend(cli[d]) ELSE cli[d]
  /\ \A d \in Clients : up'[d] = IF d = c /\ link[c] # "closed" THEN Append(up[d], NextPart(cli[c]))
                                                               ELSE up[d]
  /\ \A d \in Clients : sent'[d] = IF d = c /\ SendIdle(cli[c]) THEN Append(sent[d], Top(cli[c].queue))
                                                               ELSE sent[d]

EndsSpeech(c) ==
  /\ UNCHANGED <<sock, slot, cst, link, up, down, lines, sent, since, log, screen>>
  /\ Held' = Held /\ ~HasMore(cli[c]) /\ cst[c] = "running"
  /\ \A d \in Clients : cli'[d] = IF d = c THEN [cli[d] EXCEPT !.sendAt = -1] ELSE cli[d]

SrvDoes == \/ \E n \in Nat : Tells(n)
           \/ \E i \in Slots, c \in Clients : Takes(i, c) \/ Receives(i, c) \/ Closes(i, c) \/ Sends(i, c)
           \/ \E c \in Clients : TurnsAway(c)
           \/ \E i \in Slots : Broadcasts(i) \/ EndsSend(i)
           \/ Stops
CliDoes == \E c \in Clients : \/ Joins(c) \/ Leaves(c) \/ Hears(c) \/ Speaks(c) \/ EndsSpeech(c)
                              \/ \E n \in Nat : Asks(c, n)

(* Every step is one of these.                                             *)
LEMMA QuietSteps ==
  ASSUME Base,
         \/ UNCHANGED vars
         \/ \E typed \in BOOLEAN : SrvSelect(typed)
         \/ \E c \in Clients : \/ Refused(c) \/ CliRecvEnd(c)
                               \/ \E typed \in BOOLEAN : CliSelect(c, typed)
  PROVE  Idles
<1>1. /\ UNCHANGED <<sock, slot, cli, link, up, down, lines, sent, since, log, screen>>
      /\ \/ UNCHANGED cst
         \/ \E c \in Clients : cst[c] = "new" /\ cst' = [cst EXCEPT ![c] = "left"]
  BY DEF vars, serverVars, clientVars, netVars, histVars, SrvSelect, Refused, CliRecvEnd, CliSelect
<1>2. Held' = Held
  BY <1>1 DEF Held
<1>3. \A d \in Clients : cst'[d] = "running" <=> cst[d] = "running"
  BY <1>1 DEF Base, TypeInv
<1> QED BY <1>1, <1>2, <1>3 DEF Idles

LEMMA TellsStep ==
  ASSUME Base, NEW n \in 1 .. ServerLines, Readin(n)
  PROVE  Tells(n)
<1>1. /\ UNCHANGED <<sock, cst, cli, link, up, down, sent, since, log, screen>>
      /\ lines' = [lines EXCEPT ![Server] = n]
      /\ n \in lines[Server] + 1 .. ServerLines
      /\ slot' = [j \in Slots |-> IF j \in Held THEN PeerAdd(slot[j], Frame(Line(Server, n)))
                                               ELSE slot[j]]
  BY DEF Readin, clientVars, netVars
<1>2. n \in Nat /\ n > lines[Server] /\ lines'[Server] = n
  BY <1>1, SlotNumbers, ChatAssumption DEF Base, TypeInv
<1>3. Held' = Held
  BY <1>1 DEF Held
<1> QED BY <1>1, <1>2, <1>3 DEF Tells

LEMMA AcceptStep ==
  ASSUME Base, Accept
  PROVE  \E c \in Clients : TurnsAway(c) \/ \E i \in Slots : Takes(i, c)
<1> DEFINE c == Head(backlog)
<1>1. /\ backlog # <<>> /\ c \in Clients /\ c = backlog[1] /\ Len(backlog) >= 1
      /\ UNCHANGED <<cst, cli, down, lines, sent, log, screen>>
  BY DEF Accept, clientVars, Reading, Base, TableInv, TypeInv
<1>2. link[c] = "queued"
  BY <1>1 DEF Base, TableInv
<1> HIDE DEF c
<1>3. CASE /\ link' = [link EXCEPT ![c] = "closed"]
           /\ up' = [up EXCEPT ![c] = << >>]
           /\ UNCHANGED <<sock, slot, since>>
  <2>1. Held' = Held
    BY <1>3 DEF Held
  <2>2. TurnsAway(c)
    BY <1>1, <1>2, <1>3, <2>1 DEF TurnsAway, Base, TypeInv
  <2> QED BY <1>1, <2>2
<1>4. ASSUME NEW i \in Slots \ Held,
             sock' = [sock EXCEPT ![i] = c],
             slot' = [slot EXCEPT ![i] = ResetCursors(@)],
             link' = [link EXCEPT ![c] = "open"],
             since' = [since EXCEPT ![c] = lines[Server]],
             UNCHANGED up
      PROVE  Takes(i, c)
  <2>1. \A j \in Slots : sock'[j] = IF j = i THEN c ELSE sock[j]
    BY <1>4 DEF Base, TypeInv
  <2>2. Held' = Held \cup {i}
    BY <1>1, <2>1, SlotNumbers DEF Held
  <2>3. \A j \in Slots : slot'[j] = IF j = i THEN ResetCursors(slot[j]) ELSE slot[j]
    BY <1>4 DEF Base, TypeInv
  <2>4. /\ \A d \in Clients : link'[d] = IF d = c THEN "open" ELSE link[d]
        /\ \A d \in Clients : since'[d] = IF d = c THEN lines[Server] ELSE since[d]
    BY <1>4 DEF Base, TypeInv
  <2> QED BY <1>1, <1>2, <1>4, <2>1, <2>2, <2>3, <2>4 DEF Takes
<1> QED BY <1>1, <1>3, <1>4 DEF Accept, c

LEMMA ReceivesStep ==
  ASSUME Base, NEW i \in Slots, SrvRecv(i)
  PROVE  \E c \in Clients : Receives(i, c)
<1> DEFINE c == sock[i]
<1>1. i \in Held /\ c \in Clients /\ slot[i] \in Peers
  BY ServedSlot DEF SrvRecv
<1>2. /\ up[c] # <<>>
      /\ up' = [up EXCEPT ![c] = Tail(@)]
      /\ slot' = [slot EXCEPT ![i] = AfterRecv(@, Head(up[c]))]
      /\ log' = IF Completes(slot[i])
                THEN [log EXCEPT ![c] = Append(@, Fill(slot[i], Head(up[c])).recvBuf)]
                ELSE log
      /\ UNCHANGED <<sock, cst, cli, link, down, lines, sent, since, screen>>
  BY DEF SrvRecv, clientVars
<1>3. c = sock[i]
  OBVIOUS
<1> HIDE DEF c
<1>4. Fill(slot[i], Head(up[c])).recvBuf = AfterRecv(slot[i], Head(up[c])).recvBuf
  <2>1. Head(up[c]) \in Part
    BY <1>1, <1>2 DEF Base, TypeInv
  <2> QED BY <1>1, <2>1, AfterRecvIs
<1>5. \A d \in Clients : up'[d] = IF d = c THEN Tail(up[d]) ELSE up[d]
  BY <1>2 DEF Base, TypeInv
<1>6. \A j \in Slots : slot'[j] = IF j = i THEN AfterRecv(slot[j], Head(up[c])) ELSE slot[j]
  BY <1>2 DEF Base, TypeInv
<1>7. \A d \in Clients : log'[d] = IF d = c /\ Completes(slot[i])
                                   THEN Append(log[d], AfterRecv(slot[i], Head(up[c])).recvBuf)
                                   ELSE log[d]
  BY <1>2, <1>4 DEF Base, TypeInv
<1>8. Held' = Held
  BY <1>2 DEF Held
<1>9. Receives(i, c)
  BY <1>1, <1>2, <1>3, <1>5, <1>6, <1>7, <1>8 DEF Receives
<1> QED BY <1>1, <1>9

LEMMA BroadcastsStep ==
  ASSUME Base, NEW i \in Slots, SrvRecvEnd(i)
  PROVE  Broadcasts(i)
<1>1. i \in Held
  BY ServedSlot DEF SrvRecvEnd
<1>2. /\ slot' = [j \in Slots |-> IF j \in Held \ {i} THEN PeerAdd(slot[j], slot[i].recvBuf)
                                                   ELSE slot[j]]
      /\ UNCHANGED <<sock, cst, cli, link, up, down, lines, sent, since, log, screen>>
  BY DEF SrvRecvEnd, Broadcast, clientVars, netVars, histVars
<1>3. Held' = Held
  BY <1>2 DEF Held
<1> QED BY <1>1, <1>2, <1>3 DEF Broadcasts

LEMMA ClosesStep ==
  ASSUME Base, NEW i \in Slots, SrvHangup(i) \/ SrvSendFail(i)
  PROVE  \E c \in Clients : Closes(i, c)
<1> DEFINE c == sock[i]
<1>1. i \in Held /\ c \in Clients
  BY ServedSlot DEF SrvHangup, SrvSendFail
<1>2. /\ sock' = [sock EXCEPT ![i] = Nobody]
      /\ slot' = [slot EXCEPT ![i] = ResetCursors([@ EXCEPT !.queue = Empty])]
      /\ link' = [link EXCEPT ![c] = "closed"]
      /\ up' = [up EXCEPT ![c] = << >>]
      /\ UNCHANGED <<cst, cli, down, lines, sent, since, log, screen>>
  BY DEF SrvHangup, SrvSendFail, CloseSlot, clientVars, histVars
<1>3. c = sock[i]
  OBVIOUS
<1> HIDE DEF c
<1>4. \A j \in Slots : sock'[j] = IF j = i THEN Nobody ELSE sock[j]
  BY <1>2 DEF Base, TypeInv
<1>5. Held' = Held \ {i}
  BY <1>1, <1>4 DEF Held
<1>6. \A j \in Slots : slot'[j] = IF j = i THEN ResetCursors([slot[j] EXCEPT !.queue = Empty])
                                           ELSE slot[j]
  BY <1>2 DEF Base, TypeInv
<1>7. /\ \A d \in Clients : link'[d] = IF d = c THEN "closed" ELSE link[d]
      /\ \A d \in Clients : up'[d] = IF d = c THEN << >> ELSE up[d]
  BY <1>2 DEF Base, TypeInv
<1>8. Closes(i, c)
  BY <1>1, <1>2, <1>3, <1>4, <1>5, <1>6, <1>7 DEF Closes
<1> QED BY <1>1, <1>8

LEMMA StopsStep ==
  ASSUME Base, SrvInterrupt \/ \E i \in Slots : SrvSigpipe(i)
  PROVE  Stops
<1>1. /\ link' = [c \in Clients |-> IF link[c] = "none" THEN "none" ELSE "closed"]
      /\ up' = [c \in Clients |-> << >>]
      /\ sock' = [i \in Slots |-> Nobody]
      /\ slot' = [i \in Slots |-> Fresh]
      /\ UNCHANGED <<cst, cli, down, lines, sent, since, log, screen>>
  BY DEF SrvInterrupt, SrvSigpipe, StopServer, clientVars, histVars
<1>2. Held' = {}
  BY <1>1 DEF Held
<1> QED BY <1>1, <1>2 DEF Stops

LEMMA SendsStep ==
  ASSUME Base, NEW i \in Slots, SrvSend(i)
  PROVE  \E c \in Clients : Sends(i, c)
<1> DEFINE c == sock[i]
<1>1. i \in Held /\ c \in Clients
  BY ServedSlot DEF SrvSend
<1>2. /\ HasMore(slot[i])
      /\ slot' = [slot EXCEPT ![i] = AfterSend(@)]
      /\ \/ /\ down' = [down EXCEPT ![c] = Append(@, NextPart(slot[i]))]
            /\ UNCHANGED link
         \/ /\ cst[c] = "left"
            /\ link' = [link EXCEPT ![c] = "reset"]
            /\ UNCHANGED down
      /\ UNCHANGED <<sock, cst, cli, up, lines, sent, since, log, screen>>
  BY DEF SrvSend, clientVars, histVars
<1>3. c = sock[i]
  OBVIOUS
<1> HIDE DEF c
<1>4. \A j \in Slots : slot'[j] = IF j = i THEN AfterSend(slot[j]) ELSE slot[j]
  BY <1>2 DEF Base, TypeInv
<1>5. \/ UNCHANGED link /\ \A d \in Clients : down'[d] = IF d = c THEN Append(down[d], NextPart(slot[i]))
                                                                  ELSE down[d]
      \/ /\ UNCHANGED down /\ cst[c] # "running"
         /\ \A d \in Clients : link'[d] = IF d = c THEN "reset" ELSE link[d]
  BY <1>2 DEF Base, TypeInv
<1>6. Held' = Held
  BY <1>2 DEF Held
<1>7. Sends(i, c)
  BY <1>1, <1>2, <1>3, <1>4, <1>5, <1>6 DEF Sends
<1> QED BY <1>1, <1>7

LEMMA EndsSendStep ==
  ASSUME Base, NEW i \in Slots, SrvSendEnd(i)
  PROVE  EndsSend(i)
<1>1. i \in Held
  BY ServedSlot DEF SrvSendEnd
<1>2. /\ ~HasMore(slot[i])
      /\ slot' = [slot EXCEPT ![i].sendAt = -1]
      /\ UNCHANGED <<sock, cst, cli, link, up, down, lines, sent, since, log, screen>>
  BY DEF SrvSendEnd, clientVars, netVars, histVars
<1>3. Held' = Held
  BY <1>2 DEF Held
<1>4. \A j \in Slots : slot'[j] = IF j = i THEN [slot[j] EXCEPT !.sendAt = -1] ELSE slot[j]
  BY <1>2 DEF Base, TypeInv
<1> QED BY <1>1, <1>2, <1>3, <1>4 DEF EndsSend

LEMMA JoinsStep ==
  ASSUME Base, NEW c \in Clients, Connect(c)
  PROVE  Joins(c)
<1>1. /\ cst[c] = "new"
      /\ cst' = [cst EXCEPT ![c] = "running"]
      /\ link' = [link EXCEPT ![c] = "queued"]
      /\ UNCHANGED <<sock, slot, cli, up, down, lines, sent, since, log, screen>>
  BY DEF Connect, serverVars, histVars
<1>2. Held' = Held
  BY <1>1 DEF Held
<1>3. link[c] = "none"
  BY <1>1 DEF Base, TableInv
<1> QED BY <1>1, <1>2, <1>3 DEF Joins, Base, TypeInv

LEMMA LeavesStep ==
  ASSUME Base, NEW c \in Clients, Exit(c) \/ CliHangup(c) \/ CliSendFail(c) \/ CliInterrupt(c)
  PROVE  Leaves(c)
<1>1. Running(c) /\ Leave(c)
  BY LeavingIs
<1>2. /\ cst' = [cst EXCEPT ![c] = IF down[c] = << >> THEN "left" ELSE "aborted"]
      /\ \E k \in 0 .. Len(up[c]) : up' = [up EXCEPT ![c] = SubSeq(@, 1, k)]
      /\ down' = [down EXCEPT ![c] = << >>]
      /\ cli' = [cli EXCEPT ![c] = Fresh]
      /\ UNCHANGED <<sock, slot, link, lines, sent, since, log, screen>>
  BY <1>1, LeaveIs
<1>3. Held' = Held
  BY <1>2 DEF Held
<1>4. \A d \in Clients : cst'[d] = "running" <=> cst[d] = "running" /\ d # c
  BY <1>2 DEF Base, TypeInv
<1>5. \E k \in 0 .. Len(up[c]) :
         \A d \in Clients : up'[d] = IF d = c THEN SubSeq(up[d], 1, k) ELSE up[d]
  <2>1. PICK k \in 0 .. Len(up[c]) : up' = [up EXCEPT ![c] = SubSeq(@, 1, k)]
    BY <1>2
  <2>2. \A d \in Clients : up'[d] = IF d = c THEN SubSeq(up[d], 1, k) ELSE up[d]
    BY <2>1 DEF Base, TypeInv
  <2> QED BY <2>2
<1>6. /\ \A d \in Clients : down'[d] = IF d = c THEN << >> ELSE down[d]
      /\ \A d \in Clients : cli'[d] = IF d = c THEN Fresh ELSE cli[d]
  BY <1>2 DEF Base, TypeInv
<1> QED BY <1>1, <1>2, <1>3, <1>4, <1>5, <1>6 DEF Leaves, Running

LEMMA AsksStep ==
  ASSUME Base, NEW c \in Clients, NEW n \in 1 .. ClientLines, ReadInput(c, n)
  PROVE  Asks(c, n)
<1>1. /\ lines' = [lines EXCEPT ![c] = n] /\ cst[c] = "running"
      /\ cli' = [cli EXCEPT ![c] = PeerAdd(@, Frame(Line(c, n)))]
      /\ UNCHANGED <<sock, slot, cst, link, up, down, sent, since, log, screen>>
  BY DEF ReadInput, serverVars, netVars, Running
<1>2. Held' = Held
  BY <1>1 DEF Held
<1>3. n \in Nat /\ lines'[Server] = lines[Server]
  BY <1>1, SlotNumbers, ChatAssumption DEF Base, TypeInv
<1>4. \A d \in Clients : cli'[d] = IF d = c THEN PeerAdd(cli[d], Frame(Line(c, n))) ELSE cli[d]
  BY <1>1 DEF Base, TypeInv
<1> QED BY <1>1, <1>2, <1>3, <1>4 DEF Asks

LEMMA HearsStep ==
  ASSUME Base, NEW c \in Clients, CliRecv(c)
  PROVE  Hears(c)
<1>1. /\ down[c] # <<>> /\ cst[c] = "running"
      /\ down' = [down EXCEPT ![c] = Tail(@)]
      /\ cli' = [cli EXCEPT ![c] = AfterRecv(@, Head(down[c]))]
      /\ screen' = IF Completes(cli[c])
                   THEN [screen EXCEPT ![c] = Append(@, Fill(cli[c], Head(down[c])).recvBuf)]
                   ELSE screen
      /\ UNCHANGED <<sock, slot, cst, link, up, lines, sent, since, log>>
  BY DEF CliRecv, serverVars, CliReading, Running
<1>2. Fill(cli[c], Head(down[c])).recvBuf = AfterRecv(cli[c], Head(down[c])).recvBuf
  <2>1. Head(down[c]) \in Part /\ cli[c] \in Peers
    BY <1>1 DEF Base, TypeInv
  <2> QED BY <2>1, AfterRecvIs
<1>3. /\ \A d \in Clients : down'[d] = IF d = c THEN Tail(down[d]) ELSE down[d]
      /\ \A d \in Clients : cli'[d] = IF d = c THEN AfterRecv(cli[d], Head(down[c])) ELSE cli[d]
  BY <1>1 DEF Base, TypeInv
<1>4. \A d \in Clients : screen'[d] = IF d = c /\ Completes(cli[c])
                                      THEN Append(screen[d], AfterRecv(cli[c], Head(down[c])).recvBuf)
                                      ELSE screen[d]
  BY <1>1, <1>2 DEF Base, TypeInv
<1>5. Held' = Held
  BY <1>1 DEF Held
<1> QED BY <1>1, <1>3, <1>4, <1>5 DEF Hears

LEMMA SpeaksStep ==
  ASSUME Base, NEW c \in Clients, CliSend(c)
  PROVE  Speaks(c)
<1>1. /\ HasMore(cli[c]) /\ cst[c] = "running"
      /\ up' = IF link[c] = "closed" THEN up ELSE [up EXCEPT ![c] = Append(@, NextPart(cli[c]))]
      /\ cli' = [cli EXCEPT ![c] = AfterSend(cli[c])]
      /\ sent' = IF SendIdle(cli[c]) THEN [sent EXCEPT ![c] = Append(@, Top(cli[c].queue))]
                                     ELSE sent
      /\ UNCHANGED <<sock, slot, cst, link, down, lines, since, log, screen>>
  BY DEF CliSend, serverVars, CliWriting, Running, Closed
<1>2. /\ \A d \in Clients : cli'[d] = IF d = c THEN AfterSend(cli[d]) ELSE cli[d]
      /\ \A d \in Clients : up'[d] = IF d = c /\ link[c] # "closed" THEN Append(up[d], NextPart(cli[c]))
                                                                   ELSE up[d]
      /\ \A d \in Clients : sent'[d] = IF d = c /\ SendIdle(cli[c]) THEN Append(sent[d], Top(cli[c].queue))
                                                                   ELSE sent[d]
  BY <1>1 DEF Base, TypeInv
<1>3. Held' = Held
  BY <1>1 DEF Held
<1> QED BY <1>1, <1>2, <1>3 DEF Speaks

LEMMA EndsSpeechStep ==
  ASSUME Base, NEW c \in Clients, CliSendEnd(c)
  PROVE  EndsSpeech(c)
<1>1. /\ ~HasMore(cli[c]) /\ cst[c] = "running"
      /\ cli' = [cli EXCEPT ![c].sendAt = -1]
      /\ UNCHANGED <<sock, slot, cst, link, up, down, lines, sent, since, log, screen>>
  BY DEF CliSendEnd, serverVars, netVars, histVars, CliWriting, Running
<1>2. Held' = Held
  BY <1>1 DEF Held
<1>3. \A d \in Clients : cli'[d] = IF d = c THEN [cli[d] EXCEPT !.sendAt = -1] ELSE cli[d]
  BY <1>1 DEF Base, TypeInv
<1> QED BY <1>1, <1>2, <1>3 DEF EndsSpeech

LEMMA StepIs == ASSUME Base, [Next]_vars PROVE Idles \/ SrvDoes \/ CliDoes
<1>1. CASE \/ UNCHANGED vars
           \/ \E typed \in BOOLEAN : SrvSelect(typed)
           \/ \E c \in Clients : \/ Refused(c) \/ CliRecvEnd(c)
                                 \/ \E typed \in BOOLEAN : CliSelect(c, typed)
  BY <1>1, QuietSteps
<1>2. CASE SrvInterrupt \/ SrvServe
  <2>1. ASSUME NEW n \in 1 .. ServerLines, Readin(n) PROVE SrvDoes
    BY <2>1, TellsStep, ChatAssumption DEF SrvDoes
  <2>2. CASE Accept
    BY <2>2, AcceptStep DEF SrvDoes
  <2>3. ASSUME NEW i \in Slots, SrvRecv(i) PROVE SrvDoes
    BY <2>3, ReceivesStep DEF SrvDoes
  <2>4. ASSUME NEW i \in Slots, SrvRecvEnd(i) PROVE SrvDoes
    BY <2>4, BroadcastsStep DEF SrvDoes
  <2>5. ASSUME NEW i \in Slots, SrvHangup(i) \/ SrvSendFail(i) PROVE SrvDoes
    BY <2>5, ClosesStep DEF SrvDoes
  <2>6. ASSUME NEW i \in Slots, SrvSend(i) PROVE SrvDoes
    BY <2>6, SendsStep DEF SrvDoes
  <2>7. ASSUME NEW i \in Slots, SrvSendEnd(i) PROVE SrvDoes
    BY <2>7, EndsSendStep DEF SrvDoes
  <2>8. CASE SrvInterrupt \/ \E i \in Slots : SrvSigpipe(i)
    BY <2>8, StopsStep DEF SrvDoes
  <2> QED BY <1>2, <2>1, <2>2, <2>3, <2>4, <2>5, <2>6, <2>7, <2>8 DEF SrvServe
<1>3. ASSUME NEW c \in Clients, Connect(c) \/ CliServe(c) \/ CliInterrupt(c), ~CliRecvEnd(c)
      PROVE  CliDoes
  <2>1. ASSUME NEW n \in 1 .. ClientLines, ReadInput(c, n) PROVE CliDoes
    BY <2>1, AsksStep, ChatAssumption DEF CliDoes
  <2>2. CASE Exit(c) \/ CliHangup(c) \/ CliSendFail(c) \/ CliInterrupt(c)
    BY <2>2, LeavesStep DEF CliDoes
  <2>3. CASE Connect(c)
    BY <2>3, JoinsStep DEF CliDoes
  <2>4. CASE CliRecv(c)
    BY <2>4, HearsStep DEF CliDoes
  <2>5. CASE CliSend(c)
    BY <2>5, SpeaksStep DEF CliDoes
  <2>6. CASE CliSendEnd(c)
    BY <2>6, EndsSpeechStep DEF CliDoes
  <2> QED BY <1>3, <2>1, <2>2, <2>3, <2>4, <2>5, <2>6 DEF CliServe
<1> QED BY <1>1, <1>2, <1>3 DEF Next, CliServe

-----------------------------------------------------------------------------
(* A connection nobody has accepted carries nothing to its client, and a   *)
(* free slot has nothing to send.                                          *)
EarlyInv ==
  /\ \A c \in Clients : link[c] \in {"none", "queued"} =>
        /\ log[c] = << >> /\ screen[c] = << >> /\ down[c] = << >>
        /\ cli[c].recvBuf = BlankFrame /\ cli[c].recvAt = 0
  /\ \A c \in Clients : link[c] = "none" =>
        up[c] = << >> /\ sent[c] = << >> /\ cli[c].sendAt = -1 /\ cst[c] # "running"
  /\ \A i \in Slots \ Held : slot[i].queue = Empty

LEMMA InitEarly == Init => EarlyInv
BY FreshTyped DEF Init, EarlyInv

(* A step of the server.                                                   *)
LEMMA SrvEarly == ASSUME Base, Base', EarlyInv, Idles \/ SrvDoes PROVE EarlyInv'
<1>1. CASE Idles
  BY <1>1 DEF Idles, EarlyInv
<1>2. ASSUME NEW n \in Nat, Tells(n) PROVE EarlyInv'
  BY <1>2 DEF Tells, EarlyInv
<1>3. ASSUME NEW i \in Slots, NEW c \in Clients, Takes(i, c) PROVE EarlyInv'
  BY <1>3 DEF Takes, EarlyInv
<1>4. ASSUME NEW c \in Clients, TurnsAway(c) PROVE EarlyInv'
  BY <1>4 DEF TurnsAway, EarlyInv
<1>5. ASSUME NEW i \in Slots, NEW c \in Clients, Receives(i, c) PROVE EarlyInv'
  <2>1. link[c] \in {"open", "reset"}
    BY <1>5 DEF Receives, Base, TableInv
  <2> QED BY <1>5, <2>1 DEF Receives, EarlyInv
<1>6. ASSUME NEW i \in Slots, Broadcasts(i) PROVE EarlyInv'
  BY <1>6 DEF Broadcasts, EarlyInv
<1>7. ASSUME NEW i \in Slots, NEW c \in Clients, Closes(i, c) PROVE EarlyInv'
  <2>1. slot'[i].queue = Empty
    <3>1. slot[i] \in Peers
      BY <1>7, HeldSlot DEF Closes
    <3>2. ResetCursors([slot[i] EXCEPT !.queue = Empty]).queue = Empty
      BY <3>1, EmptiedIs
    <3> QED BY <1>7, <3>2 DEF Closes
  <2> QED BY <1>7, <2>1 DEF Closes, EarlyInv
<1>8. CASE Stops
  <2>1. \A d \in Clients : link'[d] \in {"none", "queued"} => link'[d] = "none" /\ link[d] = "none"
    BY <1>8 DEF Stops
  <2> QED BY <1>8, <2>1, FreshTyped DEF Stops, EarlyInv
<1>9. ASSUME NEW i \in Slots, NEW c \in Clients, Sends(i, c) PROVE EarlyInv'
  <2>1. link[c] \in {"open", "reset"}
    BY <1>9 DEF Sends, Base, TableInv
  <2> QED BY <1>9, <2>1 DEF Sends, EarlyInv
<1>10. ASSUME NEW i \in Slots, EndsSend(i) PROVE EarlyInv'
  BY <1>10 DEF EndsSend, EarlyInv
<1> QED BY <1>1, <1>2, <1>3, <1>4, <1>5, <1>6, <1>7, <1>8, <1>9, <1>10 DEF SrvDoes

(* A step of a client.                                                     *)
LEMMA CliEarly == ASSUME Base, Base', EarlyInv, CliDoes PROVE EarlyInv'
<1>1. ASSUME NEW c \in Clients, Joins(c) PROVE EarlyInv'
  BY <1>1 DEF Joins, EarlyInv
<1>2. ASSUME NEW c \in Clients, Leaves(c) PROVE EarlyInv'
  BY <1>2, FreshTyped DEF Leaves, EarlyInv
<1>3. ASSUME NEW c \in Clients, NEW n \in Nat, Asks(c, n) PROVE EarlyInv'
  <2>1. cli'[c].recvBuf = cli[c].recvBuf /\ cli'[c].recvAt = cli[c].recvAt
    <3>1. cli[c] \in Peers /\ Frame(Line(c, n)) \in Buffer
      BY FramesTyped, SlotNumbers DEF Base, TypeInv
    <3> QED BY <1>3, <3>1, PeerAddIs DEF Asks
  <2>2. link[c] # "none"
    BY <1>3 DEF Asks, EarlyInv
  <2> QED BY <1>3, <2>1, <2>2 DEF Asks, EarlyInv
<1>4. ASSUME NEW c \in Clients, Hears(c) PROVE EarlyInv'
  <2>1. link[c] \notin {"none", "queued"}
    BY <1>4 DEF Hears, EarlyInv
  <2> QED BY <1>4, <2>1 DEF Hears, EarlyInv
<1>5. ASSUME NEW c \in Clients, Speaks(c) PROVE EarlyInv'
  <2>1. cli'[c].recvBuf = cli[c].recvBuf /\ cli'[c].recvAt = cli[c].recvAt
    <3>1. cli[c] \in Peers
      BY DEF Base, TypeInv
    <3> QED BY <1>5, <3>1, AfterSendIs DEF Speaks
  <2>2. link[c] # "none"
    BY <1>5 DEF Speaks, EarlyInv
  <2> QED BY <1>5, <2>1, <2>2 DEF Speaks, EarlyInv
<1>6. ASSUME NEW c \in Clients, EndsSpeech(c) PROVE EarlyInv'
  <2>1. cli'[c].recvBuf = cli[c].recvBuf /\ cli'[c].recvAt = cli[c].recvAt
    <3>1. cli[c] \in Peers
      BY DEF Base, TypeInv
    <3> QED BY <1>6, <3>1, SendEndIs DEF EndsSpeech
  <2>2. link[c] # "none"
    BY <1>6 DEF EndsSpeech, EarlyInv
  <2> QED BY <1>6, <2>1, <2>2 DEF EndsSpeech, EarlyInv
<1> QED BY <1>1, <1>2, <1>3, <1>4, <1>5, <1>6 DEF CliDoes

LEMMA NextEarly == ASSUME Base, Base', EarlyInv, [Next]_vars PROVE EarlyInv'
BY StepIs, SrvEarly, CliEarly

-----------------------------------------------------------------------------
(* Who the parts under way are from.                                       *)

Holds(f, S) == \A q \in 1 .. Calls : f[q] \in S
Within(s, S) == \A k \in 1 .. Len(s) : s[k] \in S
Shows(s, S) == \A k \in 1 .. Len(s) : Holds(s[k], S)
Gives(p, S) == Shows(p.queue, S) /\ (SendIdle(p) \/ Holds(p.sending, S))

LEMMA WithinIs ==
  ASSUME NEW S, NEW s \in Seq(Part), Within(s, S)
  PROVE  /\ s # <<>> => Within(Tail(s), S) /\ Head(s) \in S
         /\ \A x \in S : x \in Part => Within(Append(s, x), S)
         /\ \A k \in 0 .. Len(s) : Within(SubSeq(s, 1, k), S)
         /\ Within(<<>>, S)
BY DEF Within

LEMMA ShowsIs ==
  ASSUME NEW S, NEW s \in Seq(Buffer), Shows(s, S)
  PROVE  /\ \A f \in Buffer : Holds(f, S) => Shows(Append(s, f), S)
         /\ s # Empty => Shows(Dequeue(s), S) /\ Holds(Top(s), S)
         /\ Shows(Empty, S)
<1>1. ASSUME NEW f \in Buffer, Holds(f, S) PROVE Shows(Append(s, f), S)
  <2> SUFFICES ASSUME NEW k \in 1 .. Len(Append(s, f)) PROVE Holds(Append(s, f)[k], S)
    BY DEF Shows
  <2> QED BY <1>1 DEF Shows
<1>2. ASSUME s # Empty PROVE Shows(Dequeue(s), S) /\ Holds(Top(s), S)
  <2>1. /\ Len(s) \in Nat \ {0} /\ Top(s) = s[Len(s)] /\ Len(Dequeue(s)) = Len(s) - 1
        /\ \A k \in 1 .. Len(s) - 1 : Dequeue(s)[k] = s[k]
    BY <1>2, DequeueIs
  <2> QED BY <2>1 DEF Shows
<1>3. Shows(Empty, S)
  BY DEF Shows, Empty
<1> QED BY <1>1, <1>2, <1>3

(* What peerAdd() and the send loop do to what a peer has to send.         *)
LEMMA GivesIs ==
  ASSUME NEW S, NEW p \in Peers
  PROVE  /\ \A f \in Buffer : Gives(p, S) /\ Holds(f, S) => Gives(PeerAdd(p, f), S)
         /\ Gives(p, S) /\ HasMore(p) => Gives(AfterSend(p), S) /\ NextPart(p) \in S
         /\ p.queue = Empty /\ p.sendAt = -1 => Gives(p, S)
<1>1. ASSUME NEW f \in Buffer, Gives(p, S), Holds(f, S) PROVE Gives(PeerAdd(p, f), S)
  <2>1. /\ PeerAdd(p, f).queue \in {p.queue, Append(p.queue, f)}
        /\ PeerAdd(p, f).sending = p.sending /\ PeerAdd(p, f).sendAt = p.sendAt
    BY PeerAddIs
  <2>2. Shows(PeerAdd(p, f).queue, S)
    <3>1. p.queue \in Seq(Buffer) /\ Shows(p.queue, S)
      BY <1>1, PeerTyped DEF Gives
    <3>2. Shows(Append(p.queue, f), S)
      BY <1>1, <3>1, ShowsIs
    <3> QED BY <2>1, <3>1, <3>2
  <2> QED BY <1>1, <2>1, <2>2 DEF Gives, SendIdle
<1>2. ASSUME Gives(p, S), HasMore(p) PROVE Gives(AfterSend(p), S) /\ NextPart(p) \in S
  <2>1. AfterSend(p) \in Peers /\ NextPart(p) = AfterSend(p).sending[AfterSend(p).sendAt]
    BY <1>2, AfterSendIs
  <2>2. Shows(AfterSend(p).queue, S) /\ Holds(AfterSend(p).sending, S)
    <3>1. CASE SendIdle(p)
      <4>1. /\ p.queue # Empty /\ AfterSend(p).queue = Dequeue(p.queue)
            /\ AfterSend(p).sending = Top(p.queue)
        BY <1>2, <3>1, AfterSendIs
      <4>2. p.queue \in Seq(Buffer) /\ Shows(p.queue, S)
        BY <1>2, PeerTyped DEF Gives
      <4> QED BY <4>1, <4>2, ShowsIs
    <3>2. CASE ~SendIdle(p)
      BY <1>2, <3>2, AfterSendIs DEF Gives
    <3> QED BY <3>1, <3>2
  <2>3. AfterSend(p).sendAt \in 1 .. Calls
    BY <1>2, AfterSendIs, ChatAssumption
  <2> QED BY <2>1, <2>2, <2>3 DEF Gives, Holds
<1>3. ASSUME p.queue = Empty, p.sendAt = -1 PROVE Gives(p, S)
  BY <1>3 DEF Gives, Shows, Empty, SendIdle
<1> QED BY <1>1, <1>2, <1>3

(* The send side of a peer is all that counts.                             *)
LEMMA GivesSame ==
  ASSUME NEW S, NEW p, NEW r, Gives(p, S),
         r.queue = p.queue, r.sending = p.sending, r.sendAt = p.sendAt
  PROVE  Gives(r, S)
BY DEF Gives, SendIdle

LEMMA HoldsRecv ==
  ASSUME NEW S, NEW p \in Peers, NEW part \in Part, part \in S, Holds(p.recvBuf, S)
  PROVE  Holds(AfterRecv(p, part).recvBuf, S)
<1>1. AfterRecv(p, part).recvBuf = [p.recvBuf EXCEPT ![p.recvAt + 1] = part]
  BY AfterRecvIs
<1>2. p.recvBuf \in [1 .. Calls -> Part]
  BY PeerTyped DEF Buffer
<1>3. \A q \in 1 .. Calls : AfterRecv(p, part).recvBuf[q] = IF q = p.recvAt + 1 THEN part ELSE p.recvBuf[q]
  BY <1>1, <1>2
<1> QED BY <1>3 DEF Holds

(* A client's own parts, and those it may be shown.                        *)
From(c) == {part \in Part : part.msg.from = c}
Heard(c, s) == {part \in Part : part.msg.from # c /\ (part.msg.from = Server => part.msg.n > s)}

(* The clients slot i has had: once it is accepted, a client never sits in *)
(* another slot.                                                           *)
Met(i) == {x \in Clients : link[x] \notin {"none", "queued"} /\ \A j \in Held : sock[j] = x => j = i}

(* A client sends what was typed at it; *)
OwnInv == \A c \in Clients : Gives(cli[c], From(c)) /\ Within(up[c], From(c))

(* what a slot's receiving buffer holds is of clients it has had, also of  *)
(* earlier ones; *)
MetInv == \A i \in Slots : \A q \in 1 .. Calls : slot[i].recvBuf[q].msg.from \in Met(i) \cup {Nobody}

(* and nothing reaches a client that is its own or was typed too early.    *)
GivenInv == \A i \in Held : Gives(slot[i], Heard(sock[i], since[sock[i]]))
ReachInv == \A c \in Clients : /\ since[c] <= lines[Server]
                               /\ Within(down[c], Heard(c, since[c]))
                               /\ Holds(cli[c].recvBuf, Heard(c, since[c]))
                               /\ Shows(screen[c], Heard(c, since[c]))

OriginInv == OwnInv /\ MetInv /\ GivenInv /\ ReachInv

LEMMA LineFrom ==
  ASSUME NEW t \in Senders, NEW n \in Nat
  PROVE  /\ Frame(Line(t, n)) \in Buffer
         /\ \A q \in 1 .. Calls : /\ Frame(Line(t, n))[q].msg.from = t
                                  /\ Frame(Line(t, n))[q].msg.n = n
                                  /\ Frame(Line(t, n))[q].pos = q
BY FramesTyped DEF Frame, Line

LEMMA BlankFrom == \A q \in 1 .. Calls : BlankFrame[q].msg.from = Nobody /\ BlankFrame[q].pos = 0
BY DEF BlankFrame, Blank

LEMMA InitOrigin == Init => OriginInv
<1> SUFFICES ASSUME Init PROVE OriginInv
  OBVIOUS
<1>1. OwnInv
  <2> SUFFICES ASSUME NEW c \in Clients PROVE Gives(cli[c], From(c)) /\ Within(up[c], From(c))
    BY DEF OwnInv
  <2>1. cli[c] = Fresh /\ up[c] = <<>>
    BY DEF Init
  <2>2. Gives(Fresh, From(c))
    BY FreshTyped, GivesIs
  <2> QED BY <2>1, <2>2 DEF Within
<1>2. MetInv
  BY FreshTyped, BlankFrom DEF Init, MetInv
<1>3. GivenInv
  BY DEF Init, GivenInv, Held
<1>4. ReachInv
  <2> SUFFICES ASSUME NEW c \in Clients
               PROVE  /\ since[c] <= lines[Server]
                      /\ Within(down[c], Heard(c, since[c]))
                      /\ Holds(cli[c].recvBuf, Heard(c, since[c]))
                      /\ Shows(screen[c], Heard(c, since[c]))
    BY DEF ReachInv
  <2>1. cli[c].recvBuf = BlankFrame /\ down[c] = <<>> /\ screen[c] = <<>> /\ since[c] = 0 /\ lines[Server] = 0
    BY FreshTyped, SlotNumbers DEF Init
  <2>2. Holds(BlankFrame, Heard(c, since[c]))
    BY FramesTyped, BlankFrom, SlotNumbers DEF Holds, Heard, Buffer
  <2> QED BY <2>1, <2>2 DEF Within, Shows
<1> QED BY <1>1, <1>2, <1>3, <1>4 DEF OriginInv

(* What clients send is their own.                                         *)
LEMMA NextOwn == ASSUME Base, OwnInv, [Next]_vars PROVE OwnInv'
<1> USE DEF Base
<1>1. CASE Idles \/ SrvDoes \/ \E c \in Clients : Joins(c)
  <2>1. \A d \in Clients : cli'[d] = cli[d] /\ up'[d] \in {up[d], <<>>, Tail(up[d])}
                           /\ (up'[d] = Tail(up[d]) => up[d] # <<>> \/ up'[d] = <<>>)
    BY <1>1 DEF Idles, SrvDoes, Tells, Takes, TurnsAway, Receives, Broadcasts, Closes, Stops, Sends,
                EndsSend, Joins
  <2> SUFFICES ASSUME NEW d \in Clients PROVE Gives(cli'[d], From(d)) /\ Within(up'[d], From(d))
    BY DEF OwnInv
  <2>2. up[d] \in Seq(Part) /\ Within(up[d], From(d)) /\ Gives(cli[d], From(d))
    BY DEF OwnInv, TypeInv
  <2>3. Within(<<>>, From(d)) /\ (up[d] # <<>> => Within(Tail(up[d]), From(d)))
    BY <2>2, WithinIs
  <2> QED BY <2>1, <2>2, <2>3
<1>2. ASSUME NEW c \in Clients, Leaves(c) PROVE OwnInv'
  <2> SUFFICES ASSUME NEW d \in Clients PROVE Gives(cli'[d], From(d)) /\ Within(up'[d], From(d))
    BY DEF OwnInv
  <2>1. up[d] \in Seq(Part) /\ Within(up[d], From(d)) /\ Gives(cli[d], From(d))
    BY DEF OwnInv, TypeInv
  <2>2. Gives(Fresh, From(d))
    BY FreshTyped, GivesIs
  <2>3. PICK k \in 0 .. Len(up[c]) :
           \A e \in Clients : up'[e] = IF e = c THEN SubSeq(up[e], 1, k) ELSE up[e]
    BY <1>2 DEF Leaves
  <2>4. d = c => Within(SubSeq(up[d], 1, k), From(d))
    BY <2>1, WithinIs
  <2>5. cli'[d] = IF d = c THEN Fresh ELSE cli[d]
    BY <1>2 DEF Leaves
  <2> QED BY <2>1, <2>2, <2>3, <2>4, <2>5
<1>3. ASSUME NEW c \in Clients, NEW n \in Nat, Asks(c, n) PROVE OwnInv'
  <2> SUFFICES ASSUME NEW d \in Clients PROVE Gives(cli'[d], From(d)) /\ Within(up'[d], From(d))
    BY DEF OwnInv
  <2>1. Frame(Line(c, n)) \in Buffer /\ Holds(Frame(Line(c, n)), From(c))
    <3>1. c \in Senders
      BY SlotNumbers
    <3>2. /\ Frame(Line(c, n)) \in Buffer
          /\ \A q \in 1 .. Calls : Frame(Line(c, n))[q].msg.from = c
      BY <3>1, LineFrom
    <3> QED BY <3>2 DEF Holds, From, Buffer
  <2>2. cli[d] \in Peers /\ Within(up[d], From(d)) /\ Gives(cli[d], From(d))
    BY DEF OwnInv, TypeInv
  <2> QED BY <1>3, <2>1, <2>2, GivesIs DEF Asks
<1>4. ASSUME NEW c \in Clients, Hears(c) PROVE OwnInv'
  <2> SUFFICES ASSUME NEW d \in Clients PROVE Gives(cli'[d], From(d)) /\ Within(up'[d], From(d))
    BY DEF OwnInv
  <2>1. cli[d] \in Peers /\ Within(up[d], From(d)) /\ Gives(cli[d], From(d))
    BY DEF OwnInv, TypeInv
  <2>2. d = c => Head(down[c]) \in Part
    BY <1>4 DEF Hears, TypeInv
  <2>3. d = c => Gives(AfterRecv(cli[d], Head(down[c])), From(d))
    BY <2>1, <2>2, AfterRecvIs, GivesSame
  <2> QED BY <1>4, <2>1, <2>3 DEF Hears
<1>5. ASSUME NEW c \in Clients, Speaks(c) PROVE OwnInv'
  <2> SUFFICES ASSUME NEW d \in Clients PROVE Gives(cli'[d], From(d)) /\ Within(up'[d], From(d))
    BY DEF OwnInv
  <2>1. cli[d] \in Peers /\ up[d] \in Seq(Part) /\ Within(up[d], From(d)) /\ Gives(cli[d], From(d))
    BY DEF OwnInv, TypeInv
  <2>2. d = c => /\ Gives(AfterSend(cli[d]), From(d))
                 /\ NextPart(cli[d]) \in From(d) /\ NextPart(cli[d]) \in Part
    BY <1>5, <2>1, GivesIs, AfterSendIs DEF Speaks
  <2>3. d = c => Within(Append(up[d], NextPart(cli[d])), From(d))
    BY <2>1, <2>2, WithinIs
  <2> QED BY <1>5, <2>1, <2>2, <2>3 DEF Speaks
<1>6. ASSUME NEW c \in Clients, EndsSpeech(c) PROVE OwnInv'
  <2> SUFFICES ASSUME NEW d \in Clients PROVE Gives(cli'[d], From(d)) /\ Within(up'[d], From(d))
    BY DEF OwnInv
  <2>1. cli[d] \in Peers /\ Within(up[d], From(d)) /\ Gives(cli[d], From(d))
    BY DEF OwnInv, TypeInv
  <2>2. d = c => Gives([cli[d] EXCEPT !.sendAt = -1], From(d))
    BY <1>6, <2>1, SendEndIs, GivesIs DEF EndsSpeech
  <2> QED BY <1>6, <2>1, <2>2 DEF EndsSpeech
<1> QED BY <1>1, <1>2, <1>3, <1>4, <1>5, <1>6, StepIs DEF CliDoes

(* Steps that receive nothing leave the receiving buffers alone.           *)
LEMMA SameBuffers ==
  ASSUME Base, Idles \/ SrvDoes \/ CliDoes
  PROVE  \/ \E i \in Slots, c \in Clients : Receives(i, c)
         \/ \A j \in Slots : slot'[j].recvBuf \in {slot[j].recvBuf, BlankFrame}
<1> USE DEF Base
<1>1. CASE Idles \/ CliDoes
  BY <1>1 DEF Idles, CliDoes, Joins, Leaves, Hears, Speaks, EndsSpeech, Asks
<1>2. ASSUME NEW j \in Slots, NEW n \in Nat, Tells(n) PROVE slot'[j].recvBuf = slot[j].recvBuf
  <2>1. slot[j] \in Peers /\ Frame(Line(Server, n)) \in Buffer
    BY FramesTyped, SlotNumbers DEF TypeInv
  <2> QED BY <1>2, <2>1, PeerAddIs DEF Tells
<1>3. ASSUME NEW j \in Slots, NEW i \in Slots, NEW c \in Clients, Takes(i, c)
      PROVE  slot'[j].recvBuf = slot[j].recvBuf
  <2>1. slot[j] \in Peers
    BY DEF TypeInv
  <2> QED BY <1>3, <2>1, ResetIs DEF Takes
<1>4. ASSUME NEW c \in Clients, TurnsAway(c) PROVE UNCHANGED slot
  BY <1>4 DEF TurnsAway
<1>5. ASSUME NEW j \in Slots, NEW i \in Slots, Broadcasts(i) PROVE slot'[j].recvBuf = slot[j].recvBuf
  <2>1. slot[j] \in Peers /\ slot[i].recvBuf \in Buffer
    BY PeerTyped DEF TypeInv
  <2> QED BY <1>5, <2>1, PeerAddIs DEF Broadcasts
<1>6. ASSUME NEW j \in Slots, NEW i \in Slots, NEW c \in Clients, Closes(i, c)
      PROVE  slot'[j].recvBuf = slot[j].recvBuf
  <2>1. slot[j] \in Peers
    BY DEF TypeInv
  <2>2. ResetCursors([slot[j] EXCEPT !.queue = Empty]).recvBuf = slot[j].recvBuf
    BY <2>1, EmptiedIs
  <2> QED BY <1>6, <2>2 DEF Closes
<1>7. ASSUME NEW j \in Slots, Stops PROVE slot'[j].recvBuf = BlankFrame
  BY <1>7, FreshTyped DEF Stops
<1>8. ASSUME NEW j \in Slots, NEW i \in Slots, NEW c \in Clients, Sends(i, c)
      PROVE  slot'[j].recvBuf = slot[j].recvBuf
  <2>1. slot[j] \in Peers
    BY DEF TypeInv
  <2> QED BY <1>8, <2>1, AfterSendIs DEF Sends
<1>9. ASSUME NEW j \in Slots, NEW i \in Slots, EndsSend(i) PROVE slot'[j].recvBuf = slot[j].recvBuf
  <2>1. slot[j] \in Peers
    BY DEF TypeInv
  <2> QED BY <1>9, <2>1, SendEndIs DEF EndsSend
<1> QED BY <1>1, <1>2, <1>3, <1>4, <1>5, <1>6, <1>7, <1>8, <1>9 DEF SrvDoes

(* A client a slot has had stays one it has had.                           *)
LEMMA MetGrows ==
  ASSUME Base, Base', Idles \/ SrvDoes \/ CliDoes, NEW i \in Slots, NEW x \in Met(i)
  PROVE  x \in Met(i)'
<1> USE DEF Base
<1>1. x \in Clients /\ link[x] \notin {"none", "queued"} /\ \A j \in Held : sock[j] = x => j = i
  BY DEF Met
<1>2. link'[x] \notin {"none", "queued"}
  BY <1>1 DEF Idles, SrvDoes, CliDoes, Tells, Takes, TurnsAway, Receives, Broadcasts, Closes, Stops, Sends,
              EndsSend, Joins, Leaves, Hears, Speaks, EndsSpeech, Asks
<1>3. ASSUME NEW j \in Held', sock'[j] = x PROVE j = i
  <2>1. CASE j \in Held /\ sock'[j] = sock[j]
    BY <1>1, <1>3, <2>1
  <2>2. ASSUME NEW k \in Slots, NEW c \in Clients, Takes(k, c), j = k
        PROVE  FALSE
    BY <1>1, <1>3, <2>2 DEF Takes
  <2>3. j \in Slots
    BY DEF Held
  <2>4. \/ j \in Held /\ sock'[j] = sock[j]
        \/ \E k \in Slots, c \in Clients : Takes(k, c) /\ j = k
    BY <2>3 DEF Idles, SrvDoes, CliDoes, Tells, Takes, TurnsAway, Receives, Broadcasts, Closes, Stops, Sends,
              EndsSend, Joins, Leaves, Hears, Speaks, EndsSpeech, Asks
  <2> QED BY <2>1, <2>2, <2>4
<1> QED BY <1>1, <1>2, <1>3 DEF Met

LEMMA NextMet == ASSUME Base, Base', OwnInv, MetInv, [Next]_vars PROVE MetInv'
<1> USE DEF Base
<1>1. Idles \/ SrvDoes \/ CliDoes
  BY StepIs
<1>2. \A j \in Slots, q \in 1 .. Calls : slot[j].recvBuf[q].msg.from \in Met(j)' \cup {Nobody}
  BY <1>1, MetGrows DEF MetInv
<1>3. CASE \A j \in Slots : slot'[j].recvBuf \in {slot[j].recvBuf, BlankFrame}
  BY <1>2, <1>3, BlankFrom DEF MetInv
<1>4. ASSUME NEW i \in Slots, NEW c \in Clients, Receives(i, c) PROVE MetInv'
  <2>1. slot[i] \in Peers /\ up[c] \in Seq(Part) /\ up[c] # <<>> /\ Within(up[c], From(c))
    BY <1>4 DEF Receives, TypeInv, OwnInv
  <2>2. Head(up[c]) \in Part /\ Head(up[c]).msg.from = c
    <3>1. Head(up[c]) \in From(c)
      BY <2>1, WithinIs
    <3> QED BY <3>1 DEF From
  <2>3. AfterRecv(slot[i], Head(up[c])).recvBuf = [slot[i].recvBuf EXCEPT ![slot[i].recvAt + 1] = Head(up[c])]
    BY <2>1, <2>2, AfterRecvIs
  <2>4. slot[i].recvBuf \in [1 .. Calls -> Part]
    BY <2>1, PeerTyped DEF Buffer
  <2>5. c \in Met(i)'
    <3>1. c \in Met(i)
      BY <1>4 DEF Receives, Met, TableInv
    <3> QED BY <1>1, <3>1, MetGrows
  <2>6. \A q \in 1 .. Calls : slot'[i].recvBuf[q] \in {Head(up[c]), slot[i].recvBuf[q]}
    <3>1. slot'[i] = AfterRecv(slot[i], Head(up[c]))
      BY <1>4 DEF Receives
    <3> QED BY <2>3, <2>4, <3>1
  <2>7. \A j \in Slots : j # i => slot'[j] = slot[j]
    BY <1>4 DEF Receives
  <2> SUFFICES ASSUME NEW j \in Slots, NEW q \in 1 .. Calls
               PROVE  slot'[j].recvBuf[q].msg.from \in Met(j)' \cup {Nobody}
    BY DEF MetInv
  <2> QED BY <1>2, <2>2, <2>5, <2>6, <2>7
<1> QED BY <1>1, <1>3, <1>4, SameBuffers

(* Heard(c, s) holds what others typed; and, when it is newer, what the    *)
(* server's terminal typed.                                                *)
LEMMA HeardIs ==
  ASSUME NEW c \in Clients, NEW s \in Nat
  PROVE  /\ Holds(BlankFrame, Heard(c, s))
         /\ \A n \in Nat : n > s => Holds(Frame(Line(Server, n)), Heard(c, s))
         /\ \A f \in Buffer : (\A q \in 1 .. Calls : f[q].msg.from \in (Clients \ {c}) \cup {Nobody})
                                  => Holds(f, Heard(c, s))
<1>1. Holds(BlankFrame, Heard(c, s))
  BY FramesTyped, BlankFrom, SlotNumbers DEF Holds, Heard, Buffer
<1>2. ASSUME NEW n \in Nat, n > s PROVE Holds(Frame(Line(Server, n)), Heard(c, s))
  <2>1. /\ Frame(Line(Server, n)) \in Buffer
        /\ \A q \in 1 .. Calls : Frame(Line(Server, n))[q].msg.from = Server /\ Frame(Line(Server, n))[q].msg.n = n
    BY LineFrom, SlotNumbers
  <2> QED BY <1>2, <2>1, SlotNumbers DEF Holds, Heard, Buffer
<1>3. ASSUME NEW f \in Buffer, \A q \in 1 .. Calls : f[q].msg.from \in (Clients \ {c}) \cup {Nobody}
      PROVE  Holds(f, Heard(c, s))
  BY <1>3, SlotNumbers DEF Holds, Heard, Buffer
<1> QED BY <1>1, <1>2, <1>3

(* What slots are given to send.                                           *)
LEMMA NextGiven ==
  ASSUME Base, Base', EarlyInv, OriginInv, [Next]_vars
  PROVE  GivenInv'
<1> USE DEF Base, OriginInv
<1> SUFFICES ASSUME NEW j \in Held' PROVE Gives(slot'[j], Heard(sock'[j], since'[sock'[j]]))
  BY DEF GivenInv
<1>1. j \in Slots
  BY DEF Held
<1>2. j \in Held => /\ sock[j] \in Clients /\ since[sock[j]] \in Nat /\ slot[j] \in Peers
                    /\ Gives(slot[j], Heard(sock[j], since[sock[j]]))
  BY HeldSlot DEF GivenInv, TypeInv
<1>3. CASE Idles \/ CliDoes \/ \E c \in Clients : TurnsAway(c)
  <2>1. UNCHANGED <<slot, sock, since>> /\ Held' = Held
    BY <1>3 DEF Idles, CliDoes, Joins, Leaves, Hears, Speaks, EndsSpeech, Asks, TurnsAway
  <2> QED BY <1>2, <2>1
<1>4. ASSUME NEW n \in Nat, Tells(n) PROVE Gives(slot'[j], Heard(sock'[j], since'[sock'[j]]))
  <2>1. j \in Held /\ UNCHANGED <<sock, since>> /\ slot'[j] = PeerAdd(slot[j], Frame(Line(Server, n)))
    BY <1>1, <1>4 DEF Tells
  <2>2. n > since[sock[j]]
    BY <1>2, <1>4, <2>1, SlotNumbers DEF Tells, ReachInv, TypeInv
  <2>3. Frame(Line(Server, n)) \in Buffer
    BY FramesTyped, SlotNumbers
  <2>4. Holds(Frame(Line(Server, n)), Heard(sock[j], since[sock[j]]))
    BY <1>2, <2>1, <2>2, HeardIs
  <2>5. Gives(PeerAdd(slot[j], Frame(Line(Server, n))), Heard(sock[j], since[sock[j]]))
    BY <1>2, <2>1, <2>3, <2>4, GivesIs
  <2> QED BY <2>1, <2>5
<1>5. ASSUME NEW i \in Slots, NEW c \in Clients, Takes(i, c)
      PROVE  Gives(slot'[j], Heard(sock'[j], since'[sock'[j]]))
  <2>1. CASE j = i
    <3>1. slot'[j] = ResetCursors(slot[j]) /\ slot[j].queue = Empty /\ slot[j] \in Peers
      BY <1>1, <1>5, <2>1 DEF Takes, EarlyInv, TypeInv
    <3> QED BY <3>1, ResetIs, GivesIs
  <2>2. CASE j # i
    <3>1. j \in Held /\ sock'[j] = sock[j] /\ slot'[j] = slot[j]
      BY <1>1, <1>5, <2>2 DEF Takes
    <3>2. sock[j] # c
      BY <1>5, <3>1 DEF Takes, TableInv
    <3>3. since'[sock[j]] = since[sock[j]]
      BY <1>2, <1>5, <3>1, <3>2 DEF Takes
    <3> QED BY <1>2, <3>1, <3>3
  <2> QED BY <2>1, <2>2
<1>6. ASSUME NEW i \in Slots, NEW c \in Clients, Receives(i, c)
      PROVE  Gives(slot'[j], Heard(sock'[j], since'[sock'[j]]))
  <2>1. j \in Held /\ UNCHANGED <<sock, since>>
    BY <1>6 DEF Receives
  <2>2. Head(up[c]) \in Part
    BY <1>6 DEF Receives, TypeInv
  <2>3. slot'[j] = IF j = i THEN AfterRecv(slot[j], Head(up[c])) ELSE slot[j]
    BY <1>1, <1>6 DEF Receives
  <2>4. Gives(AfterRecv(slot[j], Head(up[c])), Heard(sock[j], since[sock[j]]))
    BY <1>2, <2>1, <2>2, AfterRecvIs, GivesSame
  <2> QED BY <1>2, <2>1, <2>3, <2>4
<1>7. ASSUME NEW i \in Slots, Broadcasts(i)
      PROVE  Gives(slot'[j], Heard(sock'[j], since'[sock'[j]]))
  <2>1. j \in Held /\ UNCHANGED <<sock, since>>
    BY <1>7 DEF Broadcasts
  <2>2. slot'[j] = IF j = i THEN slot[j] ELSE PeerAdd(slot[j], slot[i].recvBuf)
    BY <1>1, <1>7, <2>1 DEF Broadcasts
  <2>3. CASE j # i
    <3>1. slot[i].recvBuf \in Buffer
      BY PeerTyped DEF TypeInv
    <3>2. sock[j] \notin Met(i)
      BY <2>1, <2>3 DEF Met
    <3>3. Holds(slot[i].recvBuf, Heard(sock[j], since[sock[j]]))
      <4>1. \A q \in 1 .. Calls : slot[i].recvBuf[q].msg.from \in (Clients \ {sock[j]}) \cup {Nobody}
        BY <3>2 DEF MetInv, Met
      <4> QED BY <1>2, <2>1, <3>1, <4>1, HeardIs
    <3>4. Gives(PeerAdd(slot[j], slot[i].recvBuf), Heard(sock[j], since[sock[j]]))
      BY <1>2, <2>1, <3>1, <3>3, GivesIs
    <3> QED BY <2>1, <2>2, <2>3, <3>4
  <2> QED BY <1>2, <2>1, <2>2, <2>3
<1>8. ASSUME NEW i \in Slots, NEW c \in Clients, Closes(i, c)
      PROVE  Gives(slot'[j], Heard(sock'[j], since'[sock'[j]]))
  <2>1. j \in Held /\ j # i /\ sock'[j] = sock[j] /\ slot'[j] = slot[j] /\ UNCHANGED since
    BY <1>1, <1>8 DEF Closes
  <2> QED BY <1>2, <2>1
<1>9. ASSUME NEW i \in Slots, NEW c \in Clients, Sends(i, c)
      PROVE  Gives(slot'[j], Heard(sock'[j], since'[sock'[j]]))
  <2>1. j \in Held /\ UNCHANGED <<sock, since>>
    BY <1>9 DEF Sends
  <2>2. slot'[j] = IF j = i THEN AfterSend(slot[j]) ELSE slot[j]
    BY <1>1, <1>9 DEF Sends
  <2>3. j = i => HasMore(slot[j])
    BY <1>9 DEF Sends
  <2>4. j = i => Gives(AfterSend(slot[j]), Heard(sock[j], since[sock[j]]))
    BY <1>2, <2>1, <2>3, GivesIs
  <2> QED BY <1>2, <2>1, <2>2, <2>4
<1>10. ASSUME NEW i \in Slots, EndsSend(i)
       PROVE  Gives(slot'[j], Heard(sock'[j], since'[sock'[j]]))
  <2>1. j \in Held /\ UNCHANGED <<sock, since>>
    BY <1>10 DEF EndsSend
  <2>2. slot'[j] = IF j = i THEN [slot[j] EXCEPT !.sendAt = -1] ELSE slot[j]
    BY <1>1, <1>10 DEF EndsSend
  <2>3. j = i => ~HasMore(slot[j])
    BY <1>10 DEF EndsSend
  <2>4. j = i => Gives([slot[j] EXCEPT !.sendAt = -1], Heard(sock[j], since[sock[j]]))
    BY <1>2, <2>1, <2>3, SendEndIs, GivesIs
  <2> QED BY <1>2, <2>1, <2>2, <2>4
<1>11. CASE Stops
  BY <1>11 DEF Stops
<1> QED BY <1>3, <1>4, <1>5, <1>6, <1>7, <1>8, <1>9, <1>10, <1>11, StepIs DEF SrvDoes

(* What reaches the clients.                                               *)
LEMMA NextReach ==
  ASSUME Base, Base', EarlyInv, OriginInv, [Next]_vars
  PROVE  ReachInv'
<1> USE DEF Base, OriginInv
<1> DEFINE R(d) == /\ since'[d] <= lines'[Server]
                   /\ Within(down'[d], Heard(d, since'[d]))
                   /\ Holds(cli'[d].recvBuf, Heard(d, since'[d]))
                   /\ Shows(screen'[d], Heard(d, since'[d]))
<1> SUFFICES ASSUME NEW d \in Clients PROVE R(d)
  BY DEF ReachInv
<1>1. /\ since[d] <= lines[Server]
      /\ Within(down[d], Heard(d, since[d]))
      /\ Holds(cli[d].recvBuf, Heard(d, since[d]))
      /\ Shows(screen[d], Heard(d, since[d]))
  BY DEF ReachInv
<1>2. /\ since[d] \in Nat /\ lines[Server] \in Nat /\ cli[d] \in Peers
      /\ down[d] \in Seq(Part) /\ screen[d] \in Seq(Buffer)
  BY SlotNumbers DEF TypeInv
<1>3. CASE Idles \/ (\E c \in Clients : TurnsAway(c) \/ Joins(c)) \/ (\E i \in Slots : Broadcasts(i) \/ EndsSend(i))
           \/ (\E i \in Slots, c \in Clients : Receives(i, c) \/ Closes(i, c)) \/ Stops
  <2>1. UNCHANGED <<since, down, cli, screen, lines>>
    BY <1>3 DEF Idles, TurnsAway, Joins, Broadcasts, EndsSend, Receives, Closes, Stops
  <2> QED BY <1>1, <2>1
<1>4. ASSUME NEW n \in Nat, Tells(n) PROVE R(d)
  <2>1. UNCHANGED <<since, down, cli, screen>> /\ lines'[Server] > lines[Server] /\ lines'[Server] \in Nat
    BY <1>4 DEF Tells
  <2> QED BY <1>1, <1>2, <2>1
<1>5. ASSUME NEW i \in Slots, NEW c \in Clients, Takes(i, c) PROVE R(d)
  <2>1. UNCHANGED <<down, cli, screen, lines>> /\ since'[d] = IF d = c THEN lines[Server] ELSE since[d]
    BY <1>5 DEF Takes
  <2>2. CASE d = c
    <3>1. screen[d] = <<>> /\ down[d] = <<>> /\ cli[d].recvBuf = BlankFrame
      BY <1>5, <2>2 DEF Takes, EarlyInv
    <3>2. Holds(BlankFrame, Heard(d, lines[Server]))
      BY <1>2, HeardIs
    <3> QED BY <1>2, <2>1, <2>2, <3>1, <3>2 DEF Within, Shows
  <2> QED BY <1>1, <2>1, <2>2
<1>6. ASSUME NEW i \in Slots, NEW c \in Clients, Sends(i, c) PROVE R(d)
  <2>1. UNCHANGED <<since, cli, screen, lines>>
        /\ down'[d] \in {down[d], IF d = c THEN Append(down[d], NextPart(slot[i])) ELSE down[d]}
    BY <1>6 DEF Sends
  <2>2. d = c => NextPart(slot[i]) \in Part /\ NextPart(slot[i]) \in Heard(d, since[d])
    <3>1. i \in Held /\ slot[i] \in Peers /\ HasMore(slot[i]) /\ sock[i] = c
      BY <1>6, HeldSlot DEF Sends
    <3>2. Gives(slot[i], Heard(c, since[c]))
      BY <3>1 DEF GivenInv
    <3> QED BY <3>1, <3>2, GivesIs, AfterSendIs
  <2>3. d = c => Within(Append(down[d], NextPart(slot[i])), Heard(d, since[d]))
    BY <1>1, <1>2, <2>2, WithinIs
  <2> QED BY <1>1, <2>1, <2>3
<1>7. ASSUME NEW c \in Clients, Leaves(c) PROVE R(d)
  <2>1. UNCHANGED <<since, screen, lines>> /\ down'[d] \in {down[d], <<>>} /\ cli'[d] \in {cli[d], Fresh}
    BY <1>7 DEF Leaves
  <2>2. Holds(Fresh.recvBuf, Heard(d, since[d])) /\ Within(<<>>, Heard(d, since[d]))
    BY <1>2, FreshTyped, HeardIs DEF Within
  <2> QED BY <1>1, <2>1, <2>2
<1>8. ASSUME NEW c \in Clients, NEW n \in Nat, Asks(c, n) PROVE R(d)
  <2>1. UNCHANGED <<since, screen, down>> /\ lines'[Server] = lines[Server]
    BY <1>8 DEF Asks
  <2>2. cli'[d].recvBuf = cli[d].recvBuf
    <3>1. Frame(Line(c, n)) \in Buffer
      BY FramesTyped, SlotNumbers
    <3>2. cli'[d] = IF d = c THEN PeerAdd(cli[d], Frame(Line(c, n))) ELSE cli[d]
      BY <1>8 DEF Asks
    <3> QED BY <1>2, <3>1, <3>2, PeerAddIs
  <2> QED BY <1>1, <2>1, <2>2
<1>9. ASSUME NEW c \in Clients, Hears(c) PROVE R(d)
  <2>1. UNCHANGED <<since, lines>>
        /\ down'[d] = (IF d = c THEN Tail(down[d]) ELSE down[d])
        /\ cli'[d] = (IF d = c THEN AfterRecv(cli[d], Head(down[c])) ELSE cli[d])
        /\ screen'[d] \in {screen[d], IF d = c THEN Append(screen[d], AfterRecv(cli[c], Head(down[c])).recvBuf)
                                                ELSE screen[d]}
    BY <1>9 DEF Hears
  <2>2. CASE d = c
    <3>1. /\ Head(down[c]) \in Part /\ Head(down[c]) \in Heard(d, since[d])
          /\ Within(Tail(down[c]), Heard(d, since[d]))
      <4>1. down[c] # <<>>
        BY <1>9 DEF Hears
      <4> QED BY <1>1, <1>2, <2>2, <4>1, WithinIs
    <3>2. Holds(AfterRecv(cli[c], Head(down[c])).recvBuf, Heard(d, since[d]))
      BY <1>1, <1>2, <2>2, <3>1, HoldsRecv
    <3>3. AfterRecv(cli[c], Head(down[c])).recvBuf \in Buffer
      BY <1>2, <2>2, <3>1, AfterRecvIs
    <3>4. Shows(Append(screen[d], AfterRecv(cli[c], Head(down[c])).recvBuf), Heard(d, since[d]))
      BY <1>1, <1>2, <3>2, <3>3, ShowsIs
    <3> QED BY <1>1, <2>1, <2>2, <3>1, <3>2, <3>4
  <2> QED BY <1>1, <2>1, <2>2
<1>10. ASSUME NEW c \in Clients, Speaks(c) \/ EndsSpeech(c) PROVE R(d)
  <2>1. UNCHANGED <<since, screen, down, lines>>
    BY <1>10 DEF Speaks, EndsSpeech
  <2>2. cli'[d].recvBuf = cli[d].recvBuf
    BY <1>2, <1>10, AfterSendIs, SendEndIs DEF Speaks, EndsSpeech
  <2> QED BY <1>1, <2>1, <2>2
<1> HIDE DEF R
<1> QED BY <1>3, <1>4, <1>5, <1>6, <1>7, <1>8, <1>9, <1>10, StepIs DEF SrvDoes, CliDoes

LEMMA NextOrigin == ASSUME Base, Base', EarlyInv, OriginInv, [Next]_vars PROVE OriginInv'
BY NextOwn, NextMet, NextGiven, NextReach DEF OriginInv

(* Who the parts under way are from: the inductive invariant.              *)
THEOREM OriginHolds == Spec => [](Base /\ EarlyInv /\ OriginInv)
<1>1. Init => Base /\ EarlyInv /\ OriginInv
  BY InitBase, InitEarly, InitOrigin
<1>2. Base /\ EarlyInv /\ OriginInv /\ [Next]_vars => (Base /\ EarlyInv /\ OriginInv)'
  BY NextBase, NextEarly, NextOrigin
<1> QED BY <1>1, <1>2, PTL DEF Spec

(* All that is under way to a client, or has arrived.                      *)
LEMMA ReachingIs ==
  ASSUME Base, OriginInv, NEW c \in Clients, NEW part \in Reaching(c)
  PROVE  part \in Heard(c, since[c])
<1> USE DEF OriginInv
<1>1. /\ Within(down[c], Heard(c, since[c]))
      /\ Holds(cli[c].recvBuf, Heard(c, since[c]))
      /\ Shows(screen[c], Heard(c, since[c]))
  BY DEF ReachInv
<1>2. CASE \E k \in 1 .. Len(down[c]) : part = down[c][k]
  BY <1>1, <1>2 DEF Within
<1>3. CASE \E q \in 1 .. Calls : part = cli[c].recvBuf[q]
  BY <1>1, <1>3 DEF Holds
<1>4. CASE part \in ShownTo(c)
  <2>1. PICK k \in 1 .. Len(screen[c]) : \E q \in 1 .. Calls : part = screen[c][k][q]
    BY <1>4 DEF ShownTo
  <2> QED BY <1>1, <2>1 DEF Shows, Holds
<1>5. ASSUME NEW i \in Held, sock[i] = c, part \in Outgoing(slot[i]) PROVE part \in Heard(c, since[c])
  <2>1. Gives(slot[i], Heard(c, since[c]))
    BY <1>5 DEF GivenInv
  <2>2. PICK f : /\ \/ \E k \in 1 .. Len(slot[i].queue) : f = slot[i].queue[k]
                    \/ f = slot[i].sending /\ ~SendIdle(slot[i])
                 /\ \E q \in 1 .. Calls : part = f[q]
    BY <1>5 DEF Outgoing
  <2>3. Holds(f, Heard(c, since[c]))
    BY <2>1, <2>2 DEF Gives, Shows
  <2> QED BY <2>2, <2>3 DEF Holds
<1>6. \/ \E k \in 1 .. Len(down[c]) : part = down[c][k]
      \/ \E q \in 1 .. Calls : part = cli[c].recvBuf[q]
      \/ part \in ShownTo(c)
      \/ \E i \in Held : sock[i] = c /\ part \in Outgoing(slot[i])
  <2> DEFINE Given == UNION {Outgoing(slot[i]) : i \in {j \in Held : sock[j] = c}}
             Under == {down[c][k] : k \in 1 .. Len(down[c])}
             Come == {cli[c].recvBuf[q] : q \in 1 .. Calls}
  <2>1. part \in Given => \E i \in Held : sock[i] = c /\ part \in Outgoing(slot[i])
    OBVIOUS
  <2>2. part \in Under => \E k \in 1 .. Len(down[c]) : part = down[c][k]
    OBVIOUS
  <2>3. part \in Come => \E q \in 1 .. Calls : part = cli[c].recvBuf[q]
    OBVIOUS
  <2>4. Reaching(c) = Given \cup Under \cup Come \cup ShownTo(c)
    BY DEF Reaching
  <2> HIDE DEF Given, Under, Come
  <2> QED BY <2>1, <2>2, <2>3, <2>4
<1> QED BY <1>2, <1>3, <1>4, <1>5, <1>6

(* No part of a client's own message is ever on its way to it, although a  *)
(* slot's receiving buffer, which broadcasts send in part stale, has held  *)
(* the messages of every client the slot had.                              *)
THEOREM NeverEchoed == Spec => []NoEcho
<1>1. Base /\ EarlyInv /\ OriginInv => NoEcho
  BY ReachingIs DEF NoEcho, Heard
<1> QED BY OriginHolds, <1>1, PTL

(* Nothing the operator typed before a client was accepted is ever on its  *)
(* way to it, whoever had its slot before.                                 *)
THEOREM NothingInherited == Spec => []NoInheritance
<1>1. Base /\ EarlyInv /\ OriginInv => NoInheritance
  BY ReachingIs DEF NoInheritance, Heard
<1> QED BY OriginHolds, <1>1, PTL

-----------------------------------------------------------------------------
(* The parts of a connection follow those of the messages dequeued at its  *)
(* end.  In the sequence of all parts of these messages, Before(j) come    *)
(* before message j + 1.                                                   *)
Before(j) == j * Calls

LEMMA BeforeIs ==
  /\ Before(0) = 0
  /\ \A j \in Nat : Before(j) \in Nat /\ Before(j + 1) = Before(j) + Calls
  /\ \A j \in Nat \ {0} : Before(j) = Before(j - 1) + Calls
  /\ \A j, k \in Nat : j < k => Before(j) + Calls <= Before(k)
  /\ Calls \in Nat \ {0}
<1>1. Calls \in Nat \ {0}
  BY ChatAssumption
<1>2. \A j \in Nat : j * Calls \in Nat /\ (j + 1) * Calls = j * Calls + Calls
  BY <1>1
<1>3. ASSUME NEW j \in Nat \ {0} PROVE Before(j) = Before(j - 1) + Calls
  <2>1. j - 1 \in Nat /\ (j - 1) + 1 = j
    OBVIOUS
  <2> QED BY <1>2, <2>1 DEF Before
<1>4. ASSUME NEW j \in Nat, NEW k \in Nat, j < k PROVE Before(j) + Calls <= Before(k)
  <2> DEFINE d == k - (j + 1)
  <2>1. d \in Nat /\ k = (j + 1) + d
    BY <1>4
  <2>2. d * Calls >= 0
    BY <1>1, <2>1
  <2>3. k * Calls = (j + 1) * Calls + d * Calls
    BY <1>1, <2>1
  <2> QED BY <1>1, <1>2, <2>2, <2>3 DEF Before
<1> QED BY <1>1, <1>2, <1>3, <1>4 DEF Before

(* Part q of message j is the only one in its place.                       *)
LEMMA OnePlace ==
  ASSUME NEW j \in Nat, NEW k \in Nat, NEW p \in 1 .. Calls, NEW q \in 1 .. Calls,
         Before(j) + p = Before(k) + q
  PROVE  j = k /\ p = q
<1>1. Before(j) \in Nat /\ Before(k) \in Nat /\ Calls \in Nat
  BY BeforeIs
<1>2. ~(j < k)
  <2> SUFFICES ASSUME j < k PROVE FALSE
    OBVIOUS
  <2>1. Before(j) + Calls <= Before(k)
    BY BeforeIs
  <2> QED BY <1>1, <2>1
<1>3. ~(k < j)
  <2> SUFFICES ASSUME k < j PROVE FALSE
    OBVIOUS
  <2>1. Before(k) + Calls <= Before(j)
    BY BeforeIs
  <2> QED BY <1>1, <2>1
<1> QED BY <1>1, <1>2, <1>3

(* h are the messages dequeued at one end, got those handled at the other, *)
(* buf and at the receiving buffer and its cursor, pipe the parts between: *)
(* the handled messages are the first of h, and what has come of the next  *)
(* one, followed by the parts in the pipe, continues them.                 *)
Follows(h, got, buf, at, pipe) ==
  /\ Len(got) <= Len(h) /\ \A k \in 1 .. Len(got) : got[k] = h[k]
  /\ \A q \in 1 .. at : Len(got) < Len(h) /\ buf[q] = h[Len(got) + 1][q]
  /\ \A k \in 1 .. Len(pipe), j \in 1 .. Len(h), q \in 1 .. Calls :
        Before(j - 1) + q = Before(Len(got)) + at + k => pipe[k] = h[j][q]
  /\ Before(Len(got)) + at + Len(pipe) <= Before(Len(h))

(* n parts are out; the sender is between messages, or in its newest.      *)
Out(h, n, sending, sendAt) ==
  IF sendAt = -1 \/ sendAt >= Calls THEN n = Before(Len(h))
  ELSE Len(h) > 0 /\ sending = h[Len(h)] /\ n = Before(Len(h) - 1) + sendAt

LEMMA SameBuffer ==
  ASSUME NEW f \in Buffer, NEW g \in Buffer, \A q \in 1 .. Calls : f[q] = g[q]
  PROVE  f = g
<1>1. f = [q \in 1 .. Calls |-> f[q]] /\ g = [q \in 1 .. Calls |-> g[q]]
  BY DEF Buffer
<1>2. [q \in 1 .. Calls |-> f[q]] = [q \in 1 .. Calls |-> g[q]]
  OBVIOUS
<1> QED BY <1>1, <1>2

(* The head of the send loop takes a message.                              *)
LEMMA FollowsFetch ==
  ASSUME NEW h \in Seq(Buffer), NEW got \in Seq(Buffer), NEW buf \in Buffer, NEW at \in 0 .. Calls - 1,
         NEW pipe \in Seq(Part), Follows(h, got, buf, at, pipe), NEW f \in Buffer
  PROVE  /\ Append(h, f) \in Seq(Buffer)
         /\ Follows(Append(h, f), got, buf, at, pipe)
         /\ Before(Len(got)) + at + Len(pipe) = Before(Len(h))
               => Out(Append(h, f), Before(Len(got)) + at + Len(pipe), f, 0)
<1> DEFINE g == Append(h, f)
<1>1. /\ g \in Seq(Buffer) /\ Len(g) = Len(h) + 1 /\ g[Len(h) + 1] = f
      /\ \A k \in 1 .. Len(h) : g[k] = h[k]
      /\ Len(h) \in Nat /\ Len(got) \in Nat /\ Len(pipe) \in Nat /\ at \in Nat /\ Calls \in Nat \ {0}
  BY ChatAssumption
<1> HIDE DEF g
<1>2. Before(Len(g)) = Before(Len(h)) + Calls /\ Before(Len(h)) \in Nat /\ Before(Len(got)) \in Nat
  BY <1>1, BeforeIs
<1>3. /\ Len(got) <= Len(g) /\ \A k \in 1 .. Len(got) : got[k] = g[k]
      /\ \A q \in 1 .. at : Len(got) < Len(g) /\ buf[q] = g[Len(got) + 1][q]
  <2>1. Len(got) <= Len(h) /\ \A k \in 1 .. Len(got) : got[k] = h[k]
    BY DEF Follows
  <2>2. ASSUME NEW q \in 1 .. at PROVE Len(got) < Len(g) /\ buf[q] = g[Len(got) + 1][q]
    <3>1. Len(got) < Len(h) /\ buf[q] = h[Len(got) + 1][q]
      BY DEF Follows
    <3>2. Len(got) + 1 \in 1 .. Len(h)
      BY <1>1, <3>1
    <3> QED BY <1>1, <3>1, <3>2
  <2> QED BY <1>1, <2>1, <2>2
<1>4. Before(Len(got)) + at + Len(pipe) <= Before(Len(g))
  BY <1>1, <1>2 DEF Follows
<1>5. ASSUME NEW k \in 1 .. Len(pipe), NEW j \in 1 .. Len(g), NEW q \in 1 .. Calls,
             Before(j - 1) + q = Before(Len(got)) + at + k
      PROVE  pipe[k] = g[j][q]
  <2>1. j # Len(h) + 1
    <3> SUFFICES ASSUME j = Len(h) + 1 PROVE FALSE
      OBVIOUS
    <3>1. Before(Len(h)) + q = Before(Len(got)) + at + k
      BY <1>1, <1>5
    <3>2. Before(Len(got)) + at + Len(pipe) <= Before(Len(h))
      BY DEF Follows
    <3> QED BY <1>1, <1>2, <3>1, <3>2
  <2>2. j \in 1 .. Len(h)
    BY <1>1, <2>1
  <2> QED BY <1>1, <1>5, <2>2 DEF Follows
<1>6. Follows(g, got, buf, at, pipe)
  BY <1>3, <1>4, <1>5 DEF Follows
<1>7. ASSUME Before(Len(got)) + at + Len(pipe) = Before(Len(h))
      PROVE  Out(g, Before(Len(got)) + at + Len(pipe), f, 0)
  <2>1. Before(Len(g) - 1) = Before(Len(h))
    BY <1>1
  <2> QED BY <1>1, <1>2, <1>7, <2>1 DEF Out
<1> QED BY <1>1, <1>6, <1>7 DEF g

(* send() puts the next part into the pipe.                                *)
LEMMA FollowsSend ==
  ASSUME NEW h \in Seq(Buffer), NEW got \in Seq(Buffer), NEW buf \in Buffer, NEW at \in 0 .. Calls - 1,
         NEW pipe \in Seq(Part), Follows(h, got, buf, at, pipe),
         NEW sending \in Buffer, NEW sendAt \in 0 .. Calls - 1,
         Out(h, Before(Len(got)) + at + Len(pipe), sending, sendAt)
  PROVE  LET longer == Append(pipe, sending[sendAt + 1])
         IN  /\ Follows(h, got, buf, at, longer)
             /\ Out(h, Before(Len(got)) + at + Len(longer), sending, sendAt + 1)
<1> DEFINE part == sending[sendAt + 1]
           longer == Append(pipe, part)
<1>1. /\ Len(h) \in Nat /\ Len(got) \in Nat /\ Len(pipe) \in Nat /\ at \in Nat /\ Calls \in Nat \ {0}
      /\ sendAt \in Nat /\ sendAt + 1 \in 1 .. Calls
  BY ChatAssumption
<1>2. Len(longer) = Len(pipe) + 1 /\ longer[Len(pipe) + 1] = part
      /\ \A k \in 1 .. Len(pipe) : longer[k] = pipe[k]
  <2>1. part \in Part
    BY <1>1 DEF Buffer
  <2> HIDE DEF part
  <2> QED BY <2>1
<1>3. /\ Len(h) > 0 /\ sending = h[Len(h)]
      /\ Before(Len(got)) + at + Len(pipe) = Before(Len(h) - 1) + sendAt
  BY <1>1 DEF Out
<1>4. /\ Len(h) - 1 \in Nat /\ Before(Len(h) - 1) \in Nat /\ Before(Len(got)) \in Nat
      /\ Before(Len(h)) = Before(Len(h) - 1) + Calls
  BY <1>1, <1>3, BeforeIs
<1> HIDE DEF longer
<1>5. Before(Len(got)) + at + Len(longer) = Before(Len(h) - 1) + (sendAt + 1)
  <2> DEFINE a == Before(Len(got))
             b == Before(Len(h) - 1)
             l == Len(longer)
             n == Len(pipe)
  <2>1. /\ a \in Nat /\ b \in Nat /\ n \in Nat /\ at \in Nat /\ sendAt \in Nat /\ l = n + 1
        /\ a + at + n = b + sendAt
    BY <1>1, <1>2, <1>3, <1>4
  <2> HIDE DEF a, b, l, n
  <2>2. a + at + l = b + (sendAt + 1)
    BY <2>1
  <2> QED BY <2>2 DEF a, b, l, n
<1>6. ASSUME NEW k \in 1 .. Len(longer), NEW j \in 1 .. Len(h), NEW q \in 1 .. Calls,
             Before(j - 1) + q = Before(Len(got)) + at + k
      PROVE  longer[k] = h[j][q]
  <2>1. CASE k \in 1 .. Len(pipe)
    BY <1>2, <1>6, <2>1 DEF Follows
  <2>2. CASE k = Len(pipe) + 1
    <3>1. Before(j - 1) + q = Before(Len(h) - 1) + (sendAt + 1)
      BY <1>2, <1>5, <1>6, <2>2
    <3>2. j - 1 \in Nat
      BY <1>1
    <3>3. j - 1 = Len(h) - 1 /\ q = sendAt + 1
      BY <1>1, <1>4, <3>1, <3>2, OnePlace
    <3>4. j = Len(h)
      BY <1>1, <3>3
    <3> QED BY <1>2, <1>3, <2>2, <3>3, <3>4
  <2> QED BY <1>1, <1>2, <2>1, <2>2
<1>7. Before(Len(got)) + at + Len(longer) <= Before(Len(h))
  BY <1>1, <1>4, <1>5
<1>8. Follows(h, got, buf, at, longer)
  BY <1>6, <1>7 DEF Follows
<1>9. Out(h, Before(Len(got)) + at + Len(longer), sending, sendAt + 1)
  <2>1. CASE sendAt + 1 >= Calls
    BY <1>1, <1>4, <1>5, <2>1 DEF Out
  <2>2. CASE ~(sendAt + 1 >= Calls)
    BY <1>1, <1>3, <1>5, <2>2 DEF Out
  <2> QED BY <2>1, <2>2
<1> QED BY <1>8, <1>9 DEF longer

(* recv() takes a part out of it.                                          *)
LEMMA FollowsRecv ==
  ASSUME NEW h \in Seq(Buffer), NEW got \in Seq(Buffer), NEW buf \in Buffer, NEW at \in 0 .. Calls - 1,
         NEW pipe \in Seq(Part), Follows(h, got, buf, at, pipe), pipe # <<>>
  PROVE  LET full == [buf EXCEPT ![at + 1] = Head(pipe)]
         IN  /\ Head(pipe) \in Part /\ full \in Buffer
             /\ Len(got) < Len(h) /\ Head(pipe) = h[Len(got) + 1][at + 1]
             /\ at + 1 < Calls => Follows(h, got, full, at + 1, Tail(pipe))
             /\ at + 1 = Calls => Follows(h, Append(got, full), full, 0, Tail(pipe))
             /\ at + 1 = Calls => /\ full = h[Len(got) + 1]
                                  /\ Before(Len(Append(got, full))) = Before(Len(got)) + Calls
             /\ Len(Tail(pipe)) = Len(pipe) - 1
<1> DEFINE part == Head(pipe)
           full == [buf EXCEPT ![at + 1] = part]
           rest == Tail(pipe)
           more == Append(got, full)
<1>1. /\ Len(h) \in Nat /\ Len(got) \in Nat /\ Len(pipe) \in Nat \ {0} /\ at \in Nat /\ Calls \in Nat \ {0}
      /\ at + 1 \in 1 .. Calls
  BY ChatAssumption
<1>2. part \in Part /\ part = pipe[1] /\ Len(rest) = Len(pipe) - 1 /\ \A k \in 1 .. Len(rest) : rest[k] = pipe[k + 1]
  BY <1>1
<1> HIDE DEF part, rest
<1>3. full \in Buffer /\ \A q \in 1 .. Calls : full[q] = IF q = at + 1 THEN part ELSE buf[q]
  BY <1>1, <1>2 DEF Buffer
<1> HIDE DEF full
<1>4. /\ Len(more) = Len(got) + 1 /\ more[Len(got) + 1] = full
      /\ \A k \in 1 .. Len(got) : more[k] = got[k]
  BY <1>3
<1> HIDE DEF more
<1>5. Before(Len(got)) \in Nat /\ Before(Len(h)) \in Nat /\ Before(Len(more)) = Before(Len(got)) + Calls
  BY <1>1, <1>4, BeforeIs
<1>6. Before(Len(got)) + at + Len(pipe) <= Before(Len(h))
  BY DEF Follows
<1>7. Len(got) < Len(h)
  <2> SUFFICES ASSUME Len(got) >= Len(h) PROVE FALSE
    BY <1>1
  <2>1. Len(got) = Len(h)
    BY <1>1 DEF Follows
  <2> QED BY <1>1, <1>5, <1>6, <2>1
<1>8. Len(got) + 1 \in 1 .. Len(h) /\ h[Len(got) + 1] \in Buffer
  BY <1>1, <1>7
<1>9. part = h[Len(got) + 1][at + 1]
  <2>1. (Len(got) + 1) - 1 = Len(got) /\ 1 \in 1 .. Len(pipe)
    BY <1>1
  <2>2. Before((Len(got) + 1) - 1) + (at + 1) = Before(Len(got)) + at + 1
    BY <1>1, <1>5, <2>1
  <2> QED BY <1>1, <1>2, <1>8, <2>1, <2>2 DEF Follows
<1>10. \A q \in 1 .. at + 1 : full[q] = h[Len(got) + 1][q]
  <2> TAKE q \in 1 .. at + 1
  <2>1. q \in 1 .. Calls /\ (q = at + 1 \/ q \in 1 .. at)
    BY <1>1
  <2>2. CASE q = at + 1
    BY <1>3, <1>9, <2>1, <2>2
  <2>3. CASE q \in 1 .. at
    <3>1. q # at + 1
      BY <1>1, <2>3
    <3>2. buf[q] = h[Len(got) + 1][q]
      BY <2>3 DEF Follows
    <3> QED BY <1>3, <2>1, <3>1, <3>2
  <2> QED BY <2>1, <2>2, <2>3
<1>11. ASSUME NEW k \in 1 .. Len(rest), NEW j \in 1 .. Len(h), NEW q \in 1 .. Calls,
              Before(j - 1) + q = Before(Len(got)) + (at + 1) + k
       PROVE  rest[k] = h[j][q]
  <2>1. k + 1 \in 1 .. Len(pipe) /\ rest[k] = pipe[k + 1]
    BY <1>1, <1>2
  <2>2. Before(j - 1) + q = Before(Len(got)) + at + (k + 1)
    BY <1>1, <1>5, <1>11
  <2> QED BY <2>1, <2>2 DEF Follows
<1>12. ASSUME at + 1 < Calls PROVE Follows(h, got, full, at + 1, rest)
  <2>1. Before(Len(got)) + (at + 1) + Len(rest) <= Before(Len(h))
    BY <1>1, <1>2, <1>5, <1>6
  <2>2. Len(got) <= Len(h) /\ \A k \in 1 .. Len(got) : got[k] = h[k]
    BY DEF Follows
  <2> QED BY <1>7, <1>10, <1>11, <2>1, <2>2 DEF Follows
<1>13. ASSUME at + 1 = Calls
       PROVE  full = h[Len(got) + 1] /\ Follows(h, more, full, 0, rest)
  <2>1. full = h[Len(got) + 1]
    <3>1. \A q \in 1 .. Calls : full[q] = h[Len(got) + 1][q]
      BY <1>10, <1>13
    <3> QED BY <1>3, <1>8, <3>1, SameBuffer
  <2>2. Before(Len(more)) + 0 = Before(Len(got)) + (at + 1)
    BY <1>1, <1>5, <1>13
  <2>3. Before(Len(more)) + 0 + Len(rest) <= Before(Len(h))
    BY <1>1, <1>2, <1>5, <1>6, <2>2
  <2>4. ASSUME NEW k \in 1 .. Len(rest), NEW j \in 1 .. Len(h), NEW q \in 1 .. Calls,
               Before(j - 1) + q = Before(Len(more)) + 0 + k
        PROVE  rest[k] = h[j][q]
    BY <1>11, <2>2, <2>4
  <2>5. Len(more) <= Len(h) /\ \A k \in 1 .. Len(more) : more[k] = h[k]
    <3>1. \A k \in 1 .. Len(got) : got[k] = h[k]
      BY DEF Follows
    <3> QED BY <1>1, <1>4, <1>7, <2>1, <3>1
  <2>6. Follows(h, more, full, 0, rest)
    BY <2>3, <2>4, <2>5 DEF Follows
  <2> QED BY <2>1, <2>6
<1> QED BY <1>2, <1>3, <1>5, <1>7, <1>9, <1>12, <1>13 DEF part, full, rest, more

(* The end of the pipe may be lost, ...                                    *)
LEMMA FollowsCut ==
  ASSUME NEW h \in Seq(Buffer), NEW got \in Seq(Buffer), NEW buf \in Buffer, NEW at \in 0 .. Calls - 1,
         NEW pipe \in Seq(Part), Follows(h, got, buf, at, pipe), NEW n \in 0 .. Len(pipe)
  PROVE  Follows(h, got, buf, at, SubSeq(pipe, 1, n))
<1> DEFINE rest == SubSeq(pipe, 1, n)
<1>1. Len(rest) = n /\ \A k \in 1 .. n : rest[k] = pipe[k]
  OBVIOUS
<1>2. /\ n \in Nat /\ Len(pipe) \in Nat /\ n <= Len(pipe) /\ Len(got) \in Nat /\ Len(h) \in Nat /\ at \in Nat
      /\ Before(Len(got)) \in Nat /\ Before(Len(h)) \in Nat
  <2>1. Len(got) \in Nat /\ Len(h) \in Nat /\ Len(pipe) \in Nat
    OBVIOUS
  <2>2. Before(Len(got)) \in Nat /\ Before(Len(h)) \in Nat
    BY <2>1, BeforeIs
  <2>3. at \in Nat /\ n \in Nat /\ n <= Len(pipe)
    BY <2>1, ChatAssumption
  <2> QED BY <2>1, <2>2, <2>3
<1> HIDE DEF rest
<1>3. \A k \in 1 .. Len(rest) : k \in 1 .. Len(pipe) /\ rest[k] = pipe[k]
  BY <1>1, <1>2
<1>4. Before(Len(got)) + at + Len(rest) <= Before(Len(h))
  BY <1>1, <1>2 DEF Follows
<1>5. Follows(h, got, buf, at, rest)
  BY <1>3, <1>4 DEF Follows
<1> QED BY <1>5 DEF rest

(* ... and at the start nothing has come.                                  *)
LEMMA FollowsStart ==
  ASSUME NEW h \in Seq(Buffer), NEW got, NEW buf, NEW new, NEW pipe, Follows(h, got, buf, 0, pipe)
  PROVE  Follows(h, got, new, 0, pipe)
BY DEF Follows

LEMMA FollowsNothing ==
  ASSUME NEW buf, NEW sending
  PROVE  /\ Follows(<<>>, <<>>, buf, 0, <<>>) /\ Out(<<>>, 0, sending, -1)
         /\ Before(Len(<<>>)) + 0 + Len(<<>>) = 0
<1>1. Len(<<>>) = 0 /\ Before(0) = 0
  BY BeforeIs
<1>2. Before(Len(<<>>)) = 0 /\ Before(Len(<<>>)) + 0 + Len(<<>>) = 0
  BY <1>1
<1>3. Out(<<>>, 0, sending, -1)
  BY <1>2 DEF Out
<1>4. Follows(<<>>, <<>>, buf, 0, <<>>)
  BY <1>1, <1>2 DEF Follows
<1> QED BY <1>2, <1>3, <1>4

(* One direction of a connection: what has been received follows from what *)
(* was dequeued, and, while the sender p runs, nothing is missing between. *)
Comes(h, got, pipe, runs, p, buf, at) ==
  /\ Follows(h, got, buf, at, pipe)
  /\ runs => Out(h, Before(Len(got)) + at + Len(pipe), p.sending, p.sendAt)

LEMMA ComesSend ==
  ASSUME NEW h \in Seq(Buffer), NEW got \in Seq(Buffer), NEW buf \in Buffer, NEW at \in 0 .. Calls - 1,
         NEW pipe \in Seq(Part), NEW p \in Peers, HasMore(p), Comes(h, got, pipe, TRUE, p, buf, at)
  PROVE  LET g == IF SendIdle(p) THEN Append(h, Top(p.queue)) ELSE h
         IN  g \in Seq(Buffer) /\ Comes(g, got, Append(pipe, NextPart(p)), TRUE, AfterSend(p), buf, at)
<1>1. Follows(h, got, buf, at, pipe) /\ Out(h, Before(Len(got)) + at + Len(pipe), p.sending, p.sendAt)
  BY DEF Comes
<1>2. AfterSend(p) \in Peers /\ NextPart(p) = AfterSend(p).sending[AfterSend(p).sendAt]
  BY AfterSendIs
<1>3. CASE SendIdle(p)
  <2> DEFINE f == Top(p.queue)
             g == Append(h, f)
  <2>1. /\ p.queue # Empty /\ AfterSend(p).sending = f /\ AfterSend(p).sendAt = 1
    BY <1>3, AfterSendIs
  <2>2. f \in Buffer
    BY <2>1, DequeueIs, PeerTyped
  <2>3. Before(Len(got)) + at + Len(pipe) = Before(Len(h))
    BY <1>1, <1>3 DEF Out, SendIdle
  <2> HIDE DEF f
  <2>4. g \in Seq(Buffer) /\ Follows(g, got, buf, at, pipe) /\ Out(g, Before(Len(got)) + at + Len(pipe), f, 0)
    BY <1>1, <2>2, <2>3, FollowsFetch
  <2> HIDE DEF g
  <2>5. 0 \in 0 .. Calls - 1 /\ 0 + 1 = 1
    BY ChatAssumption
  <2>6. /\ Follows(g, got, buf, at, Append(pipe, f[1]))
        /\ Out(g, Before(Len(got)) + at + Len(Append(pipe, f[1])), f, 1)
    BY <2>2, <2>4, <2>5, FollowsSend
  <2>7. NextPart(p) = f[1]
    BY <1>2, <2>1
  <2>8. Comes(g, got, Append(pipe, NextPart(p)), TRUE, AfterSend(p), buf, at)
    BY <2>1, <2>6, <2>7 DEF Comes
  <2> QED BY <1>3, <2>4, <2>8 DEF f, g
<1>4. CASE ~SendIdle(p)
  <2>1. /\ AfterSend(p).sending = p.sending /\ AfterSend(p).sendAt = p.sendAt + 1
        /\ p.sendAt \in 0 .. Calls - 1
    BY <1>4, AfterSendIs
  <2>2. p.sending \in Buffer
    BY PeerTyped
  <2>3. NextPart(p) = p.sending[p.sendAt + 1]
    BY <1>2, <2>1
  <2>4. /\ Follows(h, got, buf, at, Append(pipe, NextPart(p)))
        /\ Out(h, Before(Len(got)) + at + Len(Append(pipe, NextPart(p))), p.sending, p.sendAt + 1)
    BY <1>1, <2>1, <2>2, <2>3, FollowsSend
  <2> QED BY <1>4, <2>1, <2>4 DEF Comes
<1> QED BY <1>3, <1>4

LEMMA ComesRecv ==
  ASSUME NEW h \in Seq(Buffer), NEW got \in Seq(Buffer), NEW pipe \in Seq(Part), pipe # <<>>,
         NEW p \in Peers, NEW runs, NEW s, Comes(h, got, pipe, runs, s, p.recvBuf, p.recvAt)
  PROVE  LET r == AfterRecv(p, Head(pipe))
         IN  /\ Head(pipe) \in Part /\ r \in Peers /\ r.recvBuf \in Buffer
             /\ Len(got) < Len(h) /\ Head(pipe) = h[Len(got) + 1][p.recvAt + 1]
             /\ Comes(h, IF Completes(p) THEN Append(got, r.recvBuf) ELSE got, Tail(pipe), runs, s,
                      r.recvBuf, r.recvAt)
             /\ Completes(p) => r.recvBuf = h[Len(got) + 1]
<1> DEFINE r == AfterRecv(p, Head(pipe))
           full == [p.recvBuf EXCEPT ![p.recvAt + 1] = Head(pipe)]
           more == IF Completes(p) THEN Append(got, r.recvBuf) ELSE got
<1>1. p.recvBuf \in Buffer /\ p.recvAt \in 0 .. Calls - 1
  BY PeerTyped
<1>2. Follows(h, got, p.recvBuf, p.recvAt, pipe)
  BY DEF Comes
<1>3. /\ Head(pipe) \in Part /\ full \in Buffer
      /\ Len(got) < Len(h) /\ Head(pipe) = h[Len(got) + 1][p.recvAt + 1]
      /\ p.recvAt + 1 < Calls => Follows(h, got, full, p.recvAt + 1, Tail(pipe))
      /\ p.recvAt + 1 = Calls => Follows(h, Append(got, full), full, 0, Tail(pipe))
      /\ p.recvAt + 1 = Calls => /\ full = h[Len(got) + 1]
                                 /\ Before(Len(Append(got, full))) = Before(Len(got)) + Calls
      /\ Len(Tail(pipe)) = Len(pipe) - 1
  <2> DEFINE buf == p.recvBuf
             at == p.recvAt
             new == [buf EXCEPT ![at + 1] = Head(pipe)]
  <2>1. buf \in Buffer /\ at \in 0 .. Calls - 1 /\ Follows(h, got, buf, at, pipe)
    BY <1>1, <1>2
  <2> HIDE DEF buf, at
  <2>2. /\ Head(pipe) \in Part /\ new \in Buffer
        /\ Len(got) < Len(h) /\ Head(pipe) = h[Len(got) + 1][at + 1]
        /\ at + 1 < Calls => Follows(h, got, new, at + 1, Tail(pipe))
        /\ at + 1 = Calls => Follows(h, Append(got, new), new, 0, Tail(pipe))
        /\ at + 1 = Calls => /\ new = h[Len(got) + 1]
                             /\ Before(Len(Append(got, new))) = Before(Len(got)) + Calls
        /\ Len(Tail(pipe)) = Len(pipe) - 1
    BY <2>1, FollowsRecv
  <2>3. new = full
    BY DEF buf, at
  <2> HIDE DEF new, full
  <2> QED BY <2>2, <2>3 DEF buf, at
<1>4. /\ r \in Peers /\ r.recvBuf = full
      /\ Completes(p) => r.recvAt = 0
      /\ ~Completes(p) => r.recvAt = p.recvAt + 1 /\ p.recvAt + 1 \in 1 .. Calls - 1
  BY <1>3, AfterRecvIs
<1> HIDE DEF r, full
<1>5. Follows(h, more, r.recvBuf, r.recvAt, Tail(pipe))
  <2>1. CASE Completes(p)
    BY <1>3, <1>4, <2>1 DEF Completes
  <2>2. CASE ~Completes(p)
    <3>1. p.recvAt + 1 < Calls
      BY <1>4, <2>2, ChatAssumption
    <3> QED BY <1>3, <1>4, <2>2, <3>1
  <2> QED BY <2>1, <2>2
<1>6. Before(Len(more)) + r.recvAt + Len(Tail(pipe)) = Before(Len(got)) + p.recvAt + Len(pipe)
  <2>1. Before(Len(got)) \in Nat /\ Len(pipe) \in Nat /\ p.recvAt \in Nat /\ Calls \in Nat
    <3>1. Len(got) \in Nat
      OBVIOUS
    <3>2. Before(Len(got)) \in Nat /\ Calls \in Nat
      BY <3>1, BeforeIs
    <3> QED BY <1>1, <3>2
  <2>2. CASE Completes(p)
    <3>1. Before(Len(more)) = Before(Len(got)) + Calls /\ r.recvAt = 0 /\ p.recvAt + 1 = Calls
      BY <1>3, <1>4, <2>2 DEF Completes
    <3> HIDE DEF more
    <3> QED BY <1>3, <2>1, <3>1
  <2>3. CASE ~Completes(p)
    <3>1. more = got /\ r.recvAt = p.recvAt + 1
      BY <1>4, <2>3
    <3> HIDE DEF more
    <3> QED BY <1>3, <2>1, <3>1
  <2> QED BY <2>2, <2>3
<1>7. Comes(h, more, Tail(pipe), runs, s, r.recvBuf, r.recvAt)
  BY <1>5, <1>6 DEF Comes
<1> QED BY <1>3, <1>4, <1>7 DEF r, Completes

-----------------------------------------------------------------------------
(* From the clients to the server.                                         *)
Printed(got, h) == Len(got) <= Len(h) /\ \A k \in 1 .. Len(got) : got[k] = h[k]

UpInv ==
  /\ \A c \in Clients : Printed(log[c], sent[c])
  /\ \A c \in Clients : link[c] = "queued" =>
        Comes(sent[c], log[c], up[c], cst[c] = "running", cli[c], BlankFrame, 0)
  /\ \A i \in Held : Comes(sent[sock[i]], log[sock[i]], up[sock[i]], cst[sock[i]] = "running",
                           cli[sock[i]], slot[i].recvBuf, slot[i].recvAt)
  /\ \A i \in Held : slot[i].recvAt = 0 /\ log[sock[i]] # << >> =>
        slot[i].recvBuf = log[sock[i]][Len(log[sock[i]])]

LEMMA InitUp == Init => UpInv
BY DEF Init, UpInv, Held, Printed

(* Steps that move no part up.                                             *)
LEMMA SameUp ==
  ASSUME Base, UpInv, UNCHANGED <<sent, log>>,
         \A d \in Clients : /\ link'[d] = "queued" => link[d] = "queued"
                            /\ cst'[d] = "running" => cst[d] = "running"
                            /\ \/ cli'[d].sending = cli[d].sending /\ cli'[d].sendAt = cli[d].sendAt
                               \/ SendIdle(cli[d]) /\ SendIdle(cli'[d])
                               \/ cst'[d] # "running",
         \A d \in Clients : link'[d] = "queued" => up'[d] = up[d],
         \A j \in Held' : /\ j \in Held /\ sock'[j] = sock[j]
                          /\ slot'[j].recvBuf = slot[j].recvBuf /\ slot'[j].recvAt = slot[j].recvAt
                          /\ up'[sock[j]] = up[sock[j]]
  PROVE  UpInv'
<1>1. \A c \in Clients : Printed(log'[c], sent'[c])
  BY DEF UpInv
<1>2. ASSUME NEW d \in Clients, NEW buf, NEW at,
             Comes(sent[d], log[d], up[d], cst[d] = "running", cli[d], buf, at)
      PROVE  Comes(sent[d], log[d], up[d], cst'[d] = "running", cli'[d], buf, at)
  BY <1>2 DEF Comes, Out, SendIdle
<1>3. \A d \in Clients : link'[d] = "queued" =>
         Comes(sent'[d], log'[d], up'[d], cst'[d] = "running", cli'[d], BlankFrame, 0)
  BY <1>2 DEF UpInv
<1>4. ASSUME NEW j \in Held'
      PROVE  /\ Comes(sent'[sock'[j]], log'[sock'[j]], up'[sock'[j]], cst'[sock'[j]] = "running",
                      cli'[sock'[j]], slot'[j].recvBuf, slot'[j].recvAt)
             /\ slot'[j].recvAt = 0 /\ log'[sock'[j]] # << >> =>
                   slot'[j].recvBuf = log'[sock'[j]][Len(log'[sock'[j]])]
  <2>1. /\ j \in Held /\ sock'[j] = sock[j] /\ sock[j] \in Clients
        /\ slot'[j].recvBuf = slot[j].recvBuf /\ slot'[j].recvAt = slot[j].recvAt
        /\ up'[sock[j]] = up[sock[j]]
    BY HeldSlot
  <2>2. Comes(sent[sock[j]], log[sock[j]], up[sock[j]], cst'[sock[j]] = "running",
              cli'[sock[j]], slot[j].recvBuf, slot[j].recvAt)
    BY <1>2, <2>1 DEF UpInv
  <2>3. Comes(sent'[sock'[j]], log'[sock'[j]], up'[sock'[j]], cst'[sock'[j]] = "running",
              cli'[sock'[j]], slot'[j].recvBuf, slot'[j].recvAt)
    BY <2>1, <2>2
  <2> QED BY <2>1, <2>3 DEF UpInv
<1> QED BY <1>1, <1>3, <1>4 DEF UpInv

LEMMA QuietUp ==
  ASSUME Base, UpInv,
         \/ Idles \/ \E n \in Nat : Tells(n)
         \/ \E i \in Slots : Broadcasts(i) \/ EndsSend(i)
         \/ \E i \in Slots, c \in Clients : Closes(i, c) \/ Sends(i, c)
         \/ \E c \in Clients : TurnsAway(c) \/ Hears(c) \/ EndsSpeech(c) \/ \E n \in Nat : Asks(c, n)
         \/ Stops
  PROVE  UpInv'
<1> USE DEF Base
<1>1. UNCHANGED <<sent, log>>
  BY DEF Idles, Tells, Broadcasts, EndsSend, Closes, Sends, TurnsAway, Hears, EndsSpeech, Asks, Stops
<1>2. \A d \in Clients : /\ link'[d] = "queued" => link[d] = "queued"
                         /\ cst'[d] = "running" => cst[d] = "running"
  BY DEF Idles, Tells, Broadcasts, EndsSend, Closes, Sends, TurnsAway, Hears, EndsSpeech, Asks, Stops
<1>3. ASSUME NEW d \in Clients
      PROVE  \/ cli'[d].sending = cli[d].sending /\ cli'[d].sendAt = cli[d].sendAt
             \/ SendIdle(cli[d]) /\ SendIdle(cli'[d])
  <2>1. cli[d] \in Peers
    BY DEF TypeInv
  <2>2. CASE UNCHANGED cli
    BY <2>2
  <2>3. ASSUME NEW c \in Clients, Hears(c)
        PROVE  cli'[d].sending = cli[d].sending /\ cli'[d].sendAt = cli[d].sendAt
    <3>1. cli'[d] = (IF d = c THEN AfterRecv(cli[d], Head(down[d])) ELSE cli[d])
      BY <2>3 DEF Hears
    <3>2. d = c => Head(down[d]) \in Part
      BY <2>3 DEF Hears, TypeInv
    <3> QED BY <2>1, <3>1, <3>2, AfterRecvIs
  <2>4. ASSUME NEW c \in Clients, EndsSpeech(c) PROVE <1>3!2!1 \/ <1>3!2!2
    <3>1. cli'[d] = (IF d = c THEN [cli[d] EXCEPT !.sendAt = -1] ELSE cli[d])
      BY <2>4 DEF EndsSpeech
    <3>2. d = c => SendIdle(cli[d]) /\ SendIdle([cli[d] EXCEPT !.sendAt = -1])
      BY <2>1, <2>4, SendEndIs DEF EndsSpeech, SendIdle
    <3> QED BY <3>1, <3>2
  <2>5. ASSUME NEW c \in Clients, NEW n \in Nat, Asks(c, n)
        PROVE  cli'[d].sending = cli[d].sending /\ cli'[d].sendAt = cli[d].sendAt
    <3>1. cli'[d] = (IF d = c THEN PeerAdd(cli[d], Frame(Line(c, n))) ELSE cli[d])
      BY <2>5 DEF Asks
    <3>2. Frame(Line(c, n)) \in Buffer
      BY FramesTyped, SlotNumbers
    <3> QED BY <2>1, <3>1, <3>2, PeerAddIs
  <2> QED BY <2>2, <2>3, <2>4, <2>5
             DEF Idles, Tells, Broadcasts, EndsSend, Closes, Sends, TurnsAway, Stops
<1>4. \A d \in Clients : link'[d] = "queued" => up'[d] = up[d]
  <2>1. ASSUME NEW i \in Slots, NEW c \in Clients, Closes(i, c), NEW d \in Clients, link'[d] = "queued"
        PROVE  up'[d] = up[d]
    BY <2>1 DEF Closes
  <2> QED BY <2>1 DEF Idles, Tells, Broadcasts, EndsSend, Sends, TurnsAway, Hears, EndsSpeech, Asks, Stops
<1>5. ASSUME NEW j \in Held'
      PROVE  /\ j \in Held /\ sock'[j] = sock[j]
             /\ slot'[j].recvBuf = slot[j].recvBuf /\ slot'[j].recvAt = slot[j].recvAt
             /\ up'[sock[j]] = up[sock[j]]
  <2>1. j \in Slots /\ slot[j] \in Peers
    BY DEF Held, TypeInv
  <2>2. CASE UNCHANGED <<sock, slot, up>> /\ Held' = Held
    BY <2>2
  <2>3. ASSUME NEW n \in Nat, Tells(n) PROVE <1>5!2
    <3>1. Frame(Line(Server, n)) \in Buffer
      BY FramesTyped, SlotNumbers
    <3> QED BY <2>1, <2>3, <3>1, PeerAddIs DEF Tells
  <2>4. ASSUME NEW i \in Slots, Broadcasts(i) PROVE <1>5!2
    <3>1. slot[i].recvBuf \in Buffer
      BY PeerTyped DEF TypeInv
    <3> QED BY <2>1, <2>4, <3>1, PeerAddIs DEF Broadcasts
  <2>5. ASSUME NEW i \in Slots, EndsSend(i) PROVE <1>5!2
    BY <2>1, <2>5, SendEndIs DEF EndsSend
  <2>6. ASSUME NEW i \in Slots, NEW c \in Clients, Closes(i, c) PROVE <1>5!2
    <3>1. j \in Held /\ j # i /\ sock'[j] = sock[j] /\ slot'[j] = slot[j]
      BY <2>1, <2>6 DEF Closes
    <3>2. sock[j] \in Clients /\ sock[j] # c
      BY <2>6, <3>1, HeldSlot DEF Closes, TableInv
    <3>3. up'[sock[j]] = up[sock[j]]
      BY <2>6, <3>2 DEF Closes
    <3> QED BY <3>1, <3>3
  <2>7. ASSUME NEW i \in Slots, NEW c \in Clients, Sends(i, c) PROVE <1>5!2
    BY <2>1, <2>7, AfterSendIs DEF Sends
  <2>8. ASSUME NEW c \in Clients, TurnsAway(c) PROVE <1>5!2
    <3>1. j \in Held /\ sock'[j] = sock[j] /\ slot'[j] = slot[j]
      BY <2>8 DEF TurnsAway
    <3>2. sock[j] \in Clients /\ sock[j] # c
      BY <2>8, <3>1, HeldSlot DEF TurnsAway, TableInv
    <3>3. up'[sock[j]] = up[sock[j]]
      BY <2>8, <3>2 DEF TurnsAway
    <3> QED BY <3>1, <3>3
  <2>9. CASE Stops
    BY <2>9 DEF Stops
  <2> QED BY <2>2, <2>3, <2>4, <2>5, <2>6, <2>7, <2>8, <2>9 DEF Idles, Hears, EndsSpeech, Asks
<1> QED BY <1>1, <1>2, <1>3, <1>4, <1>5, SameUp

LEMMA TakesUp ==
  ASSUME Base, Base', EarlyInv, UpInv, NEW i \in Slots, NEW c \in Clients, Takes(i, c)
  PROVE  UpInv'
<1> USE DEF Base
<1>1. UNCHANGED <<sent, log, up, cst, cli>> /\ link[c] = "queued" /\ i \notin Held /\ Held' = Held \cup {i}
  BY DEF Takes
<1>2. \A d \in Clients : link'[d] = "queued" => link[d] = "queued"
  BY DEF Takes
<1>3. ASSUME NEW j \in Held'
      PROVE  /\ Comes(sent'[sock'[j]], log'[sock'[j]], up'[sock'[j]], cst'[sock'[j]] = "running",
                      cli'[sock'[j]], slot'[j].recvBuf, slot'[j].recvAt)
             /\ slot'[j].recvAt = 0 /\ log'[sock'[j]] # << >> =>
                   slot'[j].recvBuf = log'[sock'[j]][Len(log'[sock'[j]])]
  <2>1. CASE j = i
    <3>1. sock'[j] = c /\ slot'[j] = ResetCursors(slot[j]) /\ slot[j] \in Peers
      BY <2>1 DEF Takes, TypeInv
    <3>2. slot'[j].recvAt = 0
      BY <3>1, ResetIs
    <3>3. Comes(sent[c], log[c], up[c], cst[c] = "running", cli[c], BlankFrame, 0)
      BY <1>1 DEF UpInv
    <3>4. Comes(sent[c], log[c], up[c], cst[c] = "running", cli[c], slot'[j].recvBuf, 0)
      <4>1. sent[c] \in Seq(Buffer)
        BY DEF TypeInv
      <4> QED BY <3>3, <4>1, FollowsStart DEF Comes
    <3>5. log[c] = <<>>
      BY <1>1 DEF EarlyInv
    <3> QED BY <1>1, <3>1, <3>2, <3>4, <3>5
  <2>2. CASE j # i
    <3>1. j \in Held /\ j \in Slots /\ sock'[j] = sock[j] /\ slot'[j] = slot[j]
      BY <1>1, <2>2 DEF Takes, Held
    <3> QED BY <1>1, <3>1 DEF UpInv
  <2> QED BY <2>1, <2>2
<1>4. \A d \in Clients : Printed(log'[d], sent'[d])
  BY <1>1 DEF UpInv
<1>5. \A d \in Clients : link'[d] = "queued" =>
         Comes(sent'[d], log'[d], up'[d], cst'[d] = "running", cli'[d], BlankFrame, 0)
  BY <1>1, <1>2 DEF UpInv
<1> QED BY <1>3, <1>4, <1>5 DEF UpInv

LEMMA ReceivesUp ==
  ASSUME Base, Base', UpInv, NEW i \in Slots, NEW c \in Clients, Receives(i, c)
  PROVE  UpInv'
<1> USE DEF Base
<1>1. /\ UNCHANGED <<sock, sent, cst, cli, link>> /\ i \in Held /\ c = sock[i] /\ Held' = Held
      /\ up[c] # << >> /\ slot[i] \in Peers
      /\ up[c] \in Seq(Part) /\ sent[c] \in Seq(Buffer) /\ log[c] \in Seq(Buffer)
  BY DEF Receives, TypeInv
<1> DEFINE r == AfterRecv(slot[i], Head(up[c]))
           more == IF Completes(slot[i]) THEN Append(log[c], r.recvBuf) ELSE log[c]
<1>2. slot'[i] = r /\ up'[c] = Tail(up[c]) /\ log'[c] = more
  BY DEF Receives
<1>3. \A d \in Clients : d # c => up'[d] = up[d] /\ log'[d] = log[d]
  BY DEF Receives
<1>4. \A j \in Held : j # i => j \in Slots /\ slot'[j] = slot[j] /\ sock[j] # c /\ sock[j] \in Clients
  BY <1>1, HeldSlot DEF Receives, TableInv
<1>5. Comes(sent[c], log[c], up[c], cst[c] = "running", cli[c], slot[i].recvBuf, slot[i].recvAt)
  BY <1>1 DEF UpInv
<1>6. /\ Comes(sent[c], more, Tail(up[c]), cst[c] = "running", cli[c], r.recvBuf, r.recvAt)
      /\ r \in Peers /\ r.recvBuf \in Buffer
  BY <1>1, <1>5, ComesRecv
<1>7. r.recvAt = 0 => Completes(slot[i])
  <2>1. Head(up[c]) \in Part
    BY <1>1
  <2>2. ~Completes(slot[i]) => r.recvAt \in 1 .. Calls - 1
    BY <1>1, <2>1, AfterRecvIs
  <2> HIDE DEF r
  <2> QED BY <2>2
<1> HIDE DEF r
<1>8. Completes(slot[i]) => more # <<>> /\ r.recvBuf = more[Len(more)]
  BY <1>1, <1>6
<1> HIDE DEF r, more
<1>9. Printed(more, sent[c])
  BY <1>6 DEF Comes, Follows, Printed
<1>10. \A d \in Clients : Printed(log'[d], sent'[d])
  BY <1>1, <1>2, <1>3, <1>9 DEF UpInv
<1>11. \A d \in Clients : link'[d] = "queued" =>
         Comes(sent'[d], log'[d], up'[d], cst'[d] = "running", cli'[d], BlankFrame, 0)
  <2>1. link[c] # "queued"
    BY <1>1 DEF TableInv
  <2> QED BY <1>1, <1>3, <2>1 DEF UpInv
<1>12. ASSUME NEW j \in Held'
       PROVE  /\ Comes(sent'[sock'[j]], log'[sock'[j]], up'[sock'[j]], cst'[sock'[j]] = "running",
                       cli'[sock'[j]], slot'[j].recvBuf, slot'[j].recvAt)
              /\ slot'[j].recvAt = 0 /\ log'[sock'[j]] # << >> =>
                    slot'[j].recvBuf = log'[sock'[j]][Len(log'[sock'[j]])]
  <2>1. CASE j = i
    BY <1>1, <1>2, <1>6, <1>7, <1>8, <2>1
  <2>2. CASE j # i
    BY <1>1, <1>3, <1>4, <2>2 DEF UpInv
  <2> QED BY <2>1, <2>2
<1> QED BY <1>10, <1>11, <1>12 DEF UpInv

LEMMA JoinsUp ==
  ASSUME Base, Base', EarlyInv, UpInv, NEW c \in Clients, Joins(c)
  PROVE  UpInv'
<1> USE DEF Base
<1>1. UNCHANGED <<sock, slot, cli, up, sent, log>> /\ link[c] = "none" /\ Held' = Held
  BY DEF Joins
<1>2. sent[c] = <<>> /\ log[c] = <<>> /\ up[c] = <<>> /\ cli[c].sendAt = -1
  BY <1>1 DEF EarlyInv
<1>3. Comes(sent[c], log[c], up[c], TRUE, cli[c], BlankFrame, 0)
  BY <1>2, FollowsNothing DEF Comes
<1>4. \A d \in Clients : d # c => cst'[d] = cst[d] /\ link'[d] = link[d]
  BY DEF Joins
<1>5. cst'[c] = "running"
  BY DEF Joins
<1>6. \A d \in Clients : link'[d] = "queued" =>
         Comes(sent'[d], log'[d], up'[d], cst'[d] = "running", cli'[d], BlankFrame, 0)
  BY <1>1, <1>3, <1>4, <1>5 DEF UpInv
<1>7. \A j \in Held : sock[j] \in Clients /\ sock[j] # c
  BY <1>1, HeldSlot DEF TableInv
<1>8. ASSUME NEW j \in Held'
      PROVE  /\ Comes(sent'[sock'[j]], log'[sock'[j]], up'[sock'[j]], cst'[sock'[j]] = "running",
                      cli'[sock'[j]], slot'[j].recvBuf, slot'[j].recvAt)
             /\ slot'[j].recvAt = 0 /\ log'[sock'[j]] # << >> =>
                   slot'[j].recvBuf = log'[sock'[j]][Len(log'[sock'[j]])]
  BY <1>1, <1>4, <1>7 DEF UpInv
<1>9. \A d \in Clients : Printed(log'[d], sent'[d])
  BY <1>1 DEF UpInv
<1> QED BY <1>6, <1>8, <1>9 DEF UpInv

LEMMA LeavesUp ==
  ASSUME Base, Base', UpInv, NEW c \in Clients, Leaves(c)
  PROVE  UpInv'
<1> USE DEF Base
<1>1. UNCHANGED <<sock, slot, link, sent, log>> /\ Held' = Held
  BY DEF Leaves
<1>2. PICK k \in 0 .. Len(up[c]) :
         \A d \in Clients : up'[d] = IF d = c THEN SubSeq(up[d], 1, k) ELSE up[d]
  BY DEF Leaves
<1>3. /\ cst'[c] # "running"
      /\ \A d \in Clients : d # c => (cst'[d] = "running" <=> cst[d] = "running") /\ cli'[d] = cli[d]
  BY DEF Leaves
<1>4. /\ sent[c] \in Seq(Buffer) /\ log[c] \in Seq(Buffer) /\ up[c] \in Seq(Part)
  BY DEF TypeInv
<1>5. ASSUME NEW d \in Clients, NEW buf \in Buffer, NEW at \in 0 .. Calls - 1,
             Comes(sent[d], log[d], up[d], cst[d] = "running", cli[d], buf, at)
      PROVE  Comes(sent[d], log[d], up'[d], cst'[d] = "running", cli'[d], buf, at)
  <2>1. CASE d = c
    <3>1. Follows(sent[c], log[c], buf, at, up[c])
      BY <1>5, <2>1 DEF Comes
    <3>2. Follows(sent[c], log[c], buf, at, SubSeq(up[c], 1, k))
      BY <1>4, <3>1, FollowsCut
    <3> QED BY <1>2, <1>3, <2>1, <3>2 DEF Comes
  <2>2. CASE d # c
    <3>1. up'[d] = up[d] /\ (cst'[d] = "running" <=> cst[d] = "running") /\ cli'[d] = cli[d]
      BY <1>2, <1>3, <2>2
    <3> QED BY <1>5, <3>1 DEF Comes
  <2> QED BY <2>1, <2>2
<1>6. \A d \in Clients : link'[d] = "queued" =>
         Comes(sent'[d], log'[d], up'[d], cst'[d] = "running", cli'[d], BlankFrame, 0)
  <2>1. BlankFrame \in Buffer /\ 0 \in 0 .. Calls - 1
    BY FramesTyped, ChatAssumption
  <2> QED BY <1>1, <1>5, <2>1 DEF UpInv
<1>7. ASSUME NEW j \in Held'
      PROVE  /\ Comes(sent'[sock'[j]], log'[sock'[j]], up'[sock'[j]], cst'[sock'[j]] = "running",
                      cli'[sock'[j]], slot'[j].recvBuf, slot'[j].recvAt)
             /\ slot'[j].recvAt = 0 /\ log'[sock'[j]] # << >> =>
                   slot'[j].recvBuf = log'[sock'[j]][Len(log'[sock'[j]])]
  <2>1. j \in Held /\ sock[j] \in Clients /\ slot[j].recvBuf \in Buffer /\ slot[j].recvAt \in 0 .. Calls - 1
    BY <1>1, HeldSlot, PeerTyped
  <2>2. Comes(sent[sock[j]], log[sock[j]], up[sock[j]], cst[sock[j]] = "running",
              cli[sock[j]], slot[j].recvBuf, slot[j].recvAt)
    BY <2>1 DEF UpInv
  <2>3. Comes(sent[sock[j]], log[sock[j]], up'[sock[j]], cst'[sock[j]] = "running",
              cli'[sock[j]], slot[j].recvBuf, slot[j].recvAt)
    BY <1>5, <2>1, <2>2
  <2> QED BY <1>1, <2>1, <2>3 DEF UpInv
<1>8. \A d \in Clients : Printed(log'[d], sent'[d])
  BY <1>1 DEF UpInv
<1> QED BY <1>6, <1>7, <1>8 DEF UpInv

LEMMA SpeaksUp ==
  ASSUME Base, Base', UpInv, NEW c \in Clients, Speaks(c)
  PROVE  UpInv'
<1> USE DEF Base
<1>1. /\ UNCHANGED <<sock, slot, link, log, cst>> /\ Held' = Held
      /\ HasMore(cli[c]) /\ cli[c] \in Peers /\ cst[c] = "running"
      /\ sent[c] \in Seq(Buffer) /\ log[c] \in Seq(Buffer) /\ up[c] \in Seq(Part)
  BY DEF Speaks, TypeInv
<1> DEFINE g == IF SendIdle(cli[c]) THEN Append(sent[c], Top(cli[c].queue)) ELSE sent[c]
<1>2. /\ sent'[c] = g /\ cli'[c] = AfterSend(cli[c])
      /\ link[c] # "closed" => up'[c] = Append(up[c], NextPart(cli[c]))
      /\ \A d \in Clients : d # c => sent'[d] = sent[d] /\ cli'[d] = cli[d] /\ up'[d] = up[d]
  BY DEF Speaks
<1>3. ASSUME NEW buf \in Buffer, NEW at \in 0 .. Calls - 1,
             Comes(sent[c], log[c], up[c], TRUE, cli[c], buf, at)
      PROVE  Comes(g, log[c], Append(up[c], NextPart(cli[c])), TRUE, AfterSend(cli[c]), buf, at)
  BY <1>1, <1>3, ComesSend
<1>4. Printed(log[c], g)
  <2>1. Printed(log[c], sent[c])
    BY DEF UpInv
  <2>2. CASE SendIdle(cli[c])
    <3>1. Top(cli[c].queue) \in Buffer
      BY <1>1, <2>2, AfterSendIs, DequeueIs, PeerTyped
    <3>2. g = Append(sent[c], Top(cli[c].queue))
      BY <2>2
    <3>3. Len(g) = Len(sent[c]) + 1 /\ \A k \in 1 .. Len(sent[c]) : g[k] = sent[c][k]
      BY <1>1, <3>1, <3>2
    <3> HIDE DEF g
    <3> QED BY <1>1, <2>1, <3>3 DEF Printed
  <2>3. CASE ~SendIdle(cli[c])
    BY <2>1, <2>3
  <2> QED BY <2>2, <2>3
<1> HIDE DEF g
<1>5. \A d \in Clients : link'[d] = "queued" =>
         Comes(sent'[d], log'[d], up'[d], cst'[d] = "running", cli'[d], BlankFrame, 0)
  <2>1. BlankFrame \in Buffer /\ 0 \in 0 .. Calls - 1
    BY FramesTyped, ChatAssumption
  <2>2. link[c] = "queued" =>
          Comes(g, log[c], Append(up[c], NextPart(cli[c])), TRUE, AfterSend(cli[c]), BlankFrame, 0)
    <3>1. link[c] = "queued" => Comes(sent[c], log[c], up[c], TRUE, cli[c], BlankFrame, 0)
      BY <1>1 DEF UpInv
    <3> QED BY <1>3, <2>1, <3>1
  <2>3. CASE link[c] = "queued"
    BY <1>1, <1>2, <2>2, <2>3 DEF UpInv
  <2>4. CASE link[c] # "queued"
    BY <1>1, <1>2, <2>4 DEF UpInv
  <2> QED BY <2>3, <2>4
<1>6. ASSUME NEW j \in Held'
      PROVE  /\ Comes(sent'[sock'[j]], log'[sock'[j]], up'[sock'[j]], cst'[sock'[j]] = "running",
                      cli'[sock'[j]], slot'[j].recvBuf, slot'[j].recvAt)
             /\ slot'[j].recvAt = 0 /\ log'[sock'[j]] # << >> =>
                   slot'[j].recvBuf = log'[sock'[j]][Len(log'[sock'[j]])]
  <2>1. j \in Held /\ sock[j] \in Clients /\ slot[j].recvBuf \in Buffer /\ slot[j].recvAt \in 0 .. Calls - 1
    BY <1>1, HeldSlot, PeerTyped
  <2>2. Comes(sent[sock[j]], log[sock[j]], up[sock[j]], cst[sock[j]] = "running",
              cli[sock[j]], slot[j].recvBuf, slot[j].recvAt)
    BY <2>1 DEF UpInv
  <2>3. CASE sock[j] = c
    <3>1. link[c] # "closed"
      BY <2>1, <2>3 DEF TableInv
    <3>2. Comes(sent[c], log[c], up[c], TRUE, cli[c], slot[j].recvBuf, slot[j].recvAt)
      BY <1>1, <2>2, <2>3
    <3>3. Comes(g, log[c], Append(up[c], NextPart(cli[c])), TRUE, AfterSend(cli[c]),
                slot[j].recvBuf, slot[j].recvAt)
      BY <1>3, <2>1, <3>2
    <3>4. sock'[j] = c /\ slot'[j] = slot[j] /\ cst'[c] = "running" /\ log' = log
          /\ up'[c] = Append(up[c], NextPart(cli[c])) /\ sent'[c] = g /\ cli'[c] = AfterSend(cli[c])
      BY <1>1, <1>2, <2>3, <3>1
    <3> QED BY <2>1, <2>3, <3>3, <3>4 DEF UpInv
  <2>4. CASE sock[j] # c
    BY <1>1, <1>2, <2>1, <2>2, <2>4 DEF UpInv
  <2> QED BY <2>3, <2>4
<1>7. \A d \in Clients : Printed(log'[d], sent'[d])
  BY <1>1, <1>2, <1>4 DEF UpInv
<1> QED BY <1>5, <1>6, <1>7 DEF UpInv

LEMMA NextUp == ASSUME Base, Base', EarlyInv, UpInv, [Next]_vars PROVE UpInv'
BY StepIs, QuietUp, TakesUp, ReceivesUp, JoinsUp, LeavesUp, SpeaksUp DEF SrvDoes, CliDoes

(* What comes up to the server follows from what was dequeued: the         *)
(* inductive invariant.                                                    *)
THEOREM UpHolds == Spec => [](Base /\ EarlyInv /\ UpInv)
<1>1. Init => Base /\ EarlyInv /\ UpInv
  BY InitBase, InitEarly, InitUp
<1>2. Base /\ EarlyInv /\ UpInv /\ [Next]_vars => (Base /\ EarlyInv /\ UpInv)'
  BY NextBase, NextEarly, NextUp
<1> QED BY <1>1, <1>2, PTL DEF Spec

(* What the server prints of a client is what it dequeued, message by      *)
(* message: slots handed on in mid-message, cursors reset, pipes cut short *)
(* by a reset put no part out of place.                                    *)
THEOREM PrintsWhatWasSent == Spec => []LogIsSent
<1>1. Base /\ EarlyInv /\ UpInv => LogIsSent
  BY DEF UpInv, Printed, LogIsSent
<1> QED BY UpHolds, <1>1, PTL

(* A receive call that ends between messages has the client's last message *)
(* in the buffer that it broadcasts, whole.                                *)
THEOREM BroadcastsWhole == Spec => []WholeAtBoundary
<1>1. Base /\ EarlyInv /\ UpInv => WholeAtBoundary
  BY DEF UpInv, WholeAtBoundary
<1> QED BY UpHolds, <1>1, PTL

-----------------------------------------------------------------------------
(* From the server to the clients.                                         *)

(* Buffers with parts in their places only, and those of them in which a   *)
(* part of an operator's line comes with the rest of that line.            *)
Placed == {f \in Buffer : \A q \in 1 .. Calls : f[q].pos \in {0, q}}
ServerPart(f) == \E q \in 1 .. Calls : f[q].msg.from = Server
Whole == {f \in Placed : ServerPart(f) => f = Frame(f[1].msg)}

(* No line of the operator comes twice in s, or in s and t, and none is    *)
(* newer than line n.                                                      *)
Once(s) == \A j, k \in 1 .. Len(s) : j # k /\ ServerPart(s[j]) => s[j] # s[k]
Apart(s, t) == \A j \in 1 .. Len(s), k \in 1 .. Len(t) : ServerPart(s[j]) => s[j] # t[k]
Upto(s, n) == \A j \in 1 .. Len(s) : ServerPart(s[j]) => s[j][1].msg.n <= n
Sound(s, n) == Within(s, Whole) /\ Once(s) /\ Upto(s, n)

LEMMA SeqIs ==
  ASSUME NEW S, NEW s \in Seq(Buffer), Within(s, S)
  PROVE  /\ \A f \in Buffer : f \in S => Within(Append(s, f), S)
         /\ s # Empty => Within(Dequeue(s), S) /\ Top(s) \in S
         /\ Within(Empty, S)
<1>1. ASSUME NEW f \in Buffer, f \in S PROVE Within(Append(s, f), S)
  BY <1>1 DEF Within
<1>2. ASSUME s # Empty PROVE Within(Dequeue(s), S) /\ Top(s) \in S
  <2>1. /\ Len(s) \in Nat \ {0} /\ Top(s) = s[Len(s)] /\ Len(Dequeue(s)) = Len(s) - 1
        /\ \A k \in 1 .. Len(s) - 1 : Dequeue(s)[k] = s[k]
    BY <1>2, DequeueIs
  <2> QED BY <2>1 DEF Within
<1>3. Within(Empty, S)
  BY DEF Within, Empty
<1> QED BY <1>1, <1>2, <1>3

(* The numbers of lines are numbers.                                       *)
LEMMA NumberOf == ASSUME NEW f \in Buffer PROVE f[1] \in Part /\ f[1].msg.n \in Nat
<1>1. f[1] \in Part
  BY ChatAssumption DEF Buffer
<1> QED BY <1>1 DEF Part, Message, Blank

(* Frames of lines.                                                        *)
LEMMA LinePlaced ==
  ASSUME NEW t \in Senders, NEW n \in Nat
  PROVE  /\ Frame(Line(t, n)) \in Whole /\ Frame(Line(t, n)) \in Placed
         /\ Frame(Line(t, n))[1].msg.n = n
<1>1. /\ Frame(Line(t, n)) \in Buffer
      /\ \A q \in 1 .. Calls : Frame(Line(t, n))[q].pos = q /\ Frame(Line(t, n))[q].msg.n = n
  BY LineFrom
<1>2. 1 \in 1 .. Calls /\ Frame(Line(t, n))[1].msg = Line(t, n)
  BY ChatAssumption DEF Frame
<1> QED BY <1>1, <1>2 DEF Placed, Whole

LEMMA SoundAdd ==
  ASSUME NEW s \in Seq(Buffer), NEW m \in Nat, Sound(s, m), NEW f \in Whole, NEW n \in Nat, m <= n,
         ServerPart(f) => f[1].msg.n > m /\ f[1].msg.n <= n
  PROVE  Sound(s, n) /\ Sound(Append(s, f), n)
<1> DEFINE g == Append(s, f)
<1>1. f \in Buffer
  BY DEF Whole, Placed
<1>2. /\ Len(s) \in Nat /\ Len(g) = Len(s) + 1 /\ g[Len(s) + 1] = f
      /\ \A k \in 1 .. Len(s) : g[k] = s[k] /\ s[k] \in Buffer
  BY <1>1
<1>3. Within(g, Whole)
  BY <1>1, SeqIs DEF Sound
<1>4. \A k \in 1 .. Len(s) : ServerPart(s[k]) => s[k][1].msg.n <= m /\ s[k][1].msg.n \in Nat
  BY <1>2, NumberOf DEF Sound, Upto
<1>5. f[1].msg.n \in Nat
  BY <1>1, NumberOf
<1>6. \A k \in 1 .. Len(s) : ServerPart(s[k]) \/ ServerPart(f) => s[k] # f
  <2> TAKE k \in 1 .. Len(s)
  <2> SUFFICES ASSUME s[k] = f, ServerPart(f) PROVE FALSE
    OBVIOUS
  <2>1. f[1].msg.n <= m
    BY <1>4
  <2> QED BY <1>5, <2>1
<1> HIDE DEF g
<1>7. \A k \in 1 .. Len(g) : k \in 1 .. Len(s) \/ k = Len(s) + 1
  BY <1>2
<1>8. Once(g)
  <2> SUFFICES ASSUME NEW j \in 1 .. Len(g), NEW k \in 1 .. Len(g), j # k, ServerPart(g[j])
               PROVE  g[j] # g[k]
    BY DEF Once
  <2>1. CASE j \in 1 .. Len(s) /\ k \in 1 .. Len(s)
    <3>1. g[j] = s[j] /\ g[k] = s[k]
      BY <1>2, <2>1
    <3> QED BY <2>1, <3>1 DEF Sound, Once
  <2>2. CASE j \in 1 .. Len(s) /\ k = Len(s) + 1
    <3>1. g[j] = s[j] /\ g[k] = f
      BY <1>2, <2>2
    <3> QED BY <1>6, <2>2, <3>1
  <2>3. CASE j = Len(s) + 1 /\ k \in 1 .. Len(s)
    <3>1. g[j] = f /\ g[k] = s[k]
      BY <1>2, <2>3
    <3> QED BY <1>6, <2>3, <3>1
  <2> QED BY <1>7, <2>1, <2>2, <2>3
<1>9. Upto(g, n)
  <2> SUFFICES ASSUME NEW k \in 1 .. Len(g), ServerPart(g[k]) PROVE g[k][1].msg.n <= n
    BY DEF Upto
  <2>1. CASE k \in 1 .. Len(s)
    <3>1. g[k] = s[k]
      BY <1>2, <2>1
    <3>2. s[k][1].msg.n <= m /\ s[k][1].msg.n \in Nat
      BY <1>4, <2>1, <3>1
    <3> QED BY <3>1, <3>2
  <2>2. CASE k = Len(s) + 1
    <3>1. g[k] = f
      BY <1>2, <2>2
    <3> QED BY <3>1
  <2> QED BY <1>7, <2>1, <2>2
<1>10. Upto(s, n)
  BY <1>4 DEF Upto
<1> QED BY <1>3, <1>8, <1>9, <1>10 DEF Sound, g

LEMMA SoundLater ==
  ASSUME NEW s \in Seq(Buffer), NEW m \in Nat, Sound(s, m), NEW n \in Nat, m <= n
  PROVE  Sound(s, n)
<1>1. \A k \in 1 .. Len(s) : s[k] \in Buffer
  OBVIOUS
<1>2. \A k \in 1 .. Len(s) : ServerPart(s[k]) => s[k][1].msg.n <= m /\ s[k][1].msg.n \in Nat
  BY <1>1, NumberOf DEF Sound, Upto
<1> QED BY <1>2 DEF Sound, Upto

LEMMA SoundEmpty == ASSUME NEW n, NEW s PROVE Sound(<<>>, n) /\ Sound(Empty, n) /\ Apart(<<>>, s)
BY DEF Sound, Within, Once, Upto, Apart, Empty

(* The head of the send loop: the newest of q goes to the end of h.        *)
LEMMA SoundTake ==
  ASSUME NEW q \in Seq(Buffer), q # Empty, NEW n \in Nat, Sound(q, n),
         NEW h \in Seq(Buffer), Sound(h, n), Apart(h, q)
  PROVE  /\ Sound(Dequeue(q), n)
         /\ Sound(Append(h, Top(q)), n) /\ Apart(Append(h, Top(q)), Dequeue(q))
<1> DEFINE f == Top(q)
           r == Dequeue(q)
           g == Append(h, f)
<1>1. /\ Len(q) \in Nat \ {0} /\ f = q[Len(q)] /\ Len(r) = Len(q) - 1 /\ f \in Buffer
      /\ \A k \in 1 .. Len(q) - 1 : r[k] = q[k]
  BY DequeueIs
<1>2. Within(r, Whole) /\ f \in Whole
  BY SeqIs DEF Sound
<1> HIDE DEF f, r
<1>3. \A k \in 1 .. Len(r) : k \in 1 .. Len(q) /\ k # Len(q) /\ r[k] = q[k]
  BY <1>1
<1>4. Len(q) \in 1 .. Len(q)
  BY <1>1
<1>5. Sound(r, n)
  <2>1. Once(r)
    BY <1>3 DEF Sound, Once
  <2>2. Upto(r, n)
    BY <1>3 DEF Sound, Upto
  <2> QED BY <1>2, <2>1, <2>2 DEF Sound
<1>6. ServerPart(f) => f[1].msg.n <= n /\ \A k \in 1 .. Len(r) : f # r[k]
  BY <1>1, <1>3, <1>4 DEF Sound, Once, Upto
<1>7. \A k \in 1 .. Len(h) : ServerPart(h[k]) \/ ServerPart(f) => h[k] # f
  BY <1>1, <1>4 DEF Apart
<1>8. /\ Len(h) \in Nat /\ Len(g) = Len(h) + 1 /\ g[Len(h) + 1] = f
      /\ \A k \in 1 .. Len(h) : g[k] = h[k]
  BY <1>1
<1>9. Within(g, Whole)
  BY <1>1, <1>2, SeqIs DEF Sound
<1> HIDE DEF g
<1>10. \A k \in 1 .. Len(g) : (k \in 1 .. Len(h) /\ g[k] = h[k]) \/ (k = Len(h) + 1 /\ g[k] = f)
  BY <1>8
<1>11. Once(g)
  <2> SUFFICES ASSUME NEW j \in 1 .. Len(g), NEW k \in 1 .. Len(g), j # k, ServerPart(g[j])
               PROVE  g[j] # g[k]
    BY DEF Once
  <2>1. CASE j \in 1 .. Len(h) /\ k \in 1 .. Len(h)
    BY <1>8, <2>1 DEF Sound, Once
  <2>2. CASE ~(j \in 1 .. Len(h) /\ k \in 1 .. Len(h))
    BY <1>7, <1>10, <2>2
  <2> QED BY <2>1, <2>2
<1>12. Upto(g, n)
  BY <1>6, <1>10 DEF Sound, Upto
<1>13. Apart(g, r)
  <2> SUFFICES ASSUME NEW j \in 1 .. Len(g), NEW k \in 1 .. Len(r), ServerPart(g[j])
               PROVE  g[j] # r[k]
    BY DEF Apart
  <2>1. CASE j \in 1 .. Len(h) /\ g[j] = h[j]
    BY <1>3, <2>1 DEF Apart
  <2>2. CASE g[j] = f
    BY <1>6, <2>2
  <2> QED BY <1>10, <2>1, <2>2
<1> QED BY <1>5, <1>9, <1>11, <1>12, <1>13 DEF Sound, f, r, g

(* The part of a sequence that was handled is like the whole of it.        *)
LEMMA PrintedIs ==
  ASSUME NEW h \in Seq(Buffer), NEW got \in Seq(Buffer), Printed(got, h), Within(h, Whole), Once(h)
  PROVE  Within(got, Whole) /\ Once(got)
<1>1. Len(got) \in Nat /\ Len(h) \in Nat /\ Len(got) <= Len(h)
  BY DEF Printed
<1>2. \A k \in 1 .. Len(got) : k \in 1 .. Len(h) /\ got[k] = h[k]
  BY <1>1 DEF Printed
<1> QED BY <1>2 DEF Within, Once

-----------------------------------------------------------------------------
(* Parts stay in their places on the way to the server, and so in the      *)
(* receiving buffers that it broadcasts.                                   *)
PlacedInv == /\ \A c \in Clients : Within(cli[c].queue, Placed) /\ Within(sent[c], Placed)
             /\ \A i \in Slots : slot[i].recvBuf \in Placed

(* Queues hold the operator's lines whole, and each once.                  *)
QueueInv == \A i \in Held : Sound(slot[i].queue, lines[Server])

(* What a screen shows, and what will come to it; of a client that has a   *)
(* slot, with what its slot still has to send.                             *)
Shown(scr, pipe, p) ==
  \E h \in Seq(Buffer) : Within(h, Whole) /\ Once(h) /\ Follows(h, scr, p.recvBuf, p.recvAt, pipe)
Tied(n, s, scr, pipe, p) ==
  \E h \in Seq(Buffer) : Sound(h, n) /\ Apart(h, s.queue) /\ Comes(h, scr, pipe, TRUE, s, p.recvBuf, p.recvAt)

ShownInv == /\ \A c \in Clients : Within(screen[c], Whole) /\ Once(screen[c])
            /\ \A c \in Clients : cst[c] = "running" => Shown(screen[c], down[c], cli[c])
TiedInv == \A i \in Held : cst[sock[i]] = "running" =>
              Tied(lines[Server], slot[i], screen[sock[i]], down[sock[i]], cli[sock[i]])

DownInv == PlacedInv /\ QueueInv /\ ShownInv /\ TiedInv

LEMMA InitDown == Init => DownInv
<1> SUFFICES ASSUME Init PROVE DownInv
  OBVIOUS
<1>1. BlankFrame \in Placed
  BY FramesTyped, BlankFrom DEF Placed
<1>2. PlacedInv
  BY <1>1, FreshTyped DEF Init, PlacedInv, Within, Empty
<1>3. Held = {}
  BY DEF Init, Held
<1>4. ShownInv
  BY DEF Init, ShownInv, Within, Once
<1> QED BY <1>2, <1>3, <1>4 DEF DownInv, QueueInv, TiedInv

(* Messages that broadcasts and terminals add.                             *)
LEMMA TiedAdd ==
  ASSUME NEW m \in Nat, NEW n \in Nat, m <= n, NEW s \in Peers, NEW scr, NEW pipe, NEW p,
         NEW f \in Buffer, ServerPart(f) => f[1].msg.n > m,
         Tied(m, s, scr, pipe, p)
  PROVE  Tied(n, PeerAdd(s, f), scr, pipe, p)
<1>1. PICK h \in Seq(Buffer) : /\ Sound(h, m) /\ Apart(h, s.queue)
                               /\ Comes(h, scr, pipe, TRUE, s, p.recvBuf, p.recvAt)
  BY DEF Tied
<1>2. Sound(h, n)
  BY <1>1, SoundLater
<1>3. /\ PeerAdd(s, f).queue \in {s.queue, Append(s.queue, f)} /\ s.queue \in Seq(Buffer)
      /\ PeerAdd(s, f).sending = s.sending /\ PeerAdd(s, f).sendAt = s.sendAt
  BY PeerAddIs, PeerTyped
<1>4. Comes(h, scr, pipe, TRUE, PeerAdd(s, f), p.recvBuf, p.recvAt)
  BY <1>1, <1>3 DEF Comes
<1>5. \A j \in 1 .. Len(h) : ServerPart(h[j]) => h[j] # f
  <2> SUFFICES ASSUME NEW j \in 1 .. Len(h), ServerPart(f), h[j] = f PROVE FALSE
    OBVIOUS
  <2>1. f[1].msg.n <= m
    BY <1>1 DEF Sound, Upto
  <2>2. f[1].msg.n \in Nat
    BY NumberOf
  <2> QED BY <2>1, <2>2
<1>6. Apart(h, Append(s.queue, f))
  <2> SUFFICES ASSUME NEW j \in 1 .. Len(h), NEW k \in 1 .. Len(Append(s.queue, f)), ServerPart(h[j])
               PROVE  h[j] # Append(s.queue, f)[k]
    BY DEF Apart
  <2>1. Append(s.queue, f)[k] = f \/ (k \in 1 .. Len(s.queue) /\ Append(s.queue, f)[k] = s.queue[k])
    BY <1>3
  <2> QED BY <1>1, <1>5, <2>1 DEF Apart
<1>7. Apart(h, PeerAdd(s, f).queue)
  BY <1>1, <1>3, <1>6
<1> QED BY <1>2, <1>4, <1>7 DEF Tied

(* The send loop.                                                          *)
LEMMA TiedSend ==
  ASSUME NEW n \in Nat, NEW s \in Peers, HasMore(s), Sound(s.queue, n),
         NEW scr \in Seq(Buffer), NEW pipe \in Seq(Part), NEW p \in Peers,
         Tied(n, s, scr, pipe, p)
  PROVE  Tied(n, AfterSend(s), scr, Append(pipe, NextPart(s)), p)
<1>1. PICK h \in Seq(Buffer) : /\ Sound(h, n) /\ Apart(h, s.queue)
                               /\ Comes(h, scr, pipe, TRUE, s, p.recvBuf, p.recvAt)
  BY DEF Tied
<1> DEFINE g == IF SendIdle(s) THEN Append(h, Top(s.queue)) ELSE h
<1>2. p.recvBuf \in Buffer /\ p.recvAt \in 0 .. Calls - 1 /\ s.queue \in Seq(Buffer)
  BY PeerTyped
<1>3. g \in Seq(Buffer) /\ Comes(g, scr, Append(pipe, NextPart(s)), TRUE, AfterSend(s), p.recvBuf, p.recvAt)
  BY <1>1, <1>2, ComesSend
<1>4. Sound(g, n) /\ Apart(g, AfterSend(s).queue)
  <2>1. CASE SendIdle(s)
    <3>1. s.queue # Empty /\ AfterSend(s).queue = Dequeue(s.queue)
      BY <2>1, AfterSendIs
    <3>2. Sound(Append(h, Top(s.queue)), n) /\ Apart(Append(h, Top(s.queue)), Dequeue(s.queue))
      BY <1>1, <1>2, <3>1, SoundTake
    <3> QED BY <2>1, <3>1, <3>2
  <2>2. CASE ~SendIdle(s)
    BY <1>1, <2>2, AfterSendIs
  <2> QED BY <2>1, <2>2
<1> HIDE DEF g
<1> QED BY <1>3, <1>4 DEF Tied

(* The receive loop.                                                       *)
LEMMA TiedRecv ==
  ASSUME NEW n, NEW s, NEW scr \in Seq(Buffer), NEW pipe \in Seq(Part), pipe # <<>>, NEW p \in Peers,
         Tied(n, s, scr, pipe, p)
  PROVE  LET r == AfterRecv(p, Head(pipe))
         IN  Tied(n, s, IF Completes(p) THEN Append(scr, r.recvBuf) ELSE scr, Tail(pipe), r)
<1> DEFINE r == AfterRecv(p, Head(pipe))
           more == IF Completes(p) THEN Append(scr, r.recvBuf) ELSE scr
<1>1. PICK h \in Seq(Buffer) : /\ Sound(h, n) /\ Apart(h, s.queue)
                               /\ Comes(h, scr, pipe, TRUE, s, p.recvBuf, p.recvAt)
  BY DEF Tied
<1>2. Comes(h, more, Tail(pipe), TRUE, s, r.recvBuf, r.recvAt)
  BY <1>1, ComesRecv
<1> HIDE DEF r, more
<1>3. Tied(n, s, more, Tail(pipe), r)
  BY <1>1, <1>2 DEF Tied
<1> QED BY <1>3 DEF r, more

LEMMA ShownRecv ==
  ASSUME NEW scr \in Seq(Buffer), NEW pipe \in Seq(Part), pipe # <<>>, NEW p \in Peers,
         Shown(scr, pipe, p)
  PROVE  LET r == AfterRecv(p, Head(pipe))
             more == IF Completes(p) THEN Append(scr, r.recvBuf) ELSE scr
         IN  Shown(more, Tail(pipe), r) /\ Within(more, Whole) /\ Once(more)
<1> DEFINE r == AfterRecv(p, Head(pipe))
           more == IF Completes(p) THEN Append(scr, r.recvBuf) ELSE scr
<1>1. PICK h \in Seq(Buffer) : /\ Within(h, Whole) /\ Once(h)
                               /\ Follows(h, scr, p.recvBuf, p.recvAt, pipe)
  BY DEF Shown
<1>2. Comes(h, scr, pipe, FALSE, p, p.recvBuf, p.recvAt)
  BY <1>1 DEF Comes
<1>3. Comes(h, more, Tail(pipe), FALSE, p, r.recvBuf, r.recvAt) /\ r.recvBuf \in Buffer
  BY <1>2, ComesRecv
<1>4. more \in Seq(Buffer)
  BY <1>3
<1> HIDE DEF r, more
<1>5. Follows(h, more, r.recvBuf, r.recvAt, Tail(pipe)) /\ Printed(more, h)
  BY <1>3 DEF Comes, Follows, Printed
<1>6. Within(more, Whole) /\ Once(more)
  BY <1>1, <1>4, <1>5, PrintedIs
<1>7. Shown(more, Tail(pipe), r)
  BY <1>1, <1>5 DEF Shown
<1> QED BY <1>6, <1>7 DEF r, more

(* What counts of the peers.                                               *)
LEMMA TiedSame ==
  ASSUME NEW n, NEW s, NEW t, NEW scr, NEW pipe, NEW p, NEW r, Tied(n, s, scr, pipe, p),
         t.queue = s.queue, t.sending = s.sending, t.sendAt = s.sendAt \/ (SendIdle(s) /\ SendIdle(t)),
         r.recvBuf = p.recvBuf, r.recvAt = p.recvAt
  PROVE  Tied(n, t, scr, pipe, r)
<1>1. PICK h \in Seq(Buffer) : /\ Sound(h, n) /\ Apart(h, s.queue)
                               /\ Comes(h, scr, pipe, TRUE, s, p.recvBuf, p.recvAt)
  BY DEF Tied
<1>2. Comes(h, scr, pipe, TRUE, t, r.recvBuf, r.recvAt)
  BY <1>1 DEF Comes, Out, SendIdle
<1>3. Apart(h, t.queue)
  BY <1>1
<1> QED BY <1>1, <1>2, <1>3 DEF Tied

LEMMA TiedShown ==
  ASSUME NEW n, NEW s, NEW scr, NEW pipe, NEW p, Tied(n, s, scr, pipe, p)
  PROVE  Shown(scr, pipe, p)
BY DEF Tied, Shown, Sound, Comes

LEMMA TiedNew ==
  ASSUME NEW n, NEW s, s.sendAt = -1, NEW p, p.recvAt = 0
  PROVE  Tied(n, s, <<>>, <<>>, p) /\ Shown(<<>>, <<>>, p)
<1>1. <<>> \in Seq(Buffer)
  OBVIOUS
<1>2. Sound(<<>>, n) /\ Apart(<<>>, s.queue)
  BY SoundEmpty
<1>3. Comes(<<>>, <<>>, <<>>, TRUE, s, p.recvBuf, 0)
  BY FollowsNothing DEF Comes
<1>4. Tied(n, s, <<>>, <<>>, p)
  BY <1>1, <1>2, <1>3 DEF Tied
<1> QED BY <1>4, TiedShown

(* Parts in a buffer with parts in their places.                           *)
LEMMA PlacedRecv ==
  ASSUME NEW p \in Peers, NEW part \in Part, part.pos \in {0, p.recvAt + 1}, p.recvBuf \in Placed
  PROVE  AfterRecv(p, part).recvBuf \in Placed
<1>1. /\ AfterRecv(p, part).recvBuf = [p.recvBuf EXCEPT ![p.recvAt + 1] = part]
      /\ AfterRecv(p, part).recvBuf \in Buffer
  BY AfterRecvIs
<1>2. p.recvBuf \in [1 .. Calls -> Part]
  BY PeerTyped DEF Buffer
<1>3. \A q \in 1 .. Calls : AfterRecv(p, part).recvBuf[q] = IF q = p.recvAt + 1 THEN part ELSE p.recvBuf[q]
  BY <1>1, <1>2
<1> QED BY <1>1, <1>3 DEF Placed

LEMMA NextPlaced == ASSUME Base, Base', UpInv, PlacedInv, [Next]_vars PROVE PlacedInv'
<1> USE DEF Base
<1>1. Idles \/ SrvDoes \/ CliDoes
  BY StepIs
<1>2. BlankFrame \in Placed
  BY FramesTyped, BlankFrom DEF Placed
<1>3. \A i \in Slots : slot'[i].recvBuf \in Placed
  <2>1. CASE \A j \in Slots : slot'[j].recvBuf \in {slot[j].recvBuf, BlankFrame}
    BY <1>2, <2>1 DEF PlacedInv
  <2>2. ASSUME NEW i \in Slots, NEW c \in Clients, Receives(i, c)
        PROVE  \A j \in Slots : slot'[j].recvBuf \in Placed
    <3>1. /\ i \in Held /\ c = sock[i] /\ up[c] # << >> /\ slot[i] \in Peers
          /\ up[c] \in Seq(Part) /\ sent[c] \in Seq(Buffer) /\ log[c] \in Seq(Buffer)
      BY <2>2 DEF Receives, TypeInv
    <3>2. Comes(sent[c], log[c], up[c], cst[c] = "running", cli[c], slot[i].recvBuf, slot[i].recvAt)
      BY <3>1 DEF UpInv
    <3>3. /\ Head(up[c]) \in Part /\ Len(log[c]) < Len(sent[c])
          /\ Head(up[c]) = sent[c][Len(log[c]) + 1][slot[i].recvAt + 1]
      BY <3>1, <3>2, ComesRecv
    <3>4. slot[i].recvAt + 1 \in 1 .. Calls
      BY <3>1, PeerTyped, ChatAssumption
    <3>5. sent[c][Len(log[c]) + 1] \in Placed
      <4>1. Len(log[c]) + 1 \in 1 .. Len(sent[c])
        BY <3>1, <3>3
      <4> QED BY <4>1 DEF PlacedInv, Within
    <3>6. Head(up[c]).pos \in {0, slot[i].recvAt + 1}
      BY <3>3, <3>4, <3>5 DEF Placed
    <3>7. AfterRecv(slot[i], Head(up[c])).recvBuf \in Placed
      BY <3>1, <3>3, <3>6, PlacedRecv DEF PlacedInv
    <3> QED BY <2>2, <3>7 DEF Receives, PlacedInv
  <2> QED BY <1>1, <2>1, <2>2, SameBuffers
<1>4. ASSUME NEW d \in Clients PROVE Within(cli'[d].queue, Placed) /\ Within(sent'[d], Placed)
  <2>1. /\ cli[d] \in Peers /\ cli[d].queue \in Seq(Buffer) /\ sent[d] \in Seq(Buffer)
        /\ Within(cli[d].queue, Placed) /\ Within(sent[d], Placed)
    BY PeerTyped DEF TypeInv, PlacedInv
  <2>2. CASE UNCHANGED <<cli, sent>>
    BY <2>1, <2>2
  <2>3. ASSUME NEW c \in Clients, Leaves(c) PROVE <1>4!2
    BY <2>1, <2>3, SeqIs, FreshTyped DEF Leaves
  <2>4. ASSUME NEW c \in Clients, NEW n \in Nat, Asks(c, n) PROVE <1>4!2
    <3>1. /\ Frame(Line(c, n)) \in Buffer /\ Frame(Line(c, n)) \in Placed
      BY FramesTyped, LinePlaced, SlotNumbers
    <3>2. /\ PeerAdd(cli[d], Frame(Line(c, n))).queue \in {cli[d].queue, Append(cli[d].queue, Frame(Line(c, n)))}
      BY <2>1, <3>1, PeerAddIs
    <3>3. Within(Append(cli[d].queue, Frame(Line(c, n))), Placed)
      BY <2>1, <3>1, SeqIs
    <3> QED BY <2>1, <2>4, <3>2, <3>3 DEF Asks
  <2>5. ASSUME NEW c \in Clients, Hears(c) PROVE <1>4!2
    <3>1. cli'[d] = (IF d = c THEN AfterRecv(cli[d], Head(down[d])) ELSE cli[d]) /\ sent' = sent
      BY <2>5 DEF Hears
    <3>2. d = c => Head(down[d]) \in Part
      BY <2>5 DEF Hears, TypeInv
    <3>3. d = c => AfterRecv(cli[d], Head(down[d])).queue = cli[d].queue
      BY <2>1, <3>2, AfterRecvIs
    <3> QED BY <2>1, <3>1, <3>3
  <2>6. ASSUME NEW c \in Clients, Speaks(c) PROVE <1>4!2
    <3>1. CASE d # c
      BY <2>1, <2>6, <3>1 DEF Speaks
    <3>2. CASE d = c /\ SendIdle(cli[c])
      <4>1. /\ cli'[d] = AfterSend(cli[d]) /\ sent'[d] = Append(sent[d], Top(cli[d].queue)) /\ HasMore(cli[d])
        BY <2>6, <3>2 DEF Speaks
      <4>2. AfterSend(cli[d]).queue = Dequeue(cli[d].queue) /\ cli[d].queue # Empty
        BY <2>1, <3>2, <4>1, AfterSendIs
      <4>3. Top(cli[d].queue) \in Buffer
        BY <2>1, <4>2, DequeueIs
      <4>4. Within(Dequeue(cli[d].queue), Placed) /\ Top(cli[d].queue) \in Placed
        BY <2>1, <4>2, SeqIs
      <4>5. Within(Append(sent[d], Top(cli[d].queue)), Placed)
        BY <2>1, <4>3, <4>4, SeqIs
      <4> QED BY <4>1, <4>2, <4>4, <4>5
    <3>3. CASE d = c /\ ~SendIdle(cli[c])
      <4>1. cli'[d] = AfterSend(cli[d]) /\ sent'[d] = sent[d] /\ HasMore(cli[d])
        BY <2>6, <3>3 DEF Speaks
      <4> QED BY <2>1, <3>3, <4>1, AfterSendIs
    <3> QED BY <3>1, <3>2, <3>3
  <2>7. ASSUME NEW c \in Clients, EndsSpeech(c) PROVE <1>4!2
    <3>1. cli'[d] = (IF d = c THEN [cli[d] EXCEPT !.sendAt = -1] ELSE cli[d]) /\ sent' = sent
      BY <2>7 DEF EndsSpeech
    <3>2. d = c => [cli[d] EXCEPT !.sendAt = -1].queue = cli[d].queue
      BY <2>1, <2>7, SendEndIs DEF EndsSpeech
    <3> QED BY <2>1, <3>1, <3>2
  <2> QED BY <1>1, <2>2, <2>3, <2>4, <2>5, <2>6, <2>7
          DEF Idles, SrvDoes, CliDoes, Tells, Takes, TurnsAway, Receives, Broadcasts, Closes, Stops, Sends,
              EndsSend, Joins
<1> QED BY <1>3, <1>4 DEF PlacedInv

(* A buffer that is broadcast has no part of an operator's line.           *)
LEMMA NotOfServer ==
  ASSUME MetInv, PlacedInv, Base, NEW i \in Slots
  PROVE  slot[i].recvBuf \in Buffer /\ slot[i].recvBuf \in Whole /\ ~ServerPart(slot[i].recvBuf)
<1>1. slot[i].recvBuf \in Buffer
  BY PeerTyped DEF Base, TypeInv
<1>2. ~ServerPart(slot[i].recvBuf)
  BY SlotNumbers DEF MetInv, Met, ServerPart
<1> QED BY <1>1, <1>2 DEF Whole, PlacedInv

LEMMA NextQueue ==
  ASSUME Base, Base', EarlyInv, MetInv, PlacedInv, QueueInv, [Next]_vars
  PROVE  QueueInv'
<1> USE DEF Base
<1>1. Idles \/ SrvDoes \/ CliDoes
  BY StepIs
<1> SUFFICES ASSUME NEW j \in Held' PROVE Sound(slot'[j].queue, lines'[Server])
  BY DEF QueueInv
<1>2. /\ j \in Slots /\ slot[j] \in Peers /\ slot[j].queue \in Seq(Buffer)
      /\ lines[Server] \in Nat
      /\ j \in Held => Sound(slot[j].queue, lines[Server])
  BY PeerTyped, SlotNumbers DEF Held, TypeInv, QueueInv
<1>3. CASE Idles \/ CliDoes
  <2>1. slot' = slot /\ lines'[Server] = lines[Server] /\ Held' = Held
    BY <1>3 DEF Idles, CliDoes, Joins, Leaves, Hears, Speaks, EndsSpeech, Asks
  <2> QED BY <1>2, <2>1
<1>4. ASSUME NEW n \in Nat, Tells(n) PROVE Sound(slot'[j].queue, lines'[Server])
  <2> DEFINE f == Frame(Line(Server, n))
  <2>1. /\ f \in Buffer /\ f \in Whole /\ f[1].msg.n = n
    BY FramesTyped, LinePlaced, SlotNumbers
  <2> HIDE DEF f
  <2>2. PeerAdd(slot[j], f).queue \in {slot[j].queue, Append(slot[j].queue, f)}
    BY <1>2, <2>1, PeerAddIs
  <2>3. j \in Held /\ slot'[j] = PeerAdd(slot[j], f) /\ lines[Server] < n /\ lines'[Server] = n
    BY <1>2, <1>4 DEF Tells, f
  <2>4. Sound(slot[j].queue, n) /\ Sound(Append(slot[j].queue, f), n)
    <3>1. lines[Server] <= n /\ f[1].msg.n > lines[Server] /\ f[1].msg.n <= n
      BY <1>2, <2>1, <2>3
    <3>2. Sound(slot[j].queue, lines[Server])
      BY <1>2, <2>3
    <3> QED BY <1>2, <2>1, <3>1, <3>2, SoundAdd
  <2> QED BY <2>2, <2>3, <2>4
<1>5. ASSUME NEW i \in Slots, NEW c \in Clients, Takes(i, c) PROVE Sound(slot'[j].queue, lines'[Server])
  <2>1. CASE j = i
    <3>1. slot[j].queue = Empty
      BY <1>2, <1>5, <2>1 DEF Takes, EarlyInv
    <3>2. slot'[j].queue = Empty
      BY <1>2, <1>5, <2>1, <3>1, ResetIs DEF Takes
    <3> QED BY <3>2, SoundEmpty
  <2>2. CASE j # i
    BY <1>2, <1>5, <2>2 DEF Takes
  <2> QED BY <2>1, <2>2
<1>6. ASSUME NEW c \in Clients, TurnsAway(c) PROVE Sound(slot'[j].queue, lines'[Server])
  BY <1>2, <1>6 DEF TurnsAway
<1>7. ASSUME NEW i \in Slots, NEW c \in Clients, Receives(i, c) PROVE Sound(slot'[j].queue, lines'[Server])
  <2>1. j \in Held /\ lines' = lines /\ slot'[j] = (IF j = i THEN AfterRecv(slot[j], Head(up[c])) ELSE slot[j])
    BY <1>2, <1>7 DEF Receives
  <2>2. Head(up[c]) \in Part
    BY <1>7 DEF Receives, TypeInv
  <2>3. AfterRecv(slot[j], Head(up[c])).queue = slot[j].queue
    BY <1>2, <2>2, AfterRecvIs
  <2> QED BY <1>2, <2>1, <2>3
<1>8. ASSUME NEW i \in Slots, Broadcasts(i) PROVE Sound(slot'[j].queue, lines'[Server])
  <2> DEFINE f == slot[i].recvBuf
  <2>1. f \in Buffer /\ f \in Whole /\ ~ServerPart(f)
    BY NotOfServer
  <2>2. /\ j \in Held /\ lines' = lines
        /\ slot'[j] = IF j \in Held \ {i} THEN PeerAdd(slot[j], f) ELSE slot[j]
    BY <1>2, <1>8 DEF Broadcasts
  <2> HIDE DEF f
  <2>3. PeerAdd(slot[j], f).queue \in {slot[j].queue, Append(slot[j].queue, f)}
    BY <1>2, <2>1, PeerAddIs
  <2>4. Sound(Append(slot[j].queue, f), lines[Server])
    <3>1. lines[Server] <= lines[Server]
      BY <1>2
    <3>2. Sound(slot[j].queue, lines[Server])
      BY <1>2, <2>2
    <3> QED BY <1>2, <2>1, <3>1, <3>2, SoundAdd
  <2> QED BY <1>2, <2>2, <2>3, <2>4
<1>9. ASSUME NEW i \in Slots, NEW c \in Clients, Closes(i, c) PROVE Sound(slot'[j].queue, lines'[Server])
  BY <1>2, <1>9 DEF Closes
<1>10. CASE Stops
  BY <1>10 DEF Stops
<1>11. ASSUME NEW i \in Slots, NEW c \in Clients, Sends(i, c) PROVE Sound(slot'[j].queue, lines'[Server])
  <2>1. /\ j \in Held /\ lines' = lines /\ slot'[j] = (IF j = i THEN AfterSend(slot[j]) ELSE slot[j])
        /\ j = i => HasMore(slot[j])
    BY <1>2, <1>11 DEF Sends
  <2>2. CASE j = i /\ SendIdle(slot[j])
    <3>1. slot[j].queue # Empty /\ AfterSend(slot[j]).queue = Dequeue(slot[j].queue)
      BY <1>2, <2>1, <2>2, AfterSendIs
    <3>2. <<>> \in Seq(Buffer) /\ Sound(<<>>, lines[Server]) /\ Apart(<<>>, slot[j].queue)
      BY SoundEmpty
    <3>3. Sound(Dequeue(slot[j].queue), lines[Server])
      BY <1>2, <2>1, <3>1, <3>2, SoundTake
    <3> QED BY <2>1, <2>2, <3>1, <3>3
  <2>3. CASE j = i /\ ~SendIdle(slot[j])
    BY <1>2, <2>1, <2>3, AfterSendIs
  <2>4. CASE j # i
    BY <1>2, <2>1, <2>4
  <2> QED BY <2>2, <2>3, <2>4
<1>12. ASSUME NEW i \in Slots, EndsSend(i) PROVE Sound(slot'[j].queue, lines'[Server])
  <2>1. /\ j \in Held /\ lines' = lines
        /\ slot'[j] = IF j = i THEN [slot[j] EXCEPT !.sendAt = -1] ELSE slot[j]
        /\ j = i => ~HasMore(slot[j])
    BY <1>2, <1>12 DEF EndsSend
  <2>2. j = i => [slot[j] EXCEPT !.sendAt = -1].queue = slot[j].queue
    BY <1>2, <2>1, SendEndIs
  <2> QED BY <1>2, <2>1, <2>2
<1> QED BY <1>1, <1>3, <1>4, <1>5, <1>6, <1>7, <1>8, <1>9, <1>10, <1>11, <1>12 DEF SrvDoes

(* What the slots of running clients still have to send: ...               *)
LEMMA SrvTied ==
  ASSUME Base, Base', EarlyInv, MetInv, PlacedInv, QueueInv, TiedInv, Idles \/ SrvDoes
  PROVE  TiedInv'
<1> USE DEF Base
<1> SUFFICES ASSUME NEW j \in Held', cst'[sock'[j]] = "running"
             PROVE  Tied(lines'[Server], slot'[j], screen'[sock'[j]], down'[sock'[j]], cli'[sock'[j]])
  BY DEF TiedInv
<1> DEFINE Goal == Tied(lines'[Server], slot'[j], screen'[sock'[j]], down'[sock'[j]], cli'[sock'[j]])
<1>1. /\ j \in Slots /\ slot[j] \in Peers /\ lines[Server] \in Nat
      /\ j \in Held /\ cst[sock[j]] = "running" =>
            Tied(lines[Server], slot[j], screen[sock[j]], down[sock[j]], cli[sock[j]])
  BY SlotNumbers DEF Held, TypeInv, TiedInv
<1>2. j \in Held => sock[j] \in Clients
  BY HeldSlot
<1>3. CASE Idles
  BY <1>1, <1>2, <1>3 DEF Idles
<1>4. ASSUME NEW n \in Nat, Tells(n) PROVE Goal
  <2> DEFINE f == Frame(Line(Server, n))
  <2>1. f \in Buffer /\ f[1].msg.n = n
    BY FramesTyped, LinePlaced, SlotNumbers
  <2> HIDE DEF f
  <2>2. /\ j \in Held /\ slot'[j] = PeerAdd(slot[j], f) /\ lines[Server] < n /\ lines'[Server] = n
        /\ UNCHANGED <<sock, screen, down, cli, cst>>
    BY <1>1, <1>4 DEF Tells, f
  <2>3. lines[Server] <= n /\ f[1].msg.n > lines[Server]
    BY <1>1, <2>1, <2>2
  <2>4. Tied(n, PeerAdd(slot[j], f), screen[sock[j]], down[sock[j]], cli[sock[j]])
    BY <1>1, <2>1, <2>2, <2>3, TiedAdd
  <2> QED BY <2>2, <2>4
<1>5. ASSUME NEW i \in Slots, NEW c \in Clients, Takes(i, c) PROVE Goal
  <2>1. UNCHANGED <<cst, cli, down, lines, screen>>
    BY <1>5 DEF Takes
  <2>2. CASE j = i
    <3>1. sock'[j] = c /\ slot'[j] = ResetCursors(slot[j]) /\ link[c] = "queued"
      BY <1>1, <1>5, <2>2 DEF Takes
    <3>2. slot'[j].sendAt = -1
      BY <1>1, <3>1, ResetIs
    <3>3. screen[c] = <<>> /\ down[c] = <<>> /\ cli[c].recvAt = 0
      BY <3>1 DEF EarlyInv
    <3>4. Tied(lines[Server], slot'[j], <<>>, <<>>, cli[c])
      BY <3>2, <3>3, TiedNew
    <3> QED BY <2>1, <3>1, <3>3, <3>4
  <2>3. CASE j # i
    <3>1. j \in Held /\ sock'[j] = sock[j] /\ slot'[j] = slot[j]
      BY <1>1, <1>5, <2>3 DEF Takes
    <3> QED BY <1>1, <2>1, <3>1
  <2> QED BY <2>2, <2>3
<1>6. ASSUME NEW c \in Clients, TurnsAway(c) PROVE Goal
  BY <1>1, <1>6 DEF TurnsAway
<1>7. ASSUME NEW i \in Slots, NEW c \in Clients, Receives(i, c) PROVE Goal
  <2>1. /\ j \in Held /\ UNCHANGED <<sock, lines, screen, down, cli, cst>>
        /\ slot'[j] = IF j = i THEN AfterRecv(slot[j], Head(up[c])) ELSE slot[j]
    BY <1>1, <1>7 DEF Receives
  <2>2. Head(up[c]) \in Part
    BY <1>7 DEF Receives, TypeInv
  <2>3. /\ slot'[j].queue = slot[j].queue /\ slot'[j].sending = slot[j].sending
        /\ slot'[j].sendAt = slot[j].sendAt
    BY <1>1, <2>1, <2>2, AfterRecvIs
  <2>4. Tied(lines[Server], slot[j], screen[sock[j]], down[sock[j]], cli[sock[j]])
    BY <1>1, <2>1
  <2>5. Tied(lines[Server], slot'[j], screen[sock[j]], down[sock[j]], cli[sock[j]])
    BY <2>3, <2>4, TiedSame
  <2> QED BY <2>1, <2>5
<1>8. ASSUME NEW i \in Slots, Broadcasts(i) PROVE Goal
  <2> DEFINE f == slot[i].recvBuf
  <2>1. f \in Buffer /\ ~ServerPart(f)
    BY NotOfServer
  <2>2. /\ j \in Held /\ UNCHANGED <<sock, lines, screen, down, cli, cst>>
        /\ slot'[j] = IF j \in Held \ {i} THEN PeerAdd(slot[j], f) ELSE slot[j]
    BY <1>1, <1>8 DEF Broadcasts
  <2> HIDE DEF f
  <2>3. lines[Server] <= lines[Server]
    BY <1>1
  <2>4. Tied(lines[Server], slot[j], screen[sock[j]], down[sock[j]], cli[sock[j]])
    BY <1>1, <2>2
  <2>5. Tied(lines[Server], PeerAdd(slot[j], f), screen[sock[j]], down[sock[j]], cli[sock[j]])
    BY <1>1, <2>1, <2>3, <2>4, TiedAdd
  <2> QED BY <2>2, <2>4, <2>5
<1>9. ASSUME NEW i \in Slots, NEW c \in Clients, Closes(i, c) PROVE Goal
  BY <1>1, <1>9 DEF Closes
<1>10. CASE Stops
  BY <1>10 DEF Stops
<1>11. ASSUME NEW i \in Slots, NEW c \in Clients, Sends(i, c) PROVE Goal
  <2>1. /\ j \in Held /\ i \in Held /\ c = sock[i] /\ HasMore(slot[i])
        /\ UNCHANGED <<sock, lines, screen, cli, cst>>
        /\ slot'[j] = IF j = i THEN AfterSend(slot[j]) ELSE slot[j]
    BY <1>1, <1>11 DEF Sends
  <2>2. Tied(lines[Server], slot[j], screen[sock[j]], down[sock[j]], cli[sock[j]])
    BY <1>1, <2>1
  <2>3. CASE j = i
    <3>1. down'[c] = Append(down[c], NextPart(slot[i]))
      BY <1>11, <2>1, <2>3 DEF Sends
    <3>2. Sound(slot[i].queue, lines[Server])
      BY <2>1 DEF QueueInv
    <3>3. /\ screen[c] \in Seq(Buffer) /\ down[c] \in Seq(Part) /\ cli[c] \in Peers /\ slot[i] \in Peers
      BY DEF TypeInv
    <3>4. Tied(lines[Server], slot[i], screen[c], down[c], cli[c])
      BY <2>1, <2>2, <2>3
    <3>5. Tied(lines[Server], AfterSend(slot[i]), screen[c], Append(down[c], NextPart(slot[i])), cli[c])
      BY <1>1, <2>1, <3>2, <3>3, <3>4, TiedSend
    <3> QED BY <2>1, <2>3, <3>1, <3>5
  <2>4. CASE j # i
    <3>1. sock[j] \in Clients /\ sock[j] # c
      BY <1>2, <2>1, <2>4 DEF TableInv
    <3>2. down'[sock[j]] = down[sock[j]]
      BY <1>11, <3>1 DEF Sends
    <3> QED BY <2>1, <2>2, <2>4, <3>2
  <2> QED BY <2>3, <2>4
<1>12. ASSUME NEW i \in Slots, EndsSend(i) PROVE Goal
  <2>1. /\ j \in Held /\ UNCHANGED <<sock, lines, screen, down, cli, cst>>
        /\ slot'[j] = IF j = i THEN [slot[j] EXCEPT !.sendAt = -1] ELSE slot[j]
        /\ j = i => ~HasMore(slot[j])
    BY <1>1, <1>12 DEF EndsSend
  <2>2. /\ slot'[j].queue = slot[j].queue /\ slot'[j].sending = slot[j].sending
        /\ slot'[j].sendAt = slot[j].sendAt \/ (SendIdle(slot[j]) /\ SendIdle(slot'[j]))
    <3>1. CASE j = i
      <4>1. slot'[j] = [slot[j] EXCEPT !.sendAt = -1] /\ ~HasMore(slot[j])
        BY <2>1, <3>1
      <4> QED BY <1>1, <4>1, SendEndIs DEF SendIdle
    <3>2. CASE j # i
      BY <2>1, <3>2
    <3> QED BY <3>1, <3>2
  <2>3. Tied(lines[Server], slot[j], screen[sock[j]], down[sock[j]], cli[sock[j]])
    BY <1>1, <2>1
  <2>4. Tied(lines[Server], slot'[j], screen[sock[j]], down[sock[j]], cli[sock[j]])
    BY <2>2, <2>3, TiedSame
  <2> QED BY <2>1, <2>4
<1> QED BY <1>3, <1>4, <1>5, <1>6, <1>7, <1>8, <1>9, <1>10, <1>11, <1>12 DEF SrvDoes

(* A client types and sends: its receiving side stays.                     *)
LEMMA RecvSideStays ==
  ASSUME Base, NEW c \in Clients, Speaks(c) \/ EndsSpeech(c) \/ \E n \in Nat : Asks(c, n), NEW d \in Clients
  PROVE  /\ UNCHANGED <<sock, slot, cst, down, screen>> /\ Held' = Held /\ lines'[Server] = lines[Server]
         /\ cli'[d].recvBuf = cli[d].recvBuf /\ cli'[d].recvAt = cli[d].recvAt
<1>1. cli[d] \in Peers
  BY DEF Base, TypeInv
<1>2. CASE Speaks(c)
  BY <1>1, <1>2, AfterSendIs DEF Speaks
<1>3. CASE EndsSpeech(c)
  <2>1. cli'[d] = (IF d = c THEN [cli[d] EXCEPT !.sendAt = -1] ELSE cli[d])
    BY <1>3 DEF EndsSpeech
  <2>2. d = c => /\ [cli[d] EXCEPT !.sendAt = -1].recvBuf = cli[d].recvBuf
                 /\ [cli[d] EXCEPT !.sendAt = -1].recvAt = cli[d].recvAt
    BY <1>1, <1>3, SendEndIs DEF EndsSpeech
  <2> QED BY <1>3, <2>1, <2>2 DEF EndsSpeech
<1>4. ASSUME NEW n \in Nat, Asks(c, n)
      PROVE  /\ UNCHANGED <<sock, slot, cst, down, screen>> /\ Held' = Held /\ lines'[Server] = lines[Server]
             /\ cli'[d].recvBuf = cli[d].recvBuf /\ cli'[d].recvAt = cli[d].recvAt
  <2>1. Frame(Line(c, n)) \in Buffer
    BY FramesTyped, SlotNumbers
  <2>2. /\ PeerAdd(cli[d], Frame(Line(c, n))).recvBuf = cli[d].recvBuf
        /\ PeerAdd(cli[d], Frame(Line(c, n))).recvAt = cli[d].recvAt
    BY <1>1, <2>1, PeerAddIs
  <2> QED BY <1>4, <2>2 DEF Asks
<1> QED BY <1>2, <1>3, <1>4

(* ... and with what comes from the clients.                               *)
LEMMA CliTied ==
  ASSUME Base, Base', EarlyInv, TiedInv, CliDoes
  PROVE  TiedInv'
<1> USE DEF Base
<1> SUFFICES ASSUME NEW j \in Held', cst'[sock'[j]] = "running"
             PROVE  Tied(lines'[Server], slot'[j], screen'[sock'[j]], down'[sock'[j]], cli'[sock'[j]])
  BY DEF TiedInv
<1> DEFINE Goal == Tied(lines'[Server], slot'[j], screen'[sock'[j]], down'[sock'[j]], cli'[sock'[j]])
<1>1. /\ UNCHANGED <<sock, slot>> /\ Held' = Held /\ lines'[Server] = lines[Server]
  BY DEF CliDoes, Joins, Leaves, Hears, Speaks, EndsSpeech, Asks
<1> DEFINE d == sock[j]
<1>2. j \in Held /\ d \in Clients /\ cst'[d] = "running" /\ link[d] \in {"open", "reset"}
  BY <1>1, HeldSlot DEF TableInv
<1>3. cst[d] = "running" => Tied(lines[Server], slot[j], screen[d], down[d], cli[d])
  BY <1>2 DEF TiedInv
<1>4. Tied(lines[Server], slot[j], screen'[d], down'[d], cli'[d]) => Goal
  BY <1>1
<1> HIDE DEF d, Goal
<1>5. ASSUME NEW c \in Clients, Joins(c) PROVE Goal
  <2>1. d # c /\ UNCHANGED <<screen, down, cli>>
    BY <1>2, <1>5 DEF Joins
  <2>2. cst[d] = "running"
    BY <1>2, <1>5, <2>1 DEF Joins
  <2> QED BY <1>3, <1>4, <2>1, <2>2
<1>6. ASSUME NEW c \in Clients, Leaves(c) PROVE Goal
  BY <1>2, <1>3, <1>4, <1>6 DEF Leaves
<1>7. ASSUME NEW c \in Clients, Hears(c) PROVE Goal
  <2>1. CASE d = c
    <3> DEFINE r == AfterRecv(cli[c], Head(down[c]))
               more == IF Completes(cli[c]) THEN Append(screen[c], r.recvBuf) ELSE screen[c]
    <3>1. /\ down[c] # <<>> /\ cst[c] = "running"
          /\ down'[c] = Tail(down[c]) /\ cli'[c] = r /\ screen'[c] = more
      BY <1>7 DEF Hears
    <3>2. screen[c] \in Seq(Buffer) /\ down[c] \in Seq(Part) /\ cli[c] \in Peers
      BY DEF TypeInv
    <3>3. Tied(lines[Server], slot[j], screen[c], down[c], cli[c])
      BY <1>3, <2>1, <3>1
    <3>4. Tied(lines[Server], slot[j], more, Tail(down[c]), r)
      BY <3>1, <3>2, <3>3, TiedRecv
    <3> QED BY <1>4, <2>1, <3>1, <3>4
  <2>2. CASE d # c
    BY <1>2, <1>3, <1>4, <1>7, <2>2 DEF Hears
  <2> QED BY <2>1, <2>2
<1>8. ASSUME NEW c \in Clients, Speaks(c) \/ EndsSpeech(c) \/ \E n \in Nat : Asks(c, n) PROVE Goal
  <2>1. /\ UNCHANGED <<cst, down, screen>>
        /\ cli'[d].recvBuf = cli[d].recvBuf /\ cli'[d].recvAt = cli[d].recvAt
    BY <1>2, <1>8, RecvSideStays
  <2>2. Tied(lines[Server], slot[j], screen[d], down[d], cli[d])
    BY <1>2, <1>3, <2>1
  <2>3. Tied(lines[Server], slot[j], screen[d], down[d], cli'[d])
    BY <2>1, <2>2, TiedSame
  <2> QED BY <1>4, <2>1, <2>3
<1> QED BY <1>5, <1>6, <1>7, <1>8 DEF CliDoes, Goal

(* What is shown is whole, and will be.                                    *)
LEMMA ShownSame ==
  ASSUME NEW scr, NEW pipe, NEW p, NEW r, Shown(scr, pipe, p),
         r.recvBuf = p.recvBuf, r.recvAt = p.recvAt
  PROVE  Shown(scr, pipe, r)
BY DEF Shown

LEMMA NextShown ==
  ASSUME Base, Base', EarlyInv, ShownInv, TiedInv', [Next]_vars
  PROVE  ShownInv'
<1> USE DEF Base
<1>1. Idles \/ SrvDoes \/ CliDoes
  BY StepIs
<1> SUFFICES ASSUME NEW d \in Clients
             PROVE  /\ Within(screen'[d], Whole) /\ Once(screen'[d])
                    /\ cst'[d] = "running" => Shown(screen'[d], down'[d], cli'[d])
  BY DEF ShownInv
<1> DEFINE Goal == /\ Within(screen'[d], Whole) /\ Once(screen'[d])
                   /\ cst'[d] = "running" => Shown(screen'[d], down'[d], cli'[d])
<1>2. /\ Within(screen[d], Whole) /\ Once(screen[d])
      /\ cst[d] = "running" => Shown(screen[d], down[d], cli[d])
  BY DEF ShownInv
<1> HIDE DEF Goal
<1>3. ASSUME screen' = screen, down' = down, cli' = cli, cst'[d] = "running" => cst[d] = "running"
      PROVE  Goal
  BY <1>2, <1>3 DEF Goal
<1>4. ASSUME NEW i \in Slots, NEW c \in Clients, Sends(i, c) PROVE Goal
  <2>1. UNCHANGED <<screen, cst, cli, sock>> /\ i \in Held /\ i \in Held' /\ c = sock[i]
    BY <1>4 DEF Sends
  <2>2. CASE d = c
    <3>1. cst'[d] = "running" => Tied(lines'[Server], slot'[i], screen'[d], down'[d], cli'[d])
      BY <2>1, <2>2 DEF TiedInv
    <3>2. cst'[d] = "running" => Shown(screen'[d], down'[d], cli'[d])
      BY <3>1, TiedShown
    <3> QED BY <1>2, <2>1, <3>2 DEF Goal
  <2>3. CASE d # c
    <3>1. down'[d] = down[d]
      BY <1>4, <2>3 DEF Sends
    <3> QED BY <1>2, <2>1, <3>1 DEF Goal
  <2> QED BY <2>2, <2>3
<1>5. ASSUME NEW c \in Clients, Joins(c) PROVE Goal
  <2>1. UNCHANGED <<screen, down, cli>> /\ link[c] = "none"
    BY <1>5 DEF Joins
  <2>2. CASE d = c
    <3>1. screen[d] = <<>> /\ down[d] = <<>> /\ cli[d].recvAt = 0
      BY <2>1, <2>2 DEF EarlyInv
    <3>2. cli[d].recvAt = 0 => Shown(<<>>, <<>>, cli[d])
      <4>1. Fresh.sendAt = -1
        BY FreshTyped
      <4> QED BY <4>1, TiedNew
    <3> QED BY <1>2, <2>1, <3>1, <3>2 DEF Goal
  <2>3. CASE d # c
    BY <1>2, <1>5, <2>1, <2>3 DEF Joins, Goal
  <2> QED BY <2>2, <2>3
<1>6. ASSUME NEW c \in Clients, Leaves(c) PROVE Goal
  BY <1>2, <1>6 DEF Leaves, Goal
<1>7. ASSUME NEW c \in Clients, Hears(c) PROVE Goal
  <2>1. CASE d = c
    <3> DEFINE r == AfterRecv(cli[c], Head(down[c]))
               more == IF Completes(cli[c]) THEN Append(screen[c], r.recvBuf) ELSE screen[c]
    <3>1. /\ down[c] # <<>> /\ cst[c] = "running"
          /\ down'[c] = Tail(down[c]) /\ cli'[c] = r /\ screen'[c] = more
      BY <1>7 DEF Hears
    <3>2. screen[c] \in Seq(Buffer) /\ down[c] \in Seq(Part) /\ cli[c] \in Peers
      BY DEF TypeInv
    <3>3. Shown(screen[c], down[c], cli[c])
      BY <1>2, <2>1, <3>1
    <3>4. Shown(more, Tail(down[c]), r) /\ Within(more, Whole) /\ Once(more)
      BY <3>1, <3>2, <3>3, ShownRecv
    <3> QED BY <2>1, <3>1, <3>4 DEF Goal
  <2>2. CASE d # c
    BY <1>2, <1>7, <2>2 DEF Hears, Goal
  <2> QED BY <2>1, <2>2
<1>8. ASSUME NEW c \in Clients, Speaks(c) \/ EndsSpeech(c) \/ \E n \in Nat : Asks(c, n) PROVE Goal
  <2>1. /\ UNCHANGED <<cst, down, screen>>
        /\ cli'[d].recvBuf = cli[d].recvBuf /\ cli'[d].recvAt = cli[d].recvAt
    BY <1>8, RecvSideStays
  <2>2. cst[d] = "running" => Shown(screen[d], down[d], cli'[d])
    BY <1>2, <2>1, ShownSame
  <2> QED BY <1>2, <2>1, <2>2 DEF Goal
<1>9. Idles \/ SrvDoes => Goal
  <2>1. ASSUME \/ Idles \/ Stops
               \/ \E n \in Nat : Tells(n)
               \/ \E i \in Slots, c \in Clients : Takes(i, c) \/ Receives(i, c) \/ Closes(i, c)
               \/ \E c \in Clients : TurnsAway(c)
               \/ \E i \in Slots : Broadcasts(i) \/ EndsSend(i)
        PROVE  Goal
    <3>1. screen' = screen /\ down' = down /\ cli' = cli
      BY <2>1 DEF Idles, Tells, Takes, TurnsAway, Receives, Broadcasts, Closes, Stops, EndsSend
    <3>2. cst'[d] = "running" => cst[d] = "running"
      BY <2>1 DEF Idles, Tells, Takes, TurnsAway, Receives, Broadcasts, Closes, Stops, EndsSend
    <3> QED BY <1>3, <3>1, <3>2
  <2> QED BY <1>4, <2>1 DEF SrvDoes
<1>10. CliDoes => Goal
  BY <1>5, <1>6, <1>7, <1>8 DEF CliDoes
<1> QED BY <1>1, <1>9, <1>10 DEF Goal

LEMMA NextDown ==
  ASSUME Base, Base', EarlyInv, OriginInv, UpInv, DownInv, [Next]_vars
  PROVE  DownInv'
<1>1. Idles \/ SrvDoes \/ CliDoes
  BY StepIs
<1>2. PlacedInv' /\ QueueInv'
  BY NextPlaced, NextQueue DEF DownInv, OriginInv
<1>3. TiedInv'
  BY <1>1, SrvTied, CliTied DEF DownInv, OriginInv
<1>4. ShownInv'
  BY <1>3, NextShown DEF DownInv
<1> QED BY <1>2, <1>3, <1>4 DEF DownInv

(* What goes down to the screens follows from what the slots dequeued:     *)
(* the inductive invariant.                                                *)
THEOREM DownHolds == Spec => [](Base /\ EarlyInv /\ OriginInv /\ UpInv /\ DownInv)
<1> DEFINE Inv == Base /\ EarlyInv /\ OriginInv /\ UpInv /\ DownInv
<1>1. Init => Inv
  BY InitBase, InitEarly, InitOrigin, InitUp, InitDown
<1>2. Inv /\ [Next]_vars => Inv'
  BY NextBase, NextEarly, NextOrigin, NextUp, NextDown
<1> QED BY <1>1, <1>2, PTL DEF Spec

(* Torn broadcasts never tear what the operator types: every screen shows  *)
(* it whole and once, however messages are cut by sockets that are full,   *)
(* slots that are handed on and buffers that are broadcast half received.  *)
THEOREM OperatorLinesWhole == Spec => []ServerLinesWhole
<1>1. Base /\ DownInv => ServerLinesWhole
  <2> SUFFICES ASSUME Base, DownInv, NEW c \in Clients, NEW k \in 1 .. Len(screen[c])
               PROVE  /\ \A q \in 1 .. Calls : screen[c][k][q].pos \in {0, q}
                      /\ ServerPart(screen[c][k]) =>
                            /\ screen[c][k] = Frame(screen[c][k][1].msg)
                            /\ \A h \in 1 .. k - 1 : screen[c][h] # screen[c][k]
    BY DEF ServerLinesWhole, ServerPart
  <2>1. screen[c] \in Seq(Buffer) /\ Within(screen[c], Whole) /\ Once(screen[c])
    BY DEF Base, TypeInv, DownInv, ShownInv
  <2>2. screen[c][k] \in Whole
    BY <2>1 DEF Within
  <2>3. \A h \in 1 .. k - 1 : h \in 1 .. Len(screen[c]) /\ h # k
    BY <2>1
  <2>4. ServerPart(screen[c][k]) => \A h \in 1 .. k - 1 : screen[c][h] # screen[c][k]
    BY <2>1, <2>3 DEF Once
  <2> QED BY <2>2, <2>4 DEF Whole, Placed
<1> QED BY DownHolds, <1>1, PTL
=============================================================================
