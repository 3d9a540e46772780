--------------------------------- MODULE Chat ---------------------------------
(***************************************************************************)
(* The chat of src/Program-5: one cserver, the cclient processes that come *)
(* and go, and the TCP connections between them.                           *)
(*                                                                         *)
(* Both programs are one select() loop.  A turn of the loop serves what    *)
(* select() reported, in a fixed order, and takes a step per system call,  *)
(* so everything else may happen between two of its calls.  A message      *)
(* takes Calls calls to send or receive; what one call moves is a part.    *)
(* PeerLink shows that byte counts keep parts in place; here a send() and  *)
(* a recv() move one part.                                                 *)
(***************************************************************************)
EXTENDS MessageQueue, Integers, FiniteSets

CONSTANTS Clients,      \* client processes, each of which connects once
          Server,       \* the sender of what is typed at the server
          Nobody,       \* NO_SOCKET
          MaxClients,   \* MAX_CLIENTS, the length of connections[]
          QueueSize,    \* MAX_MESSAGES_BUFFER_SIZE
          Calls,        \* send() calls a message takes
          PipeSize,     \* parts the socket buffers of one direction hold
          ServerLines,  \* bound: lines typed at the server
          Typists,      \* bound: the clients that get lines other than "exit"
          ClientLines   \* bound: lines typed at each of them

ASSUME ChatAssumption == /\ Server \notin Clients
                         /\ Nobody \notin Clients \cup {Server}
                         /\ MaxClients \in Nat \ {0}
                         /\ QueueSize \in Nat \ {0}
                         /\ Calls \in Nat \ {0}
                         /\ PipeSize \in Nat \ {0}
                         /\ ServerLines \in Nat
                         /\ Typists \subseteq Clients
                         /\ ClientLines \in Nat

VARIABLES
  (* the server process *)
  srv,          \* "running", "stopped" by itself, "killed" by SIGPIPE
  sock,         \* connections[i].socket: whose connection slot i holds
  slot,         \* the rest of connections[i]
  rd, wr,       \* what select() reported and this turn has not served yet
  (* the client processes *)
  cst,          \* "new", "running", "left" (closed), "aborted" (reset)
  cli,          \* the peer_t `server` of each client
  ready,        \* what its select() reported and its turn has not served
  (* the connections *)
  backlog,      \* connected, waiting for accept()
  link,         \* the server's end of each connection
  up, down,     \* parts under way to the server, to the client
  (* histories *)
  lines,        \* how many lines each terminal has had typed
  sent,         \* the messages each client dequeued, in that order
  since,        \* the server lines typed before each client was accepted
  log,          \* the buffers of each client the server printed
  screen        \* the buffers each client printed

serverVars == <<srv, sock, slot, rd, wr>>
clientVars == <<cst, cli, ready>>
netVars == <<backlog, link, up, down>>
histVars == <<lines, sent, since, log, screen>>
vars == <<serverVars, clientVars, netVars, histVars>>

Slots == 1 .. MaxClients
Terminals == Clients \cup {Server}
Stdin == -1             \* served first,
Listener == 0           \* then the listener, then the slots in order
Ended == {"left", "aborted"}

-----------------------------------------------------------------------------
(* Messages, and the contents of a message_t buffer: a part in each place. *)
Frame(m) == [p \in 1 .. Calls |-> [msg |-> m, pos |-> p]]
Blank == [msg |-> [from |-> Nobody, n |-> 0], pos |-> 0]
BlankFrame == [p \in 1 .. Calls |-> Blank]
Line(who, n) == [from |-> who, n |-> n]

(* peer_t without its socket, as createPeer() leaves it. *)
Fresh == [queue |-> Empty, sending |-> BlankFrame, sendAt |-> -1,
          recvBuf |-> BlankFrame, recvAt |-> 0]

(* Mutant: the receiving cursor is forgotten. *)
ResetSendOnly(p) == [p EXCEPT !.sendAt = -1]

(* newConnection() and closeClientConnection() reset both cursors. *)
ResetCursors(p) == [p EXCEPT !.sendAt = -1, !.recvAt = 0]

(* peerAdd(): the frame is dropped when the queue is full. *)
PeerAdd(p, f) == [p EXCEPT !.queue = Enqueue(@, QueueSize, f)]

(* The loop of sendPeerMsg(): the message being sent, or else the next.    *)
SendIdle(p) == p.sendAt = -1 \/ p.sendAt >= Calls
HasMore(p) == ~SendIdle(p) \/ p.queue # Empty
(* Mutant: dequeue() copies the message out and leaves it in the queue.    *)
FetchPeek(p) == IF SendIdle(p)
                THEN [p EXCEPT !.sending = Top(p.queue), !.sendAt = 0]
                ELSE p
Fetch(p) == IF SendIdle(p)
            THEN [p EXCEPT !.sending = Top(p.queue),
                           !.queue = Dequeue(p.queue), !.sendAt = 0]
            ELSE p
NextPart(p) == Fetch(p).sending[Fetch(p).sendAt + 1]
AfterSend(p) == [Fetch(p) EXCEPT !.sendAt = @ + 1]

(* A part received; the head of the receive loop handles a full buffer.    *)
Fill(p, part) == [p EXCEPT !.recvBuf[p.recvAt + 1] = part]
Completes(p) == p.recvAt + 1 = Calls
(* Mutants: the cursor is not set back; the buffer is cleared with it.     *)
AfterRecvRunsOn(p, part) == [Fill(p, part) EXCEPT !.recvAt = @ + 1]
AfterRecvClears(p, part) ==
    [Fill(p, part) EXCEPT !.recvAt = IF Completes(p) THEN 0 ELSE @ + 1,
                          !.recvBuf = IF Completes(p) THEN BlankFrame ELSE @]

AfterRecv(p, part) == [Fill(p, part) EXCEPT
                          !.recvAt = IF Completes(p) THEN 0 ELSE @ + 1]

Init == /\ srv = "running"
        /\ sock = [i \in Slots |-> Nobody]
        /\ slot = [i \in Slots |-> Fresh]
        /\ rd = {} /\ wr = {}
        /\ cst = [c \in Clients |-> "new"]
        /\ cli = [c \in Clients |-> Fresh]
        /\ ready = [c \in Clients |-> {}]
        /\ backlog = << >>
        /\ link = [c \in Clients |-> "none"]
        /\ up = [c \in Clients |-> << >>]
        /\ down = [c \in Clients |-> << >>]
        /\ lines = [t \in Terminals |-> 0]
        /\ since = [c \in Clients |-> 0]
        /\ sent = [c \in Clients |-> << >>]
        /\ log = [c \in Clients |-> << >>]
        /\ screen = [c \in Clients |-> << >>]

-----------------------------------------------------------------------------
(* The server. *)
Held == {i \in Slots : sock[i] # Nobody}
HungUp(c) == cst[c] \in Ended
Room(pipe) == Len(pipe) < PipeSize

(* The turn serves descriptors in order, reading one before writing it.    *)
Next1(i) == i \in rd \cup wr /\ \A j \in rd \cup wr : i <= j
Reading(i) == srv = "running" /\ Next1(i) /\ i \in rd
Writing(i) == srv = "running" /\ Next1(i) /\ i \notin rd

(* Mutant: no dequeueAll(). *)
CloseKeepingQueue(i) ==
    /\ sock' = [sock EXCEPT ![i] = Nobody]
    /\ slot' = [slot EXCEPT ![i] = ResetCursors(@)]
    /\ link' = [link EXCEPT ![sock[i]] = "closed"]
    /\ up' = [up EXCEPT ![sock[i]] = << >>]
    /\ rd' = rd \ {i}
    /\ wr' = wr \ {i}

(* closeClientConnection(), with the socket's end of the connection.       *)
CloseSlot(i) ==
    /\ sock' = [sock EXCEPT ![i] = Nobody]
    /\ slot' = [slot EXCEPT ![i] = ResetCursors([@ EXCEPT !.queue = Empty])]
    /\ link' = [link EXCEPT ![sock[i]] = "closed"]
    /\ up' = [up EXCEPT ![sock[i]] = << >>]
    /\ rd' = rd \ {i}
    /\ wr' = wr \ {i}

(* The process ends: shutdownServer(), or a signal without a handler.      *)
StopServer(how) ==
    /\ srv' = how
    /\ link' = [c \in Clients |->
                    IF link[c] = "none" THEN "none" ELSE "closed"]
    /\ up' = [c \in Clients |-> << >>]
    /\ backlog' = << >>
    /\ sock' = [i \in Slots |-> Nobody]
    /\ slot' = [i \in Slots |-> Fresh]
    /\ rd' = {} /\ wr' = {}
    /\ UNCHANGED <<down, clientVars, histVars>>

(* buildFDs() and select(): every socket that is ready is reported; the    *)
(* terminal is when somebody has typed something.                          *)
Readable == {i \in Held : up[sock[i]] # << >> \/ HungUp(sock[i])}
            \cup {j \in {Listener} : backlog # << >>}
Writable == {i \in Held : slot[i].queue # Empty
                          /\ (Room(down[sock[i]]) \/ HungUp(sock[i]))}
SocketsReady == Readable \cup Writable # {}

SrvSelect(typed) ==
    /\ srv = "running"
    /\ rd \cup wr = {}
    /\ typed => lines[Server] < ServerLines
    /\ typed \/ SocketsReady
    /\ rd' = Readable \cup (IF typed THEN {Stdin} ELSE {})
    /\ wr' = Writable
    /\ UNCHANGED <<srv, sock, slot, clientVars, netVars, histVars>>

(* readin(): of the lines typed since the last turn the last one, n, is    *)
(* left in the buffer by readSTDIN(); it goes to everybody.                *)
Readin(n) ==
    /\ Reading(Stdin)
    /\ n \in lines[Server] + 1 .. ServerLines
    /\ lines' = [lines EXCEPT ![Server] = n]
    /\ slot' = [i \in Slots |-> IF i \in Held
                                THEN PeerAdd(slot[i], Frame(Line(Server, n)))
                                ELSE slot[i]]
    /\ rd' = rd \ {Stdin}
    /\ UNCHANGED <<srv, sock, wr, clientVars, netVars, sent, since, log, screen>>

(* Mutant: no `return 0` in the loop, so every free slot is taken.         *)
AcceptEverywhere ==
    /\ Reading(Listener)
    /\ backlog' = Tail(backlog)
    /\ rd' = rd \ {Listener}
    /\ sock' = [i \in Slots |-> IF i \in Held THEN sock[i] ELSE Head(backlog)]
    /\ link' = [link EXCEPT ![Head(backlog)] = "open"]
    /\ since' = [since EXCEPT ![Head(backlog)] = lines[Server]]
    /\ UNCHANGED <<srv, slot, wr, up, down, clientVars, lines, sent, log, screen>>

(* newConnection(): the first free slot, or the connection is closed.      *)
Accept ==
    LET c == Head(backlog)
        free == Slots \ Held
    IN  /\ Reading(Listener)
        /\ backlog' = Tail(backlog)
        /\ rd' = rd \ {Listener}
        /\ \/ \E i \in free :
                 /\ \A j \in free : i <= j
                 /\ sock' = [sock EXCEPT ![i] = c]
                 /\ slot' = [slot EXCEPT ![i] = ResetCursors(@)]
                 /\ link' = [link EXCEPT ![c] = "open"]
                 /\ since' = [since EXCEPT ![c] = lines[Server]]
                 /\ UNCHANGED up
           \/ /\ free = {}
              /\ link' = [link EXCEPT ![c] = "closed"]
              /\ up' = [up EXCEPT ![c] = << >>]
              /\ UNCHANGED <<sock, slot, since>>
        /\ UNCHANGED <<srv, wr, down, clientVars, lines, sent, log, screen>>

(* receiveServerMsg(): one recv() that finds a part.                       *)
SrvRecv(i) ==
    LET c == sock[i]
        part == Head(up[c])
    IN  /\ Reading(i) /\ i \in Slots
        /\ up[c] # << >>
        /\ up' = [up EXCEPT ![c] = Tail(@)]
        /\ slot' = [slot EXCEPT ![i] = AfterRecv(@, part)]
        /\ log' = IF Completes(slot[i])
                  THEN [log EXCEPT ![c] = Append(@, Fill(slot[i], part).recvBuf)]
                  ELSE log
        /\ UNCHANGED <<srv, sock, rd, wr, clientVars, backlog, link, down,
                       lines, sent, since, screen>>

(* recv() has nothing more for now (EAGAIN): the loop ends, and whatever   *)
(* receiving_buffer holds is queued for every other client.                *)
(* Mutant: no test that the other socket is another one.                   *)
BroadcastToAll(i) == [j \in Slots |-> IF j \in Held
                                     THEN PeerAdd(slot[j], slot[i].recvBuf)
                                     ELSE slot[j]]
Broadcast(i) == [j \in Slots |-> IF j \in Held \ {i}
                                THEN PeerAdd(slot[j], slot[i].recvBuf)
                                ELSE slot[j]]
SrvRecvEnd(i) ==
    /\ Reading(i) /\ i \in Slots
    /\ up[sock[i]] = << >>
    /\ ~HungUp(sock[i])
    /\ slot' = Broadcast(i)
    /\ rd' = rd \ {i}
    /\ UNCHANGED <<srv, sock, wr, clientVars, netVars, histVars>>

(* Mutant: recv() = 0 taken for "nothing more for now".                    *)
SrvHangupIgnored(i) ==
    /\ Reading(i) /\ i \in Slots
    /\ up[sock[i]] = << >>
    /\ HungUp(sock[i])
    /\ rd' = rd \ {i}
    /\ UNCHANGED <<srv, sock, slot, wr, clientVars, netVars, histVars>>

(* recv() returns 0 or an error: no broadcast, the slot is given up.       *)
SrvHangup(i) ==
    /\ Reading(i) /\ i \in Slots
    /\ up[sock[i]] = << >>
    /\ HungUp(sock[i])
    /\ CloseSlot(i)
    /\ UNCHANGED <<srv, backlog, down, clientVars, histVars>>

(* sendPeerMsg(): one send(), which waits for room.  A client that closed  *)
(* its socket answers the first part with a reset.                         *)
SrvSend(i) ==
    LET c == sock[i]
    IN  /\ Writing(i) /\ i \in Slots
        /\ HasMore(slot[i])
        /\ slot' = [slot EXCEPT ![i] = AfterSend(@)]
        /\ \/ /\ ~HungUp(c)
              /\ Room(down[c])
              /\ down' = [down EXCEPT ![c] = Append(@, NextPart(slot[i]))]
              /\ UNCHANGED link
           \/ /\ cst[c] = "left"
              /\ link' = [link EXCEPT ![c] = "reset"]
              /\ UNCHANGED down
        /\ UNCHANGED <<srv, sock, rd, wr, clientVars, backlog, up, histVars>>

(* After the reset has come in, send() raises SIGPIPE, which nothing in    *)
(* cserver.c handles or ignores.                                           *)
SrvSigpipe(i) ==
    /\ Writing(i) /\ i \in Slots
    /\ HasMore(slot[i])
    /\ link[sock[i]] = "reset"
    /\ StopServer("killed")

(* Mutant: send() = -1 is taken for a full buffer and tried again.         *)
SrvSendFailRetried(i) ==
    /\ Writing(i) /\ i \in Slots
    /\ HasMore(slot[i])
    /\ cst[sock[i]] = "aborted"
    /\ UNCHANGED vars

(* A client that died with input unread has reset the connection: send()   *)
(* returns -1.                                                             *)
SrvSendFail(i) ==
    /\ Writing(i) /\ i \in Slots
    /\ HasMore(slot[i])
    /\ cst[sock[i]] = "aborted"
    /\ CloseSlot(i)
    /\ UNCHANGED <<srv, backlog, down, clientVars, histVars>>

(* The queue is empty: the loop ends. *)
SrvSendEnd(i) ==
    /\ Writing(i) /\ i \in Slots
    /\ ~HasMore(slot[i])
    /\ slot' = [slot EXCEPT ![i].sendAt = -1]
    /\ wr' = wr \ {i}
    /\ UNCHANGED <<srv, sock, rd, clientVars, netVars, histVars>>

(* SIGINT at any time: handleSignalAction() calls shutdownServer().        *)
SrvInterrupt == srv = "running" /\ StopServer("stopped")

SrvServe == \/ \E n \in 1 .. ServerLines : Readin(n)
            \/ Accept
            \/ \E i \in Slots : \/ SrvRecv(i)
                                \/ SrvRecvEnd(i)
                                \/ SrvHangup(i)
                                \/ SrvSend(i)
                                \/ SrvSigpipe(i)
                                \/ SrvSendFail(i)
                                \/ SrvSendEnd(i)

-----------------------------------------------------------------------------
(* A client. *)
Running(c) == cst[c] = "running"
Closed(c) == link[c] = "closed"

(* What the process did not dequeue is gone with it.  Closing a socket     *)
(* that has input waiting resets the connection, and parts the server has  *)
(* not received may be lost with it.                                       *)
Leave(c) ==
    /\ cst' = [cst EXCEPT ![c] = IF down[c] = << >> THEN "left" ELSE "aborted"]
    /\ IF down[c] = << >>
       THEN UNCHANGED up
       ELSE \E k \in 0 .. Len(up[c]) :
                up' = [up EXCEPT ![c] = SubSeq(@, 1, k)]
    /\ down' = [down EXCEPT ![c] = << >>]
    /\ cli' = [cli EXCEPT ![c] = Fresh]
    /\ ready' = [ready EXCEPT ![c] = {}]
    /\ UNCHANGED <<serverVars, backlog, link, histVars>>

(* establishConnection(): connect() succeeds before the server accepts.    *)
Connect(c) ==
    /\ cst[c] = "new"
    /\ srv = "running"
    /\ cst' = [cst EXCEPT ![c] = "running"]
    /\ backlog' = Append(backlog, c)
    /\ link' = [link EXCEPT ![c] = "queued"]
    /\ UNCHANGED <<serverVars, cli, ready, up, down, histVars>>

(* Nobody listens: connect() fails and the client gives up.                *)
Refused(c) ==
    /\ cst[c] = "new"
    /\ srv # "running"
    /\ cst' = [cst EXCEPT ![c] = "left"]
    /\ UNCHANGED <<serverVars, cli, ready, netVars, histVars>>

(* buildFDs() and select(). *)
CliReadable(c) == down[c] # << >> \/ Closed(c)
(* Mutant: `current > 1`. *)
CliWritableLate(c) == Len(cli[c].queue) > 1 /\ (Room(up[c]) \/ Closed(c))
CliWritable(c) == cli[c].queue # Empty /\ (Room(up[c]) \/ Closed(c))

CliSelect(c, typed) ==
    /\ Running(c)
    /\ ready[c] = {}
    /\ typed \/ CliReadable(c) \/ CliWritable(c)
    /\ ready' = [ready EXCEPT ![c] =
                    {r \in {"stdin", "read", "write"} :
                        \/ r = "stdin" /\ typed
                        \/ r = "read" /\ CliReadable(c)
                        \/ r = "write" /\ CliWritable(c)}]
    /\ UNCHANGED <<serverVars, cst, cli, netVars, histVars>>

(* readInput(): the last of the lines typed since the last turn is queued, *)
(* or dropped ("Message Lost.") ...                                        *)
ReadInput(c, n) ==
    /\ Running(c)
    /\ "stdin" \in ready[c]
    /\ c \in Typists
    /\ n \in lines[c] + 1 .. ClientLines
    /\ lines' = [lines EXCEPT ![c] = n]
    /\ cli' = [cli EXCEPT ![c] = PeerAdd(@, Frame(Line(c, n)))]
    /\ ready' = [ready EXCEPT ![c] = @ \ {"stdin"}]
    /\ UNCHANGED <<serverVars, cst, netVars, sent, since, log, screen>>

(* ... or it is "exit", and shutdownClient() ends the process at once.     *)
Exit(c) == Running(c) /\ "stdin" \in ready[c] /\ Leave(c)

CliReading(c) == Running(c) /\ "stdin" \notin ready[c] /\ "read" \in ready[c]
CliWriting(c) == Running(c) /\ ready[c] = {"write"}

(* receivePeerMsg(): one recv() that finds a part.                         *)
CliRecv(c) ==
    LET part == Head(down[c])
    IN  /\ CliReading(c)
        /\ down[c] # << >>
        /\ down' = [down EXCEPT ![c] = Tail(@)]
        /\ cli' = [cli EXCEPT ![c] = AfterRecv(@, part)]
        /\ screen' = IF Completes(cli[c])
                     THEN [screen EXCEPT ![c] =
                             Append(@, Fill(cli[c], part).recvBuf)]
                     ELSE screen
        /\ UNCHANGED <<serverVars, cst, ready, backlog, link, up,
                       lines, sent, since, log>>

CliRecvEnd(c) ==
    /\ CliReading(c)
    /\ down[c] = << >>
    /\ ~Closed(c)
    /\ ready' = [ready EXCEPT ![c] = @ \ {"read"}]
    /\ UNCHANGED <<serverVars, cst, cli, netVars, histVars>>

(* Mutant: recv() = 0 taken for "nothing more for now".                    *)
CliHangupIgnored(c) == /\ CliReading(c) /\ down[c] = << >> /\ Closed(c)
                       /\ ready' = [ready EXCEPT ![c] = @ \ {"read"}]
                       /\ UNCHANGED <<serverVars, cst, cli, netVars, histVars>>
CliHangup(c) == CliReading(c) /\ down[c] = << >> /\ Closed(c) /\ Leave(c)

(* sendPeerMsg(): one send().  On a connection the server has closed it    *)
(* may still succeed once, ...                                             *)
CliSend(c) ==
    LET p == cli[c]
    IN  /\ CliWriting(c)
        /\ HasMore(p)
        /\ Room(up[c]) \/ Closed(c)
        /\ up' = IF Closed(c) THEN up
                 ELSE [up EXCEPT ![c] = Append(@, NextPart(p))]
        /\ cli' = [cli EXCEPT ![c] = AfterSend(p)]
        /\ sent' = IF SendIdle(p) THEN [sent EXCEPT ![c] = Append(@, Top(p.queue))]
                                  ELSE sent
        /\ UNCHANGED <<serverVars, cst, ready, backlog, link, down,
                       lines, since, log, screen>>

(* ... or the process ends, by shutdownClient() or by SIGPIPE.             *)
CliSendFail(c) == CliWriting(c) /\ HasMore(cli[c]) /\ Closed(c) /\ Leave(c)

CliSendEnd(c) ==
    /\ CliWriting(c)
    /\ ~HasMore(cli[c])
    /\ cli' = [cli EXCEPT ![c].sendAt = -1]
    /\ ready' = [ready EXCEPT ![c] = {}]
    /\ UNCHANGED <<serverVars, cst, netVars, histVars>>

(* SIGINT at any time: handleSignal() calls shutdownClient().              *)
CliInterrupt(c) == Running(c) /\ Leave(c)

CliServe(c) == \/ \E n \in 1 .. ClientLines : ReadInput(c, n)
               \/ Exit(c)
               \/ CliRecv(c)
               \/ CliRecvEnd(c)
               \/ CliHangup(c)
               \/ CliSend(c)
               \/ CliSendFail(c)
               \/ CliSendEnd(c)

-----------------------------------------------------------------------------
Next == \/ \E typed \in BOOLEAN : SrvSelect(typed)
        \/ SrvServe
        \/ SrvInterrupt
        \/ \E c \in Clients : \/ Connect(c)
                              \/ Refused(c)
                              \/ \E typed \in BOOLEAN : CliSelect(c, typed)
                              \/ CliServe(c)
                              \/ CliInterrupt(c)

Spec == Init /\ [][Next]_vars

(* The operating system runs both programs: a turn that began goes on, and *)
(* select() returns once a socket stays ready.  Nobody has to type, to     *)
(* connect, to leave or to press Ctrl-C.                                   *)
SrvStep == \/ SocketsReady /\ \E typed \in BOOLEAN : SrvSelect(typed)
           \/ SrvServe
CliStep(c) == \/ /\ CliReadable(c) \/ CliWritable(c)
                 /\ \E typed \in BOOLEAN : CliSelect(c, typed)
              \/ CliServe(c)

FairSpec == /\ Spec
            /\ WF_vars(SrvStep)
            /\ \A c \in Clients : WF_vars(CliStep(c))

-----------------------------------------------------------------------------
Senders == Clients \cup {Server}
Message == [from : Senders, n : Nat] \cup {Blank.msg}
Part == [msg : Message, pos : 0 .. Calls]
Buffer == [1 .. Calls -> Part]
Peer == [queue : Seq(Buffer), sending : Buffer, sendAt : -1 .. Calls,
         recvBuf : Buffer, recvAt : 0 .. Calls - 1]
Bounded(p) == Len(p.queue) <= QueueSize

(* The state has its types: no cursor passes the end of its buffer, no     *)
(* queue passes `size` and no connection holds more than it has room for   *)
(* (message.h:118, 315, 324-328; cserver.c:338-348).                       *)
TypeOK == /\ srv \in {"running", "stopped", "killed"}
          /\ sock \in [Slots -> Clients \cup {Nobody}]
          /\ slot \in [Slots -> Peer] /\ \A i \in Slots : Bounded(slot[i])
          /\ rd \subseteq {Stdin, Listener} \cup Slots
          /\ wr \subseteq Slots
          /\ cst \in [Clients -> {"new", "running"} \cup Ended]
          /\ cli \in [Clients -> Peer] /\ \A c \in Clients : Bounded(cli[c])
          /\ ready \in [Clients -> SUBSET {"stdin", "read", "write"}]
          /\ backlog \in Seq(Clients)
          /\ link \in [Clients -> {"none", "queued", "open", "reset", "closed"}]
          /\ up \in [Clients -> Seq(Part)] /\ down \in [Clients -> Seq(Part)]
          /\ \A c \in Clients : Len(up[c]) <= PipeSize /\ Len(down[c]) <= PipeSize
          /\ lines \in [Terminals -> Nat]
          /\ since \in [Clients -> Nat]
          /\ sent \in [Clients -> Seq(Buffer)]
          /\ log \in [Clients -> Seq(Buffer)]
          /\ screen \in [Clients -> Seq(Buffer)]

(* connections[] is a table of live connections: no connection sits in two *)
(* slots or in a slot and in the backlog, none is lost from both, and the  *)
(* descriptor sets of this turn never name a slot that has been given up   *)
(* since select() (cserver.c:203-269, 467-489).                            *)
SlotTable ==
    srv = "running" =>
        /\ \A i, j \in Held : sock[i] = sock[j] => i = j
        /\ \A c \in Clients :
              /\ link[c] \in {"open", "reset"} <=> \E i \in Held : sock[i] = c
              /\ link[c] = "queued" <=> \E k \in 1 .. Len(backlog) : backlog[k] = c
        /\ (rd \cup wr) \cap Slots \subseteq Held

(* Every part this peer would still send. *)
Outgoing(p) == LET frames == {p.queue[k] : k \in 1 .. Len(p.queue)}
                             \cup {f \in {p.sending} : ~SendIdle(p)}
               IN  UNION {{f[q] : q \in 1 .. Calls} : f \in frames}

(* Every part that is on its way to client c or has arrived there.         *)
ShownTo(c) == UNION {{screen[c][k][q] : q \in 1 .. Calls} :
                         k \in 1 .. Len(screen[c])}
Reaching(c) ==
    (UNION {Outgoing(slot[i]) : i \in {j \in Held : sock[j] = c}})
        \cup {down[c][k] : k \in 1 .. Len(down[c])}
        \cup {cli[c].recvBuf[q] : q \in 1 .. Calls}
        \cup ShownTo(c)

(* ASSIGNMENT.txt:16, "The client that sent a message shouldn't receive a  *)
(* copy of it from the server" - not a part of one, though slots and their *)
(* buffers are reused and broadcasts carry stale parts (cserver.c:374-384).*)
NoEcho == \A c \in Clients : \A part \in Reaching(c) : part.msg.from # c

(* A client hears nothing the operator typed before it was accepted: a     *)
(* slot is handed on without the queue of its last client, which only      *)
(* closeClientConnection() clears (cserver.c:266, 232-235).                *)
NoInheritance ==
    \A c \in Clients : \A part \in Reaching(c) :
        part.msg.from = Server => part.msg.n > since[c]

(* What the server prints of a client is what the client sent, message by  *)
(* message, whichever slot it has and whoever had it before                *)
(* (cserver.c:338-341, message.h:315-320).                                 *)
LogIsSent == \A c \in Clients : /\ Len(log[c]) <= Len(sent[c])
                                /\ \A k \in 1 .. Len(log[c]) :
                                      log[c][k] = sent[c][k]

(* A receive call that ends between messages broadcasts the last message   *)
(* it printed: the buffer it queues is that whole message                  *)
(* (cserver.c:338-341, 374-384).                                           *)
WholeAtBoundary ==
    \A i \in Held : slot[i].recvAt = 0 /\ log[sock[i]] # << >> =>
        slot[i].recvBuf = log[sock[i]][Len(log[sock[i]])]

(* Torn broadcasts never tear the operator's lines: a buffer on a screen   *)
(* that has a part of one is that line, whole, and no line is shown twice. *)
(* Frames stay in place between broadcasts that are not whole messages.    *)
ServerLinesWhole ==
    \A c \in Clients : \A k \in 1 .. Len(screen[c]) :
        LET m == screen[c][k][1].msg
        IN  /\ \A q \in 1 .. Calls : screen[c][k][q].pos \in {0, q}
            /\ (\E q \in 1 .. Calls : screen[c][k][q].msg.from = Server) =>
                  /\ screen[c][k] = Frame(m)
                  /\ \A h \in 1 .. k - 1 : screen[c][h] # screen[c][k]

-----------------------------------------------------------------------------
(* A turn of the server ends.  send() waits while a client's connection is *)
(* full (message.h:330), in the middle of a message too, and all that the  *)
(* other clients have sent waits with it, until that client reads or goes  *)
(* (cserver.c:425-491).                                                    *)
TurnEnds == (rd \cup wr # {}) ~> (rd \cup wr = {})

(* The slot of a client that is gone is given up (cserver.c:366, 470).     *)
HangupReclaimed ==
    \A c \in Clients :
        (HungUp(c) /\ \E i \in Held : sock[i] = c) ~> (c \notin {sock[i] : i \in Slots})

(* When the server is gone every client notices and ends                   *)
(* (message.h:286, cclient.c:272-281).                                     *)
EndReachesClients ==
    \A c \in Clients : (srv # "running" /\ Running(c)) ~> ~Running(c)

(* A line a client queued is printed by the server, unless one of the two  *)
(* ends, or the server has no slot for that client (cclient.c:192-279).    *)
LineReachesServer ==
    \A c \in Clients : \A n \in 1 .. ClientLines :
        (\E k \in 1 .. Len(cli[c].queue) : cli[c].queue[k] = Frame(Line(c, n)))
            ~> \/ \E k \in 1 .. Len(log[c]) : log[c][k] = Frame(Line(c, n))
               \/ HungUp(c) \/ Closed(c)

-----------------------------------------------------------------------------
(* What the documents say and the code does not do. *)

(* ASSIGNMENT.txt:4, the server will "receive chat messages from connected *)
(* clients and distribute them to all the other connected clients": none   *)
(* is shown twice.  The first calls carry the sender and the text.         *)
ShownOnce ==
    \A c \in Clients : \A h, k \in 1 .. Len(screen[c]) :
        h < k => screen[c][h][1] # screen[c][k][1]

(* ASSIGNMENT.txt:47, "A client can quit and a new one can connect while   *)
(* the server keeps operating successfully".                               *)
KeepsOperating == srv # "killed"
=============================================================================
