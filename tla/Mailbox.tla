------------------------------- MODULE Mailbox -------------------------------
(***************************************************************************)
(* What one direction of a chat connection promises, with no bytes in it.  *)
(* Messages wait in a bounded stack, the newest on top; the sender moves   *)
(* the top one into the connection; the connection delivers whole messages,*)
(* each once, in the order in which they were moved.  A message offered to *)
(* a full stack is lost, and losing the connection loses everything.       *)
(***************************************************************************)
EXTENDS MessageQueue

CONSTANTS Messages,     \* what can be offered
          Capacity      \* how many messages may wait

VARIABLES waiting,      \* accepted, not yet moved into the connection
          transit,      \* moved, not yet delivered, oldest first
          delivered     \* what the other end has handled, oldest first

mailVars == <<waiting, transit, delivered>>

MailInit == /\ waiting = Empty
            /\ transit = << >>
            /\ delivered = << >>

Offer(m) == /\ waiting' = Enqueue(waiting, Capacity, m)
            /\ UNCHANGED <<transit, delivered>>

Take == /\ waiting # Empty
        /\ transit' = Append(transit, Top(waiting))
        /\ waiting' = Dequeue(waiting)
        /\ UNCHANGED delivered

Deliver == /\ transit # << >>
           /\ delivered' = Append(delivered, Head(transit))
           /\ transit' = Tail(transit)
           /\ UNCHANGED waiting

Lose == /\ waiting' = Empty
        /\ transit' = << >>
        /\ delivered' = << >>

MailNext == \/ \E m \in Messages : Offer(m)
            \/ Take
            \/ Deliver
            \/ Lose

MailSpec == MailInit /\ [][MailNext]_mailVars
=============================================================================
