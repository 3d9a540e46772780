---------------------------- MODULE MessageQueue ----------------------------
(***************************************************************************)
(* message_queue_t of src/Program-5/message.h: the array of messages that  *)
(* wait to be sent to one peer, `current` being the number of them.  A     *)
(* queue is the sequence of the waiting messages in the order enqueue()    *)
(* stored them.  dequeue() takes the one at data[current - 1], the newest. *)
(***************************************************************************)
EXTENDS Naturals, Sequences

(* enqueue(): refuse the message when `current` has reached `size`. *)
Full(q, size) == Len(q) = size
EnqueueUnchecked(q, size, m) == Append(q, m)        \* mutant: no size test
Enqueue(q, size, m) == IF Full(q, size) THEN q ELSE Append(q, m)

(* dequeue(): the message it copies out, and the queue it leaves. *)
Top(q) == q[Len(q)]
Dequeue(q) == SubSeq(q, 1, Len(q) - 1)

(* dequeueAll(), and the empty queue createMessageQueue() starts from. *)
Empty == << >>
=============================================================================
