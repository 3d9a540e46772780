--------------------------- MODULE PeerLink_proofs ---------------------------
(***************************************************************************)
(* Proofs about PeerLink: the types, the inductive invariant behind intact *)
(* delivery, and the step simulation of Mailbox.                           *)
(***************************************************************************)
EXTENDS PeerLink, TLAPS, SequenceTheorems

(* What one call moves is positive and does not pass the end of a buffer.  *)
LEMMA CallSizeBound ==
    ASSUME NEW at \in 0 .. MsgSize, at < MsgSize
    PROVE  /\ CallSize(at) \in Nat
           /\ CallSize(at) <= MsgSize - at
           /\ CallSize(at) <= MaxSend
BY SizesAssumption DEF CallSize

(* enqueue() keeps a queue a queue of at most QueueSize messages. *)
LEMMA EnqueueType ==
    ASSUME NEW q \in Seq(Messages), Len(q) <= QueueSize, NEW m \in Messages
    PROVE  /\ Enqueue(q, QueueSize, m) \in Seq(Messages)
           /\ Len(Enqueue(q, QueueSize, m)) <= QueueSize
BY SizesAssumption DEF Enqueue, Full

(* dequeue() returns a message and shortens the queue by one. *)
LEMMA DequeueType ==
    ASSUME NEW S, NEW q \in Seq(S), q # Empty
    PROVE  /\ Top(q) \in S
           /\ Dequeue(q) \in Seq(S)
           /\ Len(Dequeue(q)) = Len(q) - 1
<1>1. Len(q) \in Nat /\ Len(q) > 0
  BY DEF Empty
<1>2. Top(q) \in S
  BY <1>1 DEF Top
<1>3. Dequeue(q) \in Seq(S) /\ Len(Dequeue(q)) = Len(q) - 1
  BY <1>1 DEF Dequeue
<1> QED BY <1>2, <1>3

(* The initial state satisfies every part of the invariant. *)
LEMMA InitIInv == Init => IInv
<1> SUFFICES ASSUME Init PROVE IInv
  OBVIOUS
<1> USE SizesAssumption DEF Init
<1>1. TypeOK
  <2>1. Blank \in Byte
    BY DEF Blank, Byte
  <2>2. recvBuf \in [1 .. MsgSize -> Byte]
    BY <2>1
  <2>3. /\ queue \in Seq(Messages) /\ Len(queue) = 0
        /\ pipe \in Seq(Byte) /\ Len(pipe) = 0
    BY DEF Empty
  <2>4. /\ taken \in Seq(Messages)
        /\ delivered \in Seq([1 .. MsgSize -> Byte])
    OBVIOUS
  <2>5. /\ offers \in 0 .. MaxOffers
        /\ sending \in Nat
        /\ sendAt \in 0 .. MsgSize \cup {SizeMax}
        /\ recvAt \in 0 .. MsgSize
        /\ 0 <= QueueSize /\ 0 <= PipeSize
    OBVIOUS
  <2>6. inSend \in BOOLEAN
    OBVIOUS
  <2> HIDE DEF Init
  <2> QED BY <2>2, <2>3, <2>4, <2>5, <2>6 DEF TypeOK
<1>2. CursorInv
  BY DEF CursorInv
<1>3. StreamInv
  BY DEF StreamInv, Consecutive, Stream, NextSend, NextRecv, SendIdle
<1>4. BufferInv /\ CountInv /\ IntactDelivery
  BY DEF BufferInv, CountInv, IntactDelivery
<1> QED BY <1>1, <1>2, <1>3, <1>4 DEF IInv

(* A function on 1..n is a sequence of length n. *)
LEMMA FunctionIsSeq ==
    ASSUME NEW S, NEW n \in Nat, NEW f \in [1 .. n -> S]
    PROVE  f \in Seq(S) /\ Len(f) = n
<1>1. f \in Seq(S)
  BY SeqDef
<1> QED BY <1>1, LenProperties

(* The bytes one send() appends are well-formed bytes of sending_buffer. *)
LEMMA ChunkType ==
    ASSUME TypeOK, ~SendIdle, NEW n \in 1 .. CallSize(sendAt)
    PROVE  /\ sendAt \in 0 .. MsgSize /\ sendAt + n \in 0 .. MsgSize
           /\ n \in Nat /\ n > 0
           /\ Chunk(n) \in Seq(Byte)
           /\ Len(Chunk(n)) = n
           /\ pipe \o Chunk(n) \in Seq(Byte)
           /\ Len(pipe \o Chunk(n)) = Len(pipe) + n
           /\ \A k \in 1 .. Len(pipe) : (pipe \o Chunk(n))[k] = pipe[k]
           /\ \A k \in 1 .. n : (pipe \o Chunk(n))[Len(pipe) + k]
                                  = [of |-> sending, pos |-> sendAt + k]
<1>1. /\ sendAt \in 0 .. MsgSize /\ sendAt < MsgSize
      /\ sending \in Nat /\ pipe \in Seq(Byte) /\ Len(pipe) \in Nat
  BY SizesAssumption DEF TypeOK, SendIdle
<1>2. n \in Nat /\ n > 0 /\ n <= MsgSize - sendAt
  BY <1>1, CallSizeBound, SizesAssumption
<1>3. \A k \in 1 .. n : [of |-> sending, pos |-> sendAt + k] \in Byte
  BY <1>1, <1>2, SizesAssumption DEF Byte
<1>4. Chunk(n) \in [1 .. n -> Byte]
  BY <1>3 DEF Chunk
<1>5. Chunk(n) \in Seq(Byte) /\ Len(Chunk(n)) = n
  BY <1>2, <1>4, FunctionIsSeq
<1>6. /\ pipe \o Chunk(n) \in Seq(Byte)
      /\ Len(pipe \o Chunk(n)) = Len(pipe) + n
      /\ \A k \in 1 .. Len(pipe) + n :
            (pipe \o Chunk(n))[k] =
                IF k <= Len(pipe) THEN pipe[k] ELSE Chunk(n)[k - Len(pipe)]
  BY <1>1, <1>5, ConcatProperties
<1>7. \A k \in 1 .. Len(pipe) : (pipe \o Chunk(n))[k] = pipe[k]
  BY <1>1, <1>2, <1>6
<1>8. ASSUME NEW k \in 1 .. n
      PROVE  (pipe \o Chunk(n))[Len(pipe) + k]
                = [of |-> sending, pos |-> sendAt + k]
  <2>1. (pipe \o Chunk(n))[Len(pipe) + k] = Chunk(n)[k]
    BY <1>1, <1>2, <1>6
  <2> QED BY <2>1 DEF Chunk
<1>9. sendAt + n \in 0 .. MsgSize
  BY <1>1, <1>2, SizesAssumption
<1> QED BY <1>1, <1>2, <1>5, <1>6, <1>7, <1>8, <1>9

(* What one recv() leaves in the connection. *)
LEMMA RestType ==
    ASSUME TypeOK, recvAt < MsgSize,
           NEW n \in 1 .. CallSize(recvAt), n <= Len(pipe)
    PROVE  /\ recvAt + n \in 0 .. MsgSize
           /\ n \in Nat /\ n > 0
           /\ SubSeq(pipe, n + 1, Len(pipe)) \in Seq(Byte)
           /\ Len(SubSeq(pipe, n + 1, Len(pipe))) = Len(pipe) - n
           /\ \A k \in 1 .. Len(pipe) - n :
                 SubSeq(pipe, n + 1, Len(pipe))[k] = pipe[n + k]
<1>1. recvAt \in 0 .. MsgSize /\ pipe \in Seq(Byte) /\ Len(pipe) \in Nat
  BY DEF TypeOK
<1>2. n \in Nat /\ n > 0 /\ n <= MsgSize - recvAt
  BY <1>1, CallSizeBound, SizesAssumption
<1>3. recvAt + n \in 0 .. MsgSize
  BY <1>1, <1>2, SizesAssumption
<1>4. /\ SubSeq(pipe, n + 1, Len(pipe)) \in Seq(Byte)
      /\ Len(SubSeq(pipe, n + 1, Len(pipe))) = Len(pipe) - n
      /\ \A k \in 1 .. Len(pipe) - n :
            SubSeq(pipe, n + 1, Len(pipe))[k] = pipe[n + k]
  BY <1>1, <1>2
<1> QED BY <1>2, <1>3, <1>4

(* Every step keeps the types: no cursor passes its buffer, no queue and   *)
(* no connection outgrows its room.                                        *)
LEMMA StepTypeOK == TypeOK /\ [Next]_vars => TypeOK'
<1> SUFFICES ASSUME TypeOK, [Next]_vars
             PROVE  TypeOK'
  OBVIOUS
<1>0. SizeMax \in 0 .. MsgSize \cup {SizeMax} /\ 0 \in 0 .. MsgSize
      /\ 0 <= QueueSize /\ 0 <= PipeSize /\ 0 \in 0 .. MaxOffers
  BY SizesAssumption
<1>1. ASSUME PeerAdd PROVE TypeOK'
  <2>1. offers + 1 \in Messages /\ offers + 1 \in 0 .. MaxOffers
    BY <1>1, SizesAssumption DEF PeerAdd, TypeOK, Messages
  <2>2. queue' \in Seq(Messages) /\ Len(queue') <= QueueSize
    BY <1>1, <2>1, EnqueueType DEF PeerAdd, TypeOK
  <2> QED BY <1>1, <2>1, <2>2 DEF PeerAdd, TypeOK, receiverVars
<1>2. ASSUME SendStart PROVE TypeOK'
  BY <1>2 DEF SendStart, TypeOK, receiverVars
<1>3. ASSUME SendFetch PROVE TypeOK'
  <2>1. /\ Top(queue) \in Messages
        /\ queue' \in Seq(Messages) /\ Len(queue') <= QueueSize
    <3>1. queue \in Seq(Messages) /\ queue # Empty /\ queue' = Dequeue(queue)
      BY <1>3 DEF SendFetch, TypeOK
    <3>2. Len(queue) <= QueueSize /\ Len(queue) \in Nat /\ QueueSize \in Nat
      BY <3>1, SizesAssumption DEF TypeOK
    <3>3. /\ Top(queue) \in Messages
          /\ Dequeue(queue) \in Seq(Messages)
          /\ Len(Dequeue(queue)) = Len(queue) - 1
      BY <3>1, DequeueType
    <3> QED BY <3>1, <3>2, <3>3
  <2>2. taken' \in Seq(Messages) /\ sending' \in Nat
    BY <1>3, <2>1 DEF SendFetch, TypeOK
  <2> QED BY <1>0, <1>3, <2>1, <2>2 DEF SendFetch, TypeOK, receiverVars
<1>4. ASSUME NEW n \in 1 .. MaxSend, SendBytes(n) PROVE TypeOK'
  <2>1. ~SendIdle /\ n \in 1 .. CallSize(sendAt)
    BY <1>4 DEF SendBytes
  <2>2. /\ sendAt' \in 0 .. MsgSize
        /\ pipe' \in Seq(Byte) /\ Len(pipe') <= PipeSize
    BY <1>4, <2>1, ChunkType DEF SendBytes
  <2> QED BY <1>4, <2>2 DEF SendBytes, TypeOK, receiverVars
<1>5. ASSUME SendDone PROVE TypeOK'
  BY <1>0, <1>5 DEF SendDone, TypeOK, receiverVars
<1>6. ASSUME Handle PROVE TypeOK'
  <2>1. delivered' \in Seq([1 .. MsgSize -> Byte])
    BY <1>6 DEF Handle, TypeOK
  <2> QED BY <1>0, <1>6, <2>1 DEF Handle, TypeOK, senderVars
<1>7. ASSUME NEW n \in 1 .. MaxSend, RecvBytes(n) PROVE TypeOK'
  <2>1. recvAt < MsgSize /\ n \in 1 .. CallSize(recvAt) /\ n <= Len(pipe)
    BY <1>7 DEF RecvBytes
  <2>2. /\ recvAt' \in 0 .. MsgSize
        /\ pipe' \in Seq(Byte) /\ Len(pipe') <= PipeSize
    BY <1>7, <2>1, RestType, SizesAssumption DEF RecvBytes, TypeOK
  <2>3. recvBuf' \in [1 .. MsgSize -> Byte]
    <3>1. ASSUME NEW p \in 1 .. MsgSize, p \in recvAt + 1 .. recvAt + n
          PROVE  pipe[p - recvAt] \in Byte
      BY <2>1, <3>1, CallSizeBound, SizesAssumption DEF TypeOK
    <3>2. recvBuf \in [1 .. MsgSize -> Byte]
      BY DEF TypeOK
    <3> QED BY <1>7, <3>1, <3>2 DEF RecvBytes
  <2> QED BY <1>7, <2>2, <2>3 DEF RecvBytes, TypeOK, senderVars
<1>8. ASSUME Reopen PROVE TypeOK'
  <2>1. /\ queue' \in Seq(Messages) /\ Len(queue') = 0
        /\ pipe' \in Seq(Byte) /\ Len(pipe') = 0
        /\ taken' \in Seq(Messages)
        /\ delivered' \in Seq([1 .. MsgSize -> Byte])
    BY <1>8 DEF Reopen, Empty
  <2> QED BY <1>0, <1>8, <2>1 DEF Reopen, TypeOK
<1>9. ASSUME UNCHANGED vars PROVE TypeOK'
  BY <1>9 DEF vars, TypeOK
<1> QED BY <1>1, <1>2, <1>3, <1>4, <1>5, <1>6, <1>7, <1>8, <1>9
        DEF Next, Sender, Receiver

(* sending_buffer stays the message dequeued last while its cursor is used,*)
(* and the cursor rests at (size_t) -1 outside sendPeerMsg().              *)
LEMMA StepCursorInv == TypeOK /\ CursorInv /\ [Next]_vars => CursorInv'
<1> SUFFICES ASSUME TypeOK, CursorInv, [Next]_vars
             PROVE  CursorInv'
  OBVIOUS
<1> USE SizesAssumption
<1>1. CASE PeerAdd \/ SendStart
  BY <1>1 DEF PeerAdd, SendStart, CursorInv
<1>2. CASE SendFetch
  <2>1. Len(taken') = Len(taken) + 1 /\ Len(taken) \in Nat
    BY <1>2 DEF SendFetch, TypeOK
  <2> QED BY <1>2, <2>1 DEF SendFetch, CursorInv
<1>3. ASSUME NEW n \in 1 .. MaxSend, SendBytes(n) PROVE CursorInv'
  <2>1. sendAt # SizeMax
    BY <1>3 DEF SendBytes, SendIdle
  <2> QED BY <1>3, <2>1 DEF SendBytes, CursorInv
<1>4. CASE SendDone
  BY <1>4 DEF SendDone, CursorInv
<1>5. CASE Handle
  BY <1>5 DEF Handle, CursorInv, senderVars
<1>6. ASSUME NEW n \in 1 .. MaxSend, RecvBytes(n) PROVE CursorInv'
  BY <1>6 DEF RecvBytes, CursorInv, senderVars
<1>7. CASE Reopen
  BY <1>7 DEF Reopen, CursorInv
<1>8. CASE UNCHANGED vars
  BY <1>8 DEF vars, CursorInv
<1> QED BY <1>1, <1>2, <1>3, <1>4, <1>5, <1>6, <1>7, <1>8
        DEF Next, Sender, Receiver

(* A step that changes neither the bytes under way nor what either end     *)
(* touches next keeps the stream in order.                                 *)
LEMMA SameStream ==
    ASSUME StreamInv, pipe' = pipe, NextSend' = NextSend, NextRecv' = NextRecv
    PROVE  StreamInv'
<1>1. Stream' = Stream
  BY DEF Stream
<1> QED BY <1>1 DEF StreamInv

(* s is a stream of L bytes whose next byte is place a + 1 of message o,   *)
(* and t is that stream with n more bytes of o.                            *)
Extends(s, t, L, n, o, a) ==
    /\ L \in Nat /\ n \in Nat \ {0} /\ o \in Nat
    /\ a \in Nat /\ a + n <= MsgSize
    /\ Consecutive(s, L + 1)
    /\ \A i \in 1 .. L + 1 : s[i].pos \in Nat
    /\ s[L + 1] = [of |-> o, pos |-> a + 1]
    /\ \A i \in 1 .. L : t[i] = s[i]
    /\ \A k \in 1 .. n : t[L + k] = [of |-> o, pos |-> a + k]
    /\ t[L + n + 1] = IF a + n < MsgSize
                      THEN [of |-> o, pos |-> a + n + 1]
                      ELSE [of |-> o + 1, pos |-> 1]

(* Extending a consecutive stream in that way leaves it consecutive. *)
LEMMA ExtendStream ==
    ASSUME NEW s, NEW t, NEW L, NEW n, NEW o, NEW a, Extends(s, t, L, n, o, a)
    PROVE  Consecutive(t, L + n + 1)
<1> USE DEF Extends
<1>0. MsgSize \in Nat
  BY SizesAssumption
<1>1. ASSUME NEW k \in 1 .. n + 1, a + k <= MsgSize
      PROVE  t[L + k] = [of |-> o, pos |-> a + k]
  <2>1. CASE k <= n
    BY <2>1
  <2>2. CASE k = n + 1
    <3>1. a + n < MsgSize /\ L + k = L + n + 1 /\ a + k = a + n + 1
      BY <1>0, <1>1, <2>2
    <3> QED BY <3>1
  <2> QED BY <2>1, <2>2
<1>2. ASSUME a + n = MsgSize
      PROVE  t[L + n + 1] = [of |-> o + 1, pos |-> 1]
  BY <1>0, <1>2
<1>3. SUFFICES ASSUME NEW i \in 1 .. L + n + 1
               PROVE  /\ t[i].pos > 0
                      /\ \A j \in i .. L + n + 1 :
                            t[i].pos + (j - i) <= MsgSize =>
                                t[j] = [of |-> t[i].of,
                                        pos |-> t[i].pos + (j - i)]
                      /\ i < L + n + 1 /\ t[i].pos = MsgSize =>
                            t[i + 1] = [of |-> t[i].of + 1, pos |-> 1]
  BY DEF Consecutive
<1>4. CASE i <= L
  <2>1. i \in 1 .. L /\ i \in 1 .. L + 1
    BY <1>4
  <2>2. t[i] = s[i] /\ s[i].pos \in Nat
    BY <2>1
  <2>3. /\ s[i].pos > 0
        /\ s[i].pos = MsgSize => s[i + 1] = [of |-> s[i].of + 1, pos |-> 1]
        /\ \A j \in i .. L + 1 :
              s[i].pos + (j - i) <= MsgSize =>
                  s[j] = [of |-> s[i].of, pos |-> s[i].pos + (j - i)]
    BY <2>1, <1>4 DEF Consecutive
  <2>4. t[i + 1] = s[i + 1]
    <3>1. CASE i < L
      BY <2>1, <3>1
    <3>2. CASE i = L
      <4>1. t[L + 1] = [of |-> o, pos |-> a + 1]
        BY <1>0, <1>1
      <4> QED BY <3>2, <4>1
    <3> QED BY <2>1, <3>1, <3>2
  <2>5. ASSUME NEW j \in i .. L + n + 1, s[i].pos + (j - i) <= MsgSize
        PROVE  t[j] = [of |-> s[i].of, pos |-> s[i].pos + (j - i)]
    <3>1. CASE j <= L
      <4>1. j \in i .. L + 1 /\ j \in 1 .. L
        BY <2>1, <3>1
      <4> QED BY <4>1, <2>3, <2>5
    <3>2. CASE j > L
      <4>1. j - L \in 1 .. n + 1 /\ L + (j - L) = j
        BY <2>1, <3>2
      <4>2. L + 1 \in i .. L + 1 /\ s[i].pos + (L + 1 - i) <= MsgSize
        BY <1>0, <2>1, <2>2, <2>5, <3>2
      <4>3. s[L + 1] = [of |-> s[i].of, pos |-> s[i].pos + (L + 1 - i)]
        BY <2>3, <4>2
      <4>4. o = s[i].of /\ a + 1 = s[i].pos + (L + 1 - i)
        BY <4>3
      <4>5. a + (j - L) = s[i].pos + (j - i)
        BY <2>1, <2>2, <4>4
      <4>6. t[L + (j - L)] = [of |-> o, pos |-> a + (j - L)]
        BY <1>1, <2>5, <4>1, <4>5
      <4> QED BY <4>1, <4>4, <4>5, <4>6
    <3> QED BY <2>1, <3>1, <3>2
  <2> QED BY <2>2, <2>3, <2>4, <2>5
<1>5. CASE i > L
  <2> DEFINE k == i - L
  <2>1. k \in 1 .. n + 1 /\ i = L + k
    BY <1>5
  <2> HIDE DEF k
  <2>2. CASE a + k <= MsgSize
    <3>1. t[i] = [of |-> o, pos |-> a + k]
      BY <1>1, <2>1, <2>2
    <3>2. ASSUME NEW j \in i .. L + n + 1, a + k + (j - i) <= MsgSize
          PROVE  t[j] = [of |-> o, pos |-> a + k + (j - i)]
      <4>1. /\ j - L \in 1 .. n + 1 /\ j = L + (j - L)
            /\ a + (j - L) = a + k + (j - i)
        BY <2>1
      <4> QED BY <1>1, <3>2, <4>1
    <3>3. ASSUME i < L + n + 1, a + k = MsgSize
          PROVE  t[i + 1] = [of |-> o + 1, pos |-> 1]
      <4>1. k = n /\ i + 1 = L + n + 1
        BY <1>0, <2>1, <3>3
      <4> QED BY <1>2, <3>3, <4>1
    <3>4. a + k > 0
      BY <2>1
    <3> QED BY <3>1, <3>2, <3>3, <3>4
  <2>3. CASE a + k > MsgSize
    <3>1. k = n + 1 /\ a + n = MsgSize /\ i = L + n + 1
      BY <1>0, <2>1, <2>3
    <3>2. t[i] = [of |-> o + 1, pos |-> 1]
      BY <1>2, <3>1
    <3>3. ASSUME NEW j \in i .. L + n + 1
          PROVE  j = i /\ 1 + (j - i) = 1
      BY <3>1
    <3> QED BY <3>1, <3>2, <3>3
  <2> QED BY <1>0, <2>1, <2>2, <2>3
<1> QED BY <1>4, <1>5

(* t is what the stream s of len bytes leaves when n bytes are taken. *)
Shifts(s, t, len, n) ==
    /\ len \in Nat /\ n \in Nat /\ n < len
    /\ Consecutive(s, len)
    /\ \A i \in 1 .. len - n : t[i] = s[i + n]

(* Dropping bytes from the front of a stream leaves it consecutive. *)
LEMMA ShiftStream ==
    ASSUME NEW s, NEW t, NEW len, NEW n, Shifts(s, t, len, n)
    PROVE  Consecutive(t, len - n)
<1> USE DEF Shifts
<1> SUFFICES ASSUME NEW i \in 1 .. len - n
             PROVE  /\ t[i].pos > 0
                    /\ \A j \in i .. len - n :
                          t[i].pos + (j - i) <= MsgSize =>
                              t[j] = [of |-> t[i].of,
                                      pos |-> t[i].pos + (j - i)]
                    /\ i < len - n /\ t[i].pos = MsgSize =>
                          t[i + 1] = [of |-> t[i].of + 1, pos |-> 1]
  BY DEF Consecutive
<1>1. i + n \in 1 .. len /\ t[i] = s[i + n]
  OBVIOUS
<1>2. /\ s[i + n].pos > 0
      /\ \A j \in i + n .. len :
            s[i + n].pos + (j - (i + n)) <= MsgSize =>
                s[j] = [of |-> s[i + n].of,
                        pos |-> s[i + n].pos + (j - (i + n))]
      /\ i + n < len /\ s[i + n].pos = MsgSize =>
            s[i + n + 1] = [of |-> s[i + n].of + 1, pos |-> 1]
  BY <1>1 DEF Consecutive
<1>3. ASSUME NEW j \in i .. len - n, t[i].pos + (j - i) <= MsgSize
      PROVE  t[j] = [of |-> t[i].of, pos |-> t[i].pos + (j - i)]
  <2>1. /\ j + n \in i + n .. len /\ (j + n) - (i + n) = j - i
        /\ j \in 1 .. len - n
    BY <1>1
  <2>2. t[j] = s[j + n]
    BY <2>1
  <2> QED BY <1>1, <1>2, <1>3, <2>1, <2>2
<1>4. ASSUME i < len - n, t[i].pos = MsgSize
      PROVE  t[i + 1] = [of |-> t[i].of + 1, pos |-> 1]
  <2>1. i + 1 \in 1 .. len - n /\ (i + 1) + n = i + n + 1 /\ i + n < len
    BY <1>4
  <2> QED BY <1>1, <1>2, <1>4, <2>1
<1> QED BY <1>1, <1>2, <1>3, <1>4

(* The sequence of bytes under way, and of the next one, in the next state.*)
LEMMA StreamElements ==
    ASSUME TypeOK
    PROVE  /\ Len(pipe) \in Nat
           /\ \A k \in 1 .. Len(pipe) : /\ Stream[k] = pipe[k]
                                        /\ Stream[k].pos \in Nat
                                        /\ Stream[k].of \in Nat
           /\ Stream[Len(pipe) + 1] = NextSend
<1>1. pipe \in Seq(Byte) /\ Len(pipe) \in Nat
  BY DEF TypeOK
<1>2. ASSUME NEW k \in 1 .. Len(pipe)
      PROVE  Stream[k] = pipe[k] /\ Stream[k].pos \in Nat /\ Stream[k].of \in Nat
  <2>1. Stream[k] = pipe[k]
    BY <1>1 DEF Stream
  <2>2. pipe[k] \in Byte
    BY <1>1
  <2>3. pipe[k].pos \in Nat /\ pipe[k].of \in Nat
    BY <2>2, SizesAssumption DEF Byte
  <2> QED BY <2>1, <2>3
<1>3. Stream[Len(pipe) + 1] = NextSend
  BY <1>1 DEF Stream
<1> QED BY <1>1, <1>2, <1>3

(* Sending n bytes moves the sender's end of the stream n places on. *)
LEMMA SendStream ==
    ASSUME TypeOK, TypeOK', CursorInv, StreamInv,
           NEW n \in 1 .. MaxSend, SendBytes(n)
    PROVE  StreamInv'
<1> DEFINE L == Len(pipe)
<1>1. ~SendIdle /\ n \in 1 .. CallSize(sendAt) /\ pipe' = pipe \o Chunk(n)
      /\ sendAt' = sendAt + n /\ sending' = sending /\ taken' = taken
  BY DEF SendBytes
<1>2. /\ sendAt \in Nat /\ sendAt + n <= MsgSize
      /\ sendAt < MsgSize /\ n \in Nat \ {0}
      /\ Len(pipe') = L + n /\ L \in Nat
  BY <1>1, ChunkType, SizesAssumption DEF TypeOK, SendIdle
<1>3. \A k \in 1 .. L : pipe'[k] = pipe[k]
  BY <1>1, ChunkType
<1>4. \A k \in 1 .. n : pipe'[L + k] = [of |-> sending, pos |-> sendAt + k]
  BY <1>1, ChunkType
<1>5. sending = Len(taken) /\ sending \in Nat
  BY <1>2, SizesAssumption DEF CursorInv, TypeOK
<1>6. NextSend = [of |-> sending, pos |-> sendAt + 1]
  BY <1>1 DEF NextSend
<1>7. NextSend' = IF sendAt + n < MsgSize
                  THEN [of |-> sending, pos |-> sendAt + n + 1]
                  ELSE [of |-> sending + 1, pos |-> 1]
  BY <1>1, <1>2, <1>5, SizesAssumption DEF NextSend, SendIdle
<1>8. NextRecv' = NextRecv
  BY DEF SendBytes, receiverVars, NextRecv
<1>9. /\ \A k \in 1 .. L : Stream[k] = pipe[k] /\ Stream[k].pos \in Nat
      /\ Stream[L + 1] = [of |-> sending, pos |-> sendAt + 1]
  BY <1>6, StreamElements
<1>10. /\ \A k \in 1 .. L + n : Stream'[k] = pipe'[k]
       /\ Stream'[L + n + 1] = NextSend'
  BY <1>2 DEF Stream
<1>11. \A i \in 1 .. L + 1 : Stream[i].pos \in Nat
  <2>1. ASSUME NEW i \in 1 .. L + 1 PROVE i \in 1 .. L \/ i = L + 1
    BY <1>2
  <2> QED BY <1>2, <1>9, <2>1
<1>12. \A i \in 1 .. L : Stream'[i] = Stream[i]
  <2>1. ASSUME NEW i \in 1 .. L PROVE i \in 1 .. L + n
    BY <1>2
  <2> QED BY <1>3, <1>9, <1>10, <2>1
<1>13. \A k \in 1 .. n : Stream'[L + k] = [of |-> sending, pos |-> sendAt + k]
  <2>1. ASSUME NEW k \in 1 .. n PROVE L + k \in 1 .. L + n
    BY <1>2
  <2> QED BY <1>4, <1>10, <2>1
<1>14. Consecutive(Stream, L + 1) /\ Stream[1] = NextRecv
  BY DEF StreamInv
<1> HIDE DEF L
<1>15. Consecutive(Stream', L + n + 1)
  <2>1. Stream'[L + n + 1] = IF sendAt + n < MsgSize
                             THEN [of |-> sending, pos |-> sendAt + n + 1]
                             ELSE [of |-> sending + 1, pos |-> 1]
    BY <1>7, <1>10
  <2>2. Stream[L + 1] = [of |-> sending, pos |-> sendAt + 1]
    BY <1>9
  <2>3. sending \in Nat /\ sendAt \in Nat /\ sendAt + n <= MsgSize
        /\ L \in Nat /\ n \in Nat \ {0}
    BY <1>2, <1>5
  <2>4. Extends(Stream, Stream', L, n, sending, sendAt)
    BY <1>11, <1>12, <1>13, <1>14, <2>1, <2>2, <2>3 DEF Extends
  <2> QED BY <2>4, ExtendStream
<1>16. Stream'[1] = NextRecv'
  <2>1. CASE L = 0
    BY <1>2, <1>8, <1>9, <1>13, <1>14, <2>1
  <2>2. CASE L > 0
    BY <1>2, <1>8, <1>12, <1>14, <2>2
  <2> QED BY <1>2, <2>1, <2>2
<1> QED BY <1>2, <1>15, <1>16 DEF StreamInv, Consecutive

(* The bytes one recv() takes are the next ones of the message expected.   *)
LEMMA ReceivedBytes ==
    ASSUME TypeOK, StreamInv, NEW n \in 1 .. MaxSend, RecvBytes(n)
    PROVE  /\ n \in Nat /\ n > 0 /\ n <= Len(pipe) /\ recvAt \in Nat
           /\ recvAt + n <= MsgSize
           /\ \A k \in 1 .. n : pipe[k] = [of |-> Len(delivered) + 1,
                                          pos |-> recvAt + k]
           /\ recvAt + n < MsgSize =>
                 Stream[n + 1] = [of |-> Len(delivered) + 1,
                                  pos |-> recvAt + n + 1]
           /\ recvAt + n = MsgSize =>
                 Stream[n + 1] = [of |-> Len(delivered) + 2, pos |-> 1]
<1> DEFINE D == Len(delivered) + 1
<1>1. recvAt < MsgSize /\ n \in 1 .. CallSize(recvAt) /\ n <= Len(pipe)
  BY DEF RecvBytes
<1>2. /\ n \in Nat /\ n > 0 /\ recvAt \in Nat /\ recvAt + n <= MsgSize
      /\ MsgSize \in Nat /\ Len(delivered) \in Nat /\ Len(pipe) \in Nat
  BY <1>1, RestType, SizesAssumption DEF TypeOK
<1>3. Stream[1] = [of |-> D, pos |-> recvAt + 1]
  BY <1>1, <1>2 DEF StreamInv, NextRecv
<1>4. \A j \in 1 .. Len(pipe) + 1 :
          Stream[1].pos + (j - 1) <= MsgSize =>
              Stream[j] = [of |-> Stream[1].of, pos |-> Stream[1].pos + (j - 1)]
  <2>1. Consecutive(Stream, Len(pipe) + 1) /\ 1 \in 1 .. Len(pipe) + 1
    BY <1>2 DEF StreamInv
  <2> QED BY <2>1 DEF Consecutive
<1>5. ASSUME NEW j \in 1 .. Len(pipe) + 1, recvAt + j <= MsgSize
      PROVE  Stream[j] = [of |-> D, pos |-> recvAt + j]
  <2>1. recvAt + 1 + (j - 1) = recvAt + j
    BY <1>2
  <2> QED BY <1>3, <1>4, <1>5, <2>1
<1>6. ASSUME NEW k \in 1 .. n
      PROVE  pipe[k] = [of |-> D, pos |-> recvAt + k]
  <2>1. k \in 1 .. Len(pipe) /\ k \in 1 .. Len(pipe) + 1 /\ recvAt + k <= MsgSize
    BY <1>1, <1>2
  <2> QED BY <1>5, <2>1, StreamElements
<1>7. ASSUME recvAt + n < MsgSize
      PROVE  Stream[n + 1] = [of |-> D, pos |-> recvAt + n + 1]
  <2>1. n + 1 \in 1 .. Len(pipe) + 1 /\ recvAt + (n + 1) <= MsgSize
        /\ recvAt + (n + 1) = recvAt + n + 1
    BY <1>1, <1>2, <1>7
  <2> QED BY <1>5, <2>1
<1>8. ASSUME recvAt + n = MsgSize
      PROVE  Stream[n + 1] = [of |-> Len(delivered) + 2, pos |-> 1]
  <2>1. n \in 1 .. Len(pipe) + 1 /\ n < Len(pipe) + 1
    BY <1>1, <1>2
  <2>2. Stream[n] = [of |-> D, pos |-> MsgSize]
    BY <1>2, <1>5, <1>8, <2>1
  <2>3. Stream[n].pos = MsgSize =>
            Stream[n + 1] = [of |-> Stream[n].of + 1, pos |-> 1]
    BY <1>2, <2>1 DEF StreamInv, Consecutive
  <2>4. D + 1 = Len(delivered) + 2
    BY <1>2
  <2> QED BY <2>2, <2>3, <2>4
<1> QED BY <1>1, <1>2, <1>6, <1>7, <1>8

(* Receiving n bytes moves the receiver's end of the stream n places on. *)
LEMMA RecvStream ==
    ASSUME TypeOK, StreamInv, NEW n \in 1 .. MaxSend, RecvBytes(n)
    PROVE  StreamInv'
<1> DEFINE L == Len(pipe)
<1>1. /\ n \in Nat /\ n > 0 /\ n <= L /\ recvAt \in Nat /\ recvAt + n <= MsgSize
      /\ L \in Nat /\ MsgSize \in Nat /\ Len(delivered) \in Nat
  <2>1. /\ n \in Nat /\ n > 0 /\ n <= Len(pipe)
        /\ recvAt \in Nat /\ recvAt + n <= MsgSize
    BY ReceivedBytes
  <2>2. /\ Len(pipe) \in Nat /\ MsgSize \in Nat /\ Len(delivered) \in Nat
    BY SizesAssumption DEF TypeOK
  <2> QED BY <2>1, <2>2
<1>2. /\ recvAt < MsgSize /\ n \in 1 .. CallSize(recvAt) /\ n <= Len(pipe)
      /\ recvAt' = recvAt + n /\ delivered' = delivered
      /\ pipe' = SubSeq(pipe, n + 1, Len(pipe))
  BY DEF RecvBytes
<1>3. /\ Len(pipe') = L - n
      /\ \A k \in 1 .. L - n : pipe'[k] = pipe[n + k]
  BY <1>2, RestType
<1>4. NextSend' = NextSend
  BY DEF RecvBytes, senderVars, NextSend, SendIdle
<1>5. ASSUME NEW i \in 1 .. L + 1 - n PROVE Stream'[i] = Stream[i + n]
  <2>1. CASE i <= L - n
    <3>1. i \in 1 .. L - n /\ n + i \in 1 .. L /\ i + n = n + i
      BY <1>1, <2>1
    <3>2. Stream'[i] = pipe'[i]
      BY <1>1, <1>3, <3>1 DEF Stream
    <3> QED BY <1>3, <3>1, <3>2, StreamElements
  <2>2. CASE i = L + 1 - n
    <3>1. i = Len(pipe') + 1 /\ i + n = L + 1
      BY <1>1, <1>3, <2>2
    <3>2. Stream'[i] = NextSend'
      BY <1>1, <1>3, <3>1 DEF Stream
    <3> QED BY <1>4, <3>1, <3>2, StreamElements
  <2> QED BY <1>1, <2>1, <2>2
<1>6. Consecutive(Stream, L + 1)
  BY DEF StreamInv
<1>7. L + 1 \in Nat /\ n < L + 1 /\ L + 1 - n = Len(pipe') + 1
  BY <1>1, <1>3
<1> HIDE DEF L
<1>8. Consecutive(Stream', L + 1 - n)
  <2>1. Shifts(Stream, Stream', L + 1, n)
    BY <1>1, <1>5, <1>6, <1>7 DEF Shifts
  <2> QED BY <1>1, <1>7, <2>1, ShiftStream
<1>9. Stream'[1] = NextRecv'
  <2>1. Stream'[1] = Stream[n + 1]
    <3>1. 1 \in 1 .. L + 1 - n /\ 1 + n = n + 1
      BY <1>1
    <3> QED BY <1>5, <3>1
  <2>2. CASE recvAt + n < MsgSize
    BY <1>1, <1>2, <2>1, <2>2, ReceivedBytes DEF NextRecv
  <2>3. CASE recvAt + n = MsgSize
    BY <1>1, <1>2, <2>1, <2>3, ReceivedBytes DEF NextRecv
  <2> QED BY <1>1, <2>2, <2>3
<1> QED BY <1>7, <1>8, <1>9 DEF StreamInv

(* Every step keeps the stream in order. *)
LEMMA StepStreamInv ==
    TypeOK /\ TypeOK' /\ CursorInv /\ StreamInv /\ [Next]_vars => StreamInv'
<1> SUFFICES ASSUME TypeOK, TypeOK', CursorInv, StreamInv, [Next]_vars
             PROVE  StreamInv'
  OBVIOUS
<1> USE SizesAssumption
<1>1. CASE PeerAdd \/ SendStart
  <2>1. pipe' = pipe /\ NextSend' = NextSend /\ NextRecv' = NextRecv
    BY <1>1 DEF PeerAdd, SendStart, NextSend, NextRecv, SendIdle, receiverVars
  <2> QED BY <2>1, SameStream
<1>2. CASE SendFetch
  <2>1. Len(taken') = Len(taken) + 1
    BY <1>2 DEF SendFetch, TypeOK
  <2>2. NextSend = [of |-> Len(taken) + 1, pos |-> 1]
    BY <1>2 DEF SendFetch, NextSend
  <2>3. NextSend' = [of |-> Len(taken) + 1, pos |-> 1]
    BY <1>2 DEF SendFetch, NextSend, SendIdle
  <2>4. pipe' = pipe /\ NextRecv' = NextRecv
    BY <1>2 DEF SendFetch, NextRecv, receiverVars
  <2> QED BY <2>2, <2>3, <2>4, SameStream
<1>3. ASSUME NEW n \in 1 .. MaxSend, SendBytes(n) PROVE StreamInv'
  BY <1>3, SendStream
<1>4. CASE SendDone
  <2>1. pipe' = pipe /\ NextSend' = NextSend /\ NextRecv' = NextRecv
    BY <1>4 DEF SendDone, NextSend, NextRecv, SendIdle, receiverVars
  <2> QED BY <2>1, SameStream
<1>5. CASE Handle
  <2>1. Len(delivered') = Len(delivered) + 1 /\ Len(delivered) \in Nat
    BY <1>5 DEF Handle, TypeOK
  <2>2. recvAt >= MsgSize /\ recvAt' = 0 /\ pipe' = pipe
    BY <1>5 DEF Handle
  <2>3. NextRecv' = NextRecv
    BY <2>1, <2>2 DEF NextRecv
  <2>4. NextSend' = NextSend
    BY <1>5 DEF Handle, NextSend, SendIdle, senderVars
  <2> QED BY <2>2, <2>3, <2>4, SameStream
<1>6. ASSUME NEW n \in 1 .. MaxSend, RecvBytes(n) PROVE StreamInv'
  BY <1>6, RecvStream
<1>7. CASE Reopen
  <2>1. /\ Len(pipe') = 0 /\ Len(taken') = 0 /\ Len(delivered') = 0
        /\ sendAt' = SizeMax /\ recvAt' = 0
    BY <1>7 DEF Reopen
  <2>2. /\ NextSend' = [of |-> 1, pos |-> 1]
        /\ NextRecv' = [of |-> 1, pos |-> 1]
    BY <2>1 DEF NextSend, NextRecv, SendIdle
  <2>3. Stream'[1] = [of |-> 1, pos |-> 1]
    BY <2>1, <2>2 DEF Stream
  <2>4. Consecutive(Stream', 1)
    BY <2>3 DEF Consecutive
  <2> QED BY <2>1, <2>2, <2>3, <2>4 DEF StreamInv
<1>8. CASE UNCHANGED vars
  <2>1. pipe' = pipe /\ NextSend' = NextSend /\ NextRecv' = NextRecv
    BY <1>8 DEF vars, NextSend, NextRecv, SendIdle
  <2> QED BY <2>1, SameStream
<1> QED BY <1>1, <1>2, <1>3, <1>4, <1>5, <1>6, <1>7, <1>8
        DEF Next, Sender, Receiver

(* Every step keeps the part of a message received so far intact. *)
LEMMA StepBufferInv ==
    TypeOK /\ StreamInv /\ BufferInv /\ [Next]_vars => BufferInv'
<1> SUFFICES ASSUME TypeOK, StreamInv, BufferInv, [Next]_vars
             PROVE  BufferInv'
  OBVIOUS
<1>1. CASE UNCHANGED receiverVars
  BY <1>1 DEF receiverVars, BufferInv
<1>2. CASE Handle \/ Reopen
  BY <1>2 DEF Handle, Reopen, BufferInv
<1>3. ASSUME NEW n \in 1 .. MaxSend, RecvBytes(n) PROVE BufferInv'
  <2>1. /\ n \in Nat /\ recvAt \in Nat /\ recvAt + n <= MsgSize
        /\ \A k \in 1 .. n : pipe[k] = [of |-> Len(delivered) + 1,
                                       pos |-> recvAt + k]
    BY <1>3, ReceivedBytes
  <2>2. /\ recvAt' = recvAt + n /\ delivered' = delivered
        /\ recvBuf' = [p \in 1 .. MsgSize |->
                          IF p \in recvAt + 1 .. recvAt + n
                          THEN pipe[p - recvAt] ELSE recvBuf[p]]
    BY <1>3 DEF RecvBytes
  <2>3. ASSUME NEW p \in 1 .. recvAt + n
        PROVE  recvBuf'[p] = [of |-> Len(delivered) + 1, pos |-> p]
    <3>1. p \in 1 .. MsgSize
      BY <2>1, SizesAssumption
    <3>2. CASE p <= recvAt
      BY <2>1, <2>2, <3>1, <3>2 DEF BufferInv
    <3>3. CASE p > recvAt
      <4>1. p \in recvAt + 1 .. recvAt + n /\ p - recvAt \in 1 .. n
            /\ recvAt + (p - recvAt) = p
        BY <2>1, <3>3
      <4>2. recvBuf'[p] = pipe[p - recvAt]
        BY <2>2, <3>1, <4>1
      <4> QED BY <2>1, <4>1, <4>2
    <3> QED BY <2>1, <3>2, <3>3
  <2> QED BY <2>2, <2>3 DEF BufferInv
<1>4. CASE UNCHANGED vars
  BY <1>4 DEF vars, BufferInv
<1> QED BY <1>1, <1>2, <1>3, <1>4
        DEF Next, Sender, Receiver, PeerAdd, SendStart, SendFetch, SendBytes,
            SendDone

(* Every step receives only what was dequeued. *)
LEMMA StepCountInv ==
    TypeOK /\ CursorInv /\ StreamInv /\ CountInv /\ [Next]_vars => CountInv'
<1> SUFFICES ASSUME TypeOK, CursorInv, StreamInv, CountInv, [Next]_vars
             PROVE  CountInv'
  OBVIOUS
<1>0. /\ Len(pipe) \in Nat /\ Len(taken) \in Nat /\ Len(delivered) \in Nat
      /\ recvAt \in Nat /\ MsgSize \in Nat /\ MsgSize > 0
      /\ \A k \in 1 .. Len(pipe) : pipe[k].of \in Nat
  <2>1. /\ Len(pipe) \in Nat /\ Len(taken) \in Nat /\ Len(delivered) \in Nat
        /\ recvAt \in Nat /\ MsgSize \in Nat /\ MsgSize > 0
    BY SizesAssumption DEF TypeOK
  <2>2. \A k \in 1 .. Len(pipe) : pipe[k].of \in Nat
    BY StreamElements
  <2> QED BY <2>1, <2>2
<1>1. CASE PeerAdd \/ SendStart \/ SendDone
  BY <1>1 DEF PeerAdd, SendStart, SendDone, CountInv, receiverVars
<1>2. CASE SendFetch
  <2>1. /\ Len(taken') = Len(taken) + 1 /\ pipe' = pipe
        /\ recvAt' = recvAt /\ delivered' = delivered
    BY <1>2 DEF SendFetch, TypeOK, receiverVars
  <2> QED BY <1>0, <2>1 DEF CountInv
<1>3. ASSUME NEW n \in 1 .. MaxSend, SendBytes(n) PROVE CountInv'
  <2>1. ~SendIdle /\ n \in 1 .. CallSize(sendAt) /\ pipe' = pipe \o Chunk(n)
        /\ taken' = taken /\ recvAt' = recvAt /\ delivered' = delivered
    BY <1>3 DEF SendBytes, receiverVars
  <2>2. /\ Len(pipe') = Len(pipe) + n /\ n \in Nat
        /\ \A k \in 1 .. Len(pipe) : pipe'[k] = pipe[k]
        /\ \A k \in 1 .. n :
              pipe'[Len(pipe) + k] = [of |-> sending, pos |-> sendAt + k]
    BY <2>1, ChunkType
  <2>3. sending = Len(taken)
    BY <2>1, SizesAssumption DEF SendIdle, CursorInv
  <2>4. ASSUME NEW k \in 1 .. Len(pipe')
        PROVE  pipe'[k].of <= Len(taken)
    <3>1. CASE k <= Len(pipe)
      BY <1>0, <2>2, <3>1 DEF CountInv
    <3>2. CASE k > Len(pipe)
      <4>1. k - Len(pipe) \in 1 .. n /\ Len(pipe) + (k - Len(pipe)) = k
        BY <1>0, <2>2, <3>2
      <4>2. pipe'[k] = [of |-> sending, pos |-> sendAt + (k - Len(pipe))]
        BY <2>2, <4>1
      <4>3. pipe'[k].of = Len(taken)
        BY <2>3, <4>2
      <4> QED BY <1>0, <4>3
    <3> QED BY <1>0, <2>2, <3>1, <3>2
  <2> QED BY <2>1, <2>4 DEF CountInv
<1>4. CASE Handle
  <2>1. /\ Len(delivered') = Len(delivered) + 1 /\ recvAt' = 0 /\ pipe' = pipe
        /\ taken' = taken /\ recvAt >= MsgSize
    BY <1>4 DEF Handle, TypeOK, senderVars
  <2> QED BY <1>0, <2>1 DEF CountInv
<1>5. ASSUME NEW n \in 1 .. MaxSend, RecvBytes(n) PROVE CountInv'
  <2>1. /\ n \in Nat /\ n > 0 /\ n <= Len(pipe)
        /\ \A k \in 1 .. n : pipe[k] = [of |-> Len(delivered) + 1,
                                       pos |-> recvAt + k]
    BY <1>5, ReceivedBytes
  <2>2. pipe[1].of = Len(delivered) + 1 /\ 1 \in 1 .. Len(pipe)
    <3>1. 1 \in 1 .. n /\ 1 \in 1 .. Len(pipe)
      BY <1>0, <2>1
    <3>2. pipe[1] = [of |-> Len(delivered) + 1, pos |-> recvAt + 1]
      BY <2>1, <3>1
    <3> QED BY <3>1, <3>2
  <2>3. Len(delivered) < Len(taken)
    BY <1>0, <2>2 DEF CountInv
  <2>4. /\ taken' = taken /\ delivered' = delivered
        /\ recvAt < MsgSize /\ n \in 1 .. CallSize(recvAt)
        /\ pipe' = SubSeq(pipe, n + 1, Len(pipe))
    BY <1>5 DEF RecvBytes, senderVars
  <2>5. /\ Len(pipe') = Len(pipe) - n
        /\ \A k \in 1 .. Len(pipe) - n : pipe'[k] = pipe[n + k]
    BY <2>1, <2>4, RestType
  <2>6. ASSUME NEW k \in 1 .. Len(pipe')
        PROVE  pipe'[k].of <= Len(taken)
    <3>1. k \in 1 .. Len(pipe) - n /\ n + k \in 1 .. Len(pipe)
      BY <1>0, <2>1, <2>5
    <3> QED BY <2>5, <3>1 DEF CountInv
  <2> QED BY <1>0, <2>3, <2>4, <2>6 DEF CountInv
<1>6. CASE Reopen
  <2>1. Len(pipe') = 0 /\ Len(taken') = 0 /\ Len(delivered') = 0 /\ recvAt' = 0
    BY <1>6 DEF Reopen
  <2> QED BY <2>1 DEF CountInv
<1>7. CASE UNCHANGED vars
  BY <1>7 DEF vars, CountInv
<1> QED BY <1>1, <1>2, <1>3, <1>4, <1>5, <1>6, <1>7 DEF Next, Sender, Receiver

(* A full buffer is the frame of the next message. *)
LEMMA FullBuffer ==
    ASSUME TypeOK, BufferInv, recvAt >= MsgSize
    PROVE  recvBuf = Frame(Len(delivered) + 1)
<1>1. recvAt = MsgSize
  BY SizesAssumption DEF TypeOK
<1>2. recvBuf \in [1 .. MsgSize -> Byte]
  BY DEF TypeOK
<1>3. \A p \in 1 .. MsgSize :
          recvBuf[p] = [of |-> Len(delivered) + 1, pos |-> p]
  BY <1>1 DEF BufferInv
<1> QED BY <1>2, <1>3 DEF Frame

(* Every step hands over only whole messages. *)
LEMMA StepIntactDelivery ==
    TypeOK /\ BufferInv /\ IntactDelivery /\ [Next]_vars => IntactDelivery'
<1> SUFFICES ASSUME TypeOK, BufferInv, IntactDelivery, [Next]_vars
             PROVE  IntactDelivery'
  OBVIOUS
<1>1. CASE Handle
  <2>1. recvBuf = Frame(Len(delivered) + 1)
    BY <1>1, FullBuffer DEF Handle
  <2>2. /\ Len(delivered') = Len(delivered) + 1 /\ Len(delivered) \in Nat
        /\ \A d \in 1 .. Len(delivered) : delivered'[d] = delivered[d]
        /\ delivered'[Len(delivered) + 1] = recvBuf
    BY <1>1 DEF Handle, TypeOK
  <2>3. ASSUME NEW d \in 1 .. Len(delivered')
        PROVE  delivered'[d] = Frame(d)
    <3>1. CASE d <= Len(delivered)
      BY <2>2, <3>1 DEF IntactDelivery
    <3>2. CASE d = Len(delivered) + 1
      BY <2>1, <2>2, <3>2
    <3> QED BY <2>2, <3>1, <3>2
  <2> QED BY <2>3 DEF IntactDelivery, Frame
<1>2. CASE Reopen
  BY <1>2 DEF Reopen, IntactDelivery
<1>3. CASE UNCHANGED delivered
  BY <1>3 DEF IntactDelivery, Frame
<1> QED BY <1>1, <1>2, <1>3
        DEF Next, Sender, Receiver, PeerAdd, SendStart, SendFetch, SendBytes,
            SendDone, RecvBytes, receiverVars, vars

(* The conjunction is inductive. *)
LEMMA StepIInv == IInv /\ [Next]_vars => IInv'
<1> SUFFICES ASSUME IInv, [Next]_vars PROVE IInv'
  OBVIOUS
<1>1. TypeOK'
  BY StepTypeOK DEF IInv
<1>2. CursorInv' /\ StreamInv' /\ BufferInv' /\ CountInv' /\ IntactDelivery'
  BY <1>1, StepCursorInv, StepStreamInv, StepBufferInv, StepCountInv,
     StepIntactDelivery DEF IInv
<1> QED BY <1>1, <1>2 DEF IInv

-----------------------------------------------------------------------------
(* For all sizes of messages, calls, queues and socket buffers the state   *)
(* keeps its types: cursors stay inside their buffers.                     *)
THEOREM TypeCorrect == Spec => []TypeOK
<1>1. Init => TypeOK
  BY InitIInv DEF IInv
<1> QED BY <1>1, StepTypeOK, PTL DEF Spec

(* The invariant behind the framing holds for all sizes. *)
THEOREM Invariance == Spec => []IInv
<1> QED BY InitIInv, StepIInv, PTL DEF Spec

(* Framing: whatever the sizes, however send() and recv() cut messages up, *)
(* and wherever connections end, handlers get whole messages in the order  *)
(* in which they were dequeued, none lost and none twice.                  *)
THEOREM Framing == Spec => []IntactDelivery
<1>1. IInv => IntactDelivery
  BY DEF IInv
<1> QED BY <1>1, Invariance, PTL

-----------------------------------------------------------------------------
(* The refinement mapping's image of the histories. *)
Transit == SubSeq(taken, Len(delivered) + 1, Len(taken))
Handled == [d \in 1 .. Len(delivered) |-> taken[delivered[d][1].of]]

(* What was handled is an initial part of what was taken, message by       *)
(* message, and what is in transit is the rest.                            *)
Mapped ==
    /\ Len(delivered) \in Nat /\ Len(taken) \in Nat
    /\ Len(delivered) <= Len(taken)
    /\ Handled \in Seq(Messages) /\ Len(Handled) = Len(delivered)
    /\ \A d \in 1 .. Len(delivered) : Handled[d] = taken[d]
    /\ Transit \in Seq(Messages)
    /\ Len(Transit) = Len(taken) - Len(delivered)
    /\ \A k \in 1 .. Len(taken) - Len(delivered) :
          Transit[k] = taken[Len(delivered) + k]

(* The invariant gives the images of the histories that shape. *)
LEMMA MappedState == IInv => Mapped
<1> SUFFICES ASSUME IInv PROVE Mapped
  OBVIOUS
<1>1. /\ Len(delivered) \in Nat /\ Len(taken) \in Nat
      /\ Len(delivered) <= Len(taken) /\ taken \in Seq(Messages)
  BY DEF IInv, TypeOK, CountInv
<1>2. ASSUME NEW d \in 1 .. Len(delivered)
      PROVE  Handled[d] = taken[d] /\ taken[d] \in Messages
  <2>1. delivered[d][1].of = d
    <3>1. delivered[d] = Frame(d)
      BY DEF IInv, IntactDelivery
    <3>2. 1 \in 1 .. MsgSize
      BY SizesAssumption
    <3> QED BY <3>1, <3>2 DEF Frame
  <2>2. d \in 1 .. Len(taken)
    BY <1>1
  <2> QED BY <1>1, <2>1, <2>2 DEF Handled
<1>3. Handled \in [1 .. Len(delivered) -> Messages]
  <2>1. ASSUME NEW d \in 1 .. Len(delivered)
        PROVE  taken[delivered[d][1].of] \in Messages
    BY <1>2 DEF Handled
  <2> QED BY <2>1 DEF Handled
<1>4. Handled \in Seq(Messages) /\ Len(Handled) = Len(delivered)
  BY <1>1, <1>3, FunctionIsSeq
<1>5. /\ Transit \in Seq(Messages)
      /\ Len(Transit) = Len(taken) - Len(delivered)
      /\ \A k \in 1 .. Len(taken) - Len(delivered) :
            Transit[k] = taken[Len(delivered) + k]
  BY <1>1 DEF Transit
<1> QED BY <1>1, <1>2, <1>4, <1>5 DEF Mapped

(* The same of the next state. *)
LEMMA MappedNextState == IInv' => Mapped'
BY MappedState, PTL

(* The link starts as an empty mailbox. *)
LEMMA InitMailbox == Init => MB!MailInit
<1> SUFFICES ASSUME Init PROVE MB!MailInit
  OBVIOUS
<1>1. queue = MB!Empty
  BY DEF Init, Empty, MB!Empty
<1>2. taken = << >> /\ delivered = << >> /\ Len(taken) = 0 /\ Len(delivered) = 0
  BY DEF Init
<1>3. Handled = << >>
  BY <1>2 DEF Handled
<1>4. Transit = << >>
  BY <1>2, SubSeqEmpty DEF Transit
<1> QED BY <1>1, <1>3, <1>4 DEF MB!MailInit, Handled, Transit

(* Fetching a message is taking the top of the mailbox. *)
LEMMA FetchTakes ==
    ASSUME IInv, IInv', SendFetch
    PROVE  MB!Take
<1> DEFINE D == Len(delivered)
           T == Len(taken)
<1>1. /\ taken' = Append(taken, Top(queue)) /\ queue # Empty
      /\ queue' = Dequeue(queue) /\ delivered' = delivered
  BY DEF SendFetch, receiverVars
<1>2. taken \in Seq(Messages) /\ Top(queue) \in Messages
  BY <1>1, DequeueType DEF IInv, TypeOK
<1>3. /\ Len(taken') = T + 1 /\ taken'[T + 1] = Top(queue)
      /\ \A k \in 1 .. T : taken'[k] = taken[k]
  BY <1>1, <1>2
<1>4. /\ D \in Nat /\ T \in Nat /\ D <= T
      /\ Transit \in Seq(Messages) /\ Len(Transit) = T - D
      /\ \A k \in 1 .. T - D : Transit[k] = taken[D + k]
      /\ Handled \in Seq(Messages) /\ Len(Handled) = D
      /\ \A d \in 1 .. D : Handled[d] = taken[d]
  BY MappedState DEF Mapped
<1>5. /\ Transit' \in Seq(Messages) /\ Len(Transit') = T + 1 - D
      /\ \A k \in 1 .. T + 1 - D : Transit'[k] = taken'[D + k]
      /\ Handled' \in Seq(Messages) /\ Len(Handled') = D
      /\ \A d \in 1 .. D : Handled'[d] = taken'[d]
  <2>1. /\ Transit' \in Seq(Messages)
        /\ Len(Transit') = Len(taken') - Len(delivered')
        /\ \A k \in 1 .. Len(taken') - Len(delivered') :
              Transit'[k] = taken'[Len(delivered') + k]
        /\ Handled' \in Seq(Messages) /\ Len(Handled') = Len(delivered')
        /\ \A d \in 1 .. Len(delivered') : Handled'[d] = taken'[d]
    BY MappedNextState DEF Mapped
  <2>2. Len(taken') = T + 1 /\ Len(delivered') = D
    BY <1>1, <1>3
  <2>3. D \in Nat /\ T \in Nat
    BY <1>4
  <2> HIDE DEF D, T
  <2> QED BY <2>1, <2>2, <2>3
<1> HIDE DEF D, T
<1>6. Handled' = Handled
  <2>1. ASSUME NEW d \in 1 .. D PROVE Handled'[d] = Handled[d]
    <3>1. d \in 1 .. T
      BY <1>4
    <3> QED BY <1>3, <1>4, <1>5, <3>1
  <2> QED BY <1>4, <1>5, <2>1, SeqEqual
<1>7. Transit' = Append(Transit, Top(queue))
  <2>1. /\ Append(Transit, Top(queue)) \in Seq(Messages)
        /\ Len(Append(Transit, Top(queue))) = T - D + 1
        /\ \A k \in 1 .. T - D : Append(Transit, Top(queue))[k] = Transit[k]
        /\ Append(Transit, Top(queue))[T - D + 1] = Top(queue)
    BY <1>2, <1>4
  <2>2. ASSUME NEW k \in 1 .. T + 1 - D
        PROVE  Transit'[k] = Append(Transit, Top(queue))[k]
    <3>1. CASE k <= T - D
      <4>1. k \in 1 .. T - D /\ D + k \in 1 .. T
        BY <1>4, <3>1
      <4> QED BY <1>3, <1>4, <1>5, <2>1, <4>1
    <3>2. CASE k = T - D + 1
      <4>1. D + k = T + 1
        BY <1>4, <3>2
      <4> QED BY <1>3, <1>5, <2>1, <3>2, <4>1
    <3> QED BY <1>4, <3>1, <3>2
  <2>3. T + 1 - D = T - D + 1
    BY <1>4
  <2> QED BY <1>5, <2>1, <2>2, <2>3, SeqEqual
<1>8. /\ queue # MB!Empty /\ Top(queue) = MB!Top(queue)
      /\ Dequeue(queue) = MB!Dequeue(queue)
  BY <1>1 DEF Empty, MB!Empty, Top, MB!Top, Dequeue, MB!Dequeue
<1> QED BY <1>1, <1>6, <1>7, <1>8 DEF MB!Take, Transit, Handled

(* Handling a full buffer is delivering the oldest message in transit. *)
LEMMA HandleDelivers ==
    ASSUME IInv, IInv', Handle
    PROVE  MB!Deliver
<1> DEFINE D == Len(delivered)
           T == Len(taken)
<1>1. queue' = queue /\ taken' = taken /\ delivered' = Append(delivered, recvBuf)
  BY DEF Handle, senderVars
<1>2. Len(delivered') = D + 1
  BY <1>1 DEF IInv, TypeOK
<1>3. /\ D \in Nat /\ T \in Nat /\ D <= T
      /\ Transit \in Seq(Messages) /\ Len(Transit) = T - D
      /\ \A k \in 1 .. T - D : Transit[k] = taken[D + k]
      /\ Handled \in Seq(Messages) /\ Len(Handled) = D
      /\ \A d \in 1 .. D : Handled[d] = taken[d]
  BY MappedState DEF Mapped
<1>4. /\ D + 1 <= T
      /\ Transit' \in Seq(Messages) /\ Len(Transit') = T - (D + 1)
      /\ \A k \in 1 .. T - (D + 1) : Transit'[k] = taken[D + 1 + k]
      /\ Handled' \in Seq(Messages) /\ Len(Handled') = D + 1
      /\ \A d \in 1 .. D + 1 : Handled'[d] = taken[d]
  <2>1. /\ Len(delivered') <= Len(taken')
        /\ Transit' \in Seq(Messages)
        /\ Len(Transit') = Len(taken') - Len(delivered')
        /\ \A k \in 1 .. Len(taken') - Len(delivered') :
              Transit'[k] = taken'[Len(delivered') + k]
        /\ Handled' \in Seq(Messages) /\ Len(Handled') = Len(delivered')
        /\ \A d \in 1 .. Len(delivered') : Handled'[d] = taken'[d]
    BY MappedNextState DEF Mapped
  <2> QED BY <1>1, <1>2, <2>1
<1> HIDE DEF D, T
<1>5. Transit # << >>
  <2>1. Len(Transit) > 0
    BY <1>3, <1>4
  <2> QED BY <2>1
<1>6. Head(Transit) = taken[D + 1] /\ taken[D + 1] \in Messages
  <2>1. 1 \in 1 .. T - D
    BY <1>3, <1>4
  <2>2. Head(Transit) = Transit[1] /\ Transit[1] \in Messages
    BY <1>3, <1>5, <2>1
  <2> QED BY <1>3, <2>1, <2>2
<1>7. Transit' = Tail(Transit)
  <2>1. /\ Tail(Transit) \in Seq(Messages)
        /\ Len(Tail(Transit)) = T - D - 1
        /\ \A k \in 1 .. T - D - 1 : Tail(Transit)[k] = Transit[k + 1]
    BY <1>3, <1>5, HeadTailProperties
  <2>2. ASSUME NEW k \in 1 .. T - (D + 1)
        PROVE  Transit'[k] = Tail(Transit)[k]
    <3>1. /\ k \in 1 .. T - D - 1 /\ k + 1 \in 1 .. T - D
          /\ D + (k + 1) = D + 1 + k
      BY <1>3
    <3> QED BY <1>3, <1>4, <2>1, <3>1
  <2>3. T - (D + 1) = T - D - 1
    BY <1>3
  <2> QED BY <1>4, <2>1, <2>2, <2>3, SeqEqual
<1>8. Handled' = Append(Handled, taken[D + 1])
  <2>1. /\ Append(Handled, taken[D + 1]) \in Seq(Messages)
        /\ Len(Append(Handled, taken[D + 1])) = D + 1
        /\ \A d \in 1 .. D : Append(Handled, taken[D + 1])[d] = Handled[d]
        /\ Append(Handled, taken[D + 1])[D + 1] = taken[D + 1]
    BY <1>3, <1>6
  <2>2. ASSUME NEW d \in 1 .. D + 1
        PROVE  Handled'[d] = Append(Handled, taken[D + 1])[d]
    <3>1. CASE d <= D
      <4>1. d \in 1 .. D
        BY <1>3, <3>1
      <4>2. Handled'[d] = taken[d] /\ Handled[d] = taken[d]
        BY <1>3, <1>4, <4>1
      <4> QED BY <2>1, <4>1, <4>2
    <3>2. CASE d = D + 1
      BY <1>4, <2>1, <3>2
    <3> QED BY <1>3, <3>1, <3>2
  <2> QED BY <1>4, <2>1, <2>2, SeqEqual
<1> QED BY <1>1, <1>5, <1>6, <1>7, <1>8 DEF MB!Deliver, Transit, Handled

(* Every step of the link is a step of the mailbox, or none. *)
LEMMA StepMailbox ==
    IInv /\ IInv' /\ [Next]_vars => [MB!MailNext]_MB!mailVars
<1> SUFFICES ASSUME IInv, IInv', [Next]_vars
             PROVE  [MB!MailNext]_MB!mailVars
  OBVIOUS
<1>1. CASE PeerAdd
  <2>1. offers + 1 \in Messages
    BY <1>1 DEF PeerAdd, IInv, TypeOK, Messages
  <2>2. queue' = MB!Enqueue(queue, QueueSize, offers + 1)
    BY <1>1 DEF PeerAdd, Enqueue, Full, MB!Enqueue, MB!Full
  <2>3. MB!Offer(offers + 1)
    BY <1>1, <2>2 DEF PeerAdd, receiverVars, MB!Offer
  <2> QED BY <2>1, <2>3 DEF MB!MailNext
<1>2. CASE SendFetch
  BY <1>2, FetchTakes DEF MB!MailNext
<1>3. CASE Handle
  BY <1>3, HandleDelivers DEF MB!MailNext
<1>4. CASE Reopen
  <2>1. /\ queue' = MB!Empty
        /\ Len(taken') = 0 /\ delivered' = << >> /\ Len(delivered') = 0
    BY <1>4 DEF Reopen, Empty, MB!Empty
  <2>2. Handled' = << >>
    BY <2>1 DEF Handled
  <2>3. Transit' = << >>
    BY <2>1, SubSeqEmpty DEF Transit
  <2> QED BY <2>1, <2>2, <2>3 DEF MB!MailNext, MB!Lose, Handled, Transit
<1>5. CASE UNCHANGED <<queue, taken, delivered>>
  BY <1>5 DEF MB!mailVars
<1> QED BY <1>1, <1>2, <1>3, <1>4, <1>5
        DEF Next, Sender, Receiver, SendStart, SendBytes, SendDone, RecvBytes,
            receiverVars, senderVars, vars

(* Each direction of a connection is a mailbox, for all sizes: byte        *)
(* cursors and partial calls never show through (message.h:116-354).       *)
THEOREM Refinement == Spec => ImplementsMailbox
<1> QED BY InitMailbox, StepMailbox, Invariance, PTL
        DEF Spec, ImplementsMailbox, MB!MailSpec
=============================================================================
