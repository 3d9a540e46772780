----------------------------- MODULE Lines_proofs -----------------------------
(***************************************************************************)
(* Proofs about Lines, for any line that is typed, any number of pending   *)
(* reads and any size of the buffers.                                      *)
(***************************************************************************)
EXTENDS Lines, FiniteSetTheorems, NaturalsInduction, WellFoundedInduction, SequenceTheorems, TLAPS

(* The calls of the two programs' readers.                                 *)
LinesSpec == Init /\ [][LinesNext]_vars

(* A call is one of a reader, and its result is the reader's.              *)
CallInv ==
    /\ call = "spawnShell" =>
          /\ value \in Typed
          /\ result = [line |-> input(value), commands |-> Commands(input(value).text)]
    /\ call = "readSTDIN" => value \in Pending /\ result = readSTDIN(value)

LEMMA CallHolds == LinesSpec => []CallInv
<1>1. Init => CallInv
  BY DEF Init, CallInv
<1>2. CallInv /\ [LinesNext]_vars => CallInv'
  <2> SUFFICES ASSUME CallInv, [LinesNext]_vars PROVE CallInv'
    OBVIOUS
  <2>1. CASE UNCHANGED vars
    BY <2>1 DEF vars, CallInv
  <2>2. ASSUME NEW t \in Typed,
               Call("spawnShell", t, [line |-> input(t), commands |-> Commands(input(t).text)])
        PROVE  CallInv'
    BY <2>2 DEF Call, CallInv
  <2>3. ASSUME NEW reads \in Pending, Call("readSTDIN", reads, readSTDIN(reads))
        PROVE  CallInv'
    BY <2>3 DEF Call, CallInv
  <2> QED BY <2>1, <2>2, <2>3 DEF LinesNext
<1> QED BY <1>1, <1>2, PTL DEF LinesSpec

-----------------------------------------------------------------------------
(* Numbers: the least and the greatest of a set.                           *)
LEMMA LeastNatural ==
  ASSUME NEW S, S \subseteq Nat, S # {}
  PROVE  \E x \in S : \A y \in S : x <= y
<1>1. \E x \in S : \A y \in S : ~(<<y, x>> \in OpToRel(<, Nat))
  BY NatLessThanWellFounded, WFMin
<1>2. \A x, y \in Nat : ~(<<y, x>> \in OpToRel(<, Nat)) => x <= y
  BY DEF OpToRel
<1> QED BY <1>1, <1>2

LEMMA MinIsLeast ==
  ASSUME NEW S, S \subseteq Nat, S # {}
  PROVE  Min(S) \in S /\ \A y \in S : Min(S) <= y
BY LeastNatural DEF Min

LEMMA MaxIsGreatest ==
  ASSUME NEW n \in Nat, NEW S, S \subseteq 1 .. n, S # {}
  PROVE  Max(S) \in S /\ \A y \in S : Max(S) >= y
<1> DEFINE R == {n - x : x \in S}
<1>1. R \subseteq Nat /\ R # {}
  <2>1. \A x \in S : x \in 1 .. n /\ n - x \in Nat
    OBVIOUS
  <2> QED BY <2>1
<1>2. PICK r \in R : \A y \in R : r <= y
  BY <1>1, LeastNatural
<1>3. PICK x \in S : r = n - x
  BY <1>2
<1>4. \A y \in S : x >= y
  <2> TAKE y \in S
  <2>1. n - y \in R
    OBVIOUS
  <2> QED BY <1>2, <1>3, <2>1
<1> QED BY <1>3, <1>4 DEF Max

-----------------------------------------------------------------------------
(* readSTDIN().                                                            *)

(* As many reads are taken as there are, or fewer.                         *)
LEMMA TakenTyped ==
  ASSUME NEW reads \in Pending, reads # <<>>
  PROVE  Taken(reads) \in 1 .. Len(reads) /\ Len(reads) \in Nat
<1>1. reads \in Seq(Seq(1 .. 127)) /\ Len(reads) \in Nat /\ Len(reads) >= 1
  BY LinesAssumption
<1> DEFINE S == {Len(reads)} \cup {n \in 1 .. Len(reads) : Total(reads, n) > MaxLength}
<1>2. S \subseteq 1 .. Len(reads) /\ S \subseteq Nat /\ S # {}
  BY <1>1
<1>3. Min(S) \in S
  BY <1>2, MinIsLeast
<1> QED BY <1>1, <1>2, <1>3 DEF Taken

(* The reads are neither empty nor longer than the buffer, and hold no     *)
(* zero.                                                                   *)
LEMMA ReadsTyped ==
  ASSUME NEW reads \in Pending, reads # <<>>, NEW m \in 1 .. Len(reads)
  PROVE  /\ reads[m] \in Seq(1 .. 127) /\ Len(reads[m]) \in 1 .. MaxLength
         /\ \A p \in 1 .. Len(reads[m]) : reads[m][p] \in 1 .. 127
         /\ MaxLength \in Nat \ {0}
<1>1. reads \in Seq(Seq(1 .. 127)) /\ Len(reads[m]) \in 1 .. MaxLength
  BY LinesAssumption
<1>2. reads[m] \in Seq(1 .. 127)
  BY <1>1
<1>3. \A p \in 1 .. Len(reads[m]) : reads[m][p] \in 1 .. 127
  BY <1>2, ElementOfSeq
<1> QED BY <1>1, <1>2, <1>3, LinesAssumption

(* A place of the buffer holds what the last read that reached it wrote,   *)
(* and a zero if none has.                                                 *)
LEMMA BufferHolds ==
  ASSUME NEW reads \in Pending, reads # <<>>, NEW p \in 1 .. MaxLength
  PROVE  LET n == Taken(reads)
         IN /\ p <= Len(reads[n]) => Buffer(reads)[p] = reads[n][p]
            /\ (\A m \in 1 .. n : Len(reads[m]) < p) => Buffer(reads)[p] = Nul
            /\ (\E m \in 1 .. n : Len(reads[m]) >= p) => Buffer(reads)[p] \in 1 .. 127
<1> DEFINE n == Taken(reads)
           long == {m \in 1 .. n : Len(reads[m]) >= p}
<1>1. n \in 1 .. Len(reads) /\ n \in Nat /\ n >= 1 /\ \A m \in 1 .. n : m \in 1 .. Len(reads)
  BY TakenTyped
<1>2. Buffer(reads)[p] = IF long = {} THEN Nul ELSE reads[Max(long)][p]
  BY DEF Buffer
<1> HIDE DEF n
<1>3. ASSUME long # {}
      PROVE  Max(long) \in 1 .. n /\ Len(reads[Max(long)]) >= p /\ \A m \in long : Max(long) >= m
  <2>1. long \subseteq 1 .. n /\ \A m \in long : Len(reads[m]) >= p
    OBVIOUS
  <2> HIDE DEF long
  <2>2. Max(long) \in long /\ \A m \in long : Max(long) >= m
    BY <1>1, <1>3, <2>1, MaxIsGreatest
  <2> QED BY <2>1, <2>2
<1>4. ASSUME p <= Len(reads[n]) PROVE Buffer(reads)[p] = reads[n][p]
  <2>1. Len(reads[n]) >= p
    BY <1>1, <1>4, ReadsTyped
  <2>2. n \in long
    BY <1>1, <2>1
  <2> HIDE DEF long
  <2>3. Max(long) = n
    BY <1>1, <1>3, <2>2
  <2> QED BY <1>2, <2>2, <2>3
<1>5. ASSUME \A m \in 1 .. n : Len(reads[m]) < p PROVE Buffer(reads)[p] = Nul
  <2>1. \A m \in 1 .. n : ~(Len(reads[m]) >= p)
    BY <1>1, <1>5, ReadsTyped
  <2> QED BY <1>2, <2>1
<1>6. ASSUME NEW m \in 1 .. n, Len(reads[m]) >= p PROVE Buffer(reads)[p] \in 1 .. 127
  <2>1. m \in long
    BY <1>6
  <2> HIDE DEF long
  <2>2. p \in 1 .. Len(reads[Max(long)])
    BY <1>1, <1>3, <2>1, ReadsTyped
  <2> QED BY <1>1, <1>2, <1>3, <2>1, <2>2, ReadsTyped
<1> QED BY <1>4, <1>5, <1>6 DEF n

(* Sequences: their elements, and what they begin with.                    *)
LEMMA PlacesTyped ==
  ASSUME NEW C, NEW n \in Nat, NEW s, \A p \in 1 .. n : s[p] \in C
  PROVE  [p \in 1 .. n |-> s[p]] \in Seq(C)
OBVIOUS

LEMMA Beginning ==
  ASSUME NEW C, NEW s \in Seq(C), NEW n \in 0 .. Len(s)
  PROVE  SubSeq(s, 1, n) = [p \in 1 .. n |-> s[p]] /\ SubSeq(s, 1, n) \in Seq(C)
OBVIOUS

(* Some read is in the way only if it fills the buffer: without one there  *)
(* is a terminator.                                                        *)
LEMMA BufferText ==
  ASSUME NEW reads \in Pending, reads # <<>>
  PROVE  LET n == Taken(reads)
             text == CString(Buffer(reads))
         IN IF \E m \in 1 .. n : Len(reads[m]) = MaxLength THEN ~Terminated(Buffer(reads))
            ELSE /\ Terminated(Buffer(reads))
                 /\ text \in Seq(1 .. 127) /\ Len(text) >= Len(reads[n])
                 /\ \A p \in 1 .. Len(reads[n]) : text[p] = reads[n][p]
                 /\ (\A m \in 1 .. n : Len(reads[m]) <= Len(reads[n])) => Len(text) = Len(reads[n])
<1> DEFINE n == Taken(reads)
           buf == Buffer(reads)
           zeros == {p \in 1 .. Len(buf) : buf[p] = Nul}
           text == CString(buf)
<1>1. n \in 1 .. Len(reads) /\ n \in 1 .. n /\ \A m \in 1 .. n : m \in 1 .. Len(reads)
  BY TakenTyped
<1>2. \A m \in 1 .. n : Len(reads[m]) \in 1 .. MaxLength
  BY <1>1, ReadsTyped
<1>3. MaxLength \in Nat \ {0}
  BY LinesAssumption
<1>4. Len(buf) = MaxLength
  <2>1. buf = [p \in 1 .. MaxLength |-> buf[p]]
    BY DEF Buffer
  <2> HIDE DEF buf
  <2> QED BY <1>3, <2>1
<1>5. \A p \in 1 .. MaxLength :
         /\ p <= Len(reads[n]) => buf[p] = reads[n][p]
         /\ (\A m \in 1 .. n : Len(reads[m]) < p) => buf[p] = Nul
         /\ (\E m \in 1 .. n : Len(reads[m]) >= p) => buf[p] \in 1 .. 127
  BY BufferHolds
<1>6. \A p \in 1 .. Len(buf) : buf[p] \in 1 .. 127 \/ buf[p] = Nul
  <2> TAKE p \in 1 .. Len(buf)
  <2>1. \A m \in 1 .. n : Len(reads[m]) >= p \/ Len(reads[m]) < p
    BY <1>2, <1>4
  <2> QED BY <1>4, <1>5, <2>1
<1> HIDE DEF n, buf
<1>7. ASSUME NEW m \in 1 .. n, Len(reads[m]) = MaxLength PROVE ~Terminated(buf)
  <2>1. \A p \in 1 .. MaxLength : buf[p] \in 1 .. 127
    <3> TAKE p \in 1 .. MaxLength
    <3>1. Len(reads[m]) >= p
      BY <1>3, <1>7
    <3> QED BY <1>5, <3>1
  <2>2. \A p \in 1 .. MaxLength : buf[p] # Nul
    <3>1. \A x \in 1 .. 127 : x # Nul
      BY DEF Nul
    <3> QED BY <2>1, <3>1
  <2> QED BY <1>4, <2>2 DEF Terminated
<1>8. ASSUME \A m \in 1 .. n : Len(reads[m]) # MaxLength
      PROVE  /\ Terminated(buf)
             /\ text \in Seq(1 .. 127) /\ Len(text) >= Len(reads[n])
             /\ \A p \in 1 .. Len(reads[n]) : text[p] = reads[n][p]
             /\ (\A m \in 1 .. n : Len(reads[m]) <= Len(reads[n])) => Len(text) = Len(reads[n])
  <2>1. \A m \in 1 .. n : Len(reads[m]) < MaxLength
    BY <1>2, <1>3, <1>8
  <2>2. MaxLength \in 1 .. MaxLength /\ buf[MaxLength] = Nul
    BY <1>3, <1>5, <2>1
  <2>3. zeros # {} /\ zeros \subseteq Nat
    BY <1>4, <2>2
  <2> DEFINE q == Min(zeros)
  <2>4. q \in zeros /\ \A p \in zeros : q <= p
    BY <2>3, MinIsLeast
  <2>5. text = SubSeq(buf, 1, q - 1)
    BY DEF CString
  <2>6. q \in 1 .. MaxLength /\ buf[q] = Nul /\ \A p \in 1 .. q - 1 : p \in 1 .. MaxLength /\ buf[p] # Nul
    <3> HIDE DEF q
    <3>1. q \in 1 .. MaxLength /\ buf[q] = Nul
      BY <1>4, <2>4
    <3>2. ASSUME NEW p \in 1 .. q - 1 PROVE p \in 1 .. MaxLength /\ p \notin zeros
      BY <1>3, <2>4, <3>1, <3>2
    <3> QED BY <1>4, <3>1, <3>2
  <2>7. buf \in Seq(0 .. 127)
    <3>1. buf = [p \in 1 .. MaxLength |-> buf[p]]
      BY DEF buf, Buffer
    <3>2. \A p \in 1 .. MaxLength : buf[p] \in 0 .. 127
      BY <1>4, <1>6 DEF Nul
    <3>3. buf \in [1 .. MaxLength -> 0 .. 127]
      BY <3>1, <3>2
    <3> QED BY <1>3, <3>3
  <2> HIDE DEF q, zeros, text
  <2>8. Len(text) = q - 1 /\ \A p \in 1 .. q - 1 : text[p] = buf[p]
    BY <1>4, <2>5, <2>6, <2>7
  <2>9. text \in Seq(1 .. 127)
    <3>1. \A p \in 1 .. q - 1 : text[p] \in 1 .. 127
      BY <1>4, <1>6, <2>6, <2>8
    <3>2. text = [p \in 1 .. q - 1 |-> buf[p]] /\ q - 1 \in Nat
      BY <1>4, <2>5, <2>6, <2>7, Beginning
    <3>3. \A p \in 1 .. q - 1 : buf[p] \in 1 .. 127
      BY <2>8, <3>1
    <3> QED BY <3>2, <3>3, PlacesTyped
  <2>10. Len(reads[n]) < q
    <3>1. Len(reads[n]) \in 1 .. MaxLength
      BY <1>1, <1>2
    <3>2. ASSUME q <= Len(reads[n]) PROVE FALSE
      <4>1. buf[q] \in 1 .. 127
        BY <1>1, <1>5, <2>6, <3>1, <3>2
      <4> QED BY <2>6, <4>1 DEF Nul
    <3> QED BY <2>6, <3>1, <3>2
  <2>11. ASSUME \A m \in 1 .. n : Len(reads[m]) <= Len(reads[n]) PROVE q = Len(reads[n]) + 1
    <3> DEFINE p == Len(reads[n]) + 1
    <3>1. Len(reads[n]) \in 1 .. MaxLength /\ Len(reads[n]) < MaxLength
      BY <1>1, <1>2, <2>1
    <3>2. p \in 1 .. MaxLength /\ \A m \in 1 .. n : Len(reads[m]) < p
      BY <1>2, <1>3, <2>11, <3>1
    <3>3. p \in zeros
      BY <1>4, <1>5, <3>2 DEF zeros
    <3> QED BY <2>4, <2>6, <2>10, <3>1, <3>3
  <2>12. \A p \in 1 .. Len(reads[n]) : text[p] = reads[n][p]
    <3> TAKE p \in 1 .. Len(reads[n])
    <3>1. Len(reads[n]) \in 1 .. MaxLength
      BY <1>1, <1>2
    <3>2. p \in 1 .. q - 1 /\ p \in 1 .. MaxLength /\ p <= Len(reads[n])
      BY <1>3, <2>6, <2>10, <3>1
    <3> QED BY <1>5, <2>8, <3>2
  <2>13. Terminated(buf)
    BY <1>4, <2>2 DEF Terminated
  <2>14. Len(reads[n]) \in Nat /\ q \in Nat
    BY <1>1, <1>2, <2>6
  <2> QED BY <2>8, <2>9, <2>10, <2>11, <2>12, <2>13, <2>14
<1> QED BY <1>7, <1>8 DEF n, buf

(* What readSTDIN() makes of a text that the last read begins.             *)
LEMMA StrippedBegins ==
  ASSUME NEW read \in Seq(1 .. 127), Len(read) >= 1,
         NEW text \in Seq(1 .. 127), Len(text) >= Len(read),
         \A p \in 1 .. Len(read) : text[p] = read[p]
  PROVE  LET line == IF Last(read) = Newline THEN Front(read) ELSE read
         IN /\ IsPrefix(line, Stripped(text))
            /\ Len(text) = Len(read) => Stripped(text) = line
<1> DEFINE line == IF Last(read) = Newline THEN Front(read) ELSE read
           C == 1 .. 127
<1>1. read \in Seq(C) /\ text \in Seq(C)
  OBVIOUS
<1> HIDE DEF C
<1>2. Len(read) \in Nat /\ Len(text) \in Nat /\ text # <<>>
  BY <1>1
<1>3. CASE Len(text) = Len(read)
  <2>1. text = read
    BY <1>1, <1>2, <1>3
  <2>2. Stripped(text) = line
    BY <1>2, <2>1 DEF Stripped
  <2>3. line \in Seq(C)
    BY <1>1, <1>2 DEF Front
  <2> HIDE DEF line
  <2>4. IsPrefix(line, line)
    BY <2>3 DEF IsPrefix
  <2> QED BY <2>2, <2>4 DEF line
<1>4. CASE Len(text) # Len(read)
  <2> DEFINE all == Stripped(text)
  <2>1. /\ all \in Seq(C) /\ Len(all) >= Len(read)
        /\ \A p \in 1 .. Len(read) : all[p] = read[p]
    BY <1>1, <1>2, <1>4 DEF Stripped, Front
  <2>2. /\ line \in Seq(C) /\ Len(line) <= Len(read)
        /\ \A p \in 1 .. Len(line) : line[p] = read[p]
    BY <1>1, <1>2 DEF Front
  <2> HIDE DEF all, line
  <2>3. Len(line) <= Len(all) /\ \A p \in 1 .. Len(line) : line[p] = all[p]
    BY <1>2, <2>1, <2>2
  <2>4. SubSeq(line, 1, Len(line)) = [p \in 1 .. Len(line) |-> line[p]]
    BY <2>2, Beginning
  <2>5. SubSeq(all, 1, Len(line)) = [p \in 1 .. Len(line) |-> all[p]]
    BY <2>1, <2>2, <2>3, Beginning
  <2>6. IsPrefix(line, all)
    BY <2>3, <2>4, <2>5 DEF IsPrefix
  <2> QED BY <1>4, <2>6 DEF all, line
<1> QED BY <1>3, <1>4

(* A pending line shorter than the buffer is returned without its newline; *)
(* of several the last comes first, whole, and is all there is if no line  *)
(* before it was longer; when one fills the buffer, nothing ends the text  *)
(* (message.h:374-394).                                                    *)
THEOREM LastComesFirst == LinesSpec => []LastLineFirst
<1>1. ASSUME NEW reads \in Pending, reads # <<>>
      PROVE  LET n == Taken(reads)
                 line == IF Last(reads[n]) = Newline THEN Front(reads[n]) ELSE reads[n]
                 longest == \A k \in 1 .. n : Len(reads[k]) <= Len(reads[n])
                 full == \E k \in 1 .. n : Len(reads[k]) = MaxLength
             IN IF full THEN readSTDIN(reads) = Unset
                ELSE /\ readSTDIN(reads).kind = "word"
                     /\ IsPrefix(line, readSTDIN(reads).text)
                     /\ longest => readSTDIN(reads).text = line
  <2> DEFINE n == Taken(reads)
             read == reads[n]
             text == CString(Buffer(reads))
             line == IF Last(read) = Newline THEN Front(read) ELSE read
  <2>1. CASE \E k \in 1 .. n : Len(reads[k]) = MaxLength
    BY <1>1, <2>1, BufferText DEF readSTDIN
  <2>2. CASE ~\E k \in 1 .. n : Len(reads[k]) = MaxLength
    <3>1. /\ Terminated(Buffer(reads))
          /\ text \in Seq(1 .. 127) /\ Len(text) >= Len(read)
          /\ \A p \in 1 .. Len(read) : text[p] = read[p]
          /\ (\A m \in 1 .. n : Len(reads[m]) <= Len(read)) => Len(text) = Len(read)
      BY <1>1, <2>2, BufferText
    <3>2. read \in Seq(1 .. 127) /\ Len(read) \in 1 .. MaxLength
      BY <1>1, TakenTyped, ReadsTyped
    <3>3. Len(read) >= 1
      BY <3>2, LinesAssumption
    <3> HIDE DEF read, text
    <3>4. /\ IsPrefix(line, Stripped(text))
          /\ Len(text) = Len(read) => Stripped(text) = line
      BY <3>1, <3>2, <3>3, StrippedBegins
    <3>5. readSTDIN(reads) = Word(Stripped(text))
      BY <3>1 DEF readSTDIN, text
    <3>6. readSTDIN(reads).kind = "word" /\ readSTDIN(reads).text = Stripped(text)
      BY <3>5 DEF Word
    <3> QED BY <2>2, <3>1, <3>4, <3>6 DEF read
  <2> QED BY <2>1, <2>2
<1>2. CallInv => LastLineFirst
  BY <1>1 DEF CallInv, LastLineFirst
<1> QED BY <1>2, CallHolds, PTL

-----------------------------------------------------------------------------
(* input().                                                                *)

(* One turn of the loop, and the loop as a function of the turns.          *)
Start == [i |-> 0, size |-> InitialSize, open |-> TRUE]
Turn(s, c) == LET size == Grown(s.i, s.size)
              IN CASE ~s.open -> s
                   [] s.open /\ c = Newline -> [s EXCEPT !.size = size, !.open = FALSE]
                   [] OTHER -> [s EXCEPT !.i = @ + 1, !.size = size]
Turns(typed, f) == [k \in 0 .. Len(typed) |-> IF k = 0 THEN Start ELSE Turn(f[k - 1], typed[k])]

LEMMA TurnMoves ==
  ASSUME NEW n, NEW size, NEW c
  PROVE  /\ Turn([i |-> n, size |-> size, open |-> FALSE], c)
               = [i |-> n, size |-> size, open |-> FALSE]
         /\ c = Newline => Turn([i |-> n, size |-> size, open |-> TRUE], c)
                             = [i |-> n, size |-> Grown(n, size), open |-> FALSE]
         /\ c # Newline => Turn([i |-> n, size |-> size, open |-> TRUE], c)
                             = [i |-> n + 1, size |-> Grown(n, size), open |-> TRUE]
BY DEF Turn

LEMMA ReadingTurns ==
  ASSUME NEW typed
  PROVE  Reading(typed) = (CHOOSE f : f = Turns(typed, f))[Len(typed)]
BY DEF Reading, Turns, Turn, Start

(* What the loop does to a line: it takes the characters in front of the   *)
(* first newline, and grows the buffer with each that it has no room for.  *)
Before(typed) == Min({n \in 0 .. Len(typed) : n = Len(typed) \/ typed[n + 1] = Newline})
Room(n) == IF n < InitialSize THEN InitialSize ELSE n
After(typed, k) ==
    IF k <= Before(typed) THEN [i |-> k, size |-> Room(k), open |-> TRUE]
    ELSE [i |-> Before(typed), size |-> Room(Before(typed) + 1), open |-> FALSE]

LEMMA BeforeIsFirst ==
  ASSUME NEW typed \in Seq(1 .. 127)
  PROVE  /\ Len(typed) \in Nat /\ Before(typed) \in 0 .. Len(typed)
         /\ \A k \in 1 .. Before(typed) : typed[k] # Newline
         /\ Before(typed) < Len(typed) => typed[Before(typed) + 1] = Newline
<1> DEFINE S == {n \in 0 .. Len(typed) : n = Len(typed) \/ typed[n + 1] = Newline}
<1>1. Len(typed) \in Nat
  OBVIOUS
<1>2. S \subseteq Nat /\ Len(typed) \in S
  BY <1>1
<1>3. Before(typed) \in S /\ \A n \in S : Before(typed) <= n
  BY <1>2, MinIsLeast DEF Before
<1>4. ASSUME NEW k \in 1 .. Before(typed) PROVE typed[k] # Newline
  <2>1. k - 1 \in 0 .. Len(typed) /\ ~(Before(typed) <= k - 1) /\ (k - 1) + 1 = k
    BY <1>1, <1>3, <1>4
  <2> QED BY <1>3, <2>1
<1> QED BY <1>1, <1>3, <1>4

(* So every turn does.                                                     *)
LEMMA AfterTurns ==
  ASSUME NEW typed \in Seq(1 .. 127), NEW k \in 1 .. Len(typed)
  PROVE  After(typed, k) = Turn(After(typed, k - 1), typed[k])
<1> DEFINE m == Before(typed)
<1>1. /\ Len(typed) \in Nat /\ m \in 0 .. Len(typed) /\ m \in Nat /\ k \in Nat /\ k >= 1
      /\ \A j \in 1 .. m : typed[j] # Newline
      /\ m < Len(typed) => typed[m + 1] = Newline
      /\ InitialSize \in Nat \ {0}
  BY BeforeIsFirst, LinesAssumption
<1> HIDE DEF m
<1>2. \A n \in Nat : Grown(n, Room(n)) = Room(n + 1)
  BY <1>1 DEF Grown, Room
<1>3. CASE k <= m
  <2>1. After(typed, k - 1) = [i |-> k - 1, size |-> Room(k - 1), open |-> TRUE]
    BY <1>1, <1>3 DEF After, m
  <2>2. typed[k] # Newline
    BY <1>1, <1>3
  <2>3. Grown(k - 1, Room(k - 1)) = Room(k)
    BY <1>1, <1>2
  <2>4. Turn(After(typed, k - 1), typed[k]) = [i |-> (k - 1) + 1, size |-> Room(k), open |-> TRUE]
    <3>1. Turn([i |-> k - 1, size |-> Room(k - 1), open |-> TRUE], typed[k])
             = [i |-> (k - 1) + 1, size |-> Grown(k - 1, Room(k - 1)), open |-> TRUE]
      BY <2>2, TurnMoves, Zenon
    <3> QED BY <2>1, <2>3, <3>1, Zenon
  <2>5. (k - 1) + 1 = k
    BY <1>1
  <2> QED BY <1>3, <2>4, <2>5 DEF After, m
<1>4. CASE k = m + 1
  <2>1. After(typed, k - 1) = [i |-> m, size |-> Room(m), open |-> TRUE]
    <3>1. k - 1 = m /\ m <= m
      BY <1>1, <1>4
    <3> QED BY <3>1 DEF After, m
  <2>2. typed[k] = Newline
    BY <1>1, <1>4
  <2>3. Turn(After(typed, k - 1), typed[k]) = [i |-> m, size |-> Room(m + 1), open |-> FALSE]
    <3>1. Turn([i |-> m, size |-> Room(m), open |-> TRUE], typed[k])
             = [i |-> m, size |-> Grown(m, Room(m)), open |-> FALSE]
      BY <2>2, TurnMoves, Zenon
    <3>2. Grown(m, Room(m)) = Room(m + 1)
      BY <1>1, <1>2
    <3> QED BY <2>1, <3>1, <3>2, Zenon
  <2> QED BY <1>1, <1>4, <2>3 DEF After, m
<1>5. CASE k > m + 1
  <2>1. /\ After(typed, k - 1) = [i |-> m, size |-> Room(m + 1), open |-> FALSE]
        /\ After(typed, k) = [i |-> m, size |-> Room(m + 1), open |-> FALSE]
    BY <1>1, <1>5 DEF After, m
  <2> QED BY <2>1, TurnMoves
<1> QED BY <1>1, <1>3, <1>4, <1>5

(* The loop does this and nothing else: the first turn that differed would *)
(* follow one that did not.                                                *)
LEMMA ReadingIsAfter ==
  ASSUME NEW typed \in Seq(1 .. 127)
  PROVE  Reading(typed) = After(typed, Len(typed))
<1> DEFINE N == Len(typed)
           g == [k \in 0 .. N |-> After(typed, k)]
<1>1. N \in Nat /\ Before(typed) \in Nat /\ InitialSize \in Nat \ {0}
  BY BeforeIsFirst, LinesAssumption
<1>2. After(typed, 0) = Start
  <2>1. 0 <= Before(typed) /\ Room(0) = InitialSize
    BY <1>1 DEF Room
  <2> QED BY <2>1 DEF After, Start
<1>3. g = Turns(typed, g)
  <2>1. ASSUME NEW k \in 1 .. N PROVE After(typed, k) = Turn(g[k - 1], typed[k])
    <3>1. k - 1 \in 0 .. N
      BY <1>1
    <3> QED BY <3>1, AfterTurns
  <2>2. \A k \in 0 .. N : k # 0 => k \in 1 .. N
    BY <1>1
  <2>3. \A k \in 0 .. N : After(typed, k) = IF k = 0 THEN Start ELSE Turn(g[k - 1], typed[k])
    BY <1>2, <2>1, <2>2
  <2> QED BY <2>3 DEF Turns
<1>4. ASSUME NEW f, f = Turns(typed, f) PROVE f = g
  <2> DEFINE Wrong == {k \in 0 .. N : f[k] # g[k]}
  <2>1. DOMAIN f = 0 .. N /\ f = [k \in 0 .. N |-> f[k]]
    BY <1>4 DEF Turns
  <2>2. \A k \in 0 .. N : f[k] = IF k = 0 THEN Start ELSE Turn(f[k - 1], typed[k])
    BY <1>4 DEF Turns
  <2>3. \A k \in 0 .. N : g[k] = IF k = 0 THEN Start ELSE Turn(g[k - 1], typed[k])
    BY <1>3 DEF Turns
  <2> HIDE DEF g
  <2>4. ASSUME Wrong # {} PROVE FALSE
    <3> Wrong \subseteq Nat
      BY <1>1
    <3>1. PICK k \in Wrong : \A j \in Wrong : k <= j
      <4> HIDE DEF Wrong
      <4> QED BY <2>4, LeastNatural
    <3>2. k # 0
      BY <2>2, <2>3, <3>1
    <3>3. k - 1 \in 0 .. N /\ ~(k <= k - 1)
      BY <1>1, <3>1, <3>2
    <3>4. f[k - 1] = g[k - 1]
      BY <3>1, <3>3
    <3> QED BY <2>2, <2>3, <3>1, <3>2, <3>4
  <2>5. \A k \in 0 .. N : f[k] = g[k]
    BY <2>4
  <2>6. g = [k \in 0 .. N |-> g[k]]
    BY DEF g
  <2> QED BY <2>1, <2>5, <2>6
<1> HIDE DEF g
<1>5. (CHOOSE f : f = Turns(typed, f)) = g
  BY <1>3, <1>4
<1>6. N \in 0 .. N
  BY <1>1
<1> QED BY <1>5, <1>6, ReadingTurns DEF g

(* What was typed before the newline is the line, and the buffer has grown *)
(* enough for its terminator; only a line that the end of the input ends   *)
(* may need one byte more than there is (utils.c:96, 108).                 *)
THEOREM LineIsKept == LinesSpec => []LineFits
<1>1. ASSUME NEW typed \in Typed
      PROVE  LET line == input(typed)
                 lines == {n \in 0 .. Len(typed) : /\ \A k \in 1 .. n : typed[k] # Newline
                                                   /\ n < Len(typed) => typed[n + 1] = Newline}
             IN /\ lines = {Len(line.text)} /\ line.text = SubSeq(typed, 1, Len(line.text))
                /\ IF Newline \in Range(typed) THEN Len(line.text) < line.size
                                               ELSE Len(line.text) <= line.size
  <2> DEFINE m == Before(typed)
             lines == {n \in 0 .. Len(typed) : /\ \A k \in 1 .. n : typed[k] # Newline
                                               /\ n < Len(typed) => typed[n + 1] = Newline}
  <2>1. typed \in Seq(1 .. 127)
    BY LinesAssumption
  <2>2. /\ Len(typed) \in Nat /\ m \in 0 .. Len(typed)
        /\ \A k \in 1 .. m : typed[k] # Newline
        /\ m < Len(typed) => typed[m + 1] = Newline
    BY <2>1, BeforeIsFirst
  <2>3. /\ Reading(typed).i = m
        /\ Reading(typed).size = IF m = Len(typed) THEN Room(m) ELSE Room(m + 1)
    <3>1. Reading(typed) = After(typed, Len(typed))
      BY <2>1, ReadingIsAfter
    <3>2. Len(typed) <= m <=> m = Len(typed)
      BY <2>2
    <3> QED BY <3>1, <3>2 DEF After
  <2>4. input(typed).text = SubSeq(typed, 1, m) /\ input(typed).size = Reading(typed).size
    BY <2>3 DEF input
  <2>5. Len(SubSeq(typed, 1, m)) = m
    BY <2>1, <2>2
  <2>6. m < Room(m + 1) /\ m <= Room(m)
    BY <2>2, LinesAssumption DEF Room
  <2>7. Newline \in Range(typed) <=> m # Len(typed)
    <3>1. Range(typed) = {typed[k] : k \in 1 .. Len(typed)}
      BY <2>1 DEF Range
    <3>2. m # Len(typed) => m + 1 \in 1 .. Len(typed) /\ m < Len(typed)
      BY <2>2
    <3> QED BY <2>2, <3>1, <3>2
  <2>8. lines = {m}
    <3>1. m \in lines
      BY <2>2
    <3>2. ASSUME NEW n \in lines PROVE n = m
      <4>1. CASE n < m
        <5>1. n + 1 \in 1 .. m /\ n < Len(typed)
          BY <2>2, <4>1
        <5> QED BY <2>2, <5>1
      <4>2. CASE n > m
        <5>1. m + 1 \in 1 .. n /\ m < Len(typed)
          BY <2>2, <4>2
        <5> QED BY <2>2, <5>1
      <4> QED BY <2>2, <4>1, <4>2
    <3> QED BY <3>1, <3>2
  <2> HIDE DEF m, lines
  <2> QED BY <2>3, <2>4, <2>5, <2>6, <2>7, <2>8 DEF lines
<1>2. CallInv => LineFits
  BY <1>1 DEF CallInv, LineFits
<1> QED BY <1>2, CallHolds, PTL

-----------------------------------------------------------------------------
(* The j-th number of a finite set of numbers, by how many of the set's    *)
(* are no greater.                                                         *)
Upto(S, k) == Cardinality({i \in S : i <= k})

(* It never falls and rises at each number of the set.                    *)
LEMMA UptoCounts ==
  ASSUME NEW n \in Nat, NEW S, S \subseteq 0 .. n
  PROVE  /\ IsFiniteSet(S) /\ Cardinality(S) \in Nat
         /\ \A k \in Nat : Upto(S, k) \in Nat
         /\ \A k \in Nat : n <= k => Upto(S, k) = Cardinality(S)
         /\ \A k, m \in Nat : k <= m => Upto(S, k) <= Upto(S, m)
         /\ \A k, m \in Nat : k < m /\ m \in S => Upto(S, k) < Upto(S, m)
<1>1. IsFiniteSet(0 .. n) /\ S \in SUBSET (0 .. n)
  BY FS_Interval
<1>2. IsFiniteSet(S) /\ Cardinality(S) \in Nat
  BY <1>1, FS_Subset, FS_CardinalityType
<1>3. \A T \in SUBSET S : IsFiniteSet(T) /\ Cardinality(T) \in Nat
  BY <1>2, FS_Subset, FS_CardinalityType
<1>4. \A k \in Nat : Upto(S, k) \in Nat
  <2> TAKE k \in Nat
  <2>1. {i \in S : i <= k} \in SUBSET S
    OBVIOUS
  <2> QED BY <1>3, <2>1 DEF Upto
<1>5. ASSUME NEW k \in Nat, n <= k PROVE Upto(S, k) = Cardinality(S)
  <2>1. \A i \in S : i <= k
    BY <1>5
  <2>2. {i \in S : i <= k} = S
    BY <2>1
  <2> QED BY <2>2 DEF Upto
<1>6. ASSUME NEW k \in Nat, NEW m \in Nat, k <= m
      PROVE  Upto(S, k) <= Upto(S, m) /\ (k < m /\ m \in S => Upto(S, k) < Upto(S, m))
  <2> DEFINE K == {i \in S : i <= k}
             M == {i \in S : i <= m}
  <2>1. K \in SUBSET M /\ M \in SUBSET S
    <3>1. \A i \in S : i \in Nat
      OBVIOUS
    <3>2. \A i \in S : i <= k => i <= m
      BY <1>6, <3>1
    <3> QED BY <3>2
  <2>2. IsFiniteSet(M) /\ Cardinality(M) \in Nat /\ Cardinality(K) \in Nat
    BY <1>3, <2>1
  <2>3. Cardinality(K) <= Cardinality(M) /\ (Cardinality(M) = Cardinality(K) => M = K)
    BY <2>1, <2>2, FS_Subset
  <2>4. k < m /\ m \in S => M # K
    <3>1. k < m /\ m \in S => m \in M /\ m \notin K
      BY <1>6
    <3> QED BY <3>1
  <2> HIDE DEF K, M
  <2>5. Cardinality(K) <= Cardinality(M) /\ (k < m /\ m \in S => Cardinality(K) < Cardinality(M))
    BY <2>2, <2>3, <2>4
  <2> QED BY <2>5 DEF Upto, K, M
<1>7. \A k, m \in Nat : k < m => k <= m
  OBVIOUS
<1> QED BY <1>2, <1>4, <1>5, <1>6, <1>7

(* The j-th number is the one with j that are no greater.                  *)
LEMMA NthIs ==
  ASSUME NEW n \in Nat, NEW S, S \subseteq 0 .. n
  PROVE  /\ \A j \in 1 .. Cardinality(S) : Nth(S, j) \in S /\ Upto(S, Nth(S, j)) = j
         /\ \A k \in S : Upto(S, k) \in 1 .. Cardinality(S) /\ Nth(S, Upto(S, k)) = k
<1> DEFINE N == Cardinality(S)
<1>1. /\ N \in Nat
      /\ \A k \in Nat : Upto(S, k) \in Nat
      /\ \A k \in Nat : n <= k => Upto(S, k) = N
      /\ \A k, m \in Nat : k <= m => Upto(S, k) <= Upto(S, m)
      /\ \A k, m \in Nat : k < m /\ m \in S => Upto(S, k) < Upto(S, m)
  BY UptoCounts
<1>2. \A k \in S : k \in Nat /\ k <= n
  OBVIOUS
<1>3. ASSUME NEW j \in 1 .. N PROVE \E k \in S : Upto(S, k) = j
  <2> DEFINE A == {k \in Nat : Upto(S, k) >= j}
  <2>1. n \in A /\ A \subseteq Nat
    <3>1. n <= n /\ Upto(S, n) = N /\ N >= j
      BY <1>1, <1>3
    <3> QED BY <3>1
  <2>2. PICK k \in A : \A m \in A : k <= m
    <3> HIDE DEF A
    <3> QED BY <2>1, LeastNatural
  <2>3. k \in Nat /\ Upto(S, k) >= j /\ Upto(S, k) \in Nat
    BY <1>1, <2>2
  <2>4. CASE k = 0
    <3>1. {i \in S : i <= k} # {}
      <4>1. Upto(S, k) # 0
        BY <1>3, <2>3
      <4> QED BY <4>1, FS_EmptySet DEF Upto
    <3>2. 0 \in S /\ {i \in S : i <= k} = {0}
      <4>1. \A i \in S : i <= k <=> i = 0
        BY <1>2, <2>4
      <4> QED BY <3>1, <4>1
    <3>3. Upto(S, k) = 1
      BY <3>2, FS_Singleton DEF Upto
    <3>4. j = 1
      BY <1>1, <1>3, <2>3, <3>3
    <3> QED BY <2>4, <3>2, <3>3, <3>4
  <2>5. CASE k # 0
    <3> DEFINE K == {i \in S : i <= k - 1}
    <3>1. k - 1 \in Nat /\ ~(k <= k - 1)
      BY <2>3, <2>5
    <3>2. Upto(S, k - 1) < j /\ Upto(S, k - 1) \in Nat
      <4>1. k - 1 \notin A
        BY <2>2, <3>1
      <4> QED BY <1>1, <1>3, <3>1, <4>1
    <3>3. k \in S
      <4> SUFFICES ASSUME k \notin S PROVE FALSE
        OBVIOUS
      <4>1. {i \in S : i <= k} = K
        <5>1. \A i \in S : i # k /\ (i <= k <=> i <= k - 1)
          <6>1. \A i \in S : i # k
            OBVIOUS
          <6> QED BY <1>2, <2>3, <2>5, <6>1
        <5> QED BY <5>1
      <4>2. Upto(S, k) = Upto(S, k - 1)
        BY <4>1 DEF Upto
      <4> QED BY <1>3, <2>3, <3>2, <4>2
    <3>4. {i \in S : i <= k} = K \cup {k} /\ k \notin K
      <4>1. \A i \in S : i <= k <=> i <= k - 1 \/ i = k
        BY <1>2, <2>3, <2>5
      <4>2. ~(k <= k - 1)
        BY <2>3
      <4> QED BY <3>3, <4>1, <4>2
    <3>5. IsFiniteSet(K)
      <4>1. IsFiniteSet(S) /\ K \in SUBSET S
        BY UptoCounts
      <4> QED BY <4>1, FS_Subset
    <3>6. Upto(S, k) = Upto(S, k - 1) + 1
      <4> HIDE DEF K
      <4>1. Cardinality(K \cup {k}) = Cardinality(K) + 1
        BY <3>4, <3>5, FS_AddElement
      <4> QED BY <3>4, <4>1 DEF Upto, K
    <3> QED BY <1>3, <2>3, <3>2, <3>3, <3>6
  <2> QED BY <2>4, <2>5
<1>4. \A j \in 1 .. N : Nth(S, j) \in S /\ Upto(S, Nth(S, j)) = j
  BY <1>3 DEF Nth, Upto
<1>5. \A k, m \in S : Upto(S, k) = Upto(S, m) => k = m
  <2> TAKE k, m \in S
  <2>1. k \in Nat /\ m \in Nat /\ Upto(S, k) \in Nat /\ Upto(S, m) \in Nat
    BY <1>1, <1>2
  <2>2. (k < m => Upto(S, k) < Upto(S, m)) /\ (m < k => Upto(S, m) < Upto(S, k))
    BY <1>1, <2>1
  <2> QED BY <2>1, <2>2
<1>6. ASSUME NEW k \in S PROVE Upto(S, k) \in 1 .. N
  <2>1. k \in Nat /\ k <= n /\ Upto(S, k) \in Nat /\ Upto(S, n) = N
    BY <1>1, <1>2
  <2>2. Upto(S, k) <= N
    BY <1>1, <2>1
  <2>3. Upto(S, k) # 0
    <3>1. k \in {i \in S : i <= k}
      BY <2>1
    <3>2. IsFiniteSet({i \in S : i <= k})
      <4>1. IsFiniteSet(S) /\ {i \in S : i <= k} \in SUBSET S
        BY UptoCounts
      <4> QED BY <4>1, FS_Subset
    <3> QED BY <3>1, <3>2, FS_EmptySet DEF Upto
  <2> QED BY <1>1, <2>1, <2>2, <2>3
<1> QED BY <1>4, <1>5, <1>6

(* Its order, with nothing between one and the next.                       *)
LEMMA NthInOrder ==
  ASSUME NEW n \in Nat, NEW S, S \subseteq 0 .. n, NEW j \in 1 .. Cardinality(S), j + 1 <= Cardinality(S)
  PROVE  /\ Nth(S, j) < Nth(S, j + 1)
         /\ \A i \in S : i <= Nth(S, j) \/ Nth(S, j + 1) <= i
<1> DEFINE N == Cardinality(S)
           a == Nth(S, j)
           b == Nth(S, j + 1)
<1>1. /\ N \in Nat
      /\ \A k \in Nat : Upto(S, k) \in Nat
      /\ \A k, m \in Nat : k <= m => Upto(S, k) <= Upto(S, m)
      /\ \A k, m \in Nat : k < m /\ m \in S => Upto(S, k) < Upto(S, m)
  BY UptoCounts
<1>2. \A k \in S : k \in Nat
  OBVIOUS
<1>3. j \in 1 .. N /\ j + 1 \in 1 .. N /\ j \in Nat
  BY <1>1
<1>4. a \in S /\ b \in S /\ Upto(S, a) = j /\ Upto(S, b) = j + 1
  <2> HIDE DEF N
  <2> QED BY <1>3, NthIs DEF N
<1> HIDE DEF a, b, N
<1>5. a < b
  <2>1. a \in Nat /\ b \in Nat /\ (b <= a => Upto(S, b) <= Upto(S, a))
    BY <1>1, <1>2, <1>4
  <2> QED BY <1>3, <1>4, <2>1
<1>6. ASSUME NEW i \in S PROVE i <= a \/ b <= i
  <2>1. i \in Nat /\ a \in Nat /\ b \in Nat /\ Upto(S, i) \in Nat
    BY <1>1, <1>2, <1>4
  <2>2. (a < i => j < Upto(S, i)) /\ (i < b => Upto(S, i) < j + 1)
    BY <1>1, <1>4, <2>1
  <2> QED BY <1>3, <2>1, <2>2
<1> QED BY <1>5, <1>6 DEF a, b

-----------------------------------------------------------------------------
(* splitArgs(): the pieces that the delimiters cut a line into.            *)
Starts(s, d) == {k \in 1 .. Len(s) : s[k] # d /\ (k = 1 \/ s[k - 1] = d)}
First(s, d, j) == Nth(Cuts(s, d), j) + 1
Final(s, d, j) == Nth(Cuts(s, d), j + 1) - 1

LEMMA PieceIs == \A s, d, j : Piece(s, d, j) = SubSeq(s, First(s, d, j), Final(s, d, j))
BY DEF Piece, First, Final

(* Numbers moved by as much are as many.                                   *)
LEMMA Shifted ==
  ASSUME NEW T, IsFiniteSet(T), T \subseteq Int, NEW n \in Int
  PROVE  Cardinality({x + n : x \in T}) = Cardinality(T)
<1> DEFINE U == {x + n : x \in T}
           f == [x \in T |-> x + n]
<1>1. f \in [T -> U] /\ \A u \in U : \E x \in T : f[x] = u
  OBVIOUS
<1>2. \A x, y \in T : f[x] = f[y] => x = y
  OBVIOUS
<1>3. f \in Bijection(T, U)
  BY <1>1, <1>2 DEF Bijection, Injection, Surjection, IsInjective
<1>4. ExistsBijection(T, U)
  BY <1>3 DEF ExistsBijection
<1> QED BY <1>4, FS_Bijection

(* A line is cut into one piece more than it has delimiters.               *)
LEMMA CutsCount ==
  ASSUME NEW C, NEW s \in Seq(C), NEW d
  PROVE  /\ Len(s) \in Nat /\ Cuts(s, d) \subseteq 0 .. Len(s) + 1
         /\ ArgAmt(s, d) \in Nat \ {0} /\ Cardinality(Cuts(s, d)) = ArgAmt(s, d) + 1
         /\ Nth(Cuts(s, d), 1) = 0
         /\ Nth(Cuts(s, d), ArgAmt(s, d) + 1) = Len(s) + 1
<1> DEFINE L == Len(s)
           D == {k \in 1 .. L : s[k] = d}
           S == Cuts(s, d)
           N == ArgAmt(s, d) + 1
<1>1. L \in Nat
  OBVIOUS
<1>2. S = (D \cup {0}) \cup {L + 1} /\ D \in SUBSET (1 .. L)
  BY DEF Cuts
<1> HIDE DEF L
<1>3. IsFiniteSet(D) /\ Cardinality(D) \in Nat
  <2>1. IsFiniteSet(1 .. L)
    BY <1>1, FS_Interval
  <2>2. IsFiniteSet(D)
    BY <1>2, <2>1, FS_Subset
  <2> QED BY <2>2, FS_CardinalityType
<1>4. 0 \notin D /\ L + 1 \notin D \cup {0} /\ S \subseteq 0 .. L + 1
  BY <1>1, <1>2
<1>5. ArgAmt(s, d) = 1 + Cardinality(D)
  BY DEF ArgAmt, L
<1> HIDE DEF D, S
<1>6. Cardinality(S) = Cardinality(D) + 2
  <2>1. IsFiniteSet(D \cup {0}) /\ Cardinality(D \cup {0}) = Cardinality(D) + 1
    BY <1>3, <1>4, FS_AddElement
  <2>2. Cardinality(S) = Cardinality(D \cup {0}) + 1
    BY <1>2, <1>4, <2>1, FS_AddElement
  <2> QED BY <1>3, <2>1, <2>2
<1>7. N \in Nat /\ N >= 2 /\ Cardinality(S) = N
  BY <1>3, <1>5, <1>6
<1>8. /\ \A j \in 1 .. N : Nth(S, j) \in S /\ Upto(S, Nth(S, j)) = j
      /\ \A k \in S : Upto(S, k) \in 1 .. N /\ Nth(S, Upto(S, k)) = k
  <2>1. L + 1 \in Nat
    BY <1>1
  <2> QED BY <1>4, <1>7, <2>1, NthIs
<1>9. Nth(S, 1) = 0
  <2>1. 0 \in S /\ \A i \in S : i \in Nat
    BY <1>2, <1>4
  <2>2. \A i \in S : i <= 0 <=> i = 0
    BY <2>1
  <2>3. {i \in S : i <= 0} = {0}
    BY <2>1, <2>2
  <2>4. Upto(S, 0) = 1
    BY <2>3, FS_Singleton DEF Upto
  <2> QED BY <1>8, <2>1, <2>4
<1>10. Nth(S, N) = L + 1
  <2>1. L + 1 \in S
    BY <1>2
  <2>2. Upto(S, L + 1) = N
    <3>1. L + 1 \in Nat /\ L + 1 <= L + 1
      BY <1>1
    <3> QED BY <1>4, <1>7, <3>1, UptoCounts
  <2> QED BY <1>8, <2>1, <2>2
<1> QED BY <1>1, <1>4, <1>5, <1>3, <1>7, <1>9, <1>10 DEF L, S

(* No piece of a line with single delimiters inside is empty.              *)
LEMMA PieceBounds ==
  ASSUME NEW C, NEW s \in Seq(C), NEW d, Plain(s, d), s # <<>>, NEW j \in 1 .. ArgAmt(s, d)
  PROVE  LET a == First(s, d, j)
             b == Final(s, d, j)
         IN /\ a \in 1 .. Len(s) /\ b \in 1 .. Len(s) /\ a <= b
            /\ \A k \in a .. b : s[k] # d
            /\ b < Len(s) => s[b + 1] = d
            /\ a - 1 \in Cuts(s, d) /\ b + 1 \in Cuts(s, d)
<1> DEFINE L == Len(s)
           S == Cuts(s, d)
           x == Nth(S, j)
           y == Nth(S, j + 1)
<1>1. /\ L \in Nat /\ S \subseteq 0 .. L + 1
      /\ ArgAmt(s, d) \in Nat \ {0} /\ Cardinality(S) = ArgAmt(s, d) + 1
  BY CutsCount
<1>2. L >= 1
  <2>1. L # 0
    OBVIOUS
  <2> QED BY <1>1, <2>1
<1>3. \A k \in 1 .. L : s[k] = d => k \in S /\ k \in 2 .. L - 1 /\ s[k - 1] # d
  BY DEF Plain, Cuts
<1>4. \A k \in S : k = 0 \/ k = L + 1 \/ (k \in 2 .. L - 1 /\ s[k] = d)
  BY <1>3 DEF Cuts
<1> HIDE DEF L, S
<1>5. j \in 1 .. Cardinality(S) /\ j + 1 \in 1 .. Cardinality(S) /\ j + 1 <= Cardinality(S)
  BY <1>1
<1>6. x \in S /\ y \in S
  <2>1. L + 1 \in Nat
    BY <1>1
  <2> QED BY <1>1, <1>5, <2>1, NthIs
<1>7. x < y /\ \A i \in S : i <= x \/ y <= i
  <2>1. L + 1 \in Nat
    BY <1>1
  <2> QED BY <1>1, <1>5, <2>1, NthInOrder
<1> HIDE DEF x, y
<1>8. x \in Nat /\ y \in Nat /\ x <= L /\ y <= L + 1
  BY <1>1, <1>4, <1>6, <1>7
<1>9. y # x + 1
  <2> SUFFICES ASSUME y = x + 1 PROVE FALSE
    OBVIOUS
  <2>1. CASE y = L + 1
    <3>1. x = L /\ x # 0 /\ x # L + 1
      BY <1>1, <1>2, <1>8, <2>1
    <3>2. x \in 2 .. L - 1
      BY <1>4, <1>6, <3>1
    <3> QED BY <1>8, <3>1, <3>2
  <2>2. CASE y # L + 1
    <3>1. y \in 2 .. L - 1 /\ s[y] = d
      BY <1>4, <1>6, <1>7, <1>8, <2>2
    <3>2. x \in 2 .. L - 1 /\ s[x] = d
      BY <1>1, <1>4, <1>6, <1>8, <3>1
    <3>3. s[y - 1] # d /\ y - 1 = x
      BY <1>1, <1>3, <1>8, <3>1
    <3> QED BY <3>2, <3>3
  <2> QED BY <2>1, <2>2
<1>10. x + 1 \in 1 .. L /\ y - 1 \in 1 .. L /\ x + 1 <= y - 1
  BY <1>1, <1>7, <1>8, <1>9
<1>11. ASSUME NEW k \in (x + 1) .. (y - 1) PROVE s[k] # d
  <2>1. k \in 1 .. L /\ ~(k <= x) /\ ~(y <= k)
    BY <1>1, <1>8, <1>10, <1>11
  <2>2. k \notin S
    BY <1>7, <2>1
  <2> QED BY <1>3, <2>1, <2>2
<1>12. y - 1 < L => s[(y - 1) + 1] = d
  <2>1. y - 1 < L => y # L + 1 /\ y # 0 /\ (y - 1) + 1 = y
    BY <1>1, <1>7, <1>8
  <2> QED BY <1>4, <1>6, <2>1
<1>13. (x + 1) - 1 = x /\ (y - 1) + 1 = y
  BY <1>8
<1>14. x + 1 = First(s, d, j) /\ y - 1 = Final(s, d, j)
  BY DEF First, Final, x, y, S
<1> QED BY <1>6, <1>10, <1>11, <1>12, <1>13, <1>14 DEF L, S

(* Its runs begin behind the cuts, but for the last.                       *)
LEMMA StartsCount ==
  ASSUME NEW C, NEW s \in Seq(C), NEW d, Plain(s, d), s # <<>>
  PROVE  /\ Cardinality(Starts(s, d)) = ArgAmt(s, d)
         /\ \A j \in 1 .. ArgAmt(s, d) : Nth(Starts(s, d), j) = First(s, d, j)
<1> DEFINE L == Len(s)
           S == Cuts(s, d)
           B == Starts(s, d)
           N == ArgAmt(s, d)
<1>1. /\ L \in Nat /\ S \subseteq 0 .. L + 1
      /\ N \in Nat \ {0} /\ Cardinality(S) = N + 1
      /\ Nth(S, N + 1) = L + 1
  BY CutsCount
<1>2. L >= 1
  <2>1. L # 0
    OBVIOUS
  <2> QED BY <1>1, <2>1
<1>3. \A k \in 1 .. L : s[k] = d => k \in 2 .. L - 1 /\ s[k - 1] # d
  BY DEF Plain
<1>4. \A x : x \in S <=> x = 0 \/ x = L + 1 \/ (x \in 1 .. L /\ s[x] = d)
  BY DEF Cuts
<1>5. \A k : k \in B <=> k \in 1 .. L /\ s[k] # d /\ (k = 1 \/ s[k - 1] = d)
  BY DEF Starts
<1> HIDE DEF L, S, B, N
<1>6. \A x \in S : x # L + 1 => x + 1 \in B
  <2> SUFFICES ASSUME NEW x \in S, x # L + 1 PROVE x + 1 \in B
    OBVIOUS
  <2>1. CASE x = 0
    <3>1. 1 \in 1 .. L /\ 1 \notin 2 .. L - 1
      BY <1>1, <1>2
    <3>2. s[1] # d
      BY <1>3, <3>1
    <3> QED BY <1>5, <2>1, <3>1, <3>2
  <2>2. CASE x # 0
    <3>1. x \in 1 .. L /\ s[x] = d
      BY <1>4, <2>2
    <3>2. x \in 2 .. L - 1
      BY <1>3, <3>1
    <3>3. x + 1 \in 1 .. L /\ (x + 1) - 1 = x
      BY <1>1, <3>2
    <3>4. s[x + 1] # d
      BY <1>3, <3>1, <3>3
    <3> QED BY <1>5, <3>1, <3>3, <3>4
  <2> QED BY <2>1, <2>2
<1>7. \A k \in B : k \in 1 .. L /\ k - 1 \in S
  <2> TAKE k \in B
  <2>1. k \in 1 .. L /\ (k = 1 \/ s[k - 1] = d)
    BY <1>5
  <2>2. k - 1 \in 0 .. L
    BY <1>1, <2>1
  <2>3. CASE k = 1
    BY <1>4, <2>1, <2>3
  <2>4. CASE k # 1
    <3>1. k - 1 \in 1 .. L
      BY <1>1, <2>1, <2>4
    <3> QED BY <1>4, <2>1, <2>4, <3>1
  <2> QED BY <2>3, <2>4
<1>8. ASSUME NEW m \in Nat, m <= L
      PROVE  Upto(B, m + 1) = Upto(S, m)
  <2> DEFINE T == {i \in S : i <= m}
  <2>1. IsFiniteSet(T) /\ T \subseteq Int
    <3>1. L + 1 \in Nat /\ \A i \in S : i \in Int
      BY <1>1
    <3>2. IsFiniteSet(S) /\ T \in SUBSET S
      BY <1>1, <3>1, UptoCounts
    <3> QED BY <3>1, <3>2, FS_Subset
  <2>2. {k \in B : k <= m + 1} = {x + 1 : x \in T}
    <3>1. ASSUME NEW k \in B, k <= m + 1 PROVE k - 1 \in T /\ (k - 1) + 1 = k
      <4>1. k \in 1 .. L /\ k - 1 \in S
        BY <1>7
      <4> QED BY <1>1, <1>8, <3>1, <4>1
    <3>2. ASSUME NEW x \in T PROVE x + 1 \in B /\ x + 1 <= m + 1
      <4>1. x \in S /\ x <= m /\ x \in Nat
        BY <1>1
      <4>2. x # L + 1
        BY <1>1, <1>8, <4>1
      <4> QED BY <1>6, <1>8, <4>1, <4>2
    <3> HIDE DEF T
    <3> QED BY <3>1, <3>2
  <2> HIDE DEF T
  <2>3. Cardinality({k \in B : k <= m + 1}) = Cardinality(T)
    <3>1. \A n \in Int : Cardinality({x + n : x \in T}) = Cardinality(T)
      BY <2>1, Shifted
    <3>2. 1 \in Int
      OBVIOUS
    <3>3. Cardinality({x + 1 : x \in T}) = Cardinality(T)
      BY <3>1, <3>2, Zenon
    <3> QED BY <2>2, <3>3, Zenon
  <2> QED BY <2>3 DEF Upto, T
<1>9. B \subseteq 0 .. L /\ IsFiniteSet(B) /\ Upto(B, L + 1) = Cardinality(B)
  <2>1. B \subseteq 0 .. L
    <3>1. \A k \in 1 .. L : k \in 0 .. L
      BY <1>1
    <3> QED BY <1>7, <3>1
  <2>2. L + 1 \in Nat /\ L <= L + 1
    BY <1>1
  <2> QED BY <1>1, <2>1, <2>2, UptoCounts
<1>10. \A j \in 1 .. N : Nth(S, j) \in S /\ Upto(S, Nth(S, j)) = j /\ Nth(S, j) \in Nat /\ Nth(S, j) <= L
  <2> TAKE j \in 1 .. N
  <2>1. j \in 1 .. Cardinality(S) /\ N + 1 \in 1 .. Cardinality(S) /\ j # N + 1
    BY <1>1
  <2>2. Nth(S, j) \in S /\ Upto(S, Nth(S, j)) = j /\ Upto(S, Nth(S, N + 1)) = N + 1
    <3>1. L + 1 \in Nat
      BY <1>1
    <3> QED BY <1>1, <2>1, <3>1, NthIs
  <2>3. Nth(S, j) # L + 1
    BY <1>1, <2>1, <2>2
  <2>4. Nth(S, j) \in 0 .. L + 1
    BY <1>1, <2>2
  <2>5. Nth(S, j) \in Nat /\ Nth(S, j) <= L
    BY <1>1, <2>3, <2>4
  <2> QED BY <2>2, <2>5
<1>11. Cardinality(B) = N
  <2>1. Cardinality(B) = Upto(S, L)
    BY <1>1, <1>8, <1>9
  <2>2. Upto(S, L) \in Nat /\ Upto(S, L) < Upto(S, L + 1) /\ Upto(S, L + 1) = N + 1
    <3>1. L + 1 \in S /\ L < L + 1 /\ L + 1 \in Nat /\ L + 1 <= L + 1
      BY <1>1, <1>4
    <3> QED BY <1>1, <3>1, UptoCounts
  <2>3. N \in 1 .. N
    BY <1>1
  <2>4. N <= Upto(S, L)
    <3>1. Upto(S, Nth(S, N)) = N /\ Nth(S, N) \in Nat /\ Nth(S, N) <= L
      BY <1>10, <2>3
    <3>2. Upto(S, Nth(S, N)) <= Upto(S, L)
      <4>1. L + 1 \in Nat
        BY <1>1
      <4> QED BY <1>1, <3>1, <4>1, UptoCounts
    <3> QED BY <3>1, <3>2
  <2> QED BY <1>1, <2>1, <2>2, <2>4
<1>12. ASSUME NEW j \in 1 .. N PROVE Nth(B, j) = Nth(S, j) + 1
  <2> DEFINE x == Nth(S, j)
  <2>1. x \in S /\ Upto(S, x) = j /\ x \in Nat /\ x <= L
    BY <1>10
  <2> HIDE DEF x
  <2>2. x + 1 \in B /\ Upto(B, x + 1) = j
    <3>1. x # L + 1
      BY <1>1, <2>1
    <3> QED BY <1>6, <1>8, <2>1, <3>1
  <2>3. Nth(B, j) = x + 1
    BY <1>1, <1>9, <2>2, NthIs
  <2> QED BY <2>3 DEF x
<1> QED BY <1>11, <1>12 DEF N, B, S, First

(* They end in front of them: the runs are the pieces.                     *)
LEMMA RunsArePieces ==
  ASSUME NEW C, NEW s \in Seq(C), NEW d, Plain(s, d), s # <<>>
  PROVE  Runs(s, d) = [j \in 1 .. ArgAmt(s, d) |-> Piece(s, d, j)]
<1> DEFINE Last0(k) == Max({m \in k .. Len(s) : \A j \in k .. m : s[j] # d})
<1>1. Runs(s, d) = [j \in 1 .. Cardinality(Starts(s, d)) |->
                       SubSeq(s, Nth(Starts(s, d), j), Last0(Nth(Starts(s, d), j)))]
  BY DEF Runs, Starts
<1>2. ASSUME NEW j \in 1 .. ArgAmt(s, d) PROVE Last0(First(s, d, j)) = Final(s, d, j)
  <2> DEFINE L == Len(s)
             a == First(s, d, j)
             b == Final(s, d, j)
             M == {m \in a .. L : \A i \in a .. m : s[i] # d}
  <2>1. /\ L \in Nat /\ a \in 1 .. L /\ b \in 1 .. L /\ a <= b
        /\ \A k \in a .. b : s[k] # d
        /\ b < L => s[b + 1] = d
    BY CutsCount, PieceBounds
  <2> HIDE DEF L, a, b
  <2>2. b \in M
    BY <2>1
  <2>3. ASSUME NEW m \in M PROVE m <= b /\ m \in 1 .. L
    <3>1. m \in a .. L /\ \A i \in a .. m : s[i] # d
      OBVIOUS
    <3>2. ASSUME ~(m <= b) PROVE FALSE
      <4>1. b < L /\ b + 1 \in a .. m
        BY <2>1, <3>1, <3>2
      <4> QED BY <2>1, <3>1, <4>1
    <3>3. m \in 1 .. L
      BY <2>1, <3>1
    <3> QED BY <3>2, <3>3
  <2> HIDE DEF M
  <2>4. Max(M) \in M /\ Max(M) >= b
    <3>1. M \subseteq 1 .. L /\ M # {}
      BY <2>2, <2>3
    <3> QED BY <2>1, <2>2, <3>1, MaxIsGreatest
  <2>5. Max(M) = b
    <3>1. Max(M) <= b /\ Max(M) \in 1 .. L
      BY <2>3, <2>4
    <3> QED BY <2>1, <2>4, <3>1
  <2> QED BY <2>5 DEF M, L, a, b
<1> HIDE DEF Last0
<1>3. /\ Cardinality(Starts(s, d)) = ArgAmt(s, d)
      /\ \A j \in 1 .. ArgAmt(s, d) : Nth(Starts(s, d), j) = First(s, d, j)
  BY StartsCount
<1>4. \A j \in 1 .. ArgAmt(s, d) :
         SubSeq(s, Nth(Starts(s, d), j), Last0(Nth(Starts(s, d), j))) = Piece(s, d, j)
  BY <1>2, <1>3, PieceIs
<1> QED BY <1>1, <1>3, <1>4

(* Then every piece has a place, and the null pointer the last.            *)
LEMMA SplitPlain ==
  ASSUME NEW C, NEW s \in Seq(C), NEW d, Plain(s, d), s # <<>>
  PROVE  splitArgs(s, d) = [k \in 1 .. ArgAmt(s, d) + 1 |->
                               IF k = ArgAmt(s, d) + 1 THEN Null ELSE Word(Piece(s, d, k))]
<1> DEFINE N == ArgAmt(s, d)
<1>1. N \in Nat \ {0} /\ Len(s) \in Nat /\ Nth(Cuts(s, d), 1) = 0 /\ Nth(Cuts(s, d), N + 1) = Len(s) + 1
  BY CutsCount
<1>2. N = 1 => Piece(s, d, 1) = s
  <2> SUFFICES ASSUME N = 1 PROVE Piece(s, d, 1) = s
    OBVIOUS
  <2>1. First(s, d, 1) = 1 /\ Final(s, d, 1) = Len(s)
    BY <1>1 DEF First, Final
  <2>2. SubSeq(s, 1, Len(s)) = s
    BY SubSeqFull
  <2> QED BY <2>1, <2>2, PieceIs
<1>3. Runs(s, d) = [j \in 1 .. N |-> Piece(s, d, j)]
  BY RunsArePieces
<1>4. Len(Runs(s, d)) = N /\ \A k \in 1 .. N : Runs(s, d)[k] = Piece(s, d, k)
  <2> HIDE DEF N
  <2> QED BY <1>1, <1>3
<1> HIDE DEF N
<1>5. ASSUME NEW k \in 1 .. N + 1
      PROVE  (CASE k = N + 1 -> Null
                [] N = 1 /\ k = 1 -> Word(s)
                [] N > 1 /\ k <= Len(Runs(s, d)) -> Word(Runs(s, d)[k])
                [] OTHER -> Unset)
             = IF k = N + 1 THEN Null ELSE Word(Piece(s, d, k))
  <2>1. CASE k = N + 1
    <3>1. k # 1 /\ ~(k <= Len(Runs(s, d)))
      BY <1>1, <1>4, <2>1
    <3> QED BY <2>1, <3>1
  <2>2. CASE k # N + 1 /\ N = 1
    <3>1. k = 1 /\ ~(N > 1)
      BY <1>1, <2>2
    <3> QED BY <1>2, <2>2, <3>1
  <2>3. CASE k # N + 1 /\ N # 1
    <3>1. N > 1 /\ k \in 1 .. N /\ k <= Len(Runs(s, d))
      BY <1>1, <1>4, <2>3
    <3> QED BY <1>4, <2>3, <3>1
  <2> QED BY <2>1, <2>2, <2>3
<1> QED BY <1>5 DEF splitArgs, N

(* The words of a line with the delimiters between them are the line.      *)
LEMMA Adjoined ==
  ASSUME NEW C, NEW s \in Seq(C), NEW i \in 1 .. Len(s), NEW j \in 1 .. Len(s), i + 1 < j
  PROVE  SubSeq(s, 1, i) \o <<s[i + 1]>> \o SubSeq(s, (i + 1) + 1, j) = SubSeq(s, 1, j)
<1>1. Len(s) \in Nat
  OBVIOUS
<1>2. /\ 1 \in 1 .. Len(s) /\ i + 1 \in 1 .. Len(s) /\ (i + 1) - 1 = i
      /\ 1 \in 1 .. Len(s) + 1 /\ i + 1 \in 1 - 1 .. Len(s) /\ j \in i + 1 .. Len(s)
  BY <1>1
<1>3. SubSeq(s, 1, i + 1) = SubSeq(s, 1, (i + 1) - 1) \o <<s[i + 1]>>
  BY <1>2, SubSeqRecursiveSecond
<1>4. SubSeq(s, 1, i + 1) \o SubSeq(s, (i + 1) + 1, j) = SubSeq(s, 1, j)
  BY <1>2, ConcatAdjacentSubSeq
<1> QED BY <1>2, <1>3, <1>4

JoinedLine(words, d, f) ==
    [k \in 1 .. Len(words) |-> IF k = 1 THEN words[1].text ELSE f[k - 1] \o <<d>> \o words[k].text]

LEMMA JoinedIs ==
  ASSUME NEW words, NEW d
  PROVE  Joined(words, d) = (CHOOSE f : f = JoinedLine(words, d, f))[Len(words)]
BY DEF Joined, JoinedLine

(* The line that Joined() makes of the pieces is the one that was cut: the *)
(* first of its steps that differed would follow one that did not.         *)
LEMMA JoinedPieces ==
  ASSUME NEW C, NEW s \in Seq(C), NEW d, Plain(s, d), s # <<>>,
         NEW words, Len(words) = ArgAmt(s, d),
         \A k \in 1 .. ArgAmt(s, d) : words[k].text = Piece(s, d, k)
  PROVE  Joined(words, d) = s
<1> DEFINE N == ArgAmt(s, d)
           g == [k \in 1 .. N |-> SubSeq(s, 1, Final(s, d, k))]
<1>1. N \in Nat \ {0} /\ Len(s) \in Nat /\ Nth(Cuts(s, d), 1) = 0 /\ Nth(Cuts(s, d), N + 1) = Len(s) + 1
  BY CutsCount
<1>2. words[1].text = g[1]
  <2>1. First(s, d, 1) = 1
    BY <1>1 DEF First
  <2>2. 1 \in 1 .. N
    BY <1>1
  <2> QED BY <2>1, <2>2, PieceIs
<1>3. ASSUME NEW k \in 1 .. N, k # 1 PROVE k - 1 \in 1 .. N /\ g[k] = g[k - 1] \o <<d>> \o words[k].text
  <2> DEFINE i == Final(s, d, k - 1)
             j == Final(s, d, k)
  <2>1. k - 1 \in 1 .. N /\ (k - 1) + 1 = k
    BY <1>1, <1>3
  <2>2. /\ i \in 1 .. Len(s) /\ j \in 1 .. Len(s) /\ First(s, d, k) \in 1 .. Len(s) /\ First(s, d, k) <= j
        /\ i < Len(s) => s[i + 1] = d
    <3> HIDE DEF N
    <3>1. /\ i \in 1 .. Len(s) /\ (i < Len(s) => s[i + 1] = d)
      BY <2>1, PieceBounds DEF N
    <3>2. j \in 1 .. Len(s) /\ First(s, d, k) \in 1 .. Len(s) /\ First(s, d, k) <= j
      BY PieceBounds DEF N
    <3> QED BY <3>1, <3>2
  <2>3. First(s, d, k) = (i + 1) + 1
    <3> DEFINE c == Nth(Cuts(s, d), k)
    <3>1. First(s, d, k) = c + 1 /\ i = c - 1
      BY <2>1 DEF First, Final
    <3>2. c \in Int
      <4>1. k \in 1 .. Cardinality(Cuts(s, d)) /\ Len(s) + 1 \in Nat
        BY <1>1, CutsCount
      <4>2. c \in Cuts(s, d) /\ Cuts(s, d) \subseteq 0 .. Len(s) + 1
        BY <4>1, CutsCount, NthIs
      <4> QED BY <1>1, <4>2
    <3> HIDE DEF c
    <3> QED BY <3>1, <3>2
  <2> HIDE DEF i, j
  <2>4. i + 1 < j /\ i < Len(s)
    BY <1>1, <2>2, <2>3
  <2>5. SubSeq(s, 1, i) \o <<d>> \o SubSeq(s, (i + 1) + 1, j) = SubSeq(s, 1, j)
    BY <2>2, <2>4, Adjoined
  <2>6. words[k].text = SubSeq(s, (i + 1) + 1, j)
    BY <2>3, PieceIs DEF j
  <2> QED BY <2>1, <2>5, <2>6 DEF i, j
<1>4. g = JoinedLine(words, d, g)
  <2> HIDE DEF N
  <2>1. DOMAIN g = 1 .. N /\ Len(words) = N
    BY DEF N
  <2> HIDE DEF g
  <2>2. \A k \in 1 .. N : g[k] = IF k = 1 THEN words[1].text ELSE g[k - 1] \o <<d>> \o words[k].text
    BY <1>2, <1>3
  <2>3. g = [k \in 1 .. N |-> g[k]]
    BY DEF g
  <2> QED BY <2>1, <2>2, <2>3 DEF JoinedLine
<1>5. ASSUME NEW f, f = JoinedLine(words, d, f) PROVE f = g
  <2> DEFINE Wrong == {k \in 1 .. N : f[k] # g[k]}
  <2> HIDE DEF N
  <2>1. Len(words) = N
    BY DEF N
  <2>2. f = [k \in 1 .. N |-> f[k]] /\ \A k \in 1 .. N : f[k] = IF k = 1 THEN words[1].text ELSE f[k - 1] \o <<d>> \o words[k].text
    BY <1>5, <2>1 DEF JoinedLine
  <2>3. \A k \in 1 .. N : g[k] = IF k = 1 THEN words[1].text ELSE g[k - 1] \o <<d>> \o words[k].text
    BY <1>4, <2>1 DEF JoinedLine
  <2>4. g = [k \in 1 .. N |-> g[k]]
    OBVIOUS
  <2> HIDE DEF g
  <2>5. ASSUME Wrong # {} PROVE FALSE
    <3>1. PICK k \in Wrong : \A j \in Wrong : k <= j
      <4>1. Wrong \subseteq Nat
        BY <1>1
      <4> HIDE DEF Wrong
      <4> QED BY <2>5, <4>1, LeastNatural
    <3>2. k # 1
      BY <2>2, <2>3, <3>1
    <3>3. k - 1 \in 1 .. N /\ ~(k <= k - 1)
      BY <1>1, <1>3, <3>1, <3>2
    <3>4. f[k - 1] = g[k - 1]
      BY <3>1, <3>3
    <3>5. k \in 1 .. N /\ f[k] # g[k]
      BY <3>1
    <3>6. /\ f[k] = f[k - 1] \o <<d>> \o words[k].text
          /\ g[k] = g[k - 1] \o <<d>> \o words[k].text
      BY <2>2, <2>3, <3>2, <3>5
    <3> HIDE DEF Wrong
    <3> QED BY <3>4, <3>5, <3>6
  <2>6. \A k \in 1 .. N : f[k] = g[k]
    BY <2>5
  <2> QED BY <2>2, <2>4, <2>6
<1>6. (CHOOSE f : f = JoinedLine(words, d, f)) = g
  <2> HIDE DEF g
  <2> QED BY <1>4, <1>5
<1>7. Joined(words, d) = g[N]
  BY <1>6, JoinedIs
<1>8. g[N] = s
  <2>1. N \in 1 .. N /\ Final(s, d, N) = Len(s)
    BY <1>1 DEF Final
  <2>2. SubSeq(s, 1, Len(s)) = s
    BY SubSeqFull
  <2> QED BY <2>1, <2>2
<1> QED BY <1>7, <1>8

LEMMA WordFields == \A w : Word(w).kind = "word" /\ Word(w).text = w
BY DEF Word

(* So a command with single blanks inside is split as it should be.        *)
LEMMA SplitIsOneCommand ==
  ASSUME NEW C, NEW text \in Seq(C)
  PROVE  OneCommand(splitArgs(text, Space), text)
<1> SUFFICES ASSUME Plain(text, Space), text # <<>>
             PROVE  /\ Last(splitArgs(text, Space)) = Null
                    /\ \A k \in 1 .. Len(splitArgs(text, Space)) - 1 :
                          /\ splitArgs(text, Space)[k].kind = "word"
                          /\ Space \notin Range(splitArgs(text, Space)[k].text)
                    /\ Joined(Front(splitArgs(text, Space)), Space) = text
  BY DEF OneCommand
<1> DEFINE d == Space
           command == splitArgs(text, d)
           N == ArgAmt(text, d)
<1>1. N \in Nat \ {0} /\ Len(text) \in Nat
  BY CutsCount
<1>2. command = [k \in 1 .. N + 1 |-> IF k = N + 1 THEN Null ELSE Word(Piece(text, d, k))]
  <2> HIDE DEF d
  <2> QED BY SplitPlain DEF d
<1> HIDE DEF d, command, N
<1>3. /\ Len(command) = N + 1 /\ command[N + 1] = Null
      /\ \A k \in 1 .. N : command[k] = Word(Piece(text, d, k))
  <2>1. N + 1 \in 1 .. N + 1 /\ \A k \in 1 .. N : k \in 1 .. N + 1 /\ k # N + 1
    BY <1>1
  <2> QED BY <1>1, <1>2, <2>1
<1>4. Last(command) = Null
  BY <1>3 DEF Last
<1>5. ASSUME NEW k \in 1 .. N PROVE command[k].kind = "word" /\ d \notin Range(command[k].text)
  <2> DEFINE a == First(text, d, k)
             b == Final(text, d, k)
             word == SubSeq(text, a, b)
  <2>1. a \in 1 .. Len(text) /\ b \in 1 .. Len(text) /\ \A i \in a .. b : text[i] # d
    BY PieceBounds DEF d, N
  <2>2. command[k].kind = "word" /\ command[k].text = word
    <3>1. command[k] = Word(word)
      BY <1>3, PieceIs
    <3> HIDE DEF word
    <3> QED BY <3>1, WordFields
  <2> HIDE DEF a, b
  <2>3. \A i \in a .. b : text[i] \in C \ {d}
    BY <1>1, <2>1
  <2>4. word \in Seq(C \ {d})
    BY <2>1, <2>3, SubSeqProperties
  <2>5. \A i \in DOMAIN word : word[i] # d
    <3> HIDE DEF word
    <3>1. \A i \in 1 .. Len(word) : word[i] \in C \ {d}
      BY <2>4, ElementOfSeq
    <3> QED BY <2>4, <3>1
  <2> QED BY <2>2, <2>5 DEF Range
<1>6. Joined(Front(command), d) = text
  <2> DEFINE T == {command[k] : k \in 1 .. N}
             words == SubSeq(command, 1, N)
  <2>1. Front(command) = words
    BY <1>1, <1>3 DEF Front
  <2>2. Len(words) = N /\ \A k \in 1 .. N : words[k] = command[k]
    <3>1. \A k \in 1 .. N : command[k] \in T
      OBVIOUS
    <3> HIDE DEF T
    <3>2. /\ Len(words) = IF 1 <= N THEN N - 1 + 1 ELSE 0
          /\ \A k \in 1 .. N - 1 + 1 : words[k] = command[1 + k - 1]
      BY <1>1, <3>1, SubSeqProperties
    <3>3. 1 <= N /\ N - 1 + 1 = N /\ \A k \in 1 .. N : 1 + k - 1 = k
      BY <1>1
    <3> HIDE DEF words
    <3> QED BY <3>2, <3>3
  <2>3. \A k \in 1 .. N : words[k].text = Piece(text, d, k)
    BY <1>3, <2>2, WordFields
  <2> HIDE DEF words
  <2> QED BY <2>1, <2>2, <2>3, JoinedPieces DEF N, d
<1>7. Len(command) - 1 = N
  BY <1>1, <1>3
<1> QED BY <1>4, <1>5, <1>6, <1>7 DEF command, d

(* A line without an empty piece has its delimiters inside and apart.      *)
LEMMA NoEmptyPiece ==
  ASSUME NEW C, NEW s \in Seq(C), NEW d, \A j \in 1 .. ArgAmt(s, d) : Piece(s, d, j) # <<>>
  PROVE  Plain(s, d) /\ s # <<>>
<1> DEFINE L == Len(s)
           S == Cuts(s, d)
           N == ArgAmt(s, d)
<1>1. /\ L \in Nat /\ S \subseteq 0 .. L + 1 /\ N \in Nat \ {0} /\ Cardinality(S) = N + 1
      /\ Nth(S, 1) = 0 /\ Nth(S, N + 1) = L + 1
  BY CutsCount
<1>2. \A k : k \in S <=> k = 0 \/ k = L + 1 \/ (k \in 1 .. L /\ s[k] = d)
  BY DEF Cuts
<1>3. \A j \in 1 .. N : Piece(s, d, j) = SubSeq(s, Nth(S, j) + 1, Nth(S, j + 1) - 1)
  BY DEF Piece, First, Final
<1>4. \A j \in 1 .. N : Piece(s, d, j) # <<>>
  OBVIOUS
<1>5. L = 0 => s = <<>>
  OBVIOUS
<1> HIDE DEF L, S, N
<1>6. /\ \A j \in 1 .. N + 1 : Nth(S, j) \in S /\ Nth(S, j) \in 0 .. L + 1
      /\ \A k \in S : Upto(S, k) \in 1 .. N + 1 /\ Nth(S, Upto(S, k)) = k
  <2>1. L + 1 \in Nat
    BY <1>1
  <2> QED BY <1>1, <2>1, NthIs
<1>7. ASSUME NEW j \in 1 .. N PROVE Nth(S, j) + 2 <= Nth(S, j + 1)
  <2>1. j \in 1 .. N + 1 /\ j + 1 \in 1 .. N + 1
    BY <1>1
  <2> DEFINE x == Nth(S, j)
             y == Nth(S, j + 1)
  <2>2. x \in 0 .. L + 1 /\ y \in 0 .. L + 1 /\ SubSeq(s, x + 1, y - 1) # <<>>
    BY <1>3, <1>4, <1>6, <2>1
  <2> HIDE DEF x, y
  <2>3. ~(y - 1 < x + 1)
    <3>1. x + 1 \in Int /\ y - 1 \in Int
      BY <1>1, <2>2
    <3> QED BY <2>2, <3>1, SubSeqEmpty
  <2>4. x + 2 <= y
    BY <1>1, <2>2, <2>3
  <2> QED BY <2>4 DEF x, y
<1>8. ASSUME NEW k \in 1 .. L, s[k] = d PROVE k \in 2 .. L - 1 /\ s[k - 1] # d
  <2> DEFINE j == Upto(S, k)
  <2>1. k \in S /\ k # 0 /\ k # L + 1
    BY <1>1, <1>2, <1>8
  <2>2. j \in 1 .. N + 1 /\ Nth(S, j) = k
    BY <1>6, <2>1
  <2> HIDE DEF j
  <2>3. j # 1 /\ j # N + 1
    BY <1>1, <2>1, <2>2
  <2>4. j \in 1 .. N /\ j - 1 \in 1 .. N /\ (j - 1) + 1 = j /\ j - 1 \in 1 .. N + 1 /\ j + 1 \in 1 .. N + 1
    BY <1>1, <2>2, <2>3
  <2> DEFINE x == Nth(S, j - 1)
             y == Nth(S, j + 1)
  <2>5. x + 2 <= k /\ k + 2 <= y /\ x \in 0 .. L + 1 /\ y \in 0 .. L + 1
    <3>1. Nth(S, j - 1) + 2 <= Nth(S, (j - 1) + 1) /\ Nth(S, j) + 2 <= Nth(S, j + 1)
      BY <1>7, <2>4
    <3> QED BY <1>6, <2>2, <2>4, <3>1
  <2>6. \A i \in S : i <= x \/ k <= i
    <3>1. L + 1 \in Nat /\ j - 1 \in 1 .. Cardinality(S) /\ (j - 1) + 1 <= Cardinality(S)
      BY <1>1, <2>2, <2>4
    <3>2. \A i \in S : i <= Nth(S, j - 1) \/ Nth(S, (j - 1) + 1) <= i
      BY <1>1, <3>1, NthInOrder
    <3> QED BY <2>2, <2>4, <3>2
  <2> HIDE DEF x, y
  <2>7. k \in 2 .. L - 1 /\ k - 1 \in 1 .. L /\ ~(k - 1 <= x) /\ ~(k <= k - 1)
    BY <1>1, <2>5
  <2> QED BY <1>2, <2>6, <2>7
<1>9. s # <<>>
  <2>1. 1 \in 1 .. N /\ Nth(S, 1 + 1) \in 0 .. L + 1
    <3>1. 1 \in 1 .. N /\ 1 + 1 \in 1 .. N + 1
      BY <1>1
    <3> QED BY <1>6, <3>1
  <2>2. 2 <= Nth(S, 1 + 1)
    <3>1. Nth(S, 1) + 2 <= Nth(S, 1 + 1)
      BY <1>7, <2>1
    <3> QED BY <1>1, <3>1
  <2>3. L # 0
    BY <1>1, <2>1, <2>2
  <2>4. Len(<<>>) = 0
    OBVIOUS
  <2> QED BY <2>3, <2>4 DEF L
<1> QED BY <1>8, <1>9 DEF Plain, L

(* trim(): what it leaves is the one part of a string that begins and ends *)
(* with a solid character and has all of them.                             *)
LEMMA PartSolid ==
  ASSUME NEW C, NEW s \in Seq(C), NEW i \in 1 .. Len(s), NEW j \in 1 .. Len(s), i <= j
  PROVE  LET t == SubSeq(s, i, j)
             inside == {k \in Solid(s) : i <= k /\ k <= j}
         IN /\ t \in Seq(C) /\ Len(t) = j - i + 1 /\ t # <<>>
            /\ t[1] = s[i] /\ t[Len(t)] = s[j]
            /\ IsFiniteSet(Solid(s)) /\ inside \in SUBSET Solid(s)
            /\ Cardinality(Solid(t)) = Cardinality(inside)
<1> DEFINE t == SubSeq(s, i, j)
           inside == {k \in Solid(s) : i <= k /\ k <= j}
           L == Len(s)
<1>1. L \in Nat /\ i \in 1 .. L /\ j \in 1 .. L /\ \A k \in i .. j : k \in 1 .. L /\ s[k] \in C
  <2>1. Len(s) \in Nat /\ \A k \in 1 .. Len(s) : s[k] \in C
    BY ElementOfSeq
  <2>2. \A k \in i .. j : k \in 1 .. Len(s)
    BY <2>1
  <2> QED BY <2>1, <2>2
<1>2. /\ t \in Seq(C) /\ Len(t) = j - i + 1
      /\ \A k \in 1 .. j - i + 1 : t[k] = s[i + k - 1]
  <2>1. i \in Int /\ j \in Int /\ \A k \in i .. j : s[k] \in C
    BY <1>1
  <2> QED BY <2>1, SubSeqProperties
<1>3. IsFiniteSet(Solid(s)) /\ inside \in SUBSET Solid(s)
  <2>1. IsFiniteSet(1 .. L) /\ Solid(s) \in SUBSET (1 .. L)
    BY <1>1, FS_Interval DEF Solid
  <2> QED BY <2>1, FS_Subset
<1>4. \A k : k \in inside <=> k \in i .. j /\ s[k] \notin Blank
  <2>1. \A k : k \in 1 .. L /\ i <= k /\ k <= j <=> k \in i .. j
    BY <1>1
  <2> QED BY <2>1 DEF Solid
<1> HIDE DEF t, inside, L
<1>5. t # <<>> /\ t[1] = s[i] /\ t[Len(t)] = s[j]
  <2>1. Len(t) >= 1 /\ 1 \in 1 .. j - i + 1 /\ Len(t) \in 1 .. j - i + 1
    BY <1>1, <1>2
  <2>2. i + 1 - 1 = i /\ i + (j - i + 1) - 1 = j
    BY <1>1
  <2>3. Len(<<>>) = 0
    OBVIOUS
  <2> QED BY <1>2, <2>1, <2>2, <2>3
<1>6. Solid(t) = {x + (1 - i) : x \in inside}
  <2>1. ASSUME NEW k \in Solid(t) PROVE k + (i - 1) \in inside /\ (k + (i - 1)) + (1 - i) = k
    <3>1. k \in 1 .. j - i + 1 /\ t[k] \notin Blank
      BY <1>2 DEF Solid
    <3>2. k + (i - 1) \in i .. j /\ i + k - 1 = k + (i - 1) /\ (k + (i - 1)) + (1 - i) = k
      BY <1>1, <3>1
    <3> QED BY <1>2, <1>4, <3>1, <3>2
  <2>2. ASSUME NEW x \in inside PROVE x + (1 - i) \in Solid(t)
    <3>1. x \in i .. j /\ s[x] \notin Blank
      BY <1>4
    <3>2. x + (1 - i) \in 1 .. j - i + 1 /\ i + (x + (1 - i)) - 1 = x
      BY <1>1, <3>1
    <3> QED BY <1>2, <3>1, <3>2 DEF Solid
  <2>3. \A k \in Solid(t) : \E x \in inside : x + (1 - i) = k
    BY <2>1
  <2> QED BY <2>2, <2>3
<1>7. Cardinality(Solid(t)) = Cardinality(inside)
  <2>1. IsFiniteSet(inside) /\ inside \subseteq Int /\ 1 - i \in Int
    <3>1. IsFiniteSet(inside)
      BY <1>3, FS_Subset
    <3>2. inside \subseteq Int
      BY <1>1, <1>4
    <3> QED BY <1>1, <3>1, <3>2
  <2>2. \A n \in Int : Cardinality({x + n : x \in inside}) = Cardinality(inside)
    BY <2>1, Shifted
  <2>3. Cardinality({x + (1 - i) : x \in inside}) = Cardinality(inside)
    BY <2>1, <2>2, Zenon
  <2> QED BY <1>6, <2>3, Zenon
<1> QED BY <1>2, <1>3, <1>5, <1>7 DEF t, inside

(* No other part has as many.                                              *)
LEMMA TrimLeavesCore ==
  ASSUME NEW C, NEW s \in Seq(C), Solid(s) # {}
  PROVE  trim(s) \in Seq(C) /\ Core(s) = trim(s)
<1> DEFINE L == Len(s)
           a == Min(Solid(s))
           b == Max(Solid(s))
           P(t) == /\ t # <<>> /\ {1, Len(t)} \subseteq Solid(t)
                   /\ Cardinality(Solid(t)) = Cardinality(Solid(s))
           T == {SubSeq(s, i, j) : i, j \in 1 .. L}
           inside(i, j) == {k \in Solid(s) : i <= k /\ k <= j}
<1>1. L \in Nat /\ Solid(s) \subseteq 1 .. L /\ \A k \in Solid(s) : s[k] \notin Blank
  BY DEF Solid
<1>2. /\ a \in Solid(s) /\ \A k \in Solid(s) : a <= k
      /\ b \in Solid(s) /\ \A k \in Solid(s) : b >= k
  <2>1. Solid(s) \subseteq Nat
    BY <1>1
  <2> QED BY <1>1, <2>1, MinIsLeast, MaxIsGreatest
<1>3. trim(s) = SubSeq(s, a, b)
  BY DEF trim
<1> HIDE DEF a, b, L
<1>4. a \in 1 .. L /\ b \in 1 .. L /\ a <= b
  BY <1>1, <1>2
<1>5. \A t \in Seq(C) : t # <<>> => ({1, Len(t)} \subseteq Solid(t) <=> t[1] \notin Blank /\ t[Len(t)] \notin Blank)
  <2> TAKE t \in Seq(C)
  <2>1. t # <<>> => 1 \in 1 .. Len(t) /\ Len(t) \in 1 .. Len(t)
    OBVIOUS
  <2> QED BY <2>1 DEF Solid
<1>6. trim(s) \in Seq(C) /\ P(trim(s))
  <2>1. \A k \in Solid(s) : a <= k /\ k <= b
    BY <1>1, <1>2, <1>4
  <2>2. inside(a, b) = Solid(s)
    BY <2>1
  <2>3. /\ trim(s) \in Seq(C) /\ trim(s) # <<>>
        /\ trim(s)[1] = s[a] /\ trim(s)[Len(trim(s))] = s[b]
        /\ Cardinality(Solid(trim(s))) = Cardinality(inside(a, b))
    BY <1>3, <1>4, PartSolid DEF L
  <2>4. {1, Len(trim(s))} \subseteq Solid(trim(s))
    BY <1>1, <1>2, <1>5, <2>3
  <2> QED BY <2>2, <2>3, <2>4
<1>7. ASSUME NEW i \in 1 .. L, NEW j \in 1 .. L, P(SubSeq(s, i, j))
      PROVE  SubSeq(s, i, j) = trim(s)
  <2> DEFINE t == SubSeq(s, i, j)
  <2>1. i <= j
    <3> SUFFICES ASSUME ~(i <= j) PROVE FALSE
      OBVIOUS
    <3>1. i \in Int /\ j \in Int /\ j < i
      BY <1>1
    <3> QED BY <1>7, <3>1, SubSeqEmpty
  <2>2. /\ t \in Seq(C) /\ t[1] = s[i] /\ t[Len(t)] = s[j]
        /\ IsFiniteSet(Solid(s)) /\ inside(i, j) \in SUBSET Solid(s)
        /\ Cardinality(Solid(t)) = Cardinality(inside(i, j))
    BY <2>1, PartSolid DEF L
  <2>3. inside(i, j) = Solid(s)
    <3> HIDE DEF inside
    <3> QED BY <1>7, <2>2, FS_Subset
  <2>4. i <= a /\ b <= j
    BY <1>2, <2>3
  <2>5. i \in Solid(s) /\ j \in Solid(s)
    <3>1. s[i] \notin Blank /\ s[j] \notin Blank
      <4> HIDE DEF t
      <4>1. t[1] \notin Blank /\ t[Len(t)] \notin Blank
        BY <1>5, <1>7, <2>2 DEF t
      <4> QED BY <2>2, <4>1
    <3> QED BY <3>1 DEF Solid, L
  <2>6. i = a /\ j = b
    BY <1>1, <1>2, <1>4, <2>4, <2>5
  <2> QED BY <1>3, <2>6
<1> HIDE DEF P
<1>8. trim(s) \in T /\ \A t \in T : P(t) => t = trim(s)
  <2>1. trim(s) \in T
    BY <1>3, <1>4
  <2>2. \A t \in T : \E i, j \in 1 .. L : t = SubSeq(s, i, j)
    OBVIOUS
  <2> HIDE DEF T
  <2> QED BY <1>7, <2>1, <2>2
<1>9. Core(s) = CHOOSE t \in T : P(t)
  BY DEF Core, P, L
<1> HIDE DEF T
<1> QED BY <1>6, <1>8, <1>9

-----------------------------------------------------------------------------
(* What input() reads are characters.                                      *)
LEMMA InputTyped == ASSUME NEW typed \in Typed PROVE input(typed).text \in Seq(1 .. 127)
<1> DEFINE C == 1 .. 127
<1>1. typed \in Seq(C) /\ Before(typed) \in 0 .. Len(typed) /\ Len(typed) \in Nat
  BY LinesAssumption, BeforeIsFirst
<1>2. Reading(typed).i = Before(typed)
  <2>1. Reading(typed) = After(typed, Len(typed))
    BY LinesAssumption, ReadingIsAfter
  <2>2. Len(typed) <= Before(typed) <=> Len(typed) = Before(typed)
    BY <1>1
  <2> QED BY <2>1, <2>2 DEF After
<1> HIDE DEF C
<1>3. SubSeq(typed, 1, Before(typed)) \in Seq(C)
  BY <1>1, Beginning
<1> QED BY <1>2, <1>3 DEF input, C

(* The parts of a line between its bars.                                   *)
LEMMA CommandsOfLine ==
  ASSUME NEW C, NEW text \in Seq(C)
  PROVE  LET N == ArgAmt(text, Bar)
         IN /\ N = 1 => Commands(text) = <<splitArgs(text, Space)>>
            /\ N # 1 /\ (\A k \in 1 .. N : Piece(text, Bar, k) # <<>>)
                  => Commands(text) = [k \in 1 .. N |-> splitArgs(trim(Piece(text, Bar, k)), Space)]
<1> DEFINE d == Bar
           N == ArgAmt(text, d)
           words == splitArgs(text, d)
           parts == Front(words)
<1>1. N \in Nat \ {0}
  BY CutsCount
<1> DEFINE word(k) == words[k]
<1>2. words = [k \in 1 .. N + 1 |-> words[k]]
  BY DEF splitArgs
<1> HIDE DEF d, N, words
<1>3. Len(words) = N + 1
  BY <1>1, <1>2
<1>4. Len(parts) = N /\ \A k \in 1 .. N : parts[k] = words[k]
  <2> DEFINE T == {words[k] : k \in 1 .. N}
  <2>1. \A k \in 1 .. N : words[k] \in T
    OBVIOUS
  <2> HIDE DEF T
  <2>2. 1 <= N /\ N - 1 + 1 = N /\ (N + 1) - 1 = N /\ \A k \in 1 .. N : 1 + k - 1 = k
    BY <1>1
  <2>3. parts = SubSeq(words, 1, N)
    BY <1>3, <2>2 DEF Front
  <2> HIDE DEF parts
  <2>4. /\ Len(parts) = IF 1 <= N THEN N - 1 + 1 ELSE 0
        /\ \A k \in 1 .. N - 1 + 1 : parts[k] = words[1 + k - 1]
    BY <1>1, <2>1, <2>3, SubSeqProperties
  <2> QED BY <2>2, <2>4
<1>5. Commands(text) = IF Len(parts) = 1 THEN <<splitArgs(text, Space)>>
                       ELSE [k \in 1 .. Len(parts) |->
                               IF parts[k] = Unset THEN <<Unset>> ELSE splitArgs(trim(parts[k].text), Space)]
  BY DEF Commands, words, d
<1> HIDE DEF parts
<1>6. ASSUME \A k \in 1 .. N : Piece(text, d, k) # <<>>
      PROVE  \A k \in 1 .. N : words[k] # Unset /\ words[k].text = Piece(text, d, k)
  <2>1. Plain(text, d) /\ text # <<>>
    BY <1>6, NoEmptyPiece DEF N
  <2>2. words = [k \in 1 .. N + 1 |-> IF k = N + 1 THEN Null ELSE Word(Piece(text, d, k))]
    BY <2>1, SplitPlain DEF N, words
  <2> TAKE k \in 1 .. N
  <2>3. k \in 1 .. N + 1 /\ k # N + 1
    BY <1>1
  <2>4. words[k] = Word(Piece(text, d, k))
    BY <2>2, <2>3
  <2>5. words[k].kind = "word" /\ words[k].text = Piece(text, d, k)
    BY <2>4, WordFields
  <2>6. Unset.kind = "unset"
    BY DEF Unset
  <2> QED BY <2>5, <2>6
<1>7. N # 1 /\ (\A k \in 1 .. N : Piece(text, d, k) # <<>>)
         => Commands(text) = [k \in 1 .. N |-> splitArgs(trim(Piece(text, d, k)), Space)]
  BY <1>4, <1>5, <1>6
<1>8. N = 1 => Commands(text) = <<splitArgs(text, Space)>>
  BY <1>4, <1>5
<1> QED BY <1>7, <1>8 DEF N, d

(* In a line or command as the reader means it, single blanks stand        *)
(* between words; such a one has each word in a place of its own, in       *)
(* order, and then the null pointer, with no place unset (utils.c:161,     *)
(* 193; shell.c:213-233).                                                  *)
THEOREM WordsComeInPlace == LinesSpec => []WordsInPlace
<1>1. ASSUME NEW C, NEW text \in Seq(C), NEW commands, commands = Commands(text)
      PROVE  LET parts == 1 .. Cardinality(Cuts(text, Bar)) - 1
             IN /\ parts = {1} => OneCommand(commands[1], text)
                /\ parts # {1} /\ (\A k \in parts : Solid(Piece(text, Bar, k)) # {})
                      => /\ DOMAIN commands = parts
                         /\ \A k \in parts : OneCommand(commands[k], Core(Piece(text, Bar, k)))
  <2> DEFINE N == ArgAmt(text, Bar)
             parts == 1 .. Cardinality(Cuts(text, Bar)) - 1
  <2>1. N \in Nat \ {0} /\ parts = 1 .. N
    BY CutsCount
  <2>2. parts = {1} <=> N = 1
    <3> HIDE DEF N, parts
    <3>1. N \in 1 .. N /\ 1 .. 1 = {1}
      BY <2>1
    <3> QED BY <2>1, <3>1
  <2>3. ASSUME N = 1 PROVE OneCommand(commands[1], text)
    <3>1. commands = <<splitArgs(text, Space)>>
      BY <1>1, <2>3, CommandsOfLine
    <3>2. commands[1] = splitArgs(text, Space)
      BY <3>1
    <3> QED BY <3>2, SplitIsOneCommand
  <2>4. ASSUME N # 1, \A k \in 1 .. N : Solid(Piece(text, Bar, k)) # {}
        PROVE  /\ DOMAIN commands = 1 .. N
               /\ \A k \in 1 .. N : OneCommand(commands[k], Core(Piece(text, Bar, k)))
    <3>1. \A k \in 1 .. N : Piece(text, Bar, k) # <<>>
      <4>1. Solid(<<>>) = {}
        BY DEF Solid
      <4> HIDE DEF N
      <4> QED BY <2>4, <4>1
    <3>2. commands = [k \in 1 .. N |-> splitArgs(trim(Piece(text, Bar, k)), Space)]
      BY <1>1, <2>4, <3>1, CommandsOfLine
    <3>3. Plain(text, Bar) /\ text # <<>>
      BY <3>1, NoEmptyPiece
    <3>4. ASSUME NEW k \in 1 .. N PROVE OneCommand(commands[k], Core(Piece(text, Bar, k)))
      <4> DEFINE s == Piece(text, Bar, k)
      <4>1. s \in Seq(C)
        <5>1. /\ First(text, Bar, k) \in 1 .. Len(text) /\ Final(text, Bar, k) \in 1 .. Len(text)
              /\ First(text, Bar, k) <= Final(text, Bar, k)
          BY <3>3, PieceBounds
        <5> QED BY <5>1, PartSolid, PieceIs
      <4>2. Solid(s) # {}
        BY <2>4
      <4> HIDE DEF s
      <4>3. trim(s) \in Seq(C) /\ Core(s) = trim(s)
        BY <4>1, <4>2, TrimLeavesCore
      <4>4. OneCommand(splitArgs(trim(s), Space), trim(s))
        BY <4>3, SplitIsOneCommand
      <4> HIDE DEF N
      <4>5. commands[k] = splitArgs(trim(s), Space)
        BY <3>2 DEF s
      <4> QED BY <4>3, <4>4, <4>5 DEF s
    <3> QED BY <3>2, <3>4
  <2> HIDE DEF N, parts
  <2>5. /\ parts = {1} => OneCommand(commands[1], text)
        /\ parts # {1} /\ (\A k \in parts : Solid(Piece(text, Bar, k)) # {})
              => /\ DOMAIN commands = parts
                 /\ \A k \in parts : OneCommand(commands[k], Core(Piece(text, Bar, k)))
    BY <2>1, <2>2, <2>3, <2>4
  <2> QED BY <2>5 DEF parts
<1>2. CallInv => WordsInPlace
  <2> SUFFICES ASSUME CallInv, call = "spawnShell" PROVE WordsInPlace
    BY Zenon DEF WordsInPlace
  <2>1. /\ result.line.text \in Seq(1 .. 127)
        /\ result.commands = Commands(result.line.text)
    BY InputTyped DEF CallInv
  <2> DEFINE C == 1 .. 127
             text == result.line.text
             commands == result.commands
  <2>2. text \in Seq(C) /\ commands = Commands(text)
    BY <2>1
  <2> HIDE DEF C, text, commands
  <2>3. LET parts == 1 .. Cardinality(Cuts(text, Bar)) - 1
        IN /\ parts = {1} => OneCommand(commands[1], text)
           /\ parts # {1} /\ (\A k \in parts : Solid(Piece(text, Bar, k)) # {})
                 => /\ DOMAIN commands = parts
                    /\ \A k \in parts : OneCommand(commands[k], Core(Piece(text, Bar, k)))
    BY <1>1, <2>2, Zenon
  <2> QED BY <2>3, Zenon DEF WordsInPlace, text, commands
<1> QED BY <1>2, CallHolds, PTL
=============================================================================
