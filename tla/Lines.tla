-------------------------------- MODULE Lines --------------------------------
(***************************************************************************)
(* How a typed line becomes words: input(), splitArgs() and trim() of the  *)
(* shell (src/Program-4/utils.c) and the order in which it calls them, and *)
(* readSTDIN() of the chat (src/Program-5/message.h).                      *)
(***************************************************************************)
EXTENDS Calls, FiniteSets, FiniteSetsExt, SequencesExt

CONSTANTS Typed,        \* what is typed at the shell, up to its end of input
          Pending,      \* what the reads of the chat's terminal find
          InitialSize,  \* DEFAULT_INPUT_LENGTH
          MaxLength     \* DATA_MAXSIZE

ASSUME LinesAssumption == /\ Typed \subseteq Seq(1 .. 127)
                          /\ Pending \subseteq Seq(Seq(1 .. 127))
                          /\ \A reads \in Pending : \A k \in 1 .. Len(reads) :
                                Len(reads[k]) \in 1 .. MaxLength
                          /\ InitialSize \in Nat \ {0}
                          /\ MaxLength \in Nat \ {0}

Tab == 9
Newline == 10
Bar == 124

-----------------------------------------------------------------------------
(* The loop of input() after k reads: the buffer of `size' bytes is full   *)
(* with i characters and grows before the next one is looked at.           *)
GrownLate(i, size) == IF i = size + 1 THEN size + 1 ELSE size    \* mutant: one character late
Grown(i, size) == IF i = size THEN size + 1 ELSE size
Reading(typed) ==
    LET loop[k \in 0 .. Len(typed)] ==
          IF k = 0 THEN [i |-> 0, size |-> InitialSize, open |-> TRUE]
          ELSE LET s == loop[k - 1]
                   size == Grown(s.i, s.size)
               IN CASE ~s.open -> s
                    [] s.open /\ typed[k] = Newline -> [s EXCEPT !.size = size, !.open = FALSE]
                    [] OTHER -> [s EXCEPT !.i = @ + 1, !.size = size]
    IN loop[Len(typed)]
input(typed) == [text |-> SubSeq(typed, 1, Reading(typed).i), size |-> Reading(typed).size]

-----------------------------------------------------------------------------
(* An array of strings: a place holds a word, the terminating null         *)
(* pointer, or what malloc() left there.                                   *)
Word(w) == [kind |-> "word", text |-> w]
Null == [kind |-> "null", text |-> <<>>]
Unset == [kind |-> "unset", text |-> <<>>]

(* The j-th number of a set.                                               *)
Nth(S, j) == CHOOSE k \in S : Cardinality({i \in S : i <= k}) = j

(* strtok(): the runs between delimiters, however many these are.          *)
Runs(s, d) ==
    LET starts == {k \in 1 .. Len(s) : s[k] # d /\ (k = 1 \/ s[k - 1] = d)}
        stop(k) == Max({m \in k .. Len(s) : \A j \in k .. m : s[j] # d})
    IN [j \in 1 .. Cardinality(starts) |-> SubSeq(s, Nth(starts, j), stop(Nth(starts, j)))]

(* The array has room for one word more than there are delimiters.         *)
ArgAmt(s, d) == 1 + Cardinality({k \in 1 .. Len(s) : s[k] = d})

splitArgs(s, d) ==
    [k \in 1 .. ArgAmt(s, d) + 1 |->
        CASE k = ArgAmt(s, d) + 1 -> Null
          [] ArgAmt(s, d) = 1 /\ k = 1 -> Word(s)
          [] ArgAmt(s, d) > 1 /\ k <= Len(Runs(s, d)) -> Word(Runs(s, d)[k])
          [] OTHER -> Unset]

Blank == {Space, Tab, Newline}
Solid(s) == {k \in 1 .. Len(s) : s[k] \notin Blank}
trimFront(s) == IF Solid(s) = {} THEN <<>>                   \* mutant: the end is left
                ELSE SubSeq(s, Min(Solid(s)), Len(s))
trim(s) == IF Solid(s) = {} THEN <<>> ELSE SubSeq(s, Min(Solid(s)), Max(Solid(s)))

(* spawnShell(): a line without a bar is split as it was typed; otherwise  *)
(* the commands are trimmed first, an unset place like any other.  The     *)
(* arguments of each command.                                              *)
Commands(line) ==
    LET parts == Front(splitArgs(line, Bar))
    IN IF Len(parts) = 1 THEN <<splitArgs(line, Space)>>
       ELSE [k \in 1 .. Len(parts) |->
                IF parts[k] = Unset THEN <<Unset>> ELSE splitArgs(trim(parts[k].text), Space)]

-----------------------------------------------------------------------------
(* readSTDIN(): every read is stored from the buffer's first byte on,      *)
(* until nothing is pending or more than the buffer's length was read.     *)
Total(reads, n) == FoldLeft(LAMBDA sum, r : sum + Len(r), 0, SubSeq(reads, 1, n))
Taken(reads) == Min({Len(reads)} \cup {n \in 1 .. Len(reads) : Total(reads, n) > MaxLength})
BufferFilled(reads) ==                                       \* mutant: behind the last read
    LET all == FlattenSeq(SubSeq(reads, 1, Taken(reads)))
    IN [p \in 1 .. MaxLength |-> IF p <= Len(all) THEN all[p] ELSE Nul]
Buffer(reads) ==
    [p \in 1 .. MaxLength |->
        LET long == {n \in 1 .. Taken(reads) : Len(reads[n]) >= p}
        IN IF long = {} THEN Nul ELSE reads[Max(long)][p]]

(* strlen() of a buffer with no terminator runs on behind it.              *)
Terminated(buffer) == \E p \in 1 .. Len(buffer) : buffer[p] = Nul
CString(buffer) == SubSeq(buffer, 1, Min({p \in 1 .. Len(buffer) : buffer[p] = Nul}) - 1)
Stripped(text) == IF text # <<>> /\ Last(text) = Newline THEN Front(text) ELSE text
readSTDIN(reads) == IF Terminated(Buffer(reads)) THEN Word(Stripped(CString(Buffer(reads))))
                                                ELSE Unset

-----------------------------------------------------------------------------
LinesNext == \/ \E t \in Typed : Call("spawnShell", t, [line |-> input(t), commands |-> Commands(input(t).text)])
             \/ \E reads \in Pending : Call("readSTDIN", reads, readSTDIN(reads))

-----------------------------------------------------------------------------
(* What was typed before the newline is the line, and the buffer has grown *)
(* enough for its terminator; only a line that the end of the input ends   *)
(* may need one byte more than there is (utils.c:96, 108).                 *)
LineFits ==
    call = "spawnShell" =>
        LET line == result.line
            lines == {n \in 0 .. Len(value) : /\ \A k \in 1 .. n : value[k] # Newline
                                              /\ n < Len(value) => value[n + 1] = Newline}
        IN /\ lines = {Len(line.text)} /\ line.text = SubSeq(value, 1, Len(line.text))
           /\ IF Newline \in Range(value) THEN Len(line.text) < line.size
                                          ELSE Len(line.text) <= line.size

(* In a line or command as the reader means it, single blanks stand        *)
(* between words; such a one has each word in a place of its own, in       *)
(* order, and then the null pointer, with no place unset (utils.c:161,     *)
(* 193; shell.c:213-233).  Bars cut a line into pieces; the command in one *)
(* is what begins and ends with a solid character and has all there are.   *)
Plain(s, d) == \A k \in 1 .. Len(s) : s[k] = d => /\ k \in 2 .. Len(s) - 1
                                                  /\ s[k - 1] # d
Joined(words, d) ==
    LET line[k \in 1 .. Len(words)] ==
          IF k = 1 THEN words[1].text ELSE line[k - 1] \o <<d>> \o words[k].text
    IN line[Len(words)]
OneCommand(command, text) ==
    Plain(text, Space) /\ text # <<>> =>
        /\ Last(command) = Null
        /\ \A k \in 1 .. Len(command) - 1 : /\ command[k].kind = "word"
                                            /\ Space \notin Range(command[k].text)
        /\ Joined(Front(command), Space) = text
Cuts(s, d) == {0, Len(s) + 1} \cup {k \in 1 .. Len(s) : s[k] = d}
Piece(s, d, j) == SubSeq(s, Nth(Cuts(s, d), j) + 1, Nth(Cuts(s, d), j + 1) - 1)
Core(s) == CHOOSE t \in {SubSeq(s, i, j) : i, j \in 1 .. Len(s)} :
              /\ t # <<>> /\ {1, Len(t)} \subseteq Solid(t)
              /\ Cardinality(Solid(t)) = Cardinality(Solid(s))
WordsInPlace ==
    call = "spawnShell" =>
        LET text == result.line.text
            parts == 1 .. Cardinality(Cuts(text, Bar)) - 1
        IN /\ parts = {1} => OneCommand(result.commands[1], text)
           /\ parts # {1} /\ (\A k \in parts : Solid(Piece(text, Bar, k)) # {})
                 => /\ DOMAIN result.commands = parts
                    /\ \A k \in parts : OneCommand(result.commands[k], Core(Piece(text, Bar, k)))

(* A pending line shorter than the buffer is returned without its newline. *)
(* Of several, the last that was read comes first, whole, and is all there *)
(* is if no line before it was longer (message.h:374-394).                 *)
LastLineFirst ==
    call = "readSTDIN" /\ value # <<>> =>
        LET n == Taken(value)
            line == IF Last(value[n]) = Newline THEN Front(value[n]) ELSE value[n]
            longest == \A k \in 1 .. n : Len(value[k]) <= Len(value[n])
            full == \E k \in 1 .. n : Len(value[k]) = MaxLength
        IN IF full THEN result = Unset
           ELSE /\ result.kind = "word"
                /\ IsPrefix(line, result.text)
                /\ longest => result.text = line
=============================================================================
