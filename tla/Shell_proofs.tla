---------------------------- MODULE Shell_proofs ----------------------------
(***************************************************************************)
(* Proofs about Shell, for any lines, process limit, pipe capacity and     *)
(* volume of output.                                                       *)
(***************************************************************************)
EXTENDS Shell, TLAPS

Descriptors == {File, Broken, Terminal} \cup Pids

Pcs == {"unborn", "print", "prompt", "single", "echo", "wait", "childS", "loop", "parent",
        "childM", "echoM", "waitlast", "prog", "zombie", "gone"}

Process == [pc : Pcs, parent : 0 .. MaxPids, in : Descriptors, out : Descriptors,
            ends : SUBSET (Pids \X {"r", "w"}), save : Descriptors, line : Nat, i : Nat,
            last : Int, kid : -1 .. MaxPids, left : Nat, more : BOOLEAN,
            status : Statuses, code : Int]

(* A process's place in the lines that were typed.                         *)
Placed(r, lines) == /\ r.line \in 0 .. Len(lines)
                    /\ r.i # 0 => r.line > 0 /\ r.i <= Len(lines[r.line])

TypeInv == /\ proc \in [Pids -> Process]
           /\ \A p \in Pids : Placed(proc[p], typed)
           /\ pipe \in [Pids -> 0 .. Capacity]
           /\ typed \in Seq(Lines) /\ Len(typed) <= MaxLines

(* The first shell is nobody's child and never runs a child's code.  Its   *)
(* standard output is the terminal, or saved in saveStdout in the loop of  *)
(* a pipeline; and it has pipe ends only between pipe() and close(), of    *)
(* the pipe it has just made.                                              *)
MainPcs == {"print", "prompt", "single", "echo", "wait", "loop", "parent", "waitlast", "gone"}
MainWell(m) == /\ m.parent = 0
               /\ m.pc \in MainPcs
               /\ m.save = Terminal
               /\ m.pc \notin {"loop", "parent"} => m.out = Terminal
               /\ IF m.pc = "parent" THEN m.ends \subseteq Ends(m.kid) ELSE m.ends = {}

IInv == TypeInv /\ MainWell(proc[Main])

-----------------------------------------------------------------------------
(* Records.                                                                *)

(* The first shell has an entry of the process table.                      *)
LEMMA MainPid == Main \in Pids
  BY ShellAssumption DEF Main, Pids

(* What a shell may be left with, parsed, given or by chance, is a status. *)
LEMMA KnownStatuses == {-2, -1, 0, 2} \subseteq Statuses /\ Garbage \subseteq Statuses
  BY DEF Statuses, ExitCodes, Garbage

(* An unused entry is typed.                                               *)
LEMMA UnbornProcess == Unborn \in Process
  BY ShellAssumption, KnownStatuses DEF Unborn, Process, Pcs, Descriptors, Terminal

(* Giving a field of a process a value of its type gives a process.        *)
LEMMA Updates ==
  ASSUME NEW r \in Process
  PROVE  /\ \A x \in Pcs : [r EXCEPT !.pc = x] \in Process
         /\ \A x \in 0 .. MaxPids : [r EXCEPT !.parent = x] \in Process
         /\ \A x \in Descriptors : [r EXCEPT !.in = x] \in Process
         /\ \A x \in Descriptors : [r EXCEPT !.out = x] \in Process
         /\ \A x \in Descriptors : [r EXCEPT !.save = x] \in Process
         /\ \A x \in SUBSET (Pids \X {"r", "w"}) : [r EXCEPT !.ends = x] \in Process
         /\ \A x \in Nat : [r EXCEPT !.line = x] \in Process
         /\ \A x \in Nat : [r EXCEPT !.i = x] \in Process
         /\ \A x \in Int : [r EXCEPT !.last = x] \in Process
         /\ \A x \in -1 .. MaxPids : [r EXCEPT !.kid = x] \in Process
         /\ \A x \in Nat : [r EXCEPT !.left = x] \in Process
         /\ \A x \in BOOLEAN : [r EXCEPT !.more = x] \in Process
         /\ \A x \in Statuses : [r EXCEPT !.status = x] \in Process
         /\ \A x \in Int : [r EXCEPT !.code = x] \in Process
  BY DEF Process

(* The initial states satisfy the invariant.                               *)
LEMMA InitIInv == Init => IInv
<1> SUFFICES ASSUME Init PROVE IInv
  OBVIOUS
<1>1. \A p \in Pids : proc[p] \in Process
  <2>1. [Unborn EXCEPT !.pc = "print"] \in Process
    BY UnbornProcess, Updates DEF Pcs
  <2> QED BY <2>1, UnbornProcess DEF Init
<1>4. \A p \in Pids : Placed(proc[p], typed)
  BY DEF Init, Placed, Unborn
<1>2. TypeInv
  BY <1>1, <1>4, ShellAssumption DEF Init, TypeInv
<1>3. MainWell(proc[Main])
  BY MainPid DEF Init, MainWell, MainPcs, Unborn, Terminal
<1> QED BY <1>2, <1>3 DEF IInv

(* One process changes, no line is typed.                                  *)
LEMMA OneChanges ==
  ASSUME IInv, NEW a \in Pids, NEW r \in Process, Placed(r, typed),
         a = Main => MainWell(r),
         proc' = [proc EXCEPT ![a] = r],
         pipe' \in [Pids -> 0 .. Capacity], UNCHANGED typed
  PROVE  IInv'
<1>1. proc' \in [Pids -> Process] /\ \A p \in Pids : Placed(proc'[p], typed)
  BY DEF IInv, TypeInv
<1>2. MainWell(proc'[Main])
  BY MainPid DEF IInv, TypeInv
<1> QED BY <1>1, <1>2 DEF IInv, TypeInv

(* Two processes change.                                                   *)
LEMMA TwoChange ==
  ASSUME IInv, NEW a \in Pids, NEW r \in Process, Placed(r, typed),
         a = Main => MainWell(r),
         NEW c \in Pids, NEW k \in Process, Placed(k, typed),
         c = Main => MainWell(k), c # a,
         proc' = [proc EXCEPT ![a] = r, ![c] = k],
         UNCHANGED <<pipe, typed>>
  PROVE  IInv'
<1>1. proc' \in [Pids -> Process] /\ \A p \in Pids : Placed(proc'[p], typed)
  BY DEF IInv, TypeInv
<1>2. MainWell(proc'[Main])
  BY MainPid DEF IInv, TypeInv
<1> QED BY <1>1, <1>2 DEF IInv, TypeInv

(* Writing to a pipe that accepts it leaves it within its capacity.        *)
LEMMA PutFits ==
  ASSUME IInv, NEW out \in Descriptors, Accepts(out), Put(out)
  PROVE  pipe' \in [Pids -> 0 .. Capacity]
<1>1. CASE out > 0
  <2>1. out \in Pids /\ pipe[out] < Capacity
    BY <1>1 DEF Accepts, Descriptors, File, Broken, Terminal
  <2> QED BY <1>1, <2>1, ShellAssumption DEF Put, IInv, TypeInv
<1>2. CASE ~(out > 0)
  BY <1>2 DEF Put, IInv, TypeInv
<1> QED BY <1>1, <1>2

(* A shell goes back to its prompt.                                        *)
LEMMA ReturnWell ==
  ASSUME IInv, NEW s \in Pids, NEW status \in Statuses
  PROVE  /\ Return(s, status) \in Process
         /\ Placed(Return(s, status), typed)
         /\ s = Main /\ proc[Main].pc \in {"single", "echo", "wait", "waitlast"}
              => MainWell(Return(s, status))
<1>1. proc[s] \in Process /\ Placed(proc[s], typed)
  BY DEF IInv, TypeInv
<1>2. Return(s, status) \in Process
  <2>1. Terminal \in Descriptors /\ "print" \in Pcs /\ 0 \in -1 .. MaxPids /\ 0 \in Nat /\ 0 \in Int
    BY ShellAssumption DEF Descriptors, Pcs
  <2> QED BY <1>1, <2>1, Updates DEF Return
<1>3. Placed(Return(s, status), typed)
  BY <1>1 DEF Return, Process, Placed
<1>4. s = Main /\ proc[Main].pc \in {"single", "echo", "wait", "waitlast"}
        => MainWell(Return(s, status))
  BY <1>1 DEF IInv, Return, Process, MainWell, MainPcs
<1> QED BY <1>2, <1>3, <1>4

(* A process ends.                                                         *)
LEMMA EndIInv ==
  ASSUME IInv, NEW p \in Pids, NEW code \in Int, End(p, code)
  PROVE  IInv'
<1> DEFINE ended == [Unborn EXCEPT !.pc = IF proc[p].parent = 0 THEN "gone" ELSE "zombie",
                                   !.parent = proc[p].parent, !.line = proc[p].line,
                                   !.i = proc[p].i, !.code = code]
           left(q) == [proc[q] EXCEPT !.parent = 0, !.pc = IF @ = "zombie" THEN "gone" ELSE @]
<1>1. \A q \in Pids : proc[q] \in Process /\ Placed(proc[q], typed)
  BY DEF IInv, TypeInv
<1>2. ended \in Process /\ Placed(ended, typed)
  <2>1. proc[p].parent \in 0 .. MaxPids /\ proc[p].line \in Nat /\ proc[p].i \in Nat
    BY <1>1 DEF Process
  <2>2. ended \in Process
    BY <2>1, UnbornProcess, Updates DEF Pcs
  <2>3. Placed(ended, typed)
    BY <1>1 DEF Placed, Unborn
  <2> QED BY <2>2, <2>3
<1>3. \A q \in Pids : left(q) \in Process /\ Placed(left(q), typed)
  <2> SUFFICES ASSUME NEW q \in Pids PROVE left(q) \in Process /\ Placed(left(q), typed)
    OBVIOUS
  <2>1. (IF proc[q].pc = "zombie" THEN "gone" ELSE proc[q].pc) \in Pcs /\ 0 \in 0 .. MaxPids
    BY <1>1, ShellAssumption DEF Process, Pcs
  <2>2. left(q) \in Process
    BY <1>1, <2>1, Updates
  <2>3. Placed(left(q), typed)
    BY <1>1 DEF Process, Placed
  <2> QED BY <2>2, <2>3
<1>4. p = Main => MainWell(ended)
  BY <1>1 DEF IInv, MainWell, MainPcs, Unborn, Process, Terminal
<1>5. proc[Main].parent # p
  BY DEF IInv, MainWell, Pids
<1>6. /\ proc' = [q \in Pids |-> IF q = p THEN ended
                                 ELSE IF proc[q].parent = p THEN left(q) ELSE proc[q]]
      /\ UNCHANGED <<pipe, typed>>
  BY DEF End
<1>7. TypeInv'
  <2> HIDE DEF ended, left
  <2> QED BY <1>1, <1>2, <1>3, <1>6 DEF IInv, TypeInv
<1>8. MainWell(proc'[Main])
  <2> HIDE DEF ended, left
  <2> QED BY <1>4, <1>5, <1>6, MainPid DEF IInv
<1> QED BY <1>7, <1>8 DEF IInv

(* What every action starts from.                                          *)
LEMMA Here ==
  ASSUME IInv, NEW s \in Pids
  PROVE  /\ proc[s] \in Process
         /\ Placed(proc[s], typed)
         /\ proc[s].out \in Descriptors /\ proc[s].in \in Descriptors
         /\ proc[s].save \in Descriptors
         /\ proc[s].ends \in SUBSET (Pids \X {"r", "w"})
         /\ proc[s].kid \in -1 .. MaxPids
         /\ proc[s].parent \in 0 .. MaxPids
         /\ proc[s].line \in Nat /\ proc[s].i \in Nat /\ proc[s].left \in Nat
         /\ s = Main => MainWell(proc[s])
  BY DEF IInv, TypeInv, Process

(* A process of which only the program counter changes.                    *)
LEMMA PcWell ==
  ASSUME IInv, NEW s \in Pids, NEW at \in Pcs
  PROVE  /\ [proc[s] EXCEPT !.pc = at] \in Process
         /\ Placed([proc[s] EXCEPT !.pc = at], typed)
<1>1. proc[s] \in Process /\ Placed(proc[s], typed)
  BY Here
<1>2. [proc[s] EXCEPT !.pc = at] \in Process
  BY <1>1, Updates
<1>3. Placed([proc[s] EXCEPT !.pc = at], typed)
  BY <1>1 DEF Process, Placed
<1> QED BY <1>2, <1>3

-----------------------------------------------------------------------------
(* shell.c and singleCommand.c.                                            *)

(* Printing the prompt (shell.c:156).                                      *)
LEMMA PromptIInv == ASSUME IInv, NEW s \in Pids, Prompt(s) PROVE IInv'
<1> DEFINE r == [proc[s] EXCEPT !.pc = "prompt"]
<1>1. r \in Process /\ Placed(r, typed)
  BY PcWell DEF Pcs
<1>2. s = Main => MainWell(r)
  BY Here DEF Process, MainWell, MainPcs, Prompt
<1>3. pipe' \in [Pids -> 0 .. Capacity]
  BY PutFits, Here DEF Prompt
<1>4. proc' = [proc EXCEPT ![s] = r] /\ UNCHANGED typed
  BY DEF Prompt
<1> HIDE DEF r
<1> QED BY <1>1, <1>2, <1>3, <1>4, OneChanges

(* A line is read: every process stays placed in the line it is on.        *)
LEMMA TypeIInv == ASSUME IInv, NEW s \in Pids, NEW line \in Lines, Type(s, line) PROVE IInv'
<1> DEFINE one == Len(line) = 1
           at == IF one THEN "single" ELSE "loop"
           saved == IF one THEN proc[s].save ELSE proc[s].out
           kept == IF one \/ proc[s].out <= 0 THEN proc[s].ends
                   ELSE proc[s].ends \cup {<<proc[s].out, "w">>}
           r == [proc[s] EXCEPT !.line = Len(typed'), !.i = Len(line), !.pc = at,
                                !.save = saved, !.ends = kept]
<1>1. line \in Seq(Commands) /\ line # <<>> /\ Len(line) \in Nat /\ Len(line) > 0
  BY ShellAssumption
<1>2. /\ typed' \in Seq(Lines) /\ Len(typed') = Len(typed) + 1 /\ Len(typed') <= MaxLines
      /\ Len(typed) \in Nat
      /\ typed'[Len(typed')] = line
      /\ \A n \in 1 .. Len(typed) : typed'[n] = typed[n]
  BY ShellAssumption DEF Type, IInv, TypeInv
<1>3. at \in Pcs /\ saved \in Descriptors
  BY Here DEF Pcs
<1>4. kept \in SUBSET (Pids \X {"r", "w"})
  BY Here DEF Descriptors, File, Broken, Terminal, Pids
<1>5. r \in Process
  <2>1. Len(typed') \in Nat
    BY <1>2
  <2> HIDE DEF at, saved, kept
  <2> QED BY <1>1, <1>3, <1>4, <2>1, Here, Updates
<1>6. Placed(r, typed')
  BY <1>1, <1>2, Here DEF Process, Placed
<1>7. proc[s].pc = "prompt" /\ s = Main => MainWell(r)
  BY Here DEF Process, MainWell, MainPcs, Terminal
<1>8. \A p \in Pids : Placed(proc[p], typed')
  BY <1>2, Here DEF Placed
<1>9. /\ proc[s].pc = "prompt"
      /\ proc' = [proc EXCEPT ![s] = r]
      /\ UNCHANGED pipe
  BY DEF Type
<1> HIDE DEF r
<1>10. TypeInv'
  BY <1>2, <1>5, <1>6, <1>8, <1>9 DEF IInv, TypeInv
<1>11. MainWell(proc'[Main])
  BY <1>7, <1>9, MainPid DEF IInv, TypeInv
<1> QED BY <1>10, <1>11 DEF IInv

(* A builtin of a simple command.                                          *)
LEMMA SingleBuiltinIInv == ASSUME IInv, NEW s \in Pids, SingleBuiltin(s) PROVE IInv'
<1> DEFINE r == IF Command(s).kind = "echo" THEN [proc[s] EXCEPT !.pc = "echo"]
                ELSE Return(s, 0)
<1>1. CASE End(s, 0)
  BY <1>1, EndIInv
<1>2. CASE ~End(s, 0)
  <2>1. /\ proc[s].pc = "single"
        /\ proc' = [proc EXCEPT ![s] = r]
        /\ UNCHANGED <<pipe, typed>>
    BY <1>2 DEF SingleBuiltin
  <2>2. r \in Process /\ Placed(r, typed)
    BY PcWell, ReturnWell, KnownStatuses DEF Pcs
  <2>3. s = Main => MainWell(r)
    <3>1. s = Main => MainWell([proc[s] EXCEPT !.pc = "echo"])
      BY <2>1, Here DEF Process, MainWell, MainPcs
    <3> QED BY <2>1, <3>1, ReturnWell, KnownStatuses
  <2>4. pipe' \in [Pids -> 0 .. Capacity]
    BY <2>1 DEF IInv, TypeInv
  <2> HIDE DEF r
  <2> QED BY <2>1, <2>2, <2>3, <2>4, OneChanges
<1> QED BY <1>1, <1>2

(* echo, by the shell itself.                                              *)
LEMMA EchoIInv == ASSUME IInv, NEW s \in Pids, Echo(s) PROVE IInv'
<1>1. pipe' \in [Pids -> 0 .. Capacity]
  BY PutFits, Here DEF Echo
<1>2. Return(s, 0) \in Process /\ Placed(Return(s, 0), typed)
  BY ReturnWell, KnownStatuses
<1>3. s = Main => MainWell(Return(s, 0))
  BY ReturnWell, KnownStatuses DEF Echo
<1>4. proc' = [proc EXCEPT ![s] = Return(s, 0)] /\ UNCHANGED typed
  BY DEF Echo
<1> QED BY <1>1, <1>2, <1>3, <1>4, OneChanges

(* A pid that is free is not that of the first shell.                      *)
LEMMA NextPidFree == ASSUME IInv, NEW c \in NextPid PROVE c \in Pids /\ c # Main /\ proc[c].pc = "unborn"
  BY DEF NextPid, IInv, MainWell, MainPcs

(* fork() for a simple command: the child copies its shell.                *)
LEMMA SingleForkIInv == ASSUME IInv, NEW s \in Pids, SingleFork(s) PROVE IInv'
<1>1. CASE End(s, 1)
  BY <1>1, EndIInv
<1>2. ASSUME NEW c \in NextPid,
             proc' = [proc EXCEPT ![s].pc = "wait",
                                  ![c] = [proc[s] EXCEPT !.pc = "childS", !.parent = s]],
             UNCHANGED <<pipe, typed>>, proc[s].pc = "single"
      PROVE  IInv'
  <2> DEFINE r == [proc[s] EXCEPT !.pc = "wait"]
             k == [proc[s] EXCEPT !.pc = "childS", !.parent = s]
  <2>1. c \in Pids /\ c # Main /\ c # s
    BY <1>2, NextPidFree
  <2>2. r \in Process /\ Placed(r, typed)
    BY PcWell DEF Pcs
  <2>3. k \in Process
    <3>1. "childS" \in Pcs /\ s \in 0 .. MaxPids
      BY ShellAssumption DEF Pcs, Pids
    <3> QED BY <3>1, Here, Updates
  <2>4. Placed(k, typed)
    BY Here DEF Process, Placed
  <2>5. s = Main => MainWell(r)
    BY <1>2, Here DEF Process, MainWell, MainPcs
  <2>6. proc' = [proc EXCEPT ![s] = r, ![c] = k]
    BY <1>2
  <2> HIDE DEF r, k
  <2> QED BY <1>2, <2>1, <2>2, <2>3, <2>4, <2>5, <2>6, TwoChange
<1> QED BY <1>1, <1>2 DEF SingleFork

(* Every exit code is parsed to a status.                                  *)
LEMMA ParseStatus == ASSUME NEW code PROVE Parse(code) \in Statuses
  BY KnownStatuses DEF Parse

(* Collecting an ended child, by wait() or waitpid().                      *)
Collect(s, c) ==
  /\ proc[s].pc \in {"wait", "waitlast"} /\ proc[c].pc = "zombie"
  /\ proc' = [proc EXCEPT ![c].pc = "gone", ![s] = Return(s, Parse(proc[c].code))]
  /\ UNCHANGED <<pipe, typed>>

(* The child goes, the shell prompts.                                     *)
LEMMA CollectIInv ==
  ASSUME IInv, NEW s \in Pids, NEW c \in Children(s), Collect(s, c)
  PROVE  IInv'
<1> DEFINE r == [proc[c] EXCEPT !.pc = "gone"]
           status == Parse(proc[c].code)
<1>1. c \in Pids /\ c # s
  BY DEF Children, Collect
<1>2. r \in Process /\ Placed(r, typed)
  BY <1>1, PcWell DEF Pcs
<1>3. c # Main
  BY DEF Children, IInv, MainWell, Main, Pids
<1>4. status \in Statuses
  BY ParseStatus
<1> DEFINE k == Return(s, status)
<1>5. proc' = [proc EXCEPT ![c] = r, ![s] = k] /\ UNCHANGED <<pipe, typed>>
  BY DEF Collect
<1> HIDE DEF r, status
<1>6. k \in Process /\ Placed(k, typed)
  BY <1>4, ReturnWell
<1>7. s = Main => MainWell(k)
  <2>1. CASE s = Main
    <3>1. proc[Main].pc \in {"single", "echo", "wait", "waitlast"}
      BY <2>1 DEF Collect
    <3> QED BY <1>4, <2>1, <3>1, ReturnWell
  <2> QED BY <2>1
<1> HIDE DEF k
<1>8. s # c
  BY <1>1
<1> QED BY <1>1, <1>2, <1>3, <1>5, <1>6, <1>7, <1>8, TwoChange

(* wait() for a simple command.                                            *)
LEMMA WaitAnyIInv == ASSUME IInv, NEW s \in Pids, WaitAny(s) PROVE IInv'
  BY CollectIInv DEF WaitAny, Collect

(* A program that replaces a process of a command.                         *)
LEMMA ProgramIInv ==
  ASSUME IInv, NEW p \in Pids, p # Main,
         NEW in \in Descriptors, NEW out \in Descriptors,
         NEW ends \in SUBSET (Pids \X {"r", "w"}),
         proc' = [proc EXCEPT ![p] = Program(p, in, out, ends)],
         UNCHANGED <<pipe, typed>>
  PROVE  IInv'
<1> DEFINE left == IF Command(p).kind = "source" THEN Volume ELSE 0
           more == Command(p).kind \in {"filter", "head"}
           r == [Unborn EXCEPT !.pc = "prog", !.parent = proc[p].parent,
                               !.line = proc[p].line, !.i = proc[p].i, !.in = in,
                               !.out = out, !.ends = ends, !.left = left, !.more = more]
<1>1. "prog" \in Pcs /\ left \in Nat
  BY ShellAssumption DEF Pcs
<1>2. more \in BOOLEAN
  OBVIOUS
<1>3. Program(p, in, out, ends) = r
  BY DEF Program
<1>4. r \in Process
  <2> HIDE DEF left, more
  <2> QED BY <1>1, <1>2, Here, UnbornProcess, Updates
<1>5. r.line = proc[p].line /\ r.i = proc[p].i
  <2> HIDE DEF left, more
  <2> QED BY DEF Unborn
<1>6. Placed(r, typed)
  BY <1>5, Here DEF Placed
<1>7. pipe' \in [Pids -> 0 .. Capacity]
  BY DEF IInv, TypeInv
<1> HIDE DEF r
<1> QED BY <1>3, <1>4, <1>6, <1>7, OneChanges

(* The child of a simple command runs its program or ends.                 *)
LEMMA SingleChildIInv == ASSUME IInv, NEW c \in Pids, SingleChild(c) PROVE IInv'
<1>1. c # Main
  BY DEF SingleChild, IInv, MainWell, MainPcs
<1>2. CASE End(c, Killed) \/ End(c, 2)
  BY <1>2, EndIInv DEF Killed
<1>3. CASE /\ proc' = [proc EXCEPT ![c] = Program(c, proc[c].in, proc[c].out, proc[c].ends)]
           /\ UNCHANGED <<pipe, typed>>
  BY <1>1, <1>3, Here, ProgramIInv
<1> QED BY <1>2, <1>3 DEF SingleChild

-----------------------------------------------------------------------------
(* multiCommand.c.                                                         *)

(* pipe() and fork(): both sides hold both ends of the new pipe.           *)
LEMMA ForkIInv == ASSUME IInv, NEW s \in Pids, Fork(s) PROVE IInv'
<1>1. proc[s].pc = "loop" /\ UNCHANGED <<pipe, typed>>
  BY DEF Fork
<1>2. ASSUME NEW c \in NextPid,
             proc' = [proc EXCEPT ![s].pc = "parent", ![s].kid = c,
                                  ![s].ends = proc[s].ends \cup Ends(c),
                                  ![c] = [proc[s] EXCEPT !.pc = "childM", !.parent = s,
                                            !.kid = c, !.ends = proc[s].ends \cup Ends(c)]]
      PROVE  IInv'
  <2> DEFINE ends == proc[s].ends \cup Ends(c)
             r == [proc[s] EXCEPT !.pc = "parent", !.kid = c, !.ends = ends]
             k == [proc[s] EXCEPT !.pc = "childM", !.parent = s, !.kid = c, !.ends = ends]
  <2>1. c \in Pids /\ c # Main /\ c # s
    BY <1>1, NextPidFree
  <2>2. /\ "parent" \in Pcs /\ "childM" \in Pcs
        /\ s \in 0 .. MaxPids /\ c \in -1 .. MaxPids
    BY <2>1, ShellAssumption DEF Pcs, Pids
  <2>3. ends \in SUBSET (Pids \X {"r", "w"})
    BY <2>1, Here DEF Ends
  <2>4. r \in Process /\ k \in Process
    <3> HIDE DEF ends
    <3> QED BY <2>2, <2>3, Here, Updates
  <2>5. Placed(r, typed)
    <3> HIDE DEF ends
    <3> QED BY Here DEF Process, Placed
  <2>6. Placed(k, typed)
    <3> HIDE DEF ends
    <3> QED BY Here DEF Process, Placed
  <2>7. s = Main => MainWell(r)
    BY <1>1, Here DEF Process, MainWell, MainPcs
  <2>8. proc' = [proc EXCEPT ![s] = r, ![c] = k]
    BY <1>2
  <2> HIDE DEF r, k
  <2> QED BY <1>1, <2>1, <2>4, <2>5, <2>6, <2>7, <2>8, TwoChange
<1>3. CASE proc' = [proc EXCEPT ![s].pc = "parent", ![s].kid = -1]
  <2> DEFINE r == [proc[s] EXCEPT !.pc = "parent", !.kid = -1]
  <2>1. "parent" \in Pcs /\ -1 \in -1 .. MaxPids
    BY ShellAssumption DEF Pcs
  <2>2. r \in Process
    BY <2>1, Here, Updates
  <2>3. Placed(r, typed)
    BY Here DEF Process, Placed
  <2>4. s = Main => MainWell(r)
    BY <1>1, Here DEF Process, MainWell, MainPcs
  <2>5. pipe' \in [Pids -> 0 .. Capacity]
    BY <1>1 DEF IInv, TypeInv
  <2>6. proc' = [proc EXCEPT ![s] = r]
    BY <1>3
  <2> HIDE DEF r
  <2> QED BY <1>1, <2>2, <2>3, <2>4, <2>5, <2>6, OneChanges
<1> QED BY <1>2, <1>3 DEF Fork

(* The next turn of the loop, or what follows it, of a process well placed *)
(* in its line.                                                            *)
LEMMA TurnWell ==
  ASSUME NEW r \in Process, Placed(r, typed), NEW after \in Process, Placed(after, typed)
  PROVE  Turn(r, after) \in Process /\ Placed(Turn(r, after), typed)
<1>1. CASE r.i > 1
  <2>1. "loop" \in Pcs /\ r.i - 1 \in Nat
    BY <1>1 DEF Pcs, Process
  <2>2. [r EXCEPT !.pc = "loop", !.i = r.i - 1] \in Process
    BY <2>1, Updates
  <2>3. Placed([r EXCEPT !.pc = "loop", !.i = r.i - 1], typed)
    BY <1>1 DEF Process, Placed
  <2> QED BY <1>1, <2>2, <2>3 DEF Turn
<1>2. CASE ~(r.i > 1)
  BY <1>2 DEF Turn
<1> QED BY <1>1, <1>2

(* The parent closes both ends and, last, restores its output.             *)
LEMMA ParentIInv == ASSUME IInv, NEW s \in Pids, Parent(s) PROVE IInv'
<1> DEFINE here == [proc[s] EXCEPT !.last = LastChild(s), !.ends = ParentEnds(s),
                                   !.out = proc[s].kid]
           after == [here EXCEPT !.pc = "waitlast", !.out = Restored(s)]
           r == Turn(here, after)
<1>1. /\ proc[s].pc = "parent"
      /\ proc' = [proc EXCEPT ![s] = r]
      /\ UNCHANGED <<pipe, typed>>
  BY DEF Parent
<1>2. /\ LastChild(s) \in Int
      /\ proc[s].kid \in Descriptors
      /\ Restored(s) \in Descriptors
      /\ "waitlast" \in Pcs
  <2>1. proc[s].kid \in Int /\ proc[s].last \in Int
    BY Here DEF Process
  <2> QED BY <2>1, Here DEF LastChild, Restored, Descriptors, Broken, Terminal, Pids, Pcs
<1>3. ParentEnds(s) \in SUBSET (Pids \X {"r", "w"})
  BY Here DEF ParentEnds
<1>4. here \in Process
  BY <1>2, <1>3, Here, Updates
<1>5. Placed(here, typed)
  BY Here DEF Process, Placed
<1>6. after \in Process
  <2> HIDE DEF here
  <2> QED BY <1>2, <1>4, Updates
<1>7. Placed(after, typed)
  <2> HIDE DEF here
  <2> QED BY <1>4, <1>5 DEF Process, Placed
<1>8. r \in Process /\ Placed(r, typed)
  <2> HIDE DEF here, after
  <2> QED BY <1>4, <1>5, <1>6, <1>7, TurnWell
<1>9. s = Main => MainWell(r)
  <2> SUFFICES ASSUME s = Main PROVE MainWell(r)
    OBVIOUS
  <2>1. ParentEnds(s) = {} /\ Restored(s) = Terminal
    BY <1>1, Here DEF MainWell, ParentEnds, Restored
  <2>2. MainWell(after)
    BY <2>1, Here DEF Process, MainWell, MainPcs
  <2>3. MainWell([here EXCEPT !.pc = "loop", !.i = here.i - 1])
    BY <2>1, Here DEF Process, MainWell, MainPcs
  <2> QED BY <2>2, <2>3 DEF Turn
<1>10. pipe' \in [Pids -> 0 .. Capacity]
  BY <1>1 DEF IInv, TypeInv
<1> HIDE DEF r
<1> QED BY <1>1, <1>8, <1>9, <1>10, OneChanges

(* The process becomes what GoesOn() makes of it.                          *)
LEMMA GoesOnWell ==
  ASSUME IInv, NEW c \in Pids, NEW status \in Garbage
  PROVE  GoesOn(c, status) \in Process /\ Placed(GoesOn(c, status), typed)
<1>1. status \in Statuses
  BY KnownStatuses
<1>2. Return(c, status) \in Process /\ Placed(Return(c, status), typed)
  BY <1>1, ReturnWell
<1> QED BY <1>2, Here, TurnWell DEF GoesOn

(* A builtin in a pipeline is never run by the first shell.                *)
LEMMA ChildBuiltinIInv == ASSUME IInv, NEW c \in Pids, ChildBuiltin(c) PROVE IInv'
<1>1. c # Main /\ UNCHANGED <<pipe, typed>>
  BY DEF ChildBuiltin, IInv, MainWell, MainPcs
<1>2. pipe' \in [Pids -> 0 .. Capacity]
  BY <1>1 DEF IInv, TypeInv
<1>3. CASE proc' = [proc EXCEPT ![c].pc = "echoM"]
  <2> DEFINE r == [proc[c] EXCEPT !.pc = "echoM"]
  <2>1. r \in Process /\ Placed(r, typed)
    BY PcWell DEF Pcs
  <2>2. proc' = [proc EXCEPT ![c] = r]
    BY <1>3
  <2> HIDE DEF r
  <2> QED BY <1>1, <1>2, <2>1, <2>2, OneChanges
<1>4. CASE \E status \in Garbage : proc' = [proc EXCEPT ![c] = GoesOn(c, status)]
  BY <1>1, <1>2, <1>4, GoesOnWell, OneChanges
<1> QED BY <1>3, <1>4 DEF ChildBuiltin

(* echo in a pipeline, likewise.                                           *)
LEMMA ChildEchoIInv == ASSUME IInv, NEW c \in Pids, ChildEcho(c) PROVE IInv'
<1>1. c # Main /\ UNCHANGED typed
  BY DEF ChildEcho, IInv, MainWell, MainPcs
<1>2. pipe' \in [Pids -> 0 .. Capacity]
  BY PutFits, Here DEF ChildEcho
<1>3. PICK status \in Garbage : proc' = [proc EXCEPT ![c] = GoesOn(c, status)]
  BY DEF ChildEcho
<1> QED BY <1>1, <1>2, <1>3, GoesOnWell, OneChanges

(* A child that becomes a shell of its own is not the first one.           *)
LEMMA ChildStraysIInv == ASSUME IInv, NEW c \in Pids, ChildStrays(c) PROVE IInv'
<1> DEFINE back == Return(c, -2)
           kept == back.ends \ {<<c, "w">>}
           r == [back EXCEPT !.ends = kept]
<1>1. c # Main /\ UNCHANGED <<pipe, typed>>
  BY DEF ChildStrays, IInv, MainWell, MainPcs
<1>2. pipe' \in [Pids -> 0 .. Capacity]
  BY <1>1 DEF IInv, TypeInv
<1>3. back \in Process /\ Placed(back, typed)
  BY ReturnWell, KnownStatuses
<1>4. proc' = [proc EXCEPT ![c] = r]
  BY DEF ChildStrays
<1> HIDE DEF back
<1>5. kept \in SUBSET (Pids \X {"r", "w"})
  BY <1>3 DEF Process
<1>6. r \in Process
  BY <1>3, <1>5, Updates
<1>7. Placed(r, typed)
  BY <1>3 DEF Process, Placed
<1> HIDE DEF r
<1> QED BY <1>1, <1>2, <1>4, <1>6, <1>7, OneChanges

(* The child of a pipeline runs its program or ends.                       *)
LEMMA ChildIInv == ASSUME IInv, NEW c \in Pids, Child(c) PROVE IInv'
<1>1. c # Main
  BY DEF Child, IInv, MainWell, MainPcs
<1>2. CASE End(c, 1)
  BY <1>2, EndIInv
<1>3. CASE /\ proc' = [proc EXCEPT ![c] = Program(c, ChildIn(c), ChildOut(c), ChildEnds(c))]
           /\ UNCHANGED <<pipe, typed>>
  <2>1. ChildIn(c) \in Descriptors /\ ChildOut(c) \in Descriptors
    BY Here DEF ChildIn, ChildOut, Descriptors
  <2>2. ChildEnds(c) \in SUBSET (Pids \X {"r", "w"})
    BY Here DEF ChildEnds
  <2> QED BY <1>1, <1>3, <2>1, <2>2, ProgramIInv
<1> QED BY <1>2, <1>3 DEF Child

(* waitpid() for the last command of a pipeline.                           *)
LEMMA WaitLastIInv == ASSUME IInv, NEW s \in Pids, WaitLast(s) PROVE IInv'
  BY CollectIInv DEF WaitLast, Awaited, Collect

(* waitpid() without such a child.                                         *)
LEMMA WaitFailsIInv == ASSUME IInv, NEW s \in Pids, WaitFails(s) PROVE IInv'
<1>1. /\ proc[s].pc = "waitlast"
      /\ UNCHANGED <<pipe, typed>>
  BY DEF WaitFails
<1>2. PICK status \in Garbage : proc' = [proc EXCEPT ![s] = Return(s, status)]
  BY DEF WaitFails
<1>3. /\ Return(s, status) \in Process /\ Placed(Return(s, status), typed)
      /\ s = Main => MainWell(Return(s, status))
  BY <1>1, ReturnWell, KnownStatuses DEF Garbage
<1>4. pipe' \in [Pids -> 0 .. Capacity]
  BY <1>1 DEF IInv, TypeInv
<1> QED BY <1>1, <1>2, <1>3, <1>4, OneChanges

-----------------------------------------------------------------------------
(* Programs.                                                               *)

(* A program writes.                                                       *)
LEMMA WriteIInv == ASSUME IInv, NEW p \in Pids, Write(p) PROVE IInv'
<1> DEFINE r == [proc[p] EXCEPT !.left = proc[p].left - 1]
<1>1. p # Main /\ UNCHANGED typed /\ proc' = [proc EXCEPT ![p] = r]
  BY DEF Write, IInv, MainWell, MainPcs
<1>2. pipe' \in [Pids -> 0 .. Capacity]
  BY PutFits, Here DEF Write
<1>3. r \in Process
  <2>1. proc[p].left - 1 \in Nat
    BY Here DEF Write
  <2> QED BY <2>1, Here, Updates
<1>4. Placed(r, typed)
  BY Here DEF Process, Placed
<1> HIDE DEF r
<1> QED BY <1>1, <1>2, <1>3, <1>4, OneChanges

(* A program reads.                                                        *)
LEMMA ReadIInv == ASSUME IInv, NEW p \in Pids, Read(p) PROVE IInv'
<1> DEFINE more == Command(p).kind = "filter"
           r == [proc[p] EXCEPT !.left = 1, !.more = more]
<1>1. p # Main /\ UNCHANGED typed /\ proc' = [proc EXCEPT ![p] = r]
  BY DEF Read, IInv, MainWell, MainPcs
<1>2. pipe' \in [Pids -> 0 .. Capacity]
  <2>1. proc[p].in \in Pids /\ pipe[proc[p].in] > 0
    BY Here DEF Read, Descriptors, File, Broken, Terminal
  <2> QED BY <2>1, ShellAssumption DEF Read, IInv, TypeInv
<1>3. r \in Process
  <2>1. more \in BOOLEAN
    OBVIOUS
  <2> HIDE DEF more
  <2> QED BY <2>1, Here, Updates
<1>4. Placed(r, typed)
  <2> HIDE DEF more
  <2> QED BY Here DEF Process, Placed
<1> HIDE DEF r
<1> QED BY <1>1, <1>2, <1>3, <1>4, OneChanges

(* A process ends, by itself or killed.                                    *)
LEMMA EndsIInv == ASSUME IInv, NEW p \in Pids, Finish(p) \/ Sigpipe(p) PROVE IInv'
  BY EndIInv DEF Finish, Sigpipe, Codes, Killed

-----------------------------------------------------------------------------
(* Every step keeps the invariant.                                         *)
LEMMA StepIInv == IInv /\ [Next]_vars => IInv'
<1> SUFFICES ASSUME IInv, [Next]_vars PROVE IInv'
  OBVIOUS
<1>1. CASE UNCHANGED vars
  BY <1>1 DEF vars, IInv, TypeInv
<1>2. ASSUME NEW p \in Pids, Step(p) PROVE IInv'
  BY <1>2, PromptIInv, SingleBuiltinIInv, EchoIInv, SingleForkIInv, WaitAnyIInv,
     SingleChildIInv, ForkIInv, ParentIInv, ChildBuiltinIInv, ChildEchoIInv,
     ChildStraysIInv, ChildIInv, WaitLastIInv, WaitFailsIInv, WriteIInv, ReadIInv,
     EndsIInv DEF Step
<1>3. ASSUME NEW p \in Pids, NEW line \in Lines, Type(p, line) PROVE IInv'
  BY <1>3, TypeIInv
<1> QED BY <1>1, <1>2, <1>3 DEF Next

(* The invariant holds in every reachable state.                           *)
THEOREM Invariance == Spec => []IInv
<1>1. Init => IInv
  BY InitIInv
<1>2. IInv /\ [Next]_vars => IInv'
  BY StepIInv
<1> QED BY <1>1, <1>2, PTL DEF Spec

(* Type correctness: descriptors, places in lines, statuses and the fill   *)
(* of pipes are what TypeOK says, whatever is typed and whatever fails.    *)
THEOREM TypeCorrect == Spec => []TypeOK
<1>1. IInv => TypeOK
  <2> SUFFICES ASSUME IInv PROVE TypeOK
    OBVIOUS
  <2>1. ASSUME NEW p \in Pids
        PROVE  /\ proc[p].parent \in 0 .. MaxPids
               /\ {proc[p].in, proc[p].out, proc[p].save} \subseteq {File, Broken, Terminal} \cup Pids
               /\ proc[p].ends \subseteq Pids \X {"r", "w"}
               /\ proc[p].line \in 0 .. Len(typed)
               /\ proc[p].i # 0 => proc[p].i \in 1 .. Len(Line(p))
               /\ proc[p].status \in Statuses
    <3>1. proc[p] \in Process /\ Placed(proc[p], typed)
      BY Here
    <3>2. proc[p].i # 0 => proc[p].i \in 1 .. Len(Line(p))
      <4>1. ASSUME proc[p].i # 0 PROVE typed[proc[p].line] \in Seq(Commands)
        BY <3>1, <4>1, ShellAssumption DEF Placed, IInv, TypeInv
      <4> QED BY <3>1, <4>1 DEF Process, Placed, Line
    <3> QED BY <3>1, <3>2 DEF Process, Placed, Descriptors
  <2>2. pipe \in [Pids -> 0 .. Capacity] /\ typed \in Seq(Lines) /\ Len(typed) <= MaxLines
    BY DEF IInv, TypeInv
  <2> QED BY <2>1, <2>2 DEF TypeOK
<1> QED BY <1>1, Invariance, PTL

(* At its prompt the first shell writes to the terminal and holds no pipe  *)
(* end, after whatever pipelines, failed forks and stray shells            *)
(* (multiCommand.c:161-176).                                               *)
THEOREM PromptClean == Spec => []PromptIsClean
<1>1. IInv => PromptIsClean
  BY DEF IInv, MainWell, PromptIsClean
<1> QED BY <1>1, Invariance, PTL
=============================================================================
