-------------------------------- MODULE Shell --------------------------------
(***************************************************************************)
(* The shell of src/Program-4: simple commands, builtins and pipelines as  *)
(* processes with descriptors.  A process is a record; pids are not        *)
(* reused; a pipe is named by the child it is made for, which reads it.    *)
(***************************************************************************)
EXTENDS Integers, Sequences, FiniteSets

CONSTANTS Lines,        \* what may be typed: non-empty sequences of commands
          MaxLines,     \* bound: lines typed in all
          MaxPids,      \* the process limit; fork() fails beyond it
          Capacity,     \* of a pipe, in writes
          Volume        \* how many times a source of output writes

(* A command: "source" writes, "filter" copies its input, "head" copies    *)
(* one write of it, "absent" cannot be executed; the others are builtins,  *)
(* "badcd" one that names no directory.                                    *)
(* leftover is what strcmp() of its name with "echo" returns (0: neither 1  *)
(* nor 2), words how many arguments it splits into.                        *)
Commands == [kind : {"source", "filter", "head", "absent", "echo", "cd", "badcd", "exit"},
             leftover : 0 .. 2,
             redirect : {"none", "out", "in", "badout", "badin"},
             words : Nat]

ASSUME ShellAssumption == /\ \A line \in Lines : line # <<>> /\ line \in Seq(Commands)
                          /\ MaxLines \in Nat
                          /\ MaxPids \in Nat \ {0}
                          /\ Capacity \in Nat \ {0}
                          /\ Volume \in Nat

VARIABLES proc,         \* the process table
          pipe,         \* what each pipe holds, in writes
          typed         \* history: the lines, in the order they were read

vars == <<proc, pipe, typed>>

Pids == 1 .. MaxPids
Main == 1
Terminal == 0
Broken == -1            \* a pipe whose only reader could not be forked
File == -2

Unborn == [pc |-> "unborn", parent |-> 0, in |-> Terminal, out |-> Terminal,
           ends |-> {}, save |-> Terminal, line |-> 0, i |-> 0, last |-> 0,
           kid |-> 0, left |-> 0, more |-> FALSE, status |-> 0, code |-> 0]

Init == /\ proc = [p \in Pids |-> IF p = Main THEN [Unborn EXCEPT !.pc = "print"]
                                              ELSE Unborn]
        /\ pipe = [p \in Pids |-> 0]
        /\ typed = <<>>

-----------------------------------------------------------------------------
(* The kernel: descriptors, pipes and process ends.                        *)

Alive(p) == proc[p].pc \notin {"unborn", "zombie", "gone"}
Children(s) == {c \in Pids : proc[c].parent = s /\ proc[c].pc # "gone"}
HasReadEnd(p, q) == Alive(p) /\ (proc[p].in = q \/ <<q, "r">> \in proc[p].ends)
HasWriteEnd(p, q) == Alive(p) /\ (proc[p].out = q \/ <<q, "w">> \in proc[p].ends)

Accepts(out) == \/ out \in {Terminal, File}
                \/ /\ out > 0
                   /\ \E p \in Pids : HasReadEnd(p, out)
                   /\ pipe[out] < Capacity
Breaks(out) == \/ out = Broken
               \/ out > 0 /\ \A p \in Pids : ~HasReadEnd(p, out)
Put(out) == pipe' = IF out > 0 THEN [pipe EXCEPT ![out] = @ + 1] ELSE pipe
AtEof(in) == in > 0 => pipe[in] = 0 /\ \A p \in Pids : ~HasWriteEnd(p, in)

(* A process ends with an exit code, or with Killed.  Its children lose    *)
(* their parent, and those that have ended are collected.                  *)
Killed == -1
End(p, code) ==
    /\ proc' = [q \in Pids |->
         IF q = p THEN [Unborn EXCEPT !.pc = IF proc[p].parent = 0 THEN "gone" ELSE "zombie",
                                      !.parent = proc[p].parent, !.line = proc[p].line,
                                      !.i = proc[p].i, !.code = code]
         ELSE IF proc[q].parent = p
              THEN [proc[q] EXCEPT !.parent = 0,
                                   !.pc = IF @ = "zombie" THEN "gone" ELSE @]
              ELSE proc[q]]
    /\ UNCHANGED <<pipe, typed>>

NextPid == {p \in Pids : proc[p].pc = "unborn" /\ \A q \in 1 .. p - 1 : proc[q].pc # "unborn"}

-----------------------------------------------------------------------------
(* shell.c                                                                 *)

Line(p) == typed[proc[p].line]
Command(p) == Line(p)[proc[p].i]

(* evaluateBuiltins(): no return statement is reached for any other        *)
(* command, so its value is what the last strcmp() left.                   *)
Builtin(command) == CASE command.kind = "exit" -> 2
                      [] command.kind \in {"cd", "echo"} -> 1
                      [] command.kind = "badcd" -> 127
                      [] OTHER -> command.leftover

(* parseReturnStatus(): `if (exitStatus = 2)` makes 2 of every failure.    *)
ParseWaitStatus(code) ==                                     \* mutant: no WEXITSTATUS()
    IF code = Killed THEN -1 ELSE 256 * code
Parse(code) == CASE code = Killed -> -1
                 [] code = 0 -> 0
                 [] OTHER -> 2

(* What an uninitialised returnStatus may be parsed to.                    *)
Garbage == {-1, 0, 2}

(* spawnShell(): print the prompt, read a line, run it.                    *)
Prompt(s) == /\ proc[s].pc = "print"
             /\ Accepts(proc[s].out)
             /\ Put(proc[s].out)
             /\ proc' = [proc EXCEPT ![s].pc = "prompt"]
             /\ UNCHANGED typed

Type(s, line) ==
    /\ proc[s].pc = "prompt"
    /\ Len(typed) < MaxLines
    /\ typed' = Append(typed, line)
    /\ proc' = [proc EXCEPT ![s].line = Len(typed'), ![s].i = Len(line),
                            ![s].pc = IF Len(line) = 1 THEN "single" ELSE "loop",
                            ![s].save = IF Len(line) = 1 THEN @ ELSE proc[s].out,
                            ![s].ends = IF Len(line) = 1 \/ proc[s].out <= 0 THEN @
                                        ELSE @ \cup {<<proc[s].out, "w">>}]
    /\ UNCHANGED pipe

(* What a write to a pipe nobody reads does to prompts, echo and programs. *)
Sigpipe(p) == /\ \/ proc[p].pc \in {"print", "echo", "echoM"}
                 \/ proc[p].pc = "prog" /\ proc[p].left > 0
              /\ Breaks(proc[p].out)
              /\ End(p, Killed)

Return(s, status) ==
    [proc[s] EXCEPT !.pc = "print", !.status = status, !.i = 0, !.last = 0,
                    !.kid = 0, !.save = Terminal]

-----------------------------------------------------------------------------
(* singleCommand.c: runCommand()                                           *)

SingleBuiltin(s) ==
    /\ proc[s].pc = "single"
    /\ \/ Builtin(Command(s)) = 2 /\ End(s, 0)
       \/ /\ Builtin(Command(s)) = 1
          /\ proc' = [proc EXCEPT ![s] = IF Command(s).kind = "echo"
                                         THEN [@ EXCEPT !.pc = "echo"] ELSE Return(s, 0)]
          /\ UNCHANGED <<pipe, typed>>

Echo(s) == /\ proc[s].pc = "echo"
           /\ Accepts(proc[s].out)
           /\ Put(proc[s].out)
           /\ proc' = [proc EXCEPT ![s] = Return(s, 0)]
           /\ UNCHANGED typed

SingleFork(s) ==
    /\ proc[s].pc = "single"
    /\ Builtin(Command(s)) \notin {1, 2}
    /\ \/ \E c \in NextPid :
            proc' = [proc EXCEPT ![s].pc = "wait",
                                 ![c] = [proc[s] EXCEPT !.pc = "childS", !.parent = s]]
          /\ UNCHANGED <<pipe, typed>>
       \/ NextPid = {} /\ End(s, 1)

(* wait() collects whichever child has ended, of this command or not.      *)
WaitAny(s) ==
    /\ proc[s].pc = "wait"
    /\ \E c \in Children(s) :
         /\ proc[c].pc = "zombie"
         /\ proc' = [proc EXCEPT ![c].pc = "gone", ![s] = Return(s, Parse(proc[c].code))]
    /\ UNCHANGED <<pipe, typed>>

(* execvp(): the program keeps every descriptor.                           *)
Program(p, in, out, ends) ==
    [Unborn EXCEPT !.pc = "prog", !.parent = proc[p].parent, !.line = proc[p].line,
                   !.i = proc[p].i, !.in = in, !.out = out, !.ends = ends,
                   !.left = IF Command(p).kind = "source" THEN Volume ELSE 0,
                   !.more = Command(p).kind \in {"filter", "head"}]
Executable(command) == command.kind \in {"source", "filter", "head"}

(* parseRedirects(): a redirect that can be opened ends in strcmp() or     *)
(* strcpy() of a null pointer; a bad one is reported and ignored.          *)
Crashes(command) == command.redirect \in {"in", "out"}

SingleChild(c) ==
    /\ proc[c].pc = "childS"
    /\ \/ Crashes(Command(c)) /\ End(c, Killed)
       \/ /\ ~Crashes(Command(c)) /\ Executable(Command(c))
          /\ proc' = [proc EXCEPT ![c] = Program(c, proc[c].in, proc[c].out, proc[c].ends)]
          /\ UNCHANGED <<pipe, typed>>
       \/ /\ ~Crashes(Command(c)) /\ ~Executable(Command(c))
          /\ End(c, 2)                \* exit(errno)

-----------------------------------------------------------------------------
(* multiCommand.c: runMultipleCommands(), whose loop runs backwards.       *)

(* pipe() and fork(), for command i of the line.                           *)
Ends(c) == {<<c, "r">>, <<c, "w">>}
Fork(s) ==
    /\ proc[s].pc = "loop"
    /\ \/ \E c \in NextPid :
            LET ends == proc[s].ends \cup Ends(c) IN
            proc' = [proc EXCEPT ![s].pc = "parent", ![s].kid = c, ![s].ends = ends,
                                 ![c] = [proc[s] EXCEPT !.pc = "childM", !.parent = s,
                                                        !.kid = c, !.ends = ends]]
       \/ /\ NextPid = {}
          /\ proc' = [proc EXCEPT ![s].pc = "parent", ![s].kid = -1]
    /\ UNCHANGED <<pipe, typed>>

(* The next turn of the loop, or what follows it.                          *)
Turn(r, after) == IF r.i > 1 THEN [r EXCEPT !.pc = "loop", !.i = @ - 1] ELSE after

(* The parent's side: its standard output becomes the pipe of the child it *)
(* has just made, so that the next child, which feeds it, inherits it.     *)
LastOfAll(s) == proc[s].kid                                  \* mutant
LastChild(s) == IF proc[s].i = Len(Line(s)) THEN proc[s].kid ELSE proc[s].last
EndsLeft(s) == proc[s].ends \ {<<proc[s].kid, "r">>}         \* mutant: apipe[1] left open
ParentEnds(s) == proc[s].ends \ Ends(proc[s].kid)
Unrestored(s) == proc[s].kid                                 \* mutant: no dup2()
Restored(s) == proc[s].save
Parent(s) ==
    /\ proc[s].pc = "parent"
    /\ LET here == [proc[s] EXCEPT !.last = LastChild(s), !.ends = ParentEnds(s),
                                   !.out = proc[s].kid]
       IN proc' = [proc EXCEPT ![s] = Turn(here, [here EXCEPT !.pc = "waitlast",
                                                              !.out = Restored(s)])]
    /\ UNCHANGED <<pipe, typed>>

(* childRunner().  A builtin returns 0: the child goes on with its         *)
(* parent's loop and becomes a shell of its own, and at the end of the     *)
(* loop parses a returnStatus that was never set.                          *)
GoesOn(c, status) == Turn(proc[c], Return(c, status))
ChildBuiltin(c) ==
    /\ proc[c].pc = "childM"
    /\ Builtin(Command(c)) = 1
    /\ IF Command(c).kind = "echo"
       THEN proc' = [proc EXCEPT ![c].pc = "echoM"]
       ELSE \E status \in Garbage : proc' = [proc EXCEPT ![c] = GoesOn(c, status)]
    /\ UNCHANGED <<pipe, typed>>

ChildEcho(c) ==
    /\ proc[c].pc = "echoM"
    /\ Accepts(proc[c].out)
    /\ Put(proc[c].out)
    /\ \E status \in Garbage : proc' = [proc EXCEPT ![c] = GoesOn(c, status)]
    /\ UNCHANGED typed

(* `>` is looked for only where a command's place in the line is its       *)
(* number of words less one, `<` only in the first command; a bad one of   *)
(* these returns -2 and the child becomes a shell.                         *)
SeesOut(c) == proc[c].i = Command(c).words
SeesIn(c) == proc[c].i = 1
BadRedirect(c) == \/ SeesOut(c) /\ Command(c).redirect = "badout"
                  \/ SeesIn(c) /\ Command(c).redirect = "badin"
ChildOut(c) == IF SeesOut(c) /\ Command(c).redirect = "out" THEN File ELSE proc[c].out
ChildIn(c) == IF SeesIn(c)
              THEN IF Command(c).redirect = "in" THEN File ELSE proc[c].in
              ELSE c

ChildStrays(c) ==
    /\ proc[c].pc = "childM"
    /\ Builtin(Command(c)) # 1
    /\ BadRedirect(c)
    /\ proc' = [proc EXCEPT ![c] = [Return(c, -2) EXCEPT !.ends = @ \ {<<c, "w">>}]]
    /\ UNCHANGED <<pipe, typed>>

ChildKeeps(c) == proc[c].ends \ {<<c, "r">>}                  \* mutant: apipe[1] left open
ChildEnds(c) == proc[c].ends \ Ends(c)
Child(c) ==
    /\ proc[c].pc = "childM"
    /\ Builtin(Command(c)) # 1
    /\ ~BadRedirect(c)
    /\ IF Executable(Command(c))
       THEN /\ proc' = [proc EXCEPT ![c] = Program(c, ChildIn(c), ChildOut(c), ChildEnds(c))]
            /\ UNCHANGED <<pipe, typed>>
       ELSE End(c, 1)

(* waitpid(lastChild).  A lastChild of -1, or one never set, may stand for *)
(* any child; when there is none to wait for the call fails, and           *)
(* returnStatus is not set.                                                *)
Awaited(s) == {c \in Children(s) : proc[s].last \in {c, 0, -1}}
WaitLastAny(s) ==                                            \* mutant: wait()
    /\ proc[s].pc = "waitlast"
    /\ \E c \in Children(s) :
         /\ proc[c].pc = "zombie"
         /\ proc' = [proc EXCEPT ![c].pc = "gone", ![s] = Return(s, Parse(proc[c].code))]
    /\ UNCHANGED <<pipe, typed>>
WaitLast(s) ==
    /\ proc[s].pc = "waitlast"
    /\ \E c \in Awaited(s) :
         /\ proc[c].pc = "zombie"
         /\ proc' = [proc EXCEPT ![c].pc = "gone", ![s] = Return(s, Parse(proc[c].code))]
    /\ UNCHANGED <<pipe, typed>>
WaitFails(s) ==
    /\ proc[s].pc = "waitlast"
    /\ proc[s].last = 0 \/ Awaited(s) = {}
    /\ \E status \in Garbage : proc' = [proc EXCEPT ![s] = Return(s, status)]
    /\ UNCHANGED <<pipe, typed>>

-----------------------------------------------------------------------------
(* Programs, as far as their descriptors go.  One that has nothing left to *)
(* write or to read ends, and may report a failure of its own.             *)
Codes == {0, 1}

Write(p) == /\ proc[p].pc = "prog" /\ proc[p].left > 0
            /\ Accepts(proc[p].out)
            /\ Put(proc[p].out)
            /\ proc' = [proc EXCEPT ![p].left = @ - 1]
            /\ UNCHANGED typed
Read(p) == /\ proc[p].pc = "prog" /\ proc[p].left = 0 /\ proc[p].more
           /\ proc[p].in > 0 /\ pipe[proc[p].in] > 0
           /\ pipe' = [pipe EXCEPT ![proc[p].in] = @ - 1]
           /\ proc' = [proc EXCEPT ![p].left = 1, ![p].more = Command(p).kind = "filter"]
           /\ UNCHANGED typed
Finish(p) == /\ proc[p].pc = "prog" /\ proc[p].left = 0
             /\ proc[p].more => AtEof(proc[p].in)
             /\ \E code \in Codes : End(p, code)

-----------------------------------------------------------------------------
Step(p) == \/ Prompt(p) \/ SingleBuiltin(p) \/ Echo(p) \/ SingleFork(p) \/ WaitAny(p)
           \/ SingleChild(p)
           \/ Fork(p) \/ Parent(p) \/ ChildBuiltin(p) \/ ChildEcho(p)
           \/ ChildStrays(p) \/ Child(p) \/ WaitLast(p) \/ WaitFails(p)
           \/ Write(p) \/ Read(p) \/ Finish(p) \/ Sigpipe(p)

Next == \E p \in Pids : Step(p) \/ \E line \in Lines : Type(p, line)

Spec == Init /\ [][Next]_vars

(* The scheduler lets every process go on; nobody has to type.             *)
FairSpec == Spec /\ \A p \in Pids : WF_vars(Step(p))

-----------------------------------------------------------------------------
(* What the prompt may show: an exit code; -1 for a command that was       *)
(* killed, -2 for a bad redirect (shell.c:31, multiCommand.c:53).          *)
ExitCodes == 0 .. 255
Statuses == ExitCodes \cup {-1, -2}

(* Every value a process and a pipe may take; a status is one the prompt   *)
(* can show, and a place in a line lies within it.                         *)
TypeOK ==
    /\ \A p \in Pids :
         /\ proc[p].parent \in 0 .. MaxPids
         /\ {proc[p].in, proc[p].out, proc[p].save} \subseteq {File, Broken, Terminal} \cup Pids
         /\ proc[p].ends \subseteq Pids \X {"r", "w"}
         /\ proc[p].line \in 0 .. Len(typed)
         /\ proc[p].i # 0 => proc[p].i \in 1 .. Len(Line(p))
         /\ proc[p].status \in Statuses
    /\ pipe \in [Pids -> 0 .. Capacity]
    /\ typed \in Seq(Lines) /\ Len(typed) <= MaxLines

(* A line in which no child becomes a shell: what the properties below are *)
(* about.  (A child that returns from childRunner() is a departure that    *)
(* README.md describes.)                                                   *)
Plain(line) == \A i \in DOMAIN line :
                  /\ Len(line) > 1 => Builtin(line[i]) # 1
                  /\ ~(line[i].redirect = "badin" /\ i = 1)
                  /\ ~(line[i].redirect = "badout" /\ i = line[i].words)
Pipeline(p) == proc[p].line # 0 /\ Len(Line(p)) > 1 /\ Plain(Line(p))

(* A shell waits only for the last command of a pipeline, and that is      *)
(* enough: when it prompts again nothing of that line can still write to   *)
(* the shell's own output (of a simple command that does not hold).        *)
OutputComplete ==
    \A s, c \in Pids :
        proc[s].pc \in {"print", "prompt"} /\ Pipeline(s)
          => ~(/\ c # s /\ Alive(c) /\ proc[c].line = proc[s].line
               /\ proc[c].out = proc[s].out)

(* The status shown after a pipeline is that of its last command, however  *)
(* many earlier commands, of this line or another, ended before it.        *)
PipelineStatus ==
    \A s, c \in Pids :
        /\ proc[s].pc \in {"print", "prompt"} /\ Pipeline(s)
        /\ proc[c].parent = s /\ proc[c].line = proc[s].line
        /\ proc[c].i = Len(Line(s))
      => proc[c].pc = "gone" /\ proc[s].status = Parse(proc[c].code)

(* The shell's own descriptors: at the prompt its output is the terminal   *)
(* again and it has no pipe end left, so that what it runs next, and the   *)
(* readers of earlier pipes, are not disturbed by old pipes.               *)
PromptIsClean ==
    proc[Main].pc = "prompt" => proc[Main].out = Terminal /\ proc[Main].ends = {}

(* End of input can reach a command of a pipeline: the only program that   *)
(* holds the write end of its pipe is the command before it in the line.   *)
OnlyFeederWrites ==
    \A q, p \in Pids :
        /\ proc[q].pc = "prog" /\ proc[q].in = q /\ Pipeline(q)
        /\ proc[p].pc = "prog" /\ HasWriteEnd(p, q)
      => proc[p].line = proc[q].line /\ proc[p].i = proc[q].i - 1

(* Every plain line ends: the shell prompts again, or has itself ended,    *)
(* whatever the order in which its processes run and end.  The exception   *)
(* is a line whose last command could not be forked: the shell then waits  *)
(* for any child, and an old one may be blocked on a stray shell's pipe.   *)
LineEnds ==
    \A l \in 1 .. MaxLines :
        (proc[Main].line = l /\ Plain(typed[l]))
          ~> (proc[Main].pc \in {"prompt", "gone"} \/ proc[Main].last = -1)

(* "Exit code of ran command" (singleCommand.c:131), "Status code of       *)
(* previous command" (shell.c:153): a shell that prompts has waited for    *)
(* the simple command it was given.                                        *)
WaitsForItsCommand ==
    \A s, c \in Pids :
        proc[s].pc = "prompt" /\ proc[c].parent = s /\ proc[c].line = proc[s].line
        /\ Len(Line(s)) = 1
          => ~Alive(c)

(* "Estimated command return code" (shell.c:31), "Exit code of ran         *)
(* command" (singleCommand.c:131), "Status code of previous command"       *)
(* (shell.c:153): the prompt shows the exit code of the last command of    *)
(* the line, once that was collected.                                      *)
ShowsExitCode ==
    \A s, c \in Pids :
        /\ proc[s].pc = "prompt" /\ proc[s].line # 0 /\ Plain(Line(s))
        /\ proc[c].parent = s /\ proc[c].line = proc[s].line
        /\ proc[c].i = Len(Line(s)) /\ proc[c].pc = "gone"
        /\ proc[c].code # Killed
      => proc[s].status = proc[c].code
=============================================================================
