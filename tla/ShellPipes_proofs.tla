-------------------------- MODULE ShellPipes_proofs --------------------------
(***************************************************************************)
(* Proofs about the pipelines of Shell: who writes to a command's pipe,    *)
(* what is still running at the prompt, and whose status the prompt shows. *)
(***************************************************************************)
EXTENDS Shell_proofs

(* Plain pipelines.                                                        *)

(* Line l is a pipeline in which no child becomes a shell.                 *)
PlainAt(t, l) == l # 0 /\ Len(t[l]) > 1 /\ Plain(t[l])

(* The shell that runs a plain pipeline, or has run it last, its commands  *)
(* while they live, and all processes made for one.                        *)
OwnerPcs == {"print", "prompt", "loop", "parent", "waitlast"}
IsOwner(r, t) == r.pc \in OwnerPcs /\ PlainAt(t, r.line)
IsWorker(k, t) == k.pc \in {"childM", "prog"} /\ PlainAt(t, k.line)
IsCrew(k, l) == k.pc \in {"childM", "prog", "zombie", "gone"} /\ k.line = l

(* The command that comes last in its line, and is forked first.           *)
Ultimate(r, t) == r.i = Len(t[r.line])

(* Where a shell's output goes when it prompts.                            *)
Home(r) == IF r.pc \in {"loop", "parent"} THEN r.save ELSE r.out

(* The loop of a pipeline, and where in it the output is a pipe.           *)
Piped(r, t) == IsWorker(r, t) \/ (IsOwner(r, t) /\ r.pc \in {"loop", "parent"})

(* What holds of each process by itself ...                                *)
Shaped(r, t) ==
  /\ r.pc \in {"loop", "parent", "childM", "echoM"} => r.line # 0 /\ Len(t[r.line]) > 1
  /\ r.pc \in {"single", "echo", "wait", "childS"} => r.line # 0 /\ Len(t[r.line]) = 1
  /\ r.pc = "echoM" => ~Plain(t[r.line])
  /\ r.pc = "unborn" => r.line = 0
  /\ r.pc \in {"loop", "parent", "childM", "echoM", "single", "childS"} \/ IsWorker(r, t)
       => r.i >= 1
  /\ r.pc \in {"print", "prompt"} => r.i = 0
  /\ r.save # File /\ (r.pc # "prog" => r.out # File)
  /\ r.pc = "prompt" \/ IsOwner(r, t) => Home(r) # Broken
  /\ r.pc = "parent" => r.kid # 0
  /\ IsOwner(r, t) /\ (r.pc = "waitlast" \/ (r.pc \in {"loop", "parent"} /\ ~Ultimate(r, t)))
       => r.last # 0
  /\ Piped(r, t) /\ ~Ultimate(r, t) => r.out # Terminal

(* ... and of any two.  A process names only pipes that were made; ...     *)
Born(r, q, k) ==
  r.out = q \/ r.save = q \/ r.kid = q \/ <<q, "w">> \in r.ends => k.pc # "unborn"

(* ... only its feeder keeps the write end of a command's pipe; ...        *)
Feeds(p, r, q, k, t) ==
  IsWorker(k, t) =>
    /\ <<q, "w">> \in r.ends => (p = q /\ r.pc = "childM") \/ (r.pc = "parent" /\ r.kid = q)
    /\ r.out = q => r.pc \in {"loop", "parent", "childM", "prog"} /\ r.line = k.line /\ r.i + 1 = k.i
    /\ r.save # q
    /\ r.pc = "parent" /\ r.kid = q => r.line = k.line /\ r.i = k.i

(* ... a line has one shell, whose own output is none of its line's pipes, *)
(* and which knows its last command until it has collected it; ...         *)
Owns(p, r, q, k, t) ==
  IsOwner(r, t) =>
    /\ IsOwner(k, t) /\ k.line = r.line => p = q
    /\ Home(r) = q => ~IsCrew(k, r.line)
    /\ IsCrew(k, r.line) =>
         /\ r.pc = "loop" => k.i > r.i
         /\ r.pc = "parent" => k.i >= r.i /\ (k.i = r.i => q = r.kid)
         /\ Ultimate(k, t) =>
              IF r.pc \in {"print", "prompt"}
              THEN k.pc = "gone" /\ r.status = Parse(k.code)
              ELSE /\ k.parent = p /\ k.pc # "gone"
                   /\ q = IF r.pc = "parent" /\ Ultimate(r, t) THEN r.kid ELSE r.last

(* ... and the commands before the last write to pipes of the line.        *)
Pipes(r, q, k, t) ==
  /\ Piped(r, t) /\ ~Ultimate(r, t) /\ r.out = q => IsCrew(k, r.line)
  /\ IsOwner(r, t) /\ r.pc = "parent" /\ r.kid = q => IsCrew(k, r.line)

Related(p, r, q, k, t) == /\ Born(r, q, k)
                          /\ Feeds(p, r, q, k, t)
                          /\ Owns(p, r, q, k, t)
                          /\ Pipes(r, q, k, t)

(* The inductive invariant of the pipelines, beside IInv.                  *)
CrewInv == /\ \A p \in Pids : Shaped(proc[p], typed)
           /\ \A p, q \in Pids : Related(p, proc[p], q, proc[q], typed)


-----------------------------------------------------------------------------
(* From a change of one process, or two, to the invariant.                 *)

(* The initial states satisfy the invariant.                               *)
LEMMA InitCrew == Init => CrewInv
<1> SUFFICES ASSUME Init PROVE CrewInv
  OBVIOUS
<1>1. ASSUME NEW p \in Pids
      PROVE  /\ proc[p].pc \in {"unborn", "print"} /\ proc[p].line = 0 /\ proc[p].i = 0
             /\ proc[p].out = 0 /\ proc[p].save = 0 /\ proc[p].kid = 0 /\ proc[p].ends = {}
  BY DEF Init, Unborn, Terminal
<1>2. ASSUME NEW p \in Pids PROVE Shaped(proc[p], typed)
  BY <1>1, <1>2 DEF Shaped, IsOwner, IsWorker, Piped, PlainAt, File, Broken
<1>3. ASSUME NEW p \in Pids, NEW q \in Pids PROVE Related(p, proc[p], q, proc[q], typed)
  <2>1. q # 0
    BY DEF Pids
  <2> QED BY <1>1, <2>1 DEF Related, Born, Feeds, Owns, Pipes, IsOwner, IsWorker, Piped, PlainAt
<1> QED BY <1>2, <1>3 DEF CrewInv

(* One process changes, no line is typed.                                  *)
LEMMA OneCrew ==
  ASSUME IInv, CrewInv, NEW a \in Pids, NEW y,
         proc' = [proc EXCEPT ![a] = y], UNCHANGED typed,
         Shaped(y, typed), Related(a, y, a, y, typed),
         \A q \in Pids \ {a} : /\ Related(a, y, q, proc[q], typed)
                               /\ Related(q, proc[q], a, y, typed)
  PROVE  CrewInv'
<1>1. proc'[a] = y /\ \A q \in Pids \ {a} : proc'[q] = proc[q]
  BY DEF IInv, TypeInv
<1>2. ASSUME NEW p \in Pids PROVE Shaped(proc'[p], typed)
  BY <1>1 DEF CrewInv
<1>3. ASSUME NEW p \in Pids, NEW q \in Pids PROVE Related(p, proc'[p], q, proc'[q], typed)
  <2>1. CASE p # a /\ q # a
    BY <1>1, <2>1 DEF CrewInv
  <2>2. CASE p = a \/ q = a
    BY <1>1, <2>2
  <2> QED BY <2>1, <2>2
<1>4. typed' = typed
  OBVIOUS
<1> QED BY <1>2, <1>3, <1>4 DEF CrewInv

(* Two processes change.                                                   *)
LEMMA TwoCrew ==
  ASSUME IInv, CrewInv, NEW a \in Pids, NEW y, NEW c \in Pids, NEW z, a # c,
         proc' = [proc EXCEPT ![a] = y, ![c] = z], UNCHANGED typed,
         Shaped(y, typed), Related(a, y, a, y, typed),
         Shaped(z, typed), Related(c, z, c, z, typed),
         Related(a, y, c, z, typed), Related(c, z, a, y, typed),
         \A q \in Pids \ {a, c} : /\ Related(a, y, q, proc[q], typed)
                                  /\ Related(q, proc[q], a, y, typed)
                                  /\ Related(c, z, q, proc[q], typed)
                                  /\ Related(q, proc[q], c, z, typed)
  PROVE  CrewInv'
<1>1. proc'[a] = y /\ proc'[c] = z /\ \A q \in Pids \ {a, c} : proc'[q] = proc[q]
  BY DEF IInv, TypeInv
<1>2. ASSUME NEW p \in Pids PROVE Shaped(proc'[p], typed)
  <2>1. CASE p \notin {a, c}
    BY <1>1, <2>1 DEF CrewInv
  <2>2. CASE p \in {a, c}
    BY <1>1, <2>2
  <2> QED BY <2>1, <2>2
<1>3. ASSUME NEW p \in Pids, NEW q \in Pids PROVE Related(p, proc'[p], q, proc'[q], typed)
  <2>1. CASE p \notin {a, c} /\ q \notin {a, c}
    BY <1>1, <2>1 DEF CrewInv
  <2>2. CASE p \in {a, c} /\ q \in {a, c}
    BY <1>1, <2>2
  <2>3. CASE p \in {a, c} /\ q \notin {a, c}
    BY <1>1, <2>3
  <2>4. CASE p \notin {a, c} /\ q \in {a, c}
    BY <1>1, <2>4
  <2> QED BY <2>1, <2>2, <2>3, <2>4
<1>4. typed' = typed
  OBVIOUS
<1> QED BY <1>2, <1>3, <1>4 DEF CrewInv

-----------------------------------------------------------------------------
(* Processes that have no part in a plain pipeline.                        *)

(* A simple command is no pipeline.                                        *)
LEMMA OneCommand == ASSUME NEW t, NEW l, Len(t[l]) = 1 PROVE ~PlainAt(t, l)
<1>1. ~(1 > 1)
  OBVIOUS
<1> QED BY <1>1, Zenon DEF PlainAt

(* Such a process stays apart from the pipelines as long as it stays on    *)
(* its line and gets no new descriptor.                                    *)
LEMMA Outsider ==
  ASSUME NEW t, NEW a, NEW x, NEW y, NEW q \in Pids, NEW k, q # a,
         ~PlainAt(t, x.line), y.line = x.line, x.pc # "parent",
         y.pc \notin {"unborn", "parent"},
         y.out = x.out, y.save \in {x.save, Terminal}, y.kid \in {x.kid, Terminal},
         y.ends \subseteq x.ends,
         Related(a, x, q, k, t), Related(q, k, a, x, t)
  PROVE  Related(a, y, q, k, t) /\ Related(q, k, a, y, t)
<1>1. ~IsOwner(y, t) /\ ~IsWorker(y, t) /\ ~IsOwner(x, t) /\ ~IsWorker(x, t)
  BY DEF IsOwner, IsWorker
<1>2. q # Terminal
  BY DEF Pids, Terminal
<1>3. Related(a, y, q, k, t)
  <2>2. Feeds(a, y, q, k, t)
    BY <1>2 DEF Related, Feeds, IsWorker
  <2>3. Owns(a, y, q, k, t) /\ Pipes(y, q, k, t)
    BY <1>1 DEF Owns, Pipes, Piped
  <2>4. Born(y, q, k)
    BY <1>2 DEF Related, Born
  <2> QED BY <2>2, <2>3, <2>4 DEF Related
<1>4. Related(q, k, a, y, t)
  <2>1. Born(k, a, y) /\ Feeds(q, k, a, y, t)
    BY <1>1 DEF Born, Feeds
  <2>2. IsOwner(k, t) \/ Piped(k, t) => ~IsCrew(y, k.line) /\ ~IsCrew(x, k.line)
    BY DEF IsOwner, IsCrew, Piped, IsWorker
  <2>3. Owns(q, k, a, y, t)
    BY <1>1, <2>2 DEF Owns
  <2>4. Pipes(k, a, y, t)
    BY <2>2 DEF Related, Pipes
  <2> QED BY <2>1, <2>3, <2>4 DEF Related
<1> QED BY <1>3, <1>4

(* It is apart from itself as well.                                        *)
LEMMA OutsiderSelf ==
  ASSUME NEW t, NEW a, NEW y, ~PlainAt(t, y.line), y.pc # "unborn"
  PROVE  Related(a, y, a, y, t)
<1>1. ~IsOwner(y, t) /\ ~IsWorker(y, t)
  BY DEF IsOwner, IsWorker
<1> QED BY <1>1 DEF Related, Born, Feeds, Owns, Pipes, Piped

(* A step of such a process.                                               *)
LEMMA OutsiderCrew ==
  ASSUME IInv, CrewInv, NEW a \in Pids, NEW y,
         proc' = [proc EXCEPT ![a] = y], UNCHANGED typed,
         ~PlainAt(typed, proc[a].line), y.line = proc[a].line, proc[a].pc # "parent",
         y.pc \notin {"unborn", "parent"},
         y.out = proc[a].out, y.save \in {proc[a].save, Terminal},
         y.kid \in {proc[a].kid, Terminal}, y.ends \subseteq proc[a].ends,
         Shaped(y, typed)
  PROVE  CrewInv'
<1>1. Related(a, y, a, y, typed)
  BY OutsiderSelf
<1>2. ASSUME NEW q \in Pids \ {a}
      PROVE  Related(a, y, q, proc[q], typed) /\ Related(q, proc[q], a, y, typed)
  <2>1. Related(a, proc[a], q, proc[q], typed) /\ Related(q, proc[q], a, proc[a], typed)
    BY DEF CrewInv
  <2> QED BY <2>1, Outsider
<1> QED BY <1>1, <1>2, OneCrew

(* A process that only prints a prompt, writes or reads keeps its part.    *)
LEMMA AlikeCrew ==
  ASSUME IInv, CrewInv, NEW a \in Pids, NEW y,
         proc' = [proc EXCEPT ![a] = y], UNCHANGED typed,
         \/ y.pc = proc[a].pc
         \/ proc[a].pc = "print" /\ y.pc = "prompt" /\ y.out # Broken,
         y.line = proc[a].line, y.i = proc[a].i, y.out = proc[a].out, y.save = proc[a].save,
         y.kid = proc[a].kid, y.ends = proc[a].ends, y.last = proc[a].last,
         y.parent = proc[a].parent, y.status = proc[a].status, y.code = proc[a].code
  PROVE  CrewInv'
<1> DEFINE x == proc[a]
<1>1. Shaped(x, typed) /\ \A q \in Pids : /\ Related(a, x, q, proc[q], typed)
                                          /\ Related(q, proc[q], a, x, typed)
  BY DEF CrewInv
<1> HIDE DEF x
<1>2. /\ IsOwner(y, typed) <=> IsOwner(x, typed)
      /\ IsWorker(y, typed) <=> IsWorker(x, typed)
      /\ \A l : IsCrew(y, l) <=> IsCrew(x, l)
      /\ Ultimate(y, typed) <=> Ultimate(x, typed)
      /\ Home(y) = Home(x)
      /\ Piped(y, typed) <=> Piped(x, typed)
  BY DEF x, IsOwner, OwnerPcs, IsWorker, IsCrew, Ultimate, Home, Piped
<1>3. Shaped(y, typed)
  BY <1>1, <1>2 DEF x, Shaped, Home
<1>4. ASSUME NEW q \in Pids
      PROVE  Related(a, y, q, proc[q], typed) /\ Related(q, proc[q], a, y, typed)
  <2>1. Born(y, q, proc[q]) /\ Born(proc[q], a, y)
    BY <1>1 DEF x, Related, Born
  <2>2. Feeds(a, y, q, proc[q], typed) /\ Feeds(q, proc[q], a, y, typed)
    BY <1>1, <1>2 DEF x, Related, Feeds
  <2>3. Owns(a, y, q, proc[q], typed) /\ Owns(q, proc[q], a, y, typed)
    BY <1>1, <1>2 DEF x, Related, Owns, IsOwner
  <2>4. Pipes(y, q, proc[q], typed) /\ Pipes(proc[q], a, y, typed)
    BY <1>1, <1>2 DEF x, Related, Pipes
  <2> QED BY <2>1, <2>2, <2>3, <2>4 DEF Related
<1>5. Related(a, y, a, y, typed)
  <2>1. Related(a, x, a, x, typed)
    BY <1>1 DEF x
  <2>2. Born(y, a, y)
    BY <2>1 DEF x, Related, Born
  <2>3. Feeds(a, y, a, y, typed)
    BY <2>1, <1>2 DEF x, Related, Feeds
  <2>4. Owns(a, y, a, y, typed)
    BY <2>1, <1>2 DEF x, Related, Owns
  <2>5. Pipes(y, a, y, typed)
    BY <2>1, <1>2 DEF x, Related, Pipes
  <2> QED BY <2>2, <2>3, <2>4, <2>5 DEF Related
<1> QED BY <1>3, <1>4, <1>5, OneCrew

-----------------------------------------------------------------------------
(* Steps that leave the pipelines alone.                                   *)

(* A shell goes back to its prompt, and keeps its descriptors.             *)
LEMMA ReturnFields ==
  ASSUME IInv, NEW s \in Pids, NEW status
  PROVE  LET y == Return(s, status) IN
         /\ y.pc = "print" /\ y.status = status /\ y.i = 0 /\ y.last = 0 /\ y.kid = Terminal
         /\ y.save = Terminal /\ y.out = proc[s].out /\ y.ends = proc[s].ends
         /\ y.line = proc[s].line /\ y.parent = proc[s].parent
  BY Here DEF Process, Return, Terminal

(* A command of a plain pipeline is no builtin and strays nowhere.         *)
LEMMA PlainCommand ==
  ASSUME IInv, NEW c \in Pids, PlainAt(typed, proc[c].line), proc[c].i >= 1
  PROVE  Builtin(Command(c)) # 1 /\ ~BadRedirect(c)
<1>1. Placed(proc[c], typed) /\ proc[c].i \in Nat
  BY Here
<1>2. typed[proc[c].line] \in Seq(Commands)
  BY <1>1, ShellAssumption DEF IInv, TypeInv, Placed, PlainAt
<1>3. proc[c].i \in DOMAIN typed[proc[c].line]
  BY <1>1, <1>2 DEF Placed
<1> QED BY <1>3 DEF PlainAt, Plain, Command, Line, BadRedirect, SeesOut, SeesIn

(* Printing the prompt needs an output that is not broken.                 *)
LEMMA PromptCrew == ASSUME IInv, CrewInv, NEW s \in Pids, Prompt(s) PROVE CrewInv'
<1> DEFINE y == [proc[s] EXCEPT !.pc = "prompt"]
<1>1. proc[s].pc = "print" /\ proc' = [proc EXCEPT ![s] = y] /\ UNCHANGED typed
  BY DEF Prompt
<1>2. y.pc = "prompt" /\ y.out # Broken
  BY Here DEF Process, Prompt, Accepts, Broken, Terminal, File
<1>3. /\ y.line = proc[s].line /\ y.i = proc[s].i /\ y.out = proc[s].out
      /\ y.save = proc[s].save /\ y.kid = proc[s].kid /\ y.ends = proc[s].ends
      /\ y.last = proc[s].last /\ y.parent = proc[s].parent /\ y.status = proc[s].status
      /\ y.code = proc[s].code
  BY Here DEF Process
<1> HIDE DEF y
<1> QED BY <1>1, <1>2, <1>3, AlikeCrew

(* A program writes.                                                       *)
LEMMA WriteCrew == ASSUME IInv, CrewInv, NEW p \in Pids, Write(p) PROVE CrewInv'
<1> DEFINE y == [proc[p] EXCEPT !.left = proc[p].left - 1]
<1>1. proc' = [proc EXCEPT ![p] = y] /\ UNCHANGED typed
  BY DEF Write
<1>2. /\ y.line = proc[p].line /\ y.i = proc[p].i /\ y.out = proc[p].out
      /\ y.save = proc[p].save /\ y.kid = proc[p].kid /\ y.ends = proc[p].ends
      /\ y.last = proc[p].last /\ y.parent = proc[p].parent /\ y.status = proc[p].status
      /\ y.code = proc[p].code /\ y.pc = proc[p].pc
  BY Here DEF Process
<1> HIDE DEF y
<1> QED BY <1>1, <1>2, AlikeCrew

(* A program reads.                                                        *)
LEMMA ReadCrew == ASSUME IInv, CrewInv, NEW p \in Pids, Read(p) PROVE CrewInv'
<1> DEFINE more == Command(p).kind = "filter"
           y == [proc[p] EXCEPT !.left = 1, !.more = more]
<1>1. proc' = [proc EXCEPT ![p] = y] /\ UNCHANGED typed
  BY DEF Read
<1>2. /\ y.line = proc[p].line /\ y.i = proc[p].i /\ y.out = proc[p].out
      /\ y.save = proc[p].save /\ y.kid = proc[p].kid /\ y.ends = proc[p].ends
      /\ y.last = proc[p].last /\ y.parent = proc[p].parent /\ y.status = proc[p].status
      /\ y.code = proc[p].code /\ y.pc = proc[p].pc
  <2> HIDE DEF more
  <2> QED BY Here DEF Process
<1> HIDE DEF y
<1> QED BY <1>1, <1>2, AlikeCrew

(* What a process that is in no plain pipeline must be to go on.           *)
LEMMA Apart ==
  ASSUME NEW t, NEW x, NEW y, Shaped(x, t), ~PlainAt(t, x.line),
         y.line = x.line, y.out = x.out, y.save \in {x.save, Terminal},
         x.pc \notin {"unborn", "prog"},
         \/ y.pc = "print" /\ y.i = 0
         \/ y.pc \in {"echo", "wait"} /\ x.pc = "single"
         \/ y.pc = "echoM" /\ x.pc = "childM" /\ y.i >= 1
         \/ y.pc = "prog" /\ x.pc = "childS"
         \/ y.pc = "loop" /\ x.pc \in {"childM", "echoM"} /\ y.i >= 1
  PROVE  Shaped(y, t)
<1>1. ~IsOwner(y, t) /\ ~IsWorker(y, t) /\ ~Piped(y, t)
  BY DEF IsOwner, IsWorker, Piped
<1>2. y.pc = "echoM" => ~Plain(t[y.line])
  BY DEF Shaped, PlainAt
<1> QED BY <1>1, <1>2 DEF Shaped, File, Terminal

-----------------------------------------------------------------------------
(* A process ends.                                                         *)

(* What a process leaves behind when it ends, and how its children change. *)
Remains(x, e) == /\ e.pc = IF x.parent = 0 THEN "gone" ELSE "zombie"
                 /\ e.parent = x.parent /\ e.line = x.line /\ e.i = x.i
                 /\ e.out = Terminal /\ e.save = Terminal /\ e.kid = Terminal /\ e.ends = {}
Orphaned(p, x, y) == /\ y.pc = x.pc \/ (x.parent = p /\ x.pc = "zombie" /\ y.pc = "gone")
                     /\ y.parent = x.parent \/ x.parent = p
                     /\ y.line = x.line /\ y.i = x.i /\ y.out = x.out /\ y.save = x.save
                     /\ y.kid = x.kid /\ y.ends = x.ends /\ y.last = x.last
                     /\ y.status = x.status /\ y.code = x.code

(* These are what End() does.                                              *)
LEMMA EndFields ==
  ASSUME IInv, NEW p \in Pids, NEW code, End(p, code)
  PROVE  /\ Remains(proc[p], proc'[p])
         /\ \A q \in Pids \ {p} : Orphaned(p, proc[q], proc'[q])
         /\ typed' = typed
<1>1. Remains(proc[p], proc'[p]) /\ typed' = typed
  BY Here DEF Process, End, Unborn, Remains, Terminal
<1>2. ASSUME NEW q \in Pids \ {p} PROVE Orphaned(p, proc[q], proc'[q])
  <2>1. proc'[q] = IF proc[q].parent = p
                   THEN [proc[q] EXCEPT !.parent = 0,
                                        !.pc = IF @ = "zombie" THEN "gone" ELSE @]
                   ELSE proc[q]
    BY DEF End
  <2> QED BY <2>1, Here DEF Process, Orphaned
<1> QED BY <1>1, <1>2

(* Losing a parent changes no part in a pipeline.                          *)
LEMMA OrphanedAlike ==
  ASSUME NEW t, NEW p, NEW x, NEW y, Orphaned(p, x, y)
  PROVE  /\ IsOwner(y, t) <=> IsOwner(x, t)
         /\ IsWorker(y, t) <=> IsWorker(x, t)
         /\ \A l : IsCrew(y, l) <=> IsCrew(x, l)
         /\ Ultimate(y, t) <=> Ultimate(x, t)
         /\ Home(y) = Home(x)
         /\ Piped(y, t) <=> Piped(x, t)
  BY DEF Orphaned, IsOwner, OwnerPcs, IsWorker, IsCrew, Ultimate, Home, Piped

(* Two processes of which neither ends.                                    *)
LEMMA OrphanedRelated ==
  ASSUME NEW t, NEW e, NEW p, NEW q, p # e,
         NEW r, NEW r1, Orphaned(e, r, r1), NEW k, NEW k1, Orphaned(e, k, k1),
         Related(p, r, q, k, t)
  PROVE  Related(p, r1, q, k1, t)
<1>1. Born(r1, q, k1)
  BY DEF Orphaned, Related, Born
<1>2. Feeds(p, r1, q, k1, t)
  BY OrphanedAlike DEF Related, Feeds, Orphaned
<1>3. Owns(p, r1, q, k1, t)
  <2>1. /\ IsOwner(r1, t) <=> IsOwner(r, t)
        /\ IsOwner(k1, t) <=> IsOwner(k, t)
        /\ \A l : IsCrew(k1, l) <=> IsCrew(k, l)
        /\ Ultimate(k1, t) <=> Ultimate(k, t) 
        /\ Ultimate(r1, t) <=> Ultimate(r, t) 
        /\ Home(r1) = Home(r)
    BY OrphanedAlike
  <2>2. /\ r1.line = r.line /\ r1.i = r.i /\ r1.kid = r.kid /\ r1.last = r.last
        /\ r1.status = r.status /\ k1.line = k.line /\ k1.i = k.i /\ k1.code = k.code
        /\ r1.pc = r.pc \/ (r1.pc = "gone" /\ r.pc = "zombie")
        /\ k1.pc = k.pc \/ (k.parent = e /\ k.pc = "zombie" /\ k1.pc = "gone")
        /\ k1.parent = k.parent \/ k.parent = e
        /\ k.parent # e => k1.pc = k.pc
    BY DEF Orphaned
  <2>3. Owns(p, r, q, k, t)
    BY DEF Related
  <2>4. IsOwner(r, t) => r1.pc = r.pc
    BY <2>2 DEF IsOwner, OwnerPcs
  <2> QED BY <2>1, <2>2, <2>3, <2>4 DEF Owns
<1>4. Pipes(r1, q, k1, t)
  <2>1. /\ r1.line = r.line /\ r1.out = r.out /\ r1.kid = r.kid
        /\ r1.pc = r.pc \/ (r1.pc = "gone" /\ r.pc = "zombie")
    BY DEF Orphaned
  <2>2. Pipes(r, q, k, t)
    BY DEF Related
  <2> QED BY <2>1, <2>2, OrphanedAlike DEF Pipes
<1> QED BY <1>1, <1>2, <1>3, <1>4 DEF Related

(* A process and one that ends.                                            *)
LEMMA RemainsRelated ==
  ASSUME NEW t, NEW p, NEW q \in Pids, NEW r, NEW r1, Orphaned(q, r, r1),
         NEW k, NEW k1, Remains(k, k1), p # q, p \in Pids,
         k.pc \in Pcs \ {"unborn", "zombie", "gone"}, Shaped(k, t),
         Related(p, r, q, k, t), Related(q, k, p, r, t)
  PROVE  Related(p, r1, q, k1, t)
<1>0. q # Terminal
  BY DEF Pids, Terminal
<1>1. k1.pc \in {"zombie", "gone"} /\ k1.line = k.line /\ k1.i = k.i /\ k1.parent = k.parent
  BY DEF Remains
<1>2. ~IsWorker(k1, t) /\ ~IsOwner(k1, t) /\ (Ultimate(k1, t) <=> Ultimate(k, t))
  BY <1>1 DEF IsWorker, IsOwner, OwnerPcs, Ultimate
<1>3. Born(r1, q, k1) /\ Feeds(p, r1, q, k1, t)
  BY <1>1, <1>2 DEF Born, Feeds
<1>4. IsOwner(r, t) /\ IsCrew(k1, r.line) => IsCrew(k, r.line)
  <2> SUFFICES ASSUME IsOwner(r, t), k.line = r.line PROVE IsCrew(k, r.line)
    BY <1>1 DEF IsCrew
  <2>1. ~IsOwner(k, t)
    BY DEF Related, Owns
  <2>2. k.pc \notin OwnerPcs
    BY <2>1 DEF IsOwner
  <2>3. k.pc \notin {"single", "echo", "wait", "childS", "echoM"}
    <3>1. PlainAt(t, k.line)
      BY DEF IsOwner
    <3>2. k.pc \in {"single", "echo", "wait", "childS"} => Len(t[k.line]) = 1
      BY DEF Shaped
    <3>3. k.pc = "echoM" => ~Plain(t[k.line])
      BY DEF Shaped
    <3> QED BY <3>1, <3>2, <3>3, OneCommand DEF PlainAt
  <2> QED BY <2>2, <2>3 DEF IsCrew, OwnerPcs, Pcs
<1>5. Piped(r, t) /\ ~Ultimate(r, t) /\ r.out = q => IsCrew(k1, r.line)
  <2>1. IsCrew(k, r.line) => IsCrew(k1, r.line)
    BY <1>1 DEF IsCrew
  <2> QED BY <2>1 DEF Related, Pipes
<1>6. IsOwner(r, t) /\ r.pc = "parent" /\ r.kid = q => IsCrew(k1, r.line)
  <2>1. IsCrew(k, r.line) => IsCrew(k1, r.line)
    BY <1>1 DEF IsCrew
  <2> QED BY <2>1 DEF Related, Pipes
<1>7. Pipes(r1, q, k1, t)
  <2>1. /\ r1.line = r.line /\ r1.out = r.out /\ r1.kid = r.kid
        /\ r1.pc = r.pc \/ (r1.pc = "gone" /\ r.pc = "zombie")
    BY DEF Orphaned
  <2> QED BY <1>5, <1>6, <2>1, OrphanedAlike DEF Pipes
<1>8. Owns(p, r1, q, k1, t)
  <2> SUFFICES ASSUME IsOwner(r, t) PROVE Owns(p, r1, q, k1, t)
    BY OrphanedAlike DEF Owns
  <2>1. /\ r1.pc = r.pc /\ r1.line = r.line /\ r1.i = r.i /\ r1.kid = r.kid
        /\ r1.last = r.last /\ r1.status = r.status
        /\ Home(r1) = Home(r) /\ (Ultimate(r1, t) <=> Ultimate(r, t))
    BY OrphanedAlike DEF Orphaned, IsOwner, OwnerPcs
  <2>2. Owns(p, r, q, k, t)
    BY DEF Related
  <2>3. k.pc # "gone" /\ (k.parent = p => k1.pc # "gone")
    BY DEF Remains, Pids
  <2> QED BY <1>1, <1>2, <1>4, <2>1, <2>2, <2>3 DEF Owns
<1> QED BY <1>3, <1>7, <1>8 DEF Related

(* One that has ended has nothing to do with anybody.                      *)
LEMMA RemainsApart ==
  ASSUME NEW t, NEW e, NEW x, NEW y, Remains(x, y), NEW q \in Pids, NEW k,
         q = e => k = y
  PROVE  Related(e, y, q, k, t)
<1>0. q # Terminal
  BY DEF Pids, Terminal
<1>1. /\ y.pc \in {"zombie", "gone"}
      /\ y.out = Terminal /\ y.save = Terminal /\ y.kid = Terminal /\ y.ends = {}
  BY DEF Remains
<1>2. ~IsWorker(y, t) /\ ~IsOwner(y, t) /\ ~Piped(y, t)
  BY <1>1 DEF IsWorker, IsOwner, OwnerPcs, Piped
<1>3. Feeds(e, y, q, k, t)
  BY <1>0, <1>1 DEF Feeds
<1> QED BY <1>0, <1>1, <1>2, <1>3 DEF Related, Born, Owns, Pipes

(* Any process may end, at any point of the lines that are run.            *)
LEMMA EndCrew ==
  ASSUME IInv, CrewInv, NEW e \in Pids, proc[e].pc \notin {"unborn", "zombie", "gone"},
         NEW code, End(e, code)
  PROVE  CrewInv'
<1>1. /\ Remains(proc[e], proc'[e]) /\ typed' = typed
      /\ \A q \in Pids \ {e} : Orphaned(e, proc[q], proc'[q])
  BY EndFields
<1>2. \A p, q \in Pids : Shaped(proc[p], typed) /\ Related(p, proc[p], q, proc[q], typed)
  BY DEF CrewInv
<1>3. proc[e].pc \in Pcs \ {"unborn", "zombie", "gone"}
  BY Here DEF Process
<1>4. ASSUME NEW p \in Pids PROVE Shaped(proc'[p], typed)
  <2>1. CASE p = e
    <3>1. /\ proc'[e].pc \in {"zombie", "gone"} /\ proc'[e].out = Terminal
          /\ proc'[e].save = Terminal
      BY <1>1 DEF Remains
    <3> QED BY <2>1, <3>1 DEF Shaped, IsWorker, IsOwner, OwnerPcs, Piped, Terminal, File
  <2>2. CASE p # e
    <3>1. Orphaned(e, proc[p], proc'[p]) /\ Shaped(proc[p], typed)
      BY <1>1, <1>2, <2>2
    <3>2. /\ IsOwner(proc'[p], typed) <=> IsOwner(proc[p], typed)
          /\ IsWorker(proc'[p], typed) <=> IsWorker(proc[p], typed)
          /\ Ultimate(proc'[p], typed) <=> Ultimate(proc[p], typed)
          /\ Home(proc'[p]) = Home(proc[p])
          /\ Piped(proc'[p], typed) <=> Piped(proc[p], typed)
      BY <3>1, OrphanedAlike
    <3> QED BY <3>1, <3>2 DEF Shaped, Orphaned
  <2> QED BY <2>1, <2>2
<1>5. ASSUME NEW p \in Pids, NEW q \in Pids PROVE Related(p, proc'[p], q, proc'[q], typed)
  <2>1. CASE p = e
    BY <1>1, <2>1, RemainsApart
  <2>2. CASE p # e /\ q = e
    <3>1. Orphaned(e, proc[p], proc'[p]) /\ Remains(proc[e], proc'[e])
      BY <1>1, <2>2
    <3>2. /\ Related(p, proc[p], e, proc[e], typed) /\ Related(e, proc[e], p, proc[p], typed)
          /\ Shaped(proc[e], typed)
      BY <1>2
    <3> QED BY <1>3, <2>2, <3>1, <3>2, RemainsRelated
  <2>3. CASE p # e /\ q # e
    <3>1. Orphaned(e, proc[p], proc'[p]) /\ Orphaned(e, proc[q], proc'[q])
      BY <1>1, <2>3
    <3>2. Related(p, proc[p], q, proc[q], typed)
      BY <1>2
    <3> QED BY <2>3, <3>1, <3>2, OrphanedRelated
  <2> QED BY <2>1, <2>2, <2>3
<1> QED BY <1>1, <1>4, <1>5 DEF CrewInv

-----------------------------------------------------------------------------
(* Simple commands, and the commands of other pipelines.                   *)

(* Which line a process with such a program counter is on.                 *)
LEMMA Simple ==
  ASSUME IInv, CrewInv, NEW s \in Pids,
         proc[s].pc \in {"single", "echo", "wait", "childS", "echoM"}
  PROVE  ~PlainAt(typed, proc[s].line)
<1>1. Shaped(proc[s], typed)
  BY DEF CrewInv
<1> QED BY <1>1, OneCommand DEF Shaped, PlainAt

(* A shell that is in no pipeline goes back to its prompt.                 *)
LEMMA ReturnCrew ==
  ASSUME IInv, CrewInv, NEW s \in Pids, NEW status, ~PlainAt(typed, proc[s].line),
         proc[s].pc \notin {"unborn", "parent", "prog"},
         proc' = [proc EXCEPT ![s] = Return(s, status)], UNCHANGED typed
  PROVE  CrewInv'
<1> DEFINE y == Return(s, status)
<1>1. /\ y.pc = "print" /\ y.i = 0 /\ y.save = Terminal /\ y.out = proc[s].out
      /\ y.line = proc[s].line /\ y.ends = proc[s].ends /\ y.kid = Terminal
  BY ReturnFields
<1> HIDE DEF y
<1>2. Shaped(y, typed)
  BY <1>1, Apart DEF CrewInv
<1> QED BY <1>1, <1>2, OutsiderCrew DEF y

(* A builtin of a simple command.                                          *)
LEMMA SingleBuiltinCrew == ASSUME IInv, CrewInv, NEW s \in Pids, SingleBuiltin(s) PROVE CrewInv'
<1>1. proc[s].pc = "single" /\ ~PlainAt(typed, proc[s].line)
  BY Simple DEF SingleBuiltin
<1>2. CASE End(s, 0)
  BY <1>1, <1>2, EndCrew
<1>3. CASE proc' = [proc EXCEPT ![s] = Return(s, 0)] /\ UNCHANGED typed
  BY <1>1, <1>3, ReturnCrew
<1>4. ASSUME proc' = [proc EXCEPT ![s] = [proc[s] EXCEPT !.pc = "echo"]], UNCHANGED typed
      PROVE  CrewInv'
  <2> DEFINE y == [proc[s] EXCEPT !.pc = "echo"]
  <2>1. /\ y.pc = "echo" /\ y.i = proc[s].i /\ y.save = proc[s].save /\ y.out = proc[s].out
        /\ y.line = proc[s].line /\ y.ends = proc[s].ends /\ y.kid = proc[s].kid
    BY Here DEF Process
  <2>2. proc' = [proc EXCEPT ![s] = y]
    BY <1>4
  <2> HIDE DEF y
  <2>3. Shaped(y, typed)
    BY <1>1, <2>1, Apart DEF CrewInv
  <2> QED BY <1>1, <1>4, <2>1, <2>2, <2>3, OutsiderCrew
<1>5. \/ End(s, 0)
      \/ proc' = [proc EXCEPT ![s] = Return(s, 0)] /\ UNCHANGED typed
      \/ proc' = [proc EXCEPT ![s] = [proc[s] EXCEPT !.pc = "echo"]] /\ UNCHANGED typed
  BY DEF SingleBuiltin
<1> QED BY <1>2, <1>3, <1>4, <1>5

(* echo, by the shell itself.                                              *)
LEMMA EchoCrew == ASSUME IInv, CrewInv, NEW s \in Pids, Echo(s) PROVE CrewInv'
<1>1. /\ proc[s].pc = "echo" /\ ~PlainAt(typed, proc[s].line)
      /\ proc' = [proc EXCEPT ![s] = Return(s, 0)] /\ UNCHANGED typed
  BY Simple DEF Echo
<1> QED BY <1>1, ReturnCrew

(* The fields of a program.                                                *)
LEMMA ProgramFields ==
  ASSUME NEW c \in Pids, NEW in, NEW out, NEW ends
  PROVE  LET y == Program(c, in, out, ends) IN
         /\ y.pc = "prog" /\ y.parent = proc[c].parent /\ y.line = proc[c].line
         /\ y.i = proc[c].i /\ y.out = out /\ y.ends = ends /\ y.kid = Terminal
         /\ y.save = Terminal
  BY DEF Program, Unborn, Terminal

(* The child of a simple command.                                          *)
LEMMA SingleChildCrew == ASSUME IInv, CrewInv, NEW c \in Pids, SingleChild(c) PROVE CrewInv'
<1>1. proc[c].pc = "childS" /\ ~PlainAt(typed, proc[c].line)
  BY Simple DEF SingleChild
<1>2. ASSUME NEW code, End(c, code) PROVE CrewInv'
  BY <1>1, <1>2, EndCrew
<1> DEFINE y == Program(c, proc[c].in, proc[c].out, proc[c].ends)
<1>3. ASSUME proc' = [proc EXCEPT ![c] = y], UNCHANGED typed PROVE CrewInv'
  <2>1. /\ y.pc = "prog" /\ y.save = Terminal /\ y.out = proc[c].out
        /\ y.line = proc[c].line /\ y.ends = proc[c].ends /\ y.kid = Terminal
    BY ProgramFields
  <2> HIDE DEF y
  <2>2. Shaped(y, typed)
    BY <1>1, <2>1, Apart DEF CrewInv
  <2> QED BY <1>1, <1>3, <2>1, <2>2, OutsiderCrew
<1> QED BY <1>2, <1>3 DEF SingleChild

(* A command that is a builtin goes on with its parent's loop.             *)
LEMMA GoesOnCrew ==
  ASSUME IInv, CrewInv, NEW c \in Pids, NEW status, ~PlainAt(typed, proc[c].line),
         proc[c].pc \in {"childM", "echoM"},
         proc' = [proc EXCEPT ![c] = GoesOn(c, status)], UNCHANGED typed
  PROVE  CrewInv'
<1>1. CASE GoesOn(c, status) = Return(c, status)
  BY <1>1, ReturnCrew
<1>2. CASE GoesOn(c, status) # Return(c, status)
  <2> DEFINE y == [proc[c] EXCEPT !.pc = "loop", !.i = proc[c].i - 1]
  <2>1. proc[c].i > 1 /\ proc' = [proc EXCEPT ![c] = y]
    BY <1>2 DEF GoesOn, Turn
  <2>2. /\ y.pc = "loop" /\ y.i >= 1 /\ y.save = proc[c].save /\ y.out = proc[c].out
        /\ y.line = proc[c].line /\ y.ends = proc[c].ends /\ y.kid = proc[c].kid
    BY <2>1, Here DEF Process
  <2> HIDE DEF y
  <2>3. Shaped(y, typed)
    BY <2>2, Apart DEF CrewInv
  <2> QED BY <2>1, <2>2, <2>3, OutsiderCrew
<1> QED BY <1>1, <1>2

(* A line with such a command is not plain.                                *)
LEMMA BuiltinApart ==
  ASSUME IInv, CrewInv, NEW c \in Pids, proc[c].pc = "childM",
         Builtin(Command(c)) = 1 \/ BadRedirect(c)
  PROVE  ~PlainAt(typed, proc[c].line)
<1>1. proc[c].i >= 1
  BY DEF CrewInv, Shaped
<1> QED BY <1>1, PlainCommand

(* A child finds that its command is a builtin.                            *)
LEMMA ChildBuiltinCrew == ASSUME IInv, CrewInv, NEW c \in Pids, ChildBuiltin(c) PROVE CrewInv'
<1>1. proc[c].pc = "childM" /\ ~PlainAt(typed, proc[c].line) /\ UNCHANGED typed
  BY BuiltinApart DEF ChildBuiltin
<1>2. ASSUME NEW status, proc' = [proc EXCEPT ![c] = GoesOn(c, status)] PROVE CrewInv'
  BY <1>1, <1>2, GoesOnCrew
<1> DEFINE y == [proc[c] EXCEPT !.pc = "echoM"]
<1>3. ASSUME proc' = [proc EXCEPT ![c] = y] PROVE CrewInv'
  <2>1. proc[c].i >= 1
    BY <1>1 DEF CrewInv, Shaped
  <2>2. /\ y.pc = "echoM" /\ y.i = proc[c].i /\ y.save = proc[c].save /\ y.out = proc[c].out
        /\ y.line = proc[c].line /\ y.ends = proc[c].ends /\ y.kid = proc[c].kid
    BY Here DEF Process
  <2> HIDE DEF y
  <2>3. Shaped(y, typed)
    BY <1>1, <2>1, <2>2, Apart DEF CrewInv
  <2> QED BY <1>1, <1>3, <2>2, <2>3, OutsiderCrew
<1> QED BY <1>2, <1>3 DEF ChildBuiltin

(* echo, by the child.                                                     *)
LEMMA ChildEchoCrew == ASSUME IInv, CrewInv, NEW c \in Pids, ChildEcho(c) PROVE CrewInv'
<1>1. proc[c].pc = "echoM" /\ ~PlainAt(typed, proc[c].line) /\ UNCHANGED typed
  BY Simple DEF ChildEcho
<1>2. PICK status \in Garbage : proc' = [proc EXCEPT ![c] = GoesOn(c, status)]
  BY DEF ChildEcho
<1> QED BY <1>1, <1>2, GoesOnCrew

(* A child whose redirect cannot be opened becomes a shell.                *)
LEMMA ChildStraysCrew == ASSUME IInv, CrewInv, NEW c \in Pids, ChildStrays(c) PROVE CrewInv'
<1> DEFINE x == Return(c, -2)
           y == [x EXCEPT !.ends = proc[c].ends \ {<<c, "w">>}]
<1>1. proc[c].pc = "childM" /\ ~PlainAt(typed, proc[c].line) /\ UNCHANGED typed
  BY BuiltinApart DEF ChildStrays
<1>2. /\ x.pc = "print" /\ x.i = 0 /\ x.save = Terminal /\ x.out = proc[c].out
      /\ x.line = proc[c].line /\ x.ends = proc[c].ends /\ x.kid = Terminal
  BY ReturnFields
<1>3. x \in Process
  BY ReturnWell, KnownStatuses
<1>4. proc' = [proc EXCEPT ![c] = y]
  BY <1>2 DEF ChildStrays
<1> HIDE DEF x
<1>5. /\ y.pc = "print" /\ y.i = 0 /\ y.save = Terminal /\ y.out = proc[c].out
      /\ y.line = proc[c].line /\ y.ends \subseteq proc[c].ends /\ y.kid = Terminal
  BY <1>2, <1>3 DEF Process
<1> HIDE DEF y
<1>6. Shaped(y, typed)
  BY <1>1, <1>5, Apart DEF CrewInv
<1> QED BY <1>1, <1>4, <1>5, <1>6, OutsiderCrew

-----------------------------------------------------------------------------
(* The commands of a pipeline.                                             *)

(* The child closes its own pipe and becomes a program.                    *)
LEMMA ChildCrew == ASSUME IInv, CrewInv, NEW c \in Pids, Child(c) PROVE CrewInv'
<1> DEFINE x == proc[c]
           y == Program(c, ChildIn(c), ChildOut(c), ChildEnds(c))
<1>1. x.pc = "childM"
  BY DEF Child
<1>2. CASE End(c, 1)
  BY <1>1, <1>2, EndCrew
<1>3. ASSUME proc' = [proc EXCEPT ![c] = y], UNCHANGED typed PROVE CrewInv'
  <2>1. /\ y.pc = "prog" /\ y.parent = x.parent /\ y.line = x.line /\ y.i = x.i
        /\ y.out \in {x.out, File} /\ y.ends = x.ends \ {<<c, "r">>, <<c, "w">>}
        /\ y.save = Terminal /\ y.kid = Terminal
    BY ProgramFields DEF ChildOut, ChildEnds, Ends
  <2>2. Shaped(x, typed) /\ \A q \in Pids : /\ Related(c, x, q, proc[q], typed)
                                            /\ Related(q, proc[q], c, x, typed)
    BY DEF CrewInv
  <2> HIDE DEF x, y
  <2>3. /\ ~IsOwner(y, typed) /\ ~IsOwner(x, typed)
        /\ IsWorker(y, typed) <=> IsWorker(x, typed)
        /\ \A l : IsCrew(y, l) <=> IsCrew(x, l)
        /\ Ultimate(y, typed) <=> Ultimate(x, typed)
        /\ Piped(y, typed) <=> Piped(x, typed)
    BY <1>1, <2>1 DEF IsOwner, OwnerPcs, IsWorker, IsCrew, Ultimate, Piped
  <2>4. Shaped(y, typed)
    BY <1>1, <2>1, <2>2, <2>3 DEF Shaped, File, Terminal
  <2>5. ASSUME NEW q \in Pids \ {c}
        PROVE  Related(c, y, q, proc[q], typed) /\ Related(q, proc[q], c, y, typed)
    <3>1. Related(c, x, q, proc[q], typed) /\ Related(q, proc[q], c, x, typed)
      BY <2>2
    <3>2. q # File /\ q # Terminal
      BY DEF Pids, File, Terminal
    <3>3. Born(y, q, proc[q]) /\ Born(proc[q], c, y)
      BY <2>1, <3>1, <3>2, <1>1 DEF Related, Born
    <3>4. Feeds(c, y, q, proc[q], typed)
      BY <2>1, <3>1, <3>2, <1>1 DEF Related, Feeds
    <3>5. Feeds(q, proc[q], c, y, typed)
      BY <2>1, <2>3, <3>1, <1>1 DEF Related, Feeds
    <3>6. Owns(c, y, q, proc[q], typed)
      BY <2>3 DEF Owns
    <3>7. Owns(q, proc[q], c, y, typed)
      BY <2>1, <2>3, <3>1, <1>1 DEF Related, Owns
    <3>8. Pipes(y, q, proc[q], typed) /\ Pipes(proc[q], c, y, typed)
      BY <2>1, <2>3, <3>1, <3>2, <1>1 DEF Related, Pipes
    <3> QED BY <3>3, <3>4, <3>5, <3>6, <3>7, <3>8 DEF Related
  <2>6. Related(c, y, c, y, typed)
    <3>1. Related(c, x, c, x, typed)
      BY <2>2 DEF x
    <3>2. c # File /\ c # Terminal
      BY DEF Pids, File, Terminal
    <3>3. Born(y, c, y)
      BY <2>1 DEF Born
    <3>4. Feeds(c, y, c, y, typed)
      BY <2>1, <2>3, <3>1, <3>2, <1>1 DEF Related, Feeds
    <3>5. Owns(c, y, c, y, typed)
      BY <2>3 DEF Owns
    <3>6. Pipes(y, c, y, typed)
      BY <2>1, <2>3, <3>1, <3>2, <1>1 DEF Related, Pipes
    <3> QED BY <3>3, <3>4, <3>5, <3>6 DEF Related
  <2> QED BY <1>3, <2>4, <2>5, <2>6, OneCrew
<1> QED BY <1>2, <1>3 DEF Child

-----------------------------------------------------------------------------
(* The loop of a pipeline.                                                 *)

(* The fields of a shell after the parent's side of a turn.                *)
LEMMA ParentFields ==
  ASSUME IInv, NEW s \in Pids, Parent(s)
  PROVE  LET x == proc[s]  y == proc'[s] IN
         /\ x.pc = "parent" /\ y.line = x.line /\ y.save = x.save /\ y.kid = x.kid
         /\ y.ends = x.ends \ {<<x.kid, "r">>, <<x.kid, "w">>}
         /\ y.last = IF Ultimate(x, typed) THEN x.kid ELSE x.last
         /\ \/ y.pc = "loop" /\ y.i = x.i - 1 /\ y.i >= 1 /\ y.out = x.kid
            \/ y.pc = "waitlast" /\ y.i = x.i /\ y.out = x.save
         /\ proc' = [proc EXCEPT ![s] = y] /\ UNCHANGED typed
<1> DEFINE x == proc[s]
           here == [x EXCEPT !.last = LastChild(s), !.ends = ParentEnds(s), !.out = x.kid]
           y == Turn(here, [here EXCEPT !.pc = "waitlast", !.out = Restored(s)])
<1>1. x.pc = "parent" /\ proc' = [proc EXCEPT ![s] = y] /\ UNCHANGED typed
  BY DEF Parent
<1>2. proc'[s] = y
  BY <1>1, Here DEF IInv, TypeInv
<1>3. x \in Process
  BY Here
<1> HIDE DEF x
<1>4. /\ here \in [pc : Pcs, parent : 0 .. MaxPids, in : Descriptors, out : {x.kid},
                   ends : {ParentEnds(s)}, save : Descriptors, line : Nat, i : Nat,
                   last : {LastChild(s)}, kid : -1 .. MaxPids, left : Nat, more : BOOLEAN,
                   status : Statuses, code : Int]
      /\ here.pc = x.pc /\ here.line = x.line /\ here.save = x.save /\ here.kid = x.kid
      /\ here.i = x.i /\ here.ends = ParentEnds(s) /\ here.last = LastChild(s)
      /\ here.out = x.kid
  BY <1>3 DEF Process
<1> HIDE DEF here
<1>5. x.i \in Nat
  BY <1>3 DEF Process
<1>6. /\ y.line = x.line /\ y.save = x.save /\ y.kid = x.kid /\ y.ends = ParentEnds(s)
      /\ y.last = LastChild(s)
      /\ \/ y.pc = "loop" /\ y.i = x.i - 1 /\ y.i >= 1 /\ y.out = x.kid
         \/ y.pc = "waitlast" /\ y.i = x.i /\ y.out = Restored(s)
  BY <1>4, <1>5 DEF Turn
<1> HIDE DEF y
<1> QED BY <1>1, <1>2, <1>6 DEF x, ParentEnds, Ends, LastChild, Restored, Ultimate, Line

(* The parent's side of a turn: its output becomes the pipe of the child   *)
(* it has just made, and after the first command is what it was.           *)
LEMMA ParentCrew == ASSUME IInv, CrewInv, NEW s \in Pids, Parent(s) PROVE CrewInv'
<1> DEFINE x == proc[s]
           y == proc'[s]
<1>1. /\ x.pc = "parent" /\ y.line = x.line /\ y.save = x.save /\ y.kid = x.kid
      /\ y.ends = x.ends \ {<<x.kid, "r">>, <<x.kid, "w">>}
      /\ y.last = IF Ultimate(x, typed) THEN x.kid ELSE x.last
      /\ \/ y.pc = "loop" /\ y.i = x.i - 1 /\ y.i >= 1 /\ y.out = x.kid
         \/ y.pc = "waitlast" /\ y.i = x.i /\ y.out = x.save
      /\ proc' = [proc EXCEPT ![s] = y] /\ UNCHANGED typed
  BY ParentFields
<1>2. Shaped(x, typed) /\ \A q \in Pids : /\ Related(s, x, q, proc[q], typed)
                                          /\ Related(q, proc[q], s, x, typed)
  BY DEF CrewInv
<1>3. x.i \in Nat /\ x.kid \in -1 .. MaxPids /\ \A q \in Pids : proc[q].i \in Nat
  BY Here
<1> HIDE DEF x, y
<1>4. /\ ~IsWorker(y, typed) /\ ~IsWorker(x, typed)
      /\ IsOwner(y, typed) <=> IsOwner(x, typed)
      /\ \A l : ~IsCrew(y, l) /\ ~IsCrew(x, l)
      /\ Home(y) = Home(x)
      /\ Piped(y, typed) <=> IsOwner(y, typed) /\ y.pc = "loop"
  BY <1>1 DEF IsOwner, OwnerPcs, IsWorker, IsCrew, Piped, Home
<1>5. Shaped(y, typed)
  BY <1>1, <1>2, <1>3, <1>4 DEF Shaped, File, Terminal
<1>6. ASSUME NEW q \in Pids \ {s}
      PROVE  Related(s, y, q, proc[q], typed) /\ Related(q, proc[q], s, y, typed)
  <2> DEFINE k == proc[q]
  <2>1. Related(s, x, q, k, typed) /\ Related(q, k, s, x, typed) /\ k.i \in Nat
    BY <1>2, <1>3
  <2> HIDE DEF k
  <2>2. Born(y, q, k) /\ Born(k, s, y)
    BY <2>1, <1>1 DEF Related, Born
  <2>3. Feeds(s, y, q, k, typed)
    <3> SUFFICES ASSUME IsWorker(k, typed) PROVE Feeds(s, y, q, k, typed)
      BY DEF Feeds
    <3>1. /\ <<q, "w">> \in x.ends => x.kid = q
          /\ x.save # q
          /\ x.kid = q => x.line = k.line /\ x.i = k.i
      BY <2>1, <1>1 DEF Related, Feeds
    <3> QED BY <3>1, <1>1, <1>3 DEF Feeds
  <2>4. Feeds(q, k, s, y, typed)
    BY <1>4 DEF Feeds
  <2>5. Owns(s, y, q, k, typed)
    <3> SUFFICES ASSUME IsOwner(x, typed) PROVE Owns(s, y, q, k, typed)
      BY <1>4 DEF Owns
    <3>1. /\ IsOwner(k, typed) /\ k.line = x.line => s = q
          /\ Home(x) = q => ~IsCrew(k, x.line)
          /\ IsCrew(k, x.line) =>
               /\ k.i >= x.i /\ (k.i = x.i => q = x.kid)
               /\ Ultimate(k, typed) => /\ k.parent = s /\ k.pc # "gone"
                                        /\ q = IF Ultimate(x, typed) THEN x.kid ELSE x.last
      BY <2>1, <1>1 DEF Related, Owns
    <3> QED BY <3>1, <1>1, <1>3, <1>4, <2>1 DEF Owns
  <2>6. Owns(q, k, s, y, typed)
    BY <2>1, <1>1, <1>4 DEF Related, Owns
  <2>7. Pipes(y, q, k, typed)
    <3>1. IsOwner(x, typed) /\ x.kid = q => IsCrew(k, x.line)
      BY <2>1, <1>1 DEF Related, Pipes
    <3> QED BY <3>1, <1>1, <1>4 DEF Pipes
  <2>8. Pipes(k, s, y, typed)
    BY <2>1, <1>4 DEF Related, Pipes
  <2> QED BY <2>2, <2>3, <2>4, <2>5, <2>6, <2>7, <2>8 DEF Related, k
<1>7. Related(s, y, s, y, typed)
  <2>1. Related(s, x, s, x, typed)
    BY <1>2 DEF x
  <2>2. Born(y, s, y)
    BY <1>1 DEF Born
  <2>3. Feeds(s, y, s, y, typed)
    BY <1>4 DEF Feeds
  <2>4. Owns(s, y, s, y, typed)
    BY <1>4 DEF Owns
  <2>5. Pipes(y, s, y, typed)
    <3>1. ~(IsOwner(x, typed) /\ x.kid = s)
      BY <2>1, <1>1, <1>4 DEF Related, Pipes
    <3> QED BY <3>1, <1>1, <1>4 DEF Pipes
  <2> QED BY <2>2, <2>3, <2>4, <2>5 DEF Related
<1> QED BY <1>1, <1>5, <1>6, <1>7, OneCrew

(* What the shell and its new child are after fork() in the loop.          *)
Forker(c, x, y) ==
  /\ y.pc = "parent" /\ y.line = x.line /\ y.i = x.i /\ y.out = x.out /\ y.save = x.save
  /\ y.last = x.last /\ y.kid = c /\ y.ends \subseteq x.ends \cup {<<c, "r">>, <<c, "w">>}
Forked(s, c, x, y, z) ==
  /\ Forker(c, x, y)
  /\ z.pc = "childM" /\ z.line = x.line /\ z.i = x.i /\ z.out = x.out /\ z.save = x.save
  /\ z.kid = c /\ z.ends = y.ends /\ z.parent = s

(* That is what the action makes of them.                                  *)
LEMMA ForkFields ==
  ASSUME IInv, NEW s \in Pids, NEW c \in Pids
  PROVE  LET ends == proc[s].ends \cup Ends(c) IN
         Forked(s, c, proc[s],
                [proc[s] EXCEPT !.pc = "parent", !.kid = c, !.ends = ends],
                [proc[s] EXCEPT !.pc = "childM", !.parent = s, !.kid = c, !.ends = ends])
  BY Here DEF Process, Ends, Forker, Forked

(* Nobody knows the pid, and so the pipe, of a process to come.            *)
LEMMA Unknown ==
  ASSUME CrewInv, NEW p \in Pids, NEW c \in Pids, proc[c].pc = "unborn"
  PROVE  /\ proc[p].out # c /\ proc[p].save # c /\ proc[p].kid # c
         /\ <<c, "w">> \notin proc[p].ends
  BY DEF CrewInv, Related, Born

(* How the forking shell relates to the other processes ...                *)
LEMMA ForkerRelated ==
  ASSUME NEW t, NEW s \in Pids, NEW c, NEW x, NEW y, Forker(c, x, y),
         x.pc = "loop", NEW q \in Pids \ {s, c}, NEW k, x.i \in Nat, k.i \in Nat,
         Related(s, x, q, k, t), Related(q, k, s, x, t)
  PROVE  Related(s, y, q, k, t) /\ Related(q, k, s, y, t)
<1>1. /\ ~IsWorker(y, t) /\ ~IsWorker(x, t)
      /\ IsOwner(y, t) <=> IsOwner(x, t)
      /\ \A l : ~IsCrew(y, l) /\ ~IsCrew(x, l)
      /\ Home(y) = Home(x)
      /\ Piped(y, t) <=> Piped(x, t)
      /\ Ultimate(y, t) <=> Ultimate(x, t)
  BY DEF Forker, IsOwner, OwnerPcs, IsWorker, IsCrew, Piped, Home, Ultimate
<1>2. Born(y, q, k) /\ Born(k, s, y)
  BY DEF Forker, Related, Born
<1>3. Feeds(s, y, q, k, t)
  BY DEF Forker, Related, Feeds
<1>4. Feeds(q, k, s, y, t)
  BY <1>1 DEF Feeds
<1>5. Owns(s, y, q, k, t)
  <2> SUFFICES ASSUME IsOwner(x, t) PROVE Owns(s, y, q, k, t)
    BY <1>1 DEF Owns
  <2>1. /\ IsOwner(k, t) /\ k.line = x.line => s = q
        /\ Home(x) = q => ~IsCrew(k, x.line)
        /\ IsCrew(k, x.line) =>
             /\ k.i > x.i
             /\ Ultimate(k, t) => k.parent = s /\ k.pc # "gone" /\ q = x.last
    BY DEF Related, Owns
  <2>2. y.pc = "parent" /\ y.line = x.line /\ y.i = x.i /\ y.last = x.last
    BY DEF Forker
  <2>3. IsCrew(k, x.line) /\ Ultimate(k, t) => ~Ultimate(y, t)
    BY <2>1, <2>2 DEF Ultimate, IsCrew
  <2> QED BY <2>1, <2>2, <2>3, <1>1 DEF Owns
<1>6. Owns(q, k, s, y, t)
  BY <1>1 DEF Forker, Related, Owns
<1>7. Pipes(y, q, k, t) /\ Pipes(k, s, y, t)
  BY <1>1 DEF Forker, Related, Pipes
<1> QED BY <1>2, <1>3, <1>4, <1>5, <1>6, <1>7 DEF Related

(* ... and to itself, ...                                                  *)
LEMMA ForkerSelf ==
  ASSUME NEW t, NEW s, NEW c, c # s, NEW x, NEW y, Forker(c, x, y), x.pc = "loop",
         Related(s, x, s, x, t)
  PROVE  Related(s, y, s, y, t)
<1>1. /\ ~IsWorker(y, t) /\ ~IsWorker(x, t)
      /\ IsOwner(y, t) <=> IsOwner(x, t)
      /\ \A l : ~IsCrew(y, l) /\ ~IsCrew(x, l)
      /\ Piped(y, t) <=> Piped(x, t)
      /\ Ultimate(y, t) <=> Ultimate(x, t)
  BY DEF Forker, IsOwner, OwnerPcs, IsWorker, IsCrew, Piped, Ultimate
<1>2. ~(Piped(x, t) /\ ~Ultimate(x, t) /\ x.out = s)
  BY <1>1 DEF Related, Pipes
<1> QED BY <1>1, <1>2 DEF Forker, Related, Born, Feeds, Owns, Pipes

(* ... how its child does ...                                              *)
LEMMA ForkedRelated ==
  ASSUME NEW t, NEW s \in Pids, NEW c \in Pids, NEW x, NEW y, NEW z, Forked(s, c, x, y, z),
         x.pc = "loop", NEW q \in Pids \ {s, c}, NEW k,
         k.out # c, k.save # c, k.kid # c, <<c, "w">> \notin k.ends,
         Related(s, x, q, k, t), Related(q, k, s, x, t)
  PROVE  Related(c, z, q, k, t) /\ Related(q, k, c, z, t)
<1>1. /\ IsWorker(z, t) <=> IsOwner(x, t)
      /\ ~IsOwner(z, t)
      /\ \A l : IsCrew(z, l) <=> x.line = l
      /\ Piped(z, t) <=> Piped(x, t)
      /\ Ultimate(z, t) <=> Ultimate(x, t)
  BY DEF Forker, Forked, IsOwner, OwnerPcs, IsWorker, IsCrew, Piped, Ultimate
<1>2. Born(z, q, k) /\ Born(k, c, z)
  BY DEF Forker, Forked, Related, Born
<1>3. Feeds(c, z, q, k, t)
  BY DEF Forker, Forked, Related, Feeds
<1>4. Feeds(q, k, c, z, t)
  BY DEF Feeds
<1>5. Owns(c, z, q, k, t)
  BY <1>1 DEF Owns
<1>6. Owns(q, k, c, z, t)
  <2> SUFFICES ASSUME IsOwner(k, t) PROVE Owns(q, k, c, z, t)
    BY DEF Owns
  <2>1. Home(k) # c
    BY DEF Home
  <2>2. ~IsCrew(z, k.line)
    <3>1. x.line = k.line => IsOwner(x, t)
      BY DEF IsOwner, OwnerPcs
    <3> QED BY <3>1, <1>1 DEF Related, Owns
  <2> QED BY <2>1, <2>2, <1>1 DEF Owns
<1>7. Pipes(z, q, k, t) /\ Pipes(k, c, z, t)
  BY <1>1 DEF Forker, Forked, Related, Pipes
<1> QED BY <1>2, <1>3, <1>4, <1>5, <1>6, <1>7 DEF Related

(* ... and how the two relate to one another.                              *)
LEMMA ForkRelated ==
  ASSUME NEW t, NEW s \in Pids, NEW c \in Pids, NEW x, NEW y, NEW z, Forked(s, c, x, y, z),
         x.pc = "loop", s # c, x.i \in Nat,
         x.out # c, x.save # c, x.kid # c, <<c, "w">> \notin x.ends,
         Related(s, x, s, x, t)
  PROVE  Related(c, z, c, z, t) /\ Related(s, y, c, z, t) /\ Related(c, z, s, y, t)
<1>1. /\ IsWorker(z, t) <=> IsOwner(x, t)
      /\ ~IsOwner(z, t) /\ ~IsWorker(y, t) /\ ~IsWorker(x, t)
      /\ IsOwner(y, t) <=> IsOwner(x, t)
      /\ \A l : IsCrew(z, l) <=> x.line = l
      /\ \A l : ~IsCrew(y, l) /\ ~IsCrew(x, l)
      /\ Piped(z, t) <=> Piped(x, t)
      /\ Piped(y, t) <=> Piped(x, t)
      /\ Ultimate(z, t) <=> Ultimate(x, t)
      /\ Ultimate(y, t) <=> Ultimate(x, t)
      /\ Home(y) = x.save
  BY DEF Forker, Forked, IsOwner, OwnerPcs, IsWorker, IsCrew, Piped, Ultimate, Home
<1>2. Born(z, c, z) /\ Born(y, c, z) /\ Born(z, s, y)
  BY DEF Forker, Forked, Born
<1>3. ~(Piped(x, t) /\ ~Ultimate(x, t) /\ x.out = s)
  BY <1>1 DEF Related, Pipes
<1>5. Related(c, z, c, z, t)
  BY <1>1, <1>2 DEF Forker, Forked, Related, Feeds, Owns, Pipes
<1>6. Related(s, y, c, z, t)
  <2>1. Feeds(s, y, c, z, t)
    BY DEF Forker, Forked, Feeds
  <2>2. Owns(s, y, c, z, t)
    BY <1>1 DEF Forker, Forked, Owns
  <2>3. Pipes(y, c, z, t)
    BY <1>1 DEF Forker, Forked, Pipes
  <2> QED BY <1>2, <2>1, <2>2, <2>3 DEF Related
<1>7. Related(c, z, s, y, t)
  BY <1>1, <1>2, <1>3 DEF Forker, Forked, Related, Feeds, Owns, Pipes
<1> QED BY <1>5, <1>6, <1>7

(* The two are well shaped.                                                *)
LEMMA ForkShaped ==
  ASSUME NEW t, NEW c, NEW x, NEW y, Forker(c, x, y), c # 0, x.pc = "loop", Shaped(x, t)
  PROVE  /\ Shaped(y, t)
         /\ \A s, z : Forked(s, c, x, y, z) => Shaped(z, t)
<1>1. /\ ~IsWorker(y, t)
      /\ IsOwner(y, t) <=> IsOwner(x, t)
      /\ Piped(y, t) <=> Piped(x, t)
      /\ Ultimate(y, t) <=> Ultimate(x, t)
      /\ Home(y) = Home(x)
  BY DEF Forker, IsOwner, OwnerPcs, IsWorker, Piped, Ultimate, Home
<1>2. Shaped(y, t)
  BY <1>1 DEF Shaped, Forker
<1>3. ASSUME NEW s, NEW z, Forked(s, c, x, y, z) PROVE Shaped(z, t)
  <2>1. /\ ~IsOwner(z, t)
        /\ Piped(z, t) <=> Piped(x, t)
        /\ Ultimate(z, t) <=> Ultimate(x, t)
    BY <1>3 DEF Forked, IsOwner, OwnerPcs, IsWorker, Piped, Ultimate
  <2> QED BY <1>3, <2>1 DEF Shaped, Forked
<1> QED BY <1>2, <1>3

(* fork() in the loop, which may fail.                                     *)
LEMMA ForkCrew == ASSUME IInv, CrewInv, NEW s \in Pids, Fork(s) PROVE CrewInv'
<1> DEFINE x == proc[s]
<1>1. x.pc = "loop" /\ UNCHANGED typed
  BY DEF Fork
<1>2. /\ Shaped(x, typed) /\ Related(s, x, s, x, typed)
      /\ \A q \in Pids : Related(s, x, q, proc[q], typed) /\ Related(q, proc[q], s, x, typed)
  BY DEF CrewInv
<1>3. x.i \in Nat /\ \A q \in Pids : proc[q].i \in Nat
  BY Here
<1>4. ASSUME NEW c \in NextPid,
             LET ends == x.ends \cup Ends(c) IN
             proc' = [proc EXCEPT ![s].pc = "parent", ![s].kid = c, ![s].ends = ends,
                                  ![c] = [proc[s] EXCEPT !.pc = "childM", !.parent = s,
                                                         !.kid = c, !.ends = ends]]
      PROVE  CrewInv'
  <2> DEFINE ends == x.ends \cup Ends(c)
             y == [x EXCEPT !.pc = "parent", !.kid = c, !.ends = ends]
             z == [x EXCEPT !.pc = "childM", !.parent = s, !.kid = c, !.ends = ends]
  <2>1. c \in Pids /\ c # s /\ c # 0 /\ proc[c].pc = "unborn"
    BY <1>1, NextPidFree DEF Pids
  <2>2. proc' = [proc EXCEPT ![s] = y, ![c] = z]
    BY <1>4, <2>1 DEF IInv, TypeInv
  <2>3. Forked(s, c, x, y, z) /\ Forker(c, x, y)
    <3>1. Forked(s, c, x, y, z)
      BY <2>1, ForkFields, Zenon
    <3> QED BY <3>1 DEF Forked
  <2>4. ASSUME NEW p \in Pids
        PROVE  /\ proc[p].out # c /\ proc[p].save # c /\ proc[p].kid # c
               /\ <<c, "w">> \notin proc[p].ends
    BY <2>1, Unknown
  <2>5. x.out # c /\ x.save # c /\ x.kid # c /\ <<c, "w">> \notin x.ends
    BY <2>4
  <2> HIDE DEF y, z, x
  <2>6. Shaped(y, typed) /\ Shaped(z, typed)
    BY <1>1, <1>2, <2>1, <2>3, ForkShaped
  <2>7. Related(s, y, s, y, typed)
    BY <1>1, <1>2, <2>1, <2>3, ForkerSelf
  <2>8. Related(c, z, c, z, typed) /\ Related(s, y, c, z, typed) /\ Related(c, z, s, y, typed)
    BY <1>1, <1>2, <1>3, <2>1, <2>3, <2>5, ForkRelated
  <2>9. ASSUME NEW q \in Pids \ {s, c}
        PROVE  /\ Related(s, y, q, proc[q], typed) /\ Related(q, proc[q], s, y, typed)
               /\ Related(c, z, q, proc[q], typed) /\ Related(q, proc[q], c, z, typed)
    <3>1. /\ Related(s, x, q, proc[q], typed) /\ Related(q, proc[q], s, x, typed)
          /\ proc[q].i \in Nat
      BY <1>2, <1>3
    <3>2. Related(s, y, q, proc[q], typed) /\ Related(q, proc[q], s, y, typed)
      BY <1>1, <1>3, <2>3, <3>1, ForkerRelated
    <3>3. Related(c, z, q, proc[q], typed) /\ Related(q, proc[q], c, z, typed)
      BY <1>1, <2>1, <2>3, <2>4, <3>1, ForkedRelated
    <3> QED BY <3>2, <3>3
  <2> QED BY <1>1, <2>1, <2>2, <2>6, <2>7, <2>8, <2>9, TwoCrew
<1>5. ASSUME proc' = [proc EXCEPT ![s].pc = "parent", ![s].kid = -1] PROVE CrewInv'
  <2> DEFINE y == [x EXCEPT !.pc = "parent", !.kid = -1]
  <2>1. proc' = [proc EXCEPT ![s] = y]
    BY <1>5
  <2>2. Forker(-1, x, y)
    BY Here DEF Process, Forker
  <2>3. -1 \notin Pids
    BY DEF Pids
  <2> HIDE DEF y, x
  <2>4. Shaped(y, typed)
    BY <1>1, <1>2, <2>2, ForkShaped
  <2>5. Related(s, y, s, y, typed)
    BY <1>1, <1>2, <2>2, <2>3, ForkerSelf
  <2>6. ASSUME NEW q \in Pids \ {s}
        PROVE  Related(s, y, q, proc[q], typed) /\ Related(q, proc[q], s, y, typed)
    <3>1. /\ Related(s, x, q, proc[q], typed) /\ Related(q, proc[q], s, x, typed)
          /\ proc[q].i \in Nat /\ q \in Pids \ {s, -1}
      BY <1>2, <1>3, <2>3
    <3> QED BY <1>1, <1>3, <2>2, <3>1, ForkerRelated
  <2> QED BY <1>1, <2>1, <2>4, <2>5, <2>6, OneCrew
<1> QED BY <1>4, <1>5 DEF Fork

-----------------------------------------------------------------------------
(* fork() for a simple command, and the waits.                             *)

(* The child of a simple command and a process that does not know it.      *)
LEMMA NewcomerRelated ==
  ASSUME NEW t, NEW s, NEW c \in Pids, NEW x, NEW z, x.pc = "single",
         z.pc = "childS", z.line = x.line, z.out = x.out, z.save = x.save, z.kid = x.kid,
         z.ends = x.ends,
         NEW q \in Pids, NEW k, NEW k0, Related(s, x, q, k0, t),
         k = k0 \/ (k.pc # "unborn" /\ ~IsWorker(k, t)),
         k.out # c, k.save # c, k.kid # c, <<c, "w">> \notin k.ends
  PROVE  Related(c, z, q, k, t) /\ Related(q, k, c, z, t)
<1>1. ~IsWorker(z, t) /\ ~IsOwner(z, t) /\ ~Piped(z, t) /\ \A l : ~IsCrew(z, l)
  BY DEF IsOwner, OwnerPcs, IsWorker, IsCrew, Piped
<1>2. Born(z, q, k) /\ Born(k, c, z)
  BY DEF Related, Born
<1>3. Feeds(c, z, q, k, t)
  <2> SUFFICES ASSUME IsWorker(k, t) PROVE Feeds(c, z, q, k, t)
    BY DEF Feeds
  <2>1. Feeds(s, x, q, k, t)
    BY DEF Related
  <2> QED BY <2>1 DEF Feeds
<1>4. Feeds(q, k, c, z, t) /\ Owns(c, z, q, k, t)
  BY <1>1 DEF Feeds, Owns
<1>5. Owns(q, k, c, z, t)
  BY <1>1 DEF Owns, Home
<1>6. Pipes(z, q, k, t) /\ Pipes(k, c, z, t)
  BY <1>1 DEF Pipes
<1> QED BY <1>2, <1>3, <1>4, <1>5, <1>6 DEF Related

(* fork() for a simple command, which may fail.                            *)
LEMMA SingleForkCrew == ASSUME IInv, CrewInv, NEW s \in Pids, SingleFork(s) PROVE CrewInv'
<1> DEFINE x == proc[s]
<1>1. x.pc = "single" /\ ~PlainAt(typed, x.line) /\ s \in Pids
  BY Simple DEF SingleFork
<1>2. CASE End(s, 1)
  BY <1>1, <1>2, EndCrew
<1>3. ASSUME NEW c \in NextPid, UNCHANGED typed,
             proc' = [proc EXCEPT ![s].pc = "wait",
                                  ![c] = [proc[s] EXCEPT !.pc = "childS", !.parent = s]]
      PROVE  CrewInv'
  <2> DEFINE y == [x EXCEPT !.pc = "wait"]
             z == [x EXCEPT !.pc = "childS", !.parent = s]
  <2>1. c \in Pids /\ c # s /\ proc[c].pc = "unborn"
    BY <1>1, NextPidFree
  <2>2. proc' = [proc EXCEPT ![s] = y, ![c] = z]
    BY <1>3, <2>1 DEF IInv, TypeInv
  <2>3. /\ y.pc = "wait" /\ y.line = x.line /\ y.out = x.out /\ y.save = x.save
        /\ y.kid = x.kid /\ y.ends = x.ends
        /\ z.pc = "childS" /\ z.line = x.line /\ z.out = x.out /\ z.save = x.save
        /\ z.kid = x.kid /\ z.ends = x.ends /\ z.i = x.i
    BY Here DEF Process
  <2>4. ASSUME NEW p \in Pids
        PROVE  /\ proc[p].out # c /\ proc[p].save # c /\ proc[p].kid # c
               /\ <<c, "w">> \notin proc[p].ends
    BY <2>1, Unknown
  <2>5. y.out # c /\ y.save # c /\ y.kid # c /\ <<c, "w">> \notin y.ends
    BY <2>3, <2>4
  <2>6. Shaped(x, typed) /\ \A q \in Pids : /\ Related(s, x, q, proc[q], typed)
                                            /\ Related(q, proc[q], s, x, typed)
    BY DEF CrewInv
  <2>7. Related(s, x, s, x, typed) /\ Related(s, x, c, proc[c], typed)
    BY <2>1, <2>6
  <2> HIDE DEF x, y, z
  <2>8. Shaped(y, typed)
    BY <1>1, <2>3, <2>6, Apart
  <2>9. Shaped(z, typed)
    BY <1>1, <2>3, <2>6 DEF Shaped, IsOwner, OwnerPcs, IsWorker, Piped
  <2>10. Related(s, y, s, y, typed) /\ Related(c, z, c, z, typed)
    BY <1>1, <2>3, OutsiderSelf
  <2>11. ~IsWorker(y, typed)
    BY <2>3 DEF IsWorker
  <2>12. Related(s, y, c, z, typed) /\ Related(c, z, s, y, typed)
    BY <1>1, <2>1, <2>3, <2>5, <2>7, <2>11, NewcomerRelated
  <2>13. ASSUME NEW q \in Pids \ {s, c}
         PROVE  /\ Related(s, y, q, proc[q], typed) /\ Related(q, proc[q], s, y, typed)
                /\ Related(c, z, q, proc[q], typed) /\ Related(q, proc[q], c, z, typed)
    <3>1. Related(s, x, q, proc[q], typed) /\ Related(q, proc[q], s, x, typed)
      BY <2>6
    <3>2. Related(s, y, q, proc[q], typed) /\ Related(q, proc[q], s, y, typed)
      BY <1>1, <2>3, <3>1, Outsider
    <3>3. Related(c, z, q, proc[q], typed) /\ Related(q, proc[q], c, z, typed)
      BY <1>1, <2>1, <2>3, <2>4, <3>1, NewcomerRelated
    <3> QED BY <3>2, <3>3
  <2> QED BY <1>3, <2>1, <2>2, <2>8, <2>9, <2>10, <2>12, <2>13, TwoCrew
<1> QED BY <1>2, <1>3 DEF SingleFork

(* A shell that has waited returns to its prompt; a child that has been    *)
(* waited for goes.                                                        *)
Returned(x, y, status) ==
  /\ y.pc = "print" /\ y.status = status /\ y.i = 0 /\ y.kid = Terminal /\ y.save = Terminal
  /\ y.out = x.out /\ y.ends = x.ends /\ y.line = x.line
Collected(x, z) ==
  /\ x.pc = "zombie" /\ z.pc = "gone" /\ z.line = x.line /\ z.i = x.i /\ z.out = x.out
  /\ z.save = x.save /\ z.kid = x.kid /\ z.ends = x.ends /\ z.parent = x.parent
  /\ z.code = x.code

(* The last command of the line that shell x runs, if k is that, has gone, *)
(* and status is its status.                                               *)
Settled(x, status, k, t) ==
  IsOwner(x, t) /\ IsCrew(k, x.line) /\ Ultimate(k, t) => k.pc = "gone" /\ status = Parse(k.code)

(* The shell and another process, which may be the child.                  *)
LEMMA ReturnedRelated ==
  ASSUME NEW t, NEW s, NEW x, NEW y, NEW status, Returned(x, y, status),
         x.pc \in {"wait", "waitlast"}, x.pc = "wait" => ~PlainAt(t, x.line),
         NEW q \in Pids \ {s}, NEW k0, NEW k, k = k0 \/ Collected(k0, k),
         Related(s, x, q, k0, t), Related(q, k0, s, x, t), Settled(x, status, k, t)
  PROVE  Related(s, y, q, k, t) /\ Related(q, k, s, y, t)
<1>1. /\ IsOwner(y, t) <=> IsOwner(x, t)
      /\ ~IsWorker(y, t) /\ ~IsWorker(x, t)
      /\ \A l : ~IsCrew(y, l) /\ ~IsCrew(x, l)
      /\ ~Piped(y, t)
      /\ Home(y) = Home(x)
  BY DEF Returned, IsOwner, OwnerPcs, IsWorker, IsCrew, Piped, Home
<1>2. /\ IsOwner(k, t) <=> IsOwner(k0, t)
      /\ IsWorker(k, t) <=> IsWorker(k0, t)
      /\ \A l : IsCrew(k, l) <=> IsCrew(k0, l)
      /\ Piped(k, t) <=> Piped(k0, t)
      /\ k.line = k0.line
      /\ IsOwner(k, t) \/ IsWorker(k, t) \/ Piped(k, t) => k = k0
  BY DEF Collected, IsOwner, OwnerPcs, IsWorker, IsCrew, Piped
<1>3. q # Terminal
  BY DEF Pids, Terminal
<1>4. Born(y, q, k) /\ Born(k, s, y)
  BY <1>3 DEF Returned, Collected, Related, Born
<1>5. Feeds(s, y, q, k, t)
  BY <1>2, <1>3 DEF Returned, Related, Feeds
<1>6. Feeds(q, k, s, y, t)
  BY <1>1 DEF Feeds
<1>7. Owns(s, y, q, k, t)
  <2> SUFFICES ASSUME IsOwner(x, t) PROVE Owns(s, y, q, k, t)
    BY <1>1 DEF Owns
  <2>1. /\ IsOwner(k, t) /\ k.line = x.line => s = q
        /\ Home(x) = q => ~IsCrew(k, x.line)
    BY <1>2 DEF Related, Owns
  <2>2. y.pc = "print" /\ y.line = x.line /\ y.status = status
    BY DEF Returned
  <2> QED BY <2>1, <2>2, <1>1 DEF Owns, Settled
<1>8. Owns(q, k, s, y, t)
  <2> SUFFICES ASSUME IsOwner(k, t) PROVE Owns(q, k, s, y, t)
    BY DEF Owns
  <2>1. IsOwner(y, t) /\ y.line = k.line => q = s
    BY <1>1, <1>2 DEF Returned, Related, Owns
  <2> QED BY <2>1, <1>1 DEF Owns
<1>9. Pipes(y, q, k, t) /\ Pipes(k, s, y, t)
  <2>1. Pipes(y, q, k, t)
    BY <1>1 DEF Returned, Pipes
  <2>2. Pipes(k, s, y, t)
    BY <1>1, <1>2 DEF Related, Pipes, Piped
  <2> QED BY <2>1, <2>2
<1> QED BY <1>4, <1>5, <1>6, <1>7, <1>8, <1>9 DEF Related

(* The shell itself.                                                       *)
LEMMA ReturnedSelf ==
  ASSUME NEW t, NEW s, NEW x, NEW y, NEW status, Returned(x, y, status),
         x.pc \in {"wait", "waitlast"}, x.pc = "wait" => ~PlainAt(t, x.line), Shaped(x, t)
  PROVE  Shaped(y, t) /\ Related(s, y, s, y, t)
<1>1. /\ IsOwner(y, t) <=> IsOwner(x, t)
      /\ ~IsWorker(y, t)
      /\ \A l : ~IsCrew(y, l)
      /\ ~Piped(y, t)
      /\ Home(y) = Home(x)
  BY DEF Returned, IsOwner, OwnerPcs, IsWorker, IsCrew, Piped, Home
<1>2. Shaped(y, t)
  BY <1>1 DEF Returned, Shaped, File, Terminal
<1>3. Related(s, y, s, y, t)
  BY <1>1 DEF Returned, Related, Born, Feeds, Owns, Pipes
<1> QED BY <1>2, <1>3

(* The child that is collected.                                            *)
LEMMA CollectedRelated ==
  ASSUME NEW t, NEW c, NEW x, NEW z, Collected(x, z), NEW q, NEW k, NEW k0,
         k = k0 \/ (k.pc # "unborn" /\ ~IsWorker(k, t)), Related(c, x, q, k0, t)
  PROVE  Related(c, z, q, k, t)
<1>1. ~IsOwner(z, t) /\ ~Piped(z, t)
  BY DEF Collected, IsOwner, OwnerPcs, Piped, IsWorker
<1>2. Born(z, q, k)
  BY DEF Collected, Related, Born
<1>3. Feeds(c, z, q, k, t)
  BY DEF Collected, Related, Feeds
<1> QED BY <1>1, <1>2, <1>3 DEF Related, Owns, Pipes

(* The child and a shell that is not its parent.                           *)
LEMMA CollectedSeen ==
  ASSUME NEW t, NEW c, NEW x, NEW z, Collected(x, z), NEW q, NEW k, x.parent # q,
         Related(q, k, c, x, t)
  PROVE  Related(q, k, c, z, t)
<1>1. /\ ~IsOwner(z, t) /\ ~IsWorker(z, t)
      /\ \A l : IsCrew(z, l) <=> IsCrew(x, l)
      /\ Ultimate(z, t) <=> Ultimate(x, t)
  BY DEF Collected, IsOwner, OwnerPcs, IsWorker, IsCrew, Ultimate
<1>2. Born(k, c, z) /\ Feeds(q, k, c, z, t)
  BY <1>1 DEF Collected, Related, Born, Feeds
<1>3. Owns(q, k, c, z, t)
  BY <1>1 DEF Collected, Related, Owns
<1>4. Pipes(k, c, z, t)
  BY <1>1 DEF Related, Pipes
<1> QED BY <1>2, <1>3, <1>4 DEF Related

(* A shell that returns to its prompt after a wait.                        *)
LEMMA WaitedFields ==
  ASSUME IInv, NEW s \in Pids, NEW status
  PROVE  Returned(proc[s], Return(s, status), status)
  BY ReturnFields DEF Returned

(* A shell collects a child: any, after a simple command; after a pipeline *)
(* the last command of it, if it is there.                                 *)
LEMMA CollectCrew ==
  ASSUME IInv, CrewInv, NEW s \in Pids, NEW c \in Children(s), Collect(s, c),
         proc[s].pc = "waitlast" => proc[s].last \in {c, 0, -1}
  PROVE  CrewInv'
<1> DEFINE x == proc[s]
           x0 == proc[c]
           status == Parse(x0.code)
           y == Return(s, status)
           z == [x0 EXCEPT !.pc = "gone"]
<1>1. /\ c \in Pids /\ s \in Pids /\ x0.parent = s /\ x0.pc = "zombie" /\ s # c
      /\ x.pc \in {"wait", "waitlast"} /\ (x.pc = "waitlast" => x.last \in {c, 0, -1})
      /\ UNCHANGED typed
  BY DEF Children, Collect
<1>2. proc' = [proc EXCEPT ![s] = y, ![c] = z]
  <2>1. proc' = [proc EXCEPT ![c] = z, ![s] = y]
    BY DEF Collect
  <2> HIDE DEF y, z
  <2> QED BY <1>1, <2>1 DEF IInv, TypeInv
<1>3. x.pc = "wait" => ~PlainAt(typed, x.line)
  BY Simple
<1>4. Returned(x, y, status)
  BY WaitedFields
<1>5. Collected(x0, z)
  BY <1>1, Here DEF Process, Collected
<1>6. /\ Shaped(x, typed) /\ Shaped(x0, typed)
      /\ Related(s, x, s, x, typed) /\ Related(c, x0, c, x0, typed)
      /\ Related(s, x, c, x0, typed) /\ Related(c, x0, s, x, typed)
  BY <1>1 DEF CrewInv
<1>7. \A q \in Pids : /\ Related(s, x, q, proc[q], typed) /\ Related(q, proc[q], s, x, typed)
                      /\ Related(c, x0, q, proc[q], typed) /\ Related(q, proc[q], c, x0, typed)
  BY <1>1 DEF CrewInv
<1> HIDE DEF x, x0, y, z, status
<1>8. Shaped(y, typed) /\ Related(s, y, s, y, typed)
  BY <1>1, <1>3, <1>4, <1>6, ReturnedSelf
<1>9. Shaped(z, typed)
  BY <1>5, <1>6 DEF Collected, Shaped, IsOwner, OwnerPcs, IsWorker, Piped
<1>10. ~IsWorker(z, typed) /\ z.pc # "unborn" /\ ~IsWorker(y, typed) /\ y.pc # "unborn"
  BY <1>4, <1>5 DEF Collected, Returned, IsWorker
<1>11. Related(c, z, c, z, typed)
  <2>1. Related(c, z, c, x0, typed)
    BY <1>5, <1>6, CollectedRelated
  <2> QED BY <1>5, <1>6, <1>10, CollectedRelated
<1>12. Related(c, z, s, y, typed)
  BY <1>5, <1>6, <1>10, CollectedRelated
<1>13. Related(s, y, c, z, typed)
  <2>1. Settled(x, status, z, typed)
    BY <1>5 DEF Settled, Collected, status
  <2>2. c \in Pids \ {s}
    BY <1>1
  <2> QED BY <1>1, <1>3, <1>4, <1>5, <1>6, <2>1, <2>2, ReturnedRelated
<1>14. ASSUME NEW q \in Pids \ {s, c}
       PROVE  /\ Related(s, y, q, proc[q], typed) /\ Related(q, proc[q], s, y, typed)
              /\ Related(c, z, q, proc[q], typed) /\ Related(q, proc[q], c, z, typed)
  <2> DEFINE k == proc[q]
  <2>1. /\ Related(s, x, q, k, typed) /\ Related(q, k, s, x, typed)
        /\ Related(c, x0, q, k, typed) /\ Related(q, k, c, x0, typed)
    BY <1>7
  <2> HIDE DEF k
  <2>2. Settled(x, status, k, typed)
    <3> SUFFICES ASSUME IsOwner(x, typed), IsCrew(k, x.line), Ultimate(k, typed) PROVE FALSE
      BY DEF Settled
    <3>1. x.pc = "waitlast"
      BY <1>1, <1>3 DEF IsOwner
    <3>2. q = x.last
      BY <2>1, <3>1 DEF Related, Owns
    <3> QED BY <1>1, <3>1, <3>2 DEF Pids
  <2>3. Related(s, y, q, k, typed) /\ Related(q, k, s, y, typed)
    BY <1>1, <1>3, <1>4, <2>1, <2>2, ReturnedRelated
  <2>4. Related(c, z, q, k, typed)
    BY <1>5, <2>1, CollectedRelated
  <2>5. Related(q, k, c, z, typed)
    BY <1>1, <1>5, <2>1, CollectedSeen
  <2> QED BY <2>3, <2>4, <2>5 DEF k
<1> QED BY <1>1, <1>2, <1>8, <1>9, <1>11, <1>12, <1>13, <1>14, TwoCrew

(* wait() for a simple command.                                            *)
LEMMA WaitAnyCrew == ASSUME IInv, CrewInv, NEW s \in Pids, WaitAny(s) PROVE CrewInv'
<1>1. PICK c \in Children(s) : Collect(s, c) /\ proc[s].pc = "wait"
  BY DEF WaitAny, Collect
<1> QED BY <1>1, CollectCrew

(* waitpid() for the last command of a pipeline.                           *)
LEMMA WaitLastCrew == ASSUME IInv, CrewInv, NEW s \in Pids, WaitLast(s) PROVE CrewInv'
<1>1. PICK c \in Awaited(s) : Collect(s, c)
  BY DEF WaitLast, Collect
<1>2. c \in Children(s) /\ proc[s].last \in {c, 0, -1}
  BY <1>1 DEF Awaited
<1> QED BY <1>1, <1>2, CollectCrew

(* waitpid() fails only when the last command is not there to wait for.    *)
LEMMA WaitFailsCrew == ASSUME IInv, CrewInv, NEW s \in Pids, WaitFails(s) PROVE CrewInv'
<1>1. /\ proc[s].pc = "waitlast" /\ UNCHANGED typed
      /\ proc[s].last = 0 \/ Awaited(s) = {}
  BY DEF WaitFails
<1>2. PICK status \in Garbage : proc' = [proc EXCEPT ![s] = Return(s, status)]
  BY DEF WaitFails
<1> DEFINE x == proc[s]
           y == Return(s, status)
<1>3. Returned(x, y, status) /\ x.pc = "waitlast"
  BY <1>1, WaitedFields
<1>4. /\ Shaped(x, typed)
      /\ \A q \in Pids : Related(s, x, q, proc[q], typed) /\ Related(q, proc[q], s, x, typed)
  BY DEF CrewInv
<1> HIDE DEF y
<1>5. Shaped(y, typed) /\ Related(s, y, s, y, typed)
  BY <1>3, <1>4, ReturnedSelf
<1>6. ASSUME NEW q \in Pids \ {s}
      PROVE  Related(s, y, q, proc[q], typed) /\ Related(q, proc[q], s, y, typed)
  <2>1. Related(s, x, q, proc[q], typed) /\ Related(q, proc[q], s, x, typed)
    BY <1>4
  <2>2. Settled(x, status, proc[q], typed)
    <3> SUFFICES ASSUME IsOwner(x, typed), IsCrew(proc[q], x.line), Ultimate(proc[q], typed)
                 PROVE  FALSE
      BY DEF Settled
    <3>1. proc[q].parent = s /\ proc[q].pc # "gone" /\ q = x.last
      BY <1>3, <2>1 DEF Related, Owns
    <3>2. q \in Awaited(s) /\ q # 0
      BY <3>1 DEF Awaited, Children, Pids
    <3> QED BY <1>1, <3>1, <3>2
  <2> HIDE DEF x
  <2> QED BY <1>3, <2>1, <2>2, ReturnedRelated
<1> QED BY <1>1, <1>2, <1>5, <1>6, OneCrew DEF y

-----------------------------------------------------------------------------
(* A line is typed.                                                        *)

(* Lines typed later do not change those of today.                         *)
Grown(t, u, n) == \A l \in 1 .. n : u[l] = t[l]

(* So what was said of the processes remains.                              *)
LEMMA GrownSame ==
  ASSUME NEW t, NEW u, NEW n \in Nat, Grown(t, u, n), NEW r, r.line \in 0 .. n
  PROVE  /\ PlainAt(u, r.line) <=> PlainAt(t, r.line)
         /\ IsOwner(r, u) <=> IsOwner(r, t)
         /\ IsWorker(r, u) <=> IsWorker(r, t)
         /\ r.line # 0 => (Ultimate(r, u) <=> Ultimate(r, t)) /\ u[r.line] = t[r.line]
         /\ Piped(r, u) <=> Piped(r, t)
<1>1. r.line # 0 => u[r.line] = t[r.line]
  BY DEF Grown
<1>2. PlainAt(u, r.line) <=> PlainAt(t, r.line)
  BY <1>1 DEF PlainAt
<1>3. r.line # 0 => (Ultimate(r, u) <=> Ultimate(r, t))
  BY <1>1 DEF Ultimate
<1> QED BY <1>1, <1>2, <1>3 DEF IsOwner, IsWorker, Piped

(* Of one process ...                                                      *)
LEMMA GrownShaped ==
  ASSUME NEW t, NEW u, NEW n \in Nat, Grown(t, u, n), NEW r, r.line \in 0 .. n, Shaped(r, t)
  PROVE  Shaped(r, u)
<1>1. /\ IsOwner(r, u) <=> IsOwner(r, t)
      /\ IsWorker(r, u) <=> IsWorker(r, t)
      /\ r.line # 0 => (Ultimate(r, u) <=> Ultimate(r, t)) /\ u[r.line] = t[r.line]
      /\ Piped(r, u) <=> Piped(r, t)
  BY GrownSame
<1>2. IsOwner(r, t) \/ IsWorker(r, t) \/ Piped(r, t) => r.line # 0
  BY DEF IsOwner, IsWorker, Piped, PlainAt
<1>3. r.pc = "echoM" => r.line # 0
  BY DEF Shaped
<1> QED BY <1>1, <1>2, <1>3 DEF Shaped

(* ... and of two.                                                         *)
LEMMA GrownRelated ==
  ASSUME NEW t, NEW u, NEW n \in Nat, Grown(t, u, n), NEW p, NEW r, r.line \in 0 .. n,
         NEW q, NEW k, k.line \in 0 .. n, Related(p, r, q, k, t)
  PROVE  Related(p, r, q, k, u)
<1>1. /\ IsOwner(r, u) <=> IsOwner(r, t)
      /\ IsOwner(k, u) <=> IsOwner(k, t)
      /\ IsWorker(k, u) <=> IsWorker(k, t)
      /\ r.line # 0 => (Ultimate(r, u) <=> Ultimate(r, t))
      /\ k.line # 0 => (Ultimate(k, u) <=> Ultimate(k, t))
      /\ Piped(r, u) <=> Piped(r, t)
  BY GrownSame
<1>2. IsOwner(r, t) \/ Piped(r, t) => r.line # 0
  BY DEF IsOwner, IsWorker, Piped, PlainAt
<1>3. IsCrew(k, r.line) => k.line = r.line
  BY DEF IsCrew
<1>4. Feeds(p, r, q, k, u)
  BY <1>1 DEF Related, Feeds
<1>5. Owns(p, r, q, k, u)
  BY <1>1, <1>2, <1>3 DEF Related, Owns
<1>6. Pipes(r, q, k, u)
  BY <1>1, <1>2 DEF Related, Pipes
<1> QED BY <1>4, <1>5, <1>6 DEF Related

(* What a shell is when it has read a line.                                *)
Begun(x, y, u, n) ==
  /\ x.pc = "prompt" /\ y.line = n + 1 /\ y.i = Len(u[n + 1]) /\ y.i \in Nat
  /\ y.out = x.out /\ y.kid = x.kid
  /\ \/ y.pc = "single" /\ y.i = 1 /\ y.save = x.save /\ y.ends = x.ends
     \/ y.pc = "loop" /\ y.i > 1 /\ y.save = x.out /\ y.ends \subseteq x.ends \cup {<<x.out, "w">>}

(* The action makes it that.                                               *)
LEMMA TypeFields ==
  ASSUME IInv, NEW s \in Pids, NEW line \in Lines, Type(s, line)
  PROVE  /\ Begun(proc[s], proc'[s], typed', Len(typed))
         /\ Len(typed) \in Nat /\ Grown(typed, typed', Len(typed))
         /\ proc' = [proc EXCEPT ![s] = proc'[s]]
<1> DEFINE x == proc[s]
           at == IF Len(line) = 1 THEN "single" ELSE "loop"
           saved == IF Len(line) = 1 THEN x.save ELSE x.out
           kept == IF Len(line) = 1 \/ x.out <= 0 THEN x.ends ELSE x.ends \cup {<<x.out, "w">>}
           y == [x EXCEPT !.line = Len(typed'), !.i = Len(line), !.pc = at,
                          !.save = saved, !.ends = kept]
<1>1. Len(line) \in Nat /\ Len(line) > 0
  BY ShellAssumption
<1>2. /\ Len(typed') = Len(typed) + 1 /\ Len(typed) \in Nat
      /\ typed'[Len(typed) + 1] = line
      /\ \A n \in 1 .. Len(typed) : typed'[n] = typed[n]
  BY ShellAssumption DEF Type, IInv, TypeInv
<1>3. x.pc = "prompt" /\ proc' = [proc EXCEPT ![s] = y]
  BY DEF Type
<1>4. x \in Process /\ s \in DOMAIN proc
  BY Here DEF IInv, TypeInv
<1> HIDE DEF x, at, saved, kept
<1>5. /\ y.pc = at /\ y.line = Len(typed') /\ y.i = Len(line) /\ y.save = saved
      /\ y.ends = kept /\ y.out = x.out /\ y.kid = x.kid
  BY <1>4 DEF Process
<1> HIDE DEF y
<1>6. proc'[s] = y
  BY <1>3, <1>4
<1>7. Begun(x, y, typed', Len(typed))
  <2>1. CASE Len(line) = 1
    BY <1>1, <1>2, <1>3, <1>5, <2>1 DEF at, saved, kept, Begun
  <2>2. CASE Len(line) # 1
    <3>1. y.i > 1 /\ y.i \in Nat
      <4>1. Len(line) > 1
        <5>1. \A m \in Nat : m > 0 /\ m # 1 => m > 1
          OBVIOUS
        <5> QED BY <1>1, <2>2, <5>1
      <4> QED BY <1>1, <1>5, <4>1
    <3>2. y.pc = "loop" /\ y.save = x.out /\ y.ends \subseteq x.ends \cup {<<x.out, "w">>}
      BY <1>5, <2>2 DEF at, saved, kept
    <3> QED BY <1>2, <1>3, <1>5, <3>1, <3>2 DEF Begun
  <2> QED BY <2>1, <2>2
<1> QED BY <1>2, <1>3, <1>6, <1>7 DEF Grown, x

(* The shell starts the line with nobody at work on it.                    *)
LEMMA BegunRelated ==
  ASSUME NEW t, NEW u, NEW n \in Nat, NEW s \in Pids, NEW x, NEW y, Begun(x, y, u, n),
         x.line \in 0 .. n, NEW q \in Pids \ {s}, NEW k, k.line \in 0 .. n,
         Related(s, x, q, k, u), Related(q, k, s, x, u)
  PROVE  Related(s, y, q, k, u) /\ Related(q, k, s, y, u)
<1>1. ~IsWorker(y, u) /\ \A l : ~IsCrew(y, l) /\ ~IsCrew(x, l)
  BY DEF Begun, IsWorker, IsCrew
<1>2. y.line # k.line /\ ~IsCrew(k, y.line)
  BY DEF Begun, IsCrew
<1>3. Piped(y, u) => Ultimate(y, u)
  BY <1>1 DEF Begun, Piped, Ultimate
<1>4. Born(y, q, k) /\ Born(k, s, y)
  BY DEF Begun, Related, Born
<1>5. Feeds(s, y, q, k, u)
  BY DEF Begun, Related, Feeds
<1>6. Feeds(q, k, s, y, u)
  BY <1>1 DEF Feeds
<1>7. Owns(s, y, q, k, u) /\ Owns(q, k, s, y, u)
  BY <1>1, <1>2 DEF Owns
<1>8. Pipes(y, q, k, u)
  BY <1>3 DEF Begun, Pipes
<1>9. Pipes(k, s, y, u)
  BY <1>1 DEF Related, Pipes
<1> QED BY <1>4, <1>5, <1>6, <1>7, <1>8, <1>9 DEF Related

(* It is in order by itself.                                               *)
LEMMA BegunSelf ==
  ASSUME NEW u, NEW n \in Nat, NEW s, NEW x, NEW y, Begun(x, y, u, n), Shaped(x, u)
  PROVE  Shaped(y, u) /\ Related(s, y, s, y, u)
<1>1. ~IsWorker(y, u) /\ \A l : ~IsCrew(y, l)
  BY DEF Begun, IsWorker, IsCrew
<1>2. Piped(y, u) => Ultimate(y, u)
  BY <1>1 DEF Begun, Piped, Ultimate
<1>3. Ultimate(y, u) /\ y.line # 0 /\ y.pc # "unborn" /\ y.pc # "parent"
  BY DEF Begun, Ultimate
<1>4. IsOwner(y, u) => y.pc = "loop" /\ Home(y) = x.out
  BY DEF Begun, IsOwner, OwnerPcs, Home
<1>5. x.out # Broken /\ x.out # File /\ x.save # File
  BY DEF Begun, Shaped, Home
<1>6. Shaped(y, u)
  <2>1. Len(u[y.line]) = y.i /\ y.i \in Nat /\ y.out = x.out
    BY DEF Begun
  <2>2. CASE y.pc = "single" /\ y.i = 1 /\ y.save = x.save
    <3>1. ~IsOwner(y, u) /\ ~Piped(y, u)
      BY <1>1, <2>2 DEF IsOwner, OwnerPcs, Piped
    <3> QED BY <1>1, <1>3, <1>5, <2>1, <2>2, <3>1 DEF Shaped
  <2>3. CASE y.pc = "loop" /\ y.i > 1 /\ y.save = x.out
    BY <1>1, <1>2, <1>3, <1>4, <1>5, <2>1, <2>3 DEF Shaped
  <2> QED BY <2>2, <2>3 DEF Begun
<1>7. Related(s, y, s, y, u)
  BY <1>1, <1>2, <1>3 DEF Related, Born, Feeds, Owns, Pipes
<1> QED BY <1>6, <1>7

(* A line is read.                                                         *)
LEMMA TypeCrew ==
  ASSUME IInv, CrewInv, NEW s \in Pids, NEW line \in Lines, Type(s, line)
  PROVE  CrewInv'
<1> DEFINE n == Len(typed)
           y == proc'[s]
<1>1. /\ Begun(proc[s], y, typed', n) /\ n \in Nat /\ Grown(typed, typed', n)
      /\ proc' = [proc EXCEPT ![s] = y]
  BY TypeFields
<1>2. \A q \in Pids : proc[q].line \in 0 .. n
  BY Here DEF Placed
<1>3. ASSUME NEW p \in Pids PROVE Shaped(proc[p], typed')
  <2>1. Shaped(proc[p], typed)
    BY DEF CrewInv
  <2> HIDE DEF n
  <2> QED BY <1>1, <1>2, <2>1, GrownShaped
<1>4. ASSUME NEW p \in Pids, NEW q \in Pids PROVE Related(p, proc[p], q, proc[q], typed')
  <2>1. Related(p, proc[p], q, proc[q], typed)
    BY DEF CrewInv
  <2> HIDE DEF n
  <2> QED BY <1>1, <1>2, <2>1, GrownRelated
<1> HIDE DEF n, y
<1>5. proc'[s] = y /\ \A q \in Pids \ {s} : proc'[q] = proc[q]
  BY <1>1 DEF IInv, TypeInv, y
<1>6. Shaped(y, typed') /\ Related(s, y, s, y, typed')
  BY <1>1, <1>3, BegunSelf
<1>7. ASSUME NEW q \in Pids \ {s}
      PROVE  Related(s, y, q, proc[q], typed') /\ Related(q, proc[q], s, y, typed')
  BY <1>1, <1>2, <1>4, BegunRelated
<1>8. ASSUME NEW p \in Pids PROVE Shaped(proc'[p], typed')
  BY <1>3, <1>5, <1>6
<1>9. ASSUME NEW p \in Pids, NEW q \in Pids PROVE Related(p, proc'[p], q, proc'[q], typed')
  <2>1. CASE p = s /\ q = s
    BY <1>5, <1>6, <2>1
  <2>2. CASE p = s /\ q # s
    BY <1>5, <1>7, <2>2
  <2>3. CASE p # s /\ q = s
    BY <1>5, <1>7, <2>3
  <2>4. CASE p # s /\ q # s
    BY <1>4, <1>5, <2>4
  <2> QED BY <2>1, <2>2, <2>3, <2>4
<1> QED BY <1>8, <1>9 DEF CrewInv

-----------------------------------------------------------------------------
(* Every step keeps the invariant.                                         *)

(* A process ends, by itself or killed.                                    *)
LEMMA EndsCrew ==
  ASSUME IInv, CrewInv, NEW p \in Pids, Finish(p) \/ Sigpipe(p) PROVE CrewInv'
<1>1. proc[p].pc \notin {"unborn", "zombie", "gone"}
  BY DEF Finish, Sigpipe
<1>2. PICK code \in Codes \cup {Killed} : End(p, code)
  BY DEF Finish, Sigpipe
<1> QED BY <1>1, <1>2, EndCrew

(* The steps together.                                                     *)
LEMMA StepCrew == IInv /\ CrewInv /\ [Next]_vars => CrewInv'
<1> SUFFICES ASSUME IInv, CrewInv, [Next]_vars PROVE CrewInv'
  OBVIOUS
<1>1. CASE UNCHANGED vars
  BY <1>1 DEF vars, CrewInv
<1>2. ASSUME NEW p \in Pids, Step(p) PROVE CrewInv'
  BY <1>2, PromptCrew, SingleBuiltinCrew, EchoCrew, SingleForkCrew, WaitAnyCrew,
     SingleChildCrew, ForkCrew, ParentCrew, ChildBuiltinCrew, ChildEchoCrew,
     ChildStraysCrew, ChildCrew, WaitLastCrew, WaitFailsCrew, WriteCrew, ReadCrew,
     EndsCrew DEF Step
<1>3. ASSUME NEW p \in Pids, NEW line \in Lines, Type(p, line) PROVE CrewInv'
  BY <1>3, TypeCrew
<1> QED BY <1>1, <1>2, <1>3 DEF Next

(* In every reachable state each process has its part in the plain         *)
(* pipelines, or none.                                                     *)
THEOREM CrewHolds == Spec => [](IInv /\ CrewInv)
<1>1. Init => IInv /\ CrewInv
  BY InitIInv, InitCrew
<1>2. IInv /\ CrewInv /\ [Next]_vars => (IInv /\ CrewInv)'
  BY StepIInv, StepCrew
<1> QED BY <1>1, <1>2, PTL DEF Spec

(* What a process on the line of a plain pipeline can be.                  *)
LEMMA OnTheLine ==
  ASSUME IInv, CrewInv, NEW c \in Pids, PlainAt(typed, proc[c].line)
  PROVE  IsOwner(proc[c], typed) \/ IsCrew(proc[c], proc[c].line)
<1>1. proc[c].pc \in Pcs /\ Shaped(proc[c], typed)
  BY Here DEF Process, CrewInv
<1>2. proc[c].pc \notin {"single", "echo", "wait", "childS", "echoM"}
  BY Simple
<1>3. proc[c].pc # "unborn"
  BY <1>1 DEF Shaped, PlainAt
<1> QED BY <1>1, <1>2, <1>3 DEF IsOwner, OwnerPcs, IsCrew, Pcs

(* The only program with the write end of a command's pipe is the command  *)
(* before it (multiCommand.c:42, 110 and 162-171 close the others): end of *)
(* file can reach every command of a pipeline.                             *)
THEOREM FeederAlone == Spec => []OnlyFeederWrites
<1>1. IInv /\ CrewInv => OnlyFeederWrites
  <2> SUFFICES ASSUME IInv, CrewInv, NEW q \in Pids, NEW p \in Pids,
                      proc[q].pc = "prog", Pipeline(q),
                      proc[p].pc = "prog", HasWriteEnd(p, q)
               PROVE  proc[p].line = proc[q].line /\ proc[p].i = proc[q].i - 1
    BY DEF OnlyFeederWrites
  <2>1. IsWorker(proc[q], typed)
    BY DEF IsWorker, Pipeline, PlainAt, Line
  <2>2. Feeds(p, proc[p], q, proc[q], typed)
    BY DEF CrewInv, Related
  <2>3. proc[p].out = q
    BY <2>1, <2>2 DEF Feeds, HasWriteEnd
  <2>4. proc[p].line = proc[q].line /\ proc[p].i + 1 = proc[q].i
    BY <2>1, <2>2, <2>3 DEF Feeds
  <2>5. proc[p].i \in Nat /\ proc[q].i \in Nat
    BY Here
  <2> QED BY <2>4, <2>5
<1> QED BY <1>1, CrewHolds, PTL

(* When a shell prompts after a pipeline, of which it has waited for the   *)
(* last command only (multiCommand.c:176), none of the commands can still  *)
(* write to the shell's own output.                                        *)
THEOREM NothingLeftWriting == Spec => []OutputComplete
<1>1. IInv /\ CrewInv => OutputComplete
  <2> SUFFICES ASSUME IInv, CrewInv, NEW s \in Pids, NEW c \in Pids,
                      proc[s].pc \in {"print", "prompt"}, Pipeline(s),
                      c # s, Alive(c), proc[c].line = proc[s].line, proc[c].out = proc[s].out
               PROVE  FALSE
    BY DEF OutputComplete
  <2> DEFINE r == proc[s]
             k == proc[c]
  <2>1. PlainAt(typed, r.line) /\ IsOwner(r, typed) /\ PlainAt(typed, k.line)
    BY DEF IsOwner, OwnerPcs, Pipeline, PlainAt, Line
  <2>2. Owns(s, r, c, k, typed)
    BY DEF CrewInv, Related
  <2>3. ~IsOwner(k, typed)
    BY <2>1, <2>2 DEF Owns
  <2>4. IsCrew(k, r.line)
    BY <2>1, <2>3, OnTheLine
  <2>5. IsWorker(k, typed) /\ Piped(k, typed)
    BY <2>1, <2>4 DEF IsCrew, Alive, IsWorker, Piped
  <2>6. ~Ultimate(k, typed)
    BY <2>1, <2>2, <2>4 DEF Owns, Alive
  <2>7. Shaped(k, typed) /\ Shaped(r, typed)
    BY DEF CrewInv
  <2>8. k.out # Terminal /\ k.out # File /\ k.out # Broken
    <3>1. k.out # Terminal
      BY <2>5, <2>6, <2>7 DEF Shaped
    <3>2. r.out # File /\ Home(r) # Broken
      BY <2>1, <2>7 DEF Shaped
    <3> QED BY <3>1, <3>2 DEF Home
  <2>9. k.out \in Pids
    BY <2>8, Here DEF Descriptors
  <2> DEFINE d == k.out
  <2>10. IsCrew(proc[d], r.line)
    <3>1. Pipes(k, d, proc[d], typed)
      BY <2>9 DEF CrewInv, Related
    <3> QED BY <2>5, <2>6, <3>1 DEF Pipes
  <2>11. Owns(s, r, d, proc[d], typed)
    BY <2>9 DEF CrewInv, Related
  <2>12. Home(r) = d
    BY DEF Home
  <2> QED BY <2>1, <2>10, <2>11, <2>12 DEF Owns
<1> QED BY <1>1, CrewHolds, PTL

(* The status a shell shows after a pipeline is that of its last command   *)
(* (waitpid(), multiCommand.c:176), which has been collected, whatever     *)
(* other children have ended meanwhile.                                    *)
THEOREM StatusOfLast == Spec => []PipelineStatus
<1>1. IInv /\ CrewInv => PipelineStatus
  <2> SUFFICES ASSUME IInv, CrewInv, NEW s \in Pids, NEW c \in Pids,
                      proc[s].pc \in {"print", "prompt"}, Pipeline(s),
                      proc[c].line = proc[s].line, proc[c].i = Len(Line(s))
               PROVE  proc[c].pc = "gone" /\ proc[s].status = Parse(proc[c].code)
    BY DEF PipelineStatus
  <2>1. /\ PlainAt(typed, proc[s].line) /\ IsOwner(proc[s], typed)
        /\ PlainAt(typed, proc[c].line) /\ Ultimate(proc[c], typed)
    BY DEF IsOwner, OwnerPcs, Pipeline, PlainAt, Line, Ultimate
  <2>2. Owns(s, proc[s], c, proc[c], typed)
    BY DEF CrewInv, Related
  <2>3. ~IsOwner(proc[c], typed)
    <3>1. proc[s].i = 0
      BY DEF CrewInv, Shaped
    <3>2. ~(0 > 1)
      OBVIOUS
    <3>3. proc[c].i # 0
      BY <3>2, Zenon DEF Pipeline
    <3> QED BY <2>1, <2>2, <3>1, <3>3 DEF Owns
  <2>4. IsCrew(proc[c], proc[s].line)
    BY <2>1, <2>3, OnTheLine
  <2> QED BY <2>1, <2>2, <2>4 DEF Owns
<1> QED BY <1>1, CrewHolds, PTL
=============================================================================
