-------------------------------- MODULE Asort --------------------------------
(***************************************************************************)
(* asort of src/Program-3: a sort process for each argument, all started   *)
(* before the first is waited for, and a report of how each one ended.     *)
(***************************************************************************)
EXTENDS Integers, FiniteSets

CONSTANTS N,            \* argc - 1, the number of files
          Faults        \* what may go wrong: "fork", "exec", "signal", "mkdir"

ASSUME AsortAssumption == /\ N \in Nat \ {0}
                          /\ Faults \subseteq {"fork", "exec", "signal", "mkdir"}

VARIABLES pc,           \* where main() is
          i,            \* its loop variable
          sorted,       \* whether the directory SORTED exists
          pid,          \* pData[].pid: the child's file, or -1
          result,       \* pData[].returnStatus
          returnStatus, \* what the last successful waitpid() stored
          child,        \* the process forked for each file
          ended         \* history: the wait status of each child

vars == <<pc, i, sorted, pid, result, returnStatus, child, ended>>

Files == 1 .. N

(* A wait status.  WEXITSTATUS is the exit code if there is one; of a      *)
(* child that a signal killed it takes the same bits, which are zero.      *)
Exited(code) == [signal |-> FALSE, code |-> code]
Killed == [signal |-> TRUE, code |-> 0]
RawStatus(status) == 256 * status.code       \* mutant: no WEXITSTATUS
WExitStatus(status) == status.code

(* sort exits with 0 or 2.  A failed exec ends in `return;` from main(),   *)
(* which leaves the exit code undefined.                                   *)
SortFailed == 2
Undefined == {0, 1}

Init == /\ pc = "dir"
        /\ i = 1
        /\ sorted \in BOOLEAN
        /\ pid = [f \in Files |-> 0]
        /\ result = [f \in Files |-> 0]
        /\ returnStatus = Exited(0)
        /\ child = [f \in Files |-> "none"]
        /\ ended = [f \in Files |-> Exited(0)]

-----------------------------------------------------------------------------
(* doesDirExist(): when stat() fails it tests a buffer nothing was written *)
(* to, so a missing directory may be taken for one that is there.          *)
DirExists(answer) == sorted => answer

(* The start of main(): make the directory unless it seems to be there.    *)
MakeDir(answer) ==
    /\ pc = "dir"
    /\ DirExists(answer)
    /\ \/ answer /\ pc' = "fork" /\ UNCHANGED sorted
       \/ ~answer /\ pc' = "fork" /\ sorted' = TRUE
       \/ ~answer /\ "mkdir" \in Faults /\ pc' = "failed" /\ UNCHANGED sorted
    /\ UNCHANGED <<i, pid, result, returnStatus, child, ended>>

(* One turn of the fork loop; the result of fork() is stored unchecked.    *)
Fork ==
    /\ pc = "fork"
    /\ \/ /\ pid' = [pid EXCEPT ![i] = i]
          /\ child' = [child EXCEPT ![i] = "forked"]
       \/ /\ "fork" \in Faults
          /\ pid' = [pid EXCEPT ![i] = -1]
          /\ UNCHANGED child
    /\ IF i < N THEN i' = i + 1 /\ UNCHANGED pc
                ELSE i' = 1 /\ pc' = "wait"
    /\ UNCHANGED <<sorted, result, returnStatus, ended>>

(* waitpid(): pid -1 stands for any child.                                 *)
Waitable(f) == child[f] \in {"forked", "sorting", "ended"}
Awaited == {f \in Files : Waitable(f) /\ (pid[i] = f \/ pid[i] = -1)}
Store(status) == /\ result' = [result EXCEPT ![i] = WExitStatus(status)]
                 /\ IF i < N THEN i' = i + 1 /\ UNCHANGED pc
                             ELSE i' = 1 /\ pc' = "report"

(* Mutants: wait for whichever child ends first; stop one file early;      *)
(* try again when there is no such child.                                  *)
WaitFirst(f) == /\ pc = "wait"
                /\ child[f] = "ended"
                /\ child' = [child EXCEPT ![f] = "reaped"]
                /\ returnStatus' = ended[f]
                /\ Store(ended[f])
                /\ UNCHANGED <<sorted, pid, ended>>
WaitShort(f) == /\ pc = "wait"
                /\ f \in Awaited
                /\ child[f] = "ended"
                /\ child' = [child EXCEPT ![f] = "reaped"]
                /\ returnStatus' = ended[f]
                /\ result' = [result EXCEPT ![i] = WExitStatus(ended[f])]
                /\ IF i < N - 1 THEN i' = i + 1 /\ UNCHANGED pc
                                ELSE i' = 1 /\ pc' = "report"
                /\ UNCHANGED <<sorted, pid, ended>>
WaitAgain == /\ pc = "wait"
             /\ Awaited = {}
             /\ UNCHANGED vars

Wait(f) == /\ pc = "wait"
           /\ f \in Awaited
           /\ child[f] = "ended"
           /\ child' = [child EXCEPT ![f] = "reaped"]
           /\ returnStatus' = ended[f]
           /\ Store(ended[f])
           /\ UNCHANGED <<sorted, pid, ended>>

(* waitpid() fails; its result is not looked at, and the status of an      *)
(* earlier child is stored for this file.                                  *)
WaitFails == /\ pc = "wait"
             /\ Awaited = {}
             /\ Store(returnStatus)
             /\ UNCHANGED <<sorted, pid, returnStatus, child, ended>>

(* The report: a file failed if its stored status is not zero.             *)
FailedButLast == {f \in 1 .. N - 1 : result[f] # 0}   \* mutant: one file short
Failed == {f \in Files : result[f] # 0}
Report == /\ pc = "report"
          /\ pc' = IF Failed = {} THEN "success" ELSE "counted"
          /\ UNCHANGED <<i, sorted, pid, result, returnStatus, child, ended>>

-----------------------------------------------------------------------------
(* The child: it execs sort ... *)
End(f, status) == /\ child' = [child EXCEPT ![f] = "ended"]
                  /\ ended' = [ended EXCEPT ![f] = status]

Exec(f) == /\ child[f] = "forked"
           /\ \/ child' = [child EXCEPT ![f] = "sorting"] /\ UNCHANGED ended
              \/ "exec" \in Faults /\ \E code \in Undefined : End(f, Exited(code))
           /\ UNCHANGED <<pc, i, sorted, pid, result, returnStatus>>

(* ... which sorts the file into SORTED, or fails, or is killed.           *)
Sort(f) == /\ child[f] = "sorting"
           /\ \/ sorted /\ End(f, Exited(0))
              \/ End(f, Exited(SortFailed))
              \/ "signal" \in Faults /\ End(f, Killed)
           /\ UNCHANGED <<pc, i, sorted, pid, result, returnStatus>>

Parent == \/ \E answer \in BOOLEAN : MakeDir(answer)
          \/ Fork
          \/ \E f \in Files : Wait(f)
          \/ WaitFails
          \/ Report

Child(f) == Exec(f) \/ Sort(f)

Next == Parent \/ \E f \in Files : Child(f)

Spec == Init /\ [][Next]_vars

(* The operating system runs every process, and sort ends.                 *)
FairSpec == /\ Spec
            /\ WF_vars(Parent)
            /\ \A f \in Files : WF_vars(Child(f))

-----------------------------------------------------------------------------
Status == [signal : BOOLEAN, code : 0 .. 255]
Finished == {"success", "counted"}

(* The state has its types; a stored status is an exit code.               *)
TypeOK == /\ pc \in {"dir", "fork", "wait", "report", "failed"} \cup Finished
          /\ i \in Files
          /\ sorted \in BOOLEAN
          /\ pid \in [Files -> {-1, 0} \cup Files]
          /\ result \in [Files -> 0 .. 255]
          /\ returnStatus \in Status
          /\ child \in [Files -> {"none", "forked", "sorting", "ended", "reaped"}]
          /\ ended \in [Files -> Status]

(* README:36, "the parent [...] should wait for the completion of all its  *)
(* children": when it reports, every child has ended and been collected,   *)
(* whichever forks failed and in whatever order the others ended           *)
(* (asort.c:262-282).                                                      *)
AllReaped == pc \in {"report"} \cup Finished =>
                 \A f \in Files : child[f] \in {"none", "reaped"}

(* While every fork() succeeds, the status stored for a file is that of    *)
(* the child that sorted it, in whatever order they end (asort.c:266-281). *)
Collected(f) == \/ pc = "wait" /\ f < i
                \/ pc \in {"report"} \cup Finished
StatusOfItsChild ==
    (\A f \in Files : pid[f] # -1) =>
        \A f \in Files : Collected(f) => result[f] = WExitStatus(ended[f])

(* README:40-44: success is reported only if no sort, or child that could  *)
(* not become one, ended with an exit code that says it failed.  No such   *)
(* code gets lost, though a failed fork() has waitpid() collect another    *)
(* file's child, and one that fails leaves an old status (asort.c:266).  A *)
(* killed child has no code, and counts as success (asort.c:274-281).      *)
NoFailureLost == pc = "success" => \A f \in Files : ended[f].code = 0

(* asort ends, whatever fails: an unchecked fork() or waitpid() never      *)
(* leaves it waiting (asort.c:233-282).                                    *)
Terminates == <>(pc \in {"failed"} \cup Finished)
=============================================================================
