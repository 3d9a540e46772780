---------------------------- MODULE Asort_proofs ----------------------------
(***************************************************************************)
(* Proofs about Asort, for any number of files and any set of faults.      *)
(***************************************************************************)
EXTENDS Asort, TLAPS

(* Until main() waits a forked child is uncollected and nothing is stored; *)
(* a file's pid tells whether there is a child; every file the wait loop   *)
(* has passed has its child collected, be it by its own waitpid() or by an *)
(* earlier one for "any child".                                            *)
Forked(f) == \/ pc = "fork" /\ f < i
             \/ pc \in {"wait", "report"} \cup Finished

PidInv == \A f \in Files :
             IF Forked(f) THEN \/ pid[f] = f /\ child[f] # "none"
                               \/ pid[f] = -1 /\ child[f] = "none"
                          ELSE child[f] = "none"

ReapInv == \A f \in Files : Collected(f) => child[f] \in {"none", "reaped"}

(* The fork loop starts with the first file, and waits for nothing.        *)
StartInv == /\ pc = "dir" => i = 1
            /\ pc \in {"dir", "fork"} => \A f \in Files : child[f] # "reaped"

(* A child is only collected early by a waitpid() for a failed fork().     *)
OrderInv == (\A f \in Files : pid[f] # -1) =>
               \A f \in Files : child[f] = "reaped" => Collected(f)

IInv == TypeOK /\ StartInv /\ PidInv /\ ReapInv /\ OrderInv /\ StatusOfItsChild

(* The exit code of every child that was collected is stored for some file *)
(* the wait loop has passed, its own or one whose fork() failed.           *)
LossInv ==
    /\ \A f \in Files :
          /\ child[f] = "none" => ended[f].code = 0
          /\ child[f] = "reaped" => \E j \in Files : Collected(j) /\ result[j] = ended[f].code
    /\ pc = "success" => \A j \in Files : result[j] = 0

-----------------------------------------------------------------------------
(* The initial states satisfy the invariant: nothing is forked yet.        *)
LEMMA InitIInv == Init => IInv
  BY AsortAssumption DEF Init, IInv, TypeOK, StartInv, PidInv, ReapInv, OrderInv, StatusOfItsChild,
     Forked, Collected, Files, Finished, Status, Exited

(* Making the directory, or failing to, forks and collects nothing.        *)
LEMMA MakeDirIInv == ASSUME IInv, NEW answer \in BOOLEAN, MakeDir(answer) PROVE IInv'
<1>1. /\ pc = "dir" /\ i = 1
      /\ pc' \in {"fork", "failed"}
      /\ sorted' \in BOOLEAN
      /\ UNCHANGED <<i, pid, result, returnStatus, child, ended>>
  BY DEF IInv, TypeOK, StartInv, MakeDir
<1>2. TypeOK' /\ StartInv'
  BY <1>1 DEF IInv, TypeOK, StartInv
<1>3. \A f \in Files : ~Forked(f) /\ ~Forked(f)' /\ ~Collected(f)'
  BY <1>1 DEF Forked, Collected, Files, Finished
<1>4. \A f \in Files : child[f] = "none" /\ child'[f] = "none"
  BY <1>1, <1>3 DEF IInv, PidInv
<1>5. PidInv' /\ ReapInv' /\ OrderInv' /\ StatusOfItsChild'
  BY <1>3, <1>4 DEF PidInv, ReapInv, OrderInv, StatusOfItsChild
<1> QED BY <1>2, <1>5 DEF IInv

(* Forking file i settles that file's pid and no other's.                  *)
LEMMA ForkIInv == ASSUME IInv, Fork PROVE IInv'
<1>1. TypeOK'
  <2>1. pid' \in [Files -> {-1, 0} \cup Files]
    BY DEF IInv, TypeOK, Fork
  <2>2. child' \in [Files -> {"none", "forked", "sorting", "ended", "reaped"}]
    BY DEF IInv, TypeOK, Fork
  <2>3. i' \in Files /\ pc' \in {"fork", "wait"}
    BY AsortAssumption DEF IInv, TypeOK, Fork, Files
  <2> QED BY <2>1, <2>2, <2>3 DEF IInv, TypeOK, Fork
<1>2. /\ \/ pid'[i] = i /\ child'[i] = "forked"
         \/ pid'[i] = -1 /\ child'[i] = child[i]
      /\ \A f \in Files \ {i} : pid'[f] = pid[f] /\ child'[f] = child[f]
      /\ UNCHANGED <<result, ended>>
  BY DEF IInv, TypeOK, Fork
<1>3. /\ i \in Files
      /\ ~Forked(i)
      /\ \A f \in Files : Forked(f)' <=> Forked(f) \/ f = i
      /\ \A f \in Files : ~Collected(f) /\ ~Collected(f)'
  BY AsortAssumption DEF IInv, TypeOK, Fork, Forked, Collected, Files, Finished
<1>4. PidInv'
  <2>1. child[i] = "none"
    BY <1>3 DEF IInv, PidInv
  <2> QED BY <1>2, <1>3, <2>1 DEF IInv, PidInv
<1>5. \A f \in Files : child'[f] # "reaped"
  BY <1>2, <1>3 DEF IInv, StartInv, Fork
<1>6. StartInv'
  BY <1>5 DEF StartInv, Fork
<1>7. ReapInv' /\ OrderInv' /\ StatusOfItsChild'
  BY <1>3, <1>5 DEF ReapInv, OrderInv, StatusOfItsChild
<1> QED BY <1>1, <1>4, <1>6, <1>7 DEF IInv

(* A wait for file i either collects its child or finds it collected.      *)
LEMMA WaitIInv == ASSUME IInv, NEW f \in Files, Wait(f) PROVE IInv'
<1>1. TypeOK' /\ StartInv'
  BY AsortAssumption DEF IInv, TypeOK, StartInv, Wait, Store, WExitStatus, Files, Finished, Status
<1>2. PidInv'
  BY AsortAssumption DEF IInv, TypeOK, PidInv, Wait, Store, Forked, Files, Finished
<1>3. ReapInv'
  BY AsortAssumption DEF IInv, TypeOK, PidInv, ReapInv, Wait, Store, Awaited, Waitable, Forked, Collected, Files, Finished
<1>4. OrderInv' /\ StatusOfItsChild'
  BY AsortAssumption DEF IInv, TypeOK, PidInv, OrderInv, StatusOfItsChild, Wait, Store,
     Awaited, Waitable, Forked, Collected, Files, Finished
<1> QED BY <1>1, <1>2, <1>3, <1>4 DEF IInv

(* A wait fails only for a file that has no uncollected child, which with  *)
(* every fork successful cannot be the file at hand.                       *)
LEMMA WaitFailsIInv == ASSUME IInv, WaitFails PROVE IInv'
<1>1. TypeOK' /\ StartInv'
  BY AsortAssumption DEF IInv, TypeOK, StartInv, WaitFails, Store, WExitStatus, Files, Finished, Status
<1>2. PidInv'
  BY AsortAssumption DEF IInv, TypeOK, PidInv, WaitFails, Store, Forked, Files, Finished
<1>3. ReapInv'
  BY AsortAssumption DEF IInv, TypeOK, PidInv, ReapInv, WaitFails, Store, Awaited, Waitable, Forked, Collected, Files, Finished
<1>4. OrderInv' /\ StatusOfItsChild'
  BY AsortAssumption DEF IInv, TypeOK, PidInv, OrderInv, StatusOfItsChild, WaitFails, Store,
     Awaited, Waitable, Forked, Collected, Files, Finished
<1> QED BY <1>1, <1>2, <1>3, <1>4 DEF IInv

(* A child that goes on or ends is not collected, so its status is not yet *)
(* stored anywhere.                                                        *)
LEMMA ChildIInv == ASSUME IInv, NEW f \in Files, Child(f) PROVE IInv'
<1>1. /\ child[f] \in {"forked", "sorting"}
      /\ child' \in [Files -> {"none", "forked", "sorting", "ended", "reaped"}]
      /\ child'[f] \in {"sorting", "ended"}
      /\ \A g \in Files \ {f} : child'[g] = child[g] /\ ended'[g] = ended[g]
      /\ ended' \in [Files -> Status]
      /\ UNCHANGED <<pc, i, sorted, pid, result, returnStatus>>
  <2>1. ASSUME NEW status \in Status, End(f, status),
               child[f] \in {"forked", "sorting"},
               UNCHANGED <<pc, i, sorted, pid, result, returnStatus>>
        PROVE  /\ child[f] \in {"forked", "sorting"}
               /\ child' \in [Files -> {"none", "forked", "sorting", "ended", "reaped"}]
               /\ child'[f] \in {"sorting", "ended"}
               /\ \A g \in Files \ {f} : child'[g] = child[g] /\ ended'[g] = ended[g]
               /\ ended' \in [Files -> Status]
    BY <2>1 DEF IInv, TypeOK, End
  <2>2. /\ Exited(0) \in Status /\ Exited(SortFailed) \in Status /\ Killed \in Status
        /\ \A code \in Undefined : Exited(code) \in Status
    BY DEF Status, Exited, Killed, Undefined, SortFailed
  <2>3. CASE Exec(f)
    BY <2>1, <2>2, <2>3 DEF IInv, TypeOK, Exec
  <2>4. CASE Sort(f)
    BY <2>1, <2>2, <2>4 DEF Sort
  <2> QED BY <2>3, <2>4 DEF Child
<1>2. TypeOK' /\ StartInv'
  BY <1>1 DEF IInv, TypeOK, StartInv
<1>3. PidInv' /\ ReapInv'
  BY <1>1 DEF IInv, PidInv, ReapInv, Forked, Collected
<1>4. OrderInv'
  BY <1>1 DEF IInv, OrderInv, Collected
<1>5. ~Collected(f)
  BY <1>1 DEF IInv, ReapInv
<1>6. StatusOfItsChild'
  BY <1>1, <1>5 DEF IInv, StatusOfItsChild, Collected
<1> QED BY <1>2, <1>3, <1>4, <1>6 DEF IInv

(* The invariant is inductive. *)
LEMMA StepIInv == IInv /\ [Next]_vars => IInv'
<1> SUFFICES ASSUME IInv, [Next]_vars PROVE IInv'
  OBVIOUS
<1>1. ASSUME NEW answer \in BOOLEAN, MakeDir(answer) PROVE IInv'
  BY <1>1, MakeDirIInv
<1>2. CASE Fork
  BY <1>2, ForkIInv
<1>3. ASSUME NEW f \in Files, Wait(f) PROVE IInv'
  BY <1>3, WaitIInv
<1>4. CASE WaitFails
  BY <1>4, WaitFailsIInv
<1>5. CASE Report
  BY <1>5 DEF IInv, TypeOK, StartInv, PidInv, ReapInv, OrderInv, StatusOfItsChild, Report,
     Forked, Collected, Finished
<1>6. ASSUME NEW f \in Files, Child(f) PROVE IInv'
  BY <1>6, ChildIInv
<1>7. CASE UNCHANGED vars
  BY <1>7 DEF vars, IInv, TypeOK, StartInv, PidInv, ReapInv, OrderInv, StatusOfItsChild, Forked, Collected
<1> QED BY <1>1, <1>2, <1>3, <1>4, <1>5, <1>6, <1>7 DEF Next, Parent

-----------------------------------------------------------------------------
(* No child is collected yet, and none has an exit code.                   *)
LEMMA InitLossInv == Init => LossInv
  BY DEF Init, LossInv, Exited

(* Storing a status for the file at hand leaves those already stored.      *)
LEMMA StoreKeeps ==
  ASSUME IInv, pc = "wait", NEW status \in Status, Store(status), NEW k \in Files, k = i
  PROVE  /\ ~Collected(k) /\ Collected(k)' /\ result'[k] = status.code
         /\ \A j \in Files : Collected(j) => Collected(j)' /\ result'[j] = result[j]
         /\ pc' # "success"
<1>1. i \in 1 .. N /\ N \in Nat /\ result \in [Files -> 0 .. 255]
  BY AsortAssumption DEF IInv, TypeOK, Files
<1>2. /\ result' = [result EXCEPT ![i] = status.code]
      /\ IF i < N THEN i' = i + 1 /\ pc' = pc ELSE i' = 1 /\ pc' = "report"
  BY DEF Store, WExitStatus
<1>3. ~Collected(k)
  BY <1>1 DEF Collected, Finished
<1>4. result'[k] = status.code
  BY <1>1, <1>2
<1>5. ASSUME NEW j \in Files, Collected(j) \/ j = k PROVE Collected(j)'
  BY <1>1, <1>2, <1>5 DEF Collected, Files, Finished
<1>6. ASSUME NEW j \in Files, Collected(j) PROVE result'[j] = result[j]
  <2>1. j # i
    BY <1>3, <1>6
  <2> QED BY <1>1, <1>2, <2>1
<1>7. pc' # "success"
  BY <1>2
<1> QED BY <1>3, <1>4, <1>5, <1>6, <1>7

(* A collected child's exit code is stored in the same step.               *)
LEMMA WaitLossInv == ASSUME IInv, LossInv, NEW f \in Files, Wait(f) PROVE LossInv'
<1>1. /\ pc = "wait" /\ child[f] = "ended" /\ Store(ended[f]) /\ ended' = ended
      /\ child' = [child EXCEPT ![f] = "reaped"]
  BY DEF Wait
<1>2. ended[f] \in Status /\ child \in [Files -> {"none", "forked", "sorting", "ended", "reaped"}]
  BY DEF IInv, TypeOK
<1>3. PICK k \in Files : k = i
  BY DEF IInv, TypeOK
<1>4. /\ Collected(k)' /\ result'[k] = ended[f].code
      /\ \A j \in Files : Collected(j) => Collected(j)' /\ result'[j] = result[j]
      /\ pc' # "success"
  BY <1>1, <1>2, <1>3, StoreKeeps
<1>5. ASSUME NEW g \in Files, child'[g] = "none" PROVE ended'[g].code = 0
  <2>1. child[g] = "none"
    BY <1>1, <1>2, <1>5
  <2> QED BY <1>1, <2>1 DEF LossInv
<1>6. ASSUME NEW g \in Files, child'[g] = "reaped"
      PROVE  \E j \in Files : Collected(j)' /\ result'[j] = ended'[g].code
  <2>1. CASE g = f
    <3>1. ended'[g].code = ended[f].code
      BY <1>1, <2>1
    <3> QED BY <1>4, <3>1
  <2>2. CASE g # f
    <3>1. child[g] = "reaped"
      BY <1>1, <1>2, <1>6, <2>2
    <3>2. PICK j \in Files : Collected(j) /\ result[j] = ended[g].code
      BY <3>1 DEF LossInv
    <3>3. Collected(j)' /\ result'[j] = ended'[g].code
      BY <1>1, <1>4, <3>2
    <3> QED BY <3>3
  <2> QED BY <2>1, <2>2
<1> QED BY <1>4, <1>5, <1>6 DEF LossInv

(* A waitpid() that fails collects nothing.                                *)
LEMMA WaitFailsLossInv == ASSUME IInv, LossInv, WaitFails PROVE LossInv'
<1>1. /\ pc = "wait" /\ Store(returnStatus) /\ UNCHANGED <<child, ended>>
  BY DEF WaitFails
<1>2. returnStatus \in Status
  BY DEF IInv, TypeOK
<1>3. PICK k \in Files : k = i
  BY DEF IInv, TypeOK
<1>4. /\ \A j \in Files : Collected(j) => Collected(j)' /\ result'[j] = result[j]
      /\ pc' # "success"
  BY <1>1, <1>2, <1>3, StoreKeeps
<1>5. ASSUME NEW g \in Files, child[g] = "reaped"
      PROVE  \E j \in Files : Collected(j)' /\ result'[j] = ended[g].code
  <2>1. PICK j \in Files : Collected(j) /\ result[j] = ended[g].code
    BY <1>5 DEF LossInv
  <2> QED BY <1>4, <2>1
<1> QED BY <1>1, <1>4, <1>5 DEF LossInv

(* No step loses an exit code.                                             *)
LEMMA StepLossInv == IInv /\ LossInv /\ [Next]_vars => LossInv'
<1> SUFFICES ASSUME IInv, LossInv, [Next]_vars PROVE LossInv'
  OBVIOUS
<1>1. ASSUME NEW answer \in BOOLEAN, MakeDir(answer) PROVE LossInv'
  <2>1. pc' # "success" /\ UNCHANGED <<i, result, child, ended>> /\ \A j : ~Collected(j)
    BY <1>1 DEF MakeDir, Collected, Finished
  <2>2. \A f \in Files : child[f] # "reaped"
    BY <2>1 DEF LossInv
  <2> QED BY <2>1, <2>2 DEF LossInv
<1>2. CASE Fork
  <2>1. pc = "fork" /\ pc' # "success" /\ UNCHANGED <<result, ended>>
    BY <1>2 DEF Fork
  <2>2. \A f \in Files : /\ child[f] # "reaped"
                         /\ child'[f] = child[f] \/ child'[f] = "forked"
    BY <1>2, <2>1 DEF Fork, IInv, TypeOK, StartInv
  <2> QED BY <2>1, <2>2 DEF LossInv
<1>3. ASSUME NEW f \in Files, Wait(f) PROVE LossInv'
  BY <1>3, WaitLossInv
<1>4. CASE WaitFails
  BY <1>4, WaitFailsLossInv
<1>5. CASE Report
  <2>1. /\ pc = "report" /\ UNCHANGED <<result, child, ended>>
        /\ pc' \in Finished
        /\ pc' = "success" => \A j \in Files : result[j] = 0
    BY <1>5 DEF Report, Failed, Finished
  <2>2. \A j : Collected(j) /\ Collected(j)'
    BY <2>1 DEF Collected, Finished
  <2> QED BY <2>1, <2>2 DEF LossInv
<1>6. ASSUME NEW f \in Files, Child(f) PROVE LossInv'
  <2>1. /\ child[f] \in {"forked", "sorting"} /\ child'[f] \in {"sorting", "ended"}
        /\ \A g \in Files \ {f} : child'[g] = child[g] /\ ended'[g] = ended[g]
        /\ UNCHANGED <<pc, i, result>>
    BY <1>6 DEF Child, Exec, Sort, End, IInv, TypeOK
  <2>2. \A g \in Files : child'[g] \in {"none", "reaped"} => child[g] = child'[g] /\ ended'[g] = ended[g]
    BY <2>1
  <2> QED BY <2>1, <2>2 DEF LossInv, Collected
<1>7. CASE UNCHANGED vars
  BY <1>7 DEF vars, LossInv, Collected
<1> QED BY <1>1, <1>2, <1>3, <1>4, <1>5, <1>6, <1>7 DEF Next, Parent

-----------------------------------------------------------------------------
(* The state of asort has its types: every stored status is an exit code.  *)
THEOREM TypeCorrect == Spec => []TypeOK
<1>1. IInv => TypeOK
  BY DEF IInv
<1> QED BY <1>1, InitIInv, StepIInv, PTL DEF Spec

(* asort.c:262-282: when asort reports, every child it forked has ended    *)
(* and been collected, for any number of files and whatever failed.        *)
THEOREM EveryChildReaped == Spec => []AllReaped
<1>1. IInv => AllReaped
  BY DEF IInv, ReapInv, AllReaped, Collected
<1> QED BY <1>1, InitIInv, StepIInv, PTL DEF Spec

(* asort.c:266-281: with every fork successful, a file's stored status is  *)
(* that of its own child, for any number of files and any order of ending. *)
THEOREM StatusBelongs == Spec => []StatusOfItsChild
<1>1. IInv => StatusOfItsChild
  BY DEF IInv
<1> QED BY <1>1, InitIInv, StepIInv, PTL DEF Spec

(* asort.c:262-321, README:40-44: success is reported only if no child     *)
(* ended with an exit code other than zero, for any number of files and    *)
(* whatever fork() or waitpid() failed.                                    *)
THEOREM NoFailureIsLost == Spec => []NoFailureLost
<1>1. IInv /\ LossInv => NoFailureLost
  <2> SUFFICES ASSUME IInv, LossInv, pc = "success", NEW f \in Files PROVE ended[f].code = 0
    BY DEF NoFailureLost
  <2>1. CASE child[f] = "none"
    BY <2>1 DEF LossInv
  <2>2. CASE child[f] = "reaped"
    <3>1. PICK j \in Files : result[j] = ended[f].code
      BY <2>2 DEF LossInv
    <3>2. result[j] = 0
      BY DEF LossInv
    <3> QED BY <3>1, <3>2
  <2>3. child[f] \in {"none", "reaped"}
    BY DEF IInv, ReapInv, Collected, Finished
  <2> QED BY <2>1, <2>2, <2>3
<1>2. Init => IInv /\ LossInv
  BY InitIInv, InitLossInv
<1>3. IInv /\ LossInv /\ [Next]_vars => IInv' /\ LossInv'
  BY StepIInv, StepLossInv
<1> QED BY <1>1, <1>2, <1>3, PTL DEF Spec
=============================================================================
