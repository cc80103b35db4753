------------------------- MODULE RegistryFileProofs -------------------------
(***************************************************************************)
(* The registry file keeps the promise of PodRegistry, and reconciliation  *)
(* tells the truth, for any number of processes, pods and calls.           *)
(***************************************************************************)
EXTENDS RegistryFile, TLAPS

\* A pod has a record only after it was created.
Recorded == Promised!Known(disk) \subseteq {p \in Pods : cloud[p] # "none"}

\* What a reconciliation under way has put in its copy so far.
TruthfulCopy(i) ==
  /\ Promised!Known(copy[i]) = Promised!Known(disk)
  /\ unasked[i] \subseteq Promised!Known(disk)
  /\ \A p \in Pods :
       /\ disk[p] = "running" /\ copy[i][p] = "terminated" => cloud[p] = "gone"
       /\ copy[i][p] = "terminated" /\ cloud[p] = "alive" => p \in unasked[i] \cup unsure[i]

\* Where process i is and what it holds there.
Place(i) ==
  /\ step[i] \in Locked => lock = i
  /\ step[i] # "idle" => /\ call[i] \in Promised!Calls
                         /\ call[i].op = "add" => cloud[call[i].pod] # "none"
  /\ step[i] = "modify" => copy[i] = disk /\ call[i].op # "reconcile"
  /\ step[i] = "ask" => call[i].op = "reconcile" /\ TruthfulCopy(i)
  /\ step[i] = "save" /\ call[i].op = "reconcile" => TruthfulCopy(i) /\ unasked[i] = {}
  /\ step[i] = "save" /\ call[i].op # "reconcile" => copy[i] = Promised!Applied(call[i], disk)

\* Only the holder of the lock is in the locked region, and its copy is the
\* current content of the file with its own changes.
IInv == TypeOK /\ Recorded /\ \A i \in Procs : Place(i)

\* The provider's view after the step: pods are created, then go, and a pod
\* with a record is not created again.
CloudMovesOn ==
  \A p \in Pods : /\ cloud[p] # "none" => cloud'[p] # "none"
                  /\ cloud[p] = "gone" => cloud'[p] = "gone"
                  /\ cloud'[p] = "alive" /\ disk[p] # "absent" => cloud[p] = "alive"

\* Applying a call to a well-formed registry gives a well-formed registry,
\* whose only new record is that of the pod add_pod was called with.
LEMMA AppliedFacts ==
  ASSUME NEW c \in Promised!Calls, NEW r \in [Pods -> Statuses]
  PROVE  /\ Promised!Applied(c, r) \in [Pods -> Statuses]
         /\ \A p \in Pods : Promised!Applied(c, r)[p] # "absent"
              => r[p] # "absent" \/ (c.op = "add" /\ p = c.pod)
<1>1. /\ c.op \in {"add", "update", "remove", "reconcile"} /\ c.pod \in Pods
      /\ c.status \in {"running", "terminated"}
  BY DEF Promised!Calls, Promised!RecordStatuses
<1>2. CASE c.op = "add"
  BY <1>1, <1>2 DEF Promised!Applied, Statuses
<1>3. CASE c.op = "update"
  BY <1>1, <1>3 DEF Promised!Applied, Statuses
<1>4. CASE c.op = "remove"
  BY <1>1, <1>4 DEF Promised!Applied, Statuses
<1>5. CASE c.op = "reconcile"
  BY <1>5 DEF Promised!Applied
<1> QED BY <1>1, <1>2, <1>3, <1>4, <1>5

\* The place of a process survives every step that leaves its variables alone
\* and, while it is in the locked region, the file.
LEMMA PlaceSurvives ==
  ASSUME IInv, NEW k \in Procs, CloudMovesOn,
         lock = k => lock' = k, disk' = disk \/ step[k] \notin Locked,
         step'[k] = step[k], call'[k] = call[k], copy'[k] = copy[k],
         unasked'[k] = unasked[k], unsure'[k] = unsure[k]
  PROVE  Place(k)'
<1>1. step[k] \in Locked => lock' = k
  BY DEF IInv, Place
<1>2. step[k] # "idle" => /\ call[k] \in Promised!Calls
                          /\ call[k].op = "add" => cloud'[call[k].pod] # "none"
  BY DEF IInv, Place, CloudMovesOn, Promised!Calls
<1>3. disk' = disk /\ TruthfulCopy(k) => TruthfulCopy(k)'
  <2>1. ASSUME disk' = disk, TruthfulCopy(k), NEW p \in Pods
        PROVE  /\ disk[p] = "running" /\ copy[k][p] = "terminated" => cloud'[p] = "gone"
               /\ copy[k][p] = "terminated" /\ cloud'[p] = "alive"
                  => p \in unasked[k] \cup unsure[k]
    <3>1. copy[k][p] = "terminated" => disk[p] # "absent"
      BY <2>1 DEF TruthfulCopy, Promised!Known
    <3> QED BY <2>1, <3>1 DEF TruthfulCopy, CloudMovesOn
  <2> QED BY <2>1 DEF TruthfulCopy
<1>4. step[k] \in {"modify", "ask", "save"} => disk' = disk
  BY DEF Locked
<1> QED BY <1>1, <1>2, <1>3, <1>4 DEF IInv, Place

\* A process that leaves its call disturbs no other.
LEMMA LeaveKeepsInv ==
  ASSUME IInv, NEW i \in Procs, step[i] # "idle", Leave(i)
  PROVE  IInv'
<1>1. TypeOK'
  BY RegistryAssumption DEF IInv, TypeOK, Leave, FreedBy, GoTo, local
<1>2. Recorded'
  BY DEF IInv, Recorded, Leave
<1>3. Place(i)'
  BY DEF IInv, TypeOK, Leave, GoTo, Place, Locked
<1>4. ASSUME NEW k \in Procs, k # i PROVE Place(k)'
  <2>1. step'[k] = step[k] /\ call'[k] = call[k] /\ (lock = k => lock' = k)
    BY <1>4 DEF IInv, TypeOK, Leave, GoTo, FreedBy
  <2> QED BY <2>1, PlaceSurvives DEF Leave, local, CloudMovesOn
<1> QED BY <1>1, <1>2, <1>3, <1>4 DEF IInv

\* A new call may create the pod it is about to add.
LEMMA BeginKeepsInv ==
  ASSUME IInv, NEW i \in Procs, Begin(i)
  PROVE  IInv'
<1>1. TypeOK'
  BY DEF IInv, Begin, TypeOK, GoTo, local, Promised!Calls
<1>2. CloudMovesOn
  BY DEF IInv, Begin, TypeOK, Recorded, Promised!Known, CloudMovesOn
<1>3. Recorded'
  BY <1>2 DEF IInv, Begin, Recorded, Promised!Known, CloudMovesOn
<1>4. Place(i)'
  <2>1. PICK c \in Promised!Calls :
          /\ call' = [call EXCEPT ![i] = c]
          /\ \/ c.op = "add" /\ cloud[c.pod] = "none" /\ cloud' = [cloud EXCEPT ![c.pod] = "alive"]
             \/ (c.op = "add" => cloud[c.pod] # "none") /\ UNCHANGED cloud
    BY DEF Begin
  <2>2. call'[i] = c /\ c.pod \in Pods /\ step'[i] = "waiting"
    BY <2>1 DEF IInv, TypeOK, Begin, GoTo, Promised!Calls
  <2> QED BY <2>1, <2>2 DEF IInv, TypeOK, Place, Locked
<1>5. ASSUME NEW k \in Procs, k # i PROVE Place(k)'
  <2>1. step'[k] = step[k] /\ call'[k] = call[k]
    BY <1>5 DEF IInv, TypeOK, Begin, GoTo
  <2> QED BY <1>2, <2>1, PlaceSurvives DEF Begin, local
<1> QED BY <1>1, <1>3, <1>4, <1>5 DEF IInv

\* A pod that ends at the provider makes no record untrue that was not
\* written while it existed.
LEMMA PodGoesKeepsInv ==
  ASSUME IInv, NEW p \in Pods, PodGoes(p)
  PROVE  IInv'
<1>1. TypeOK'
  BY DEF IInv, PodGoes, TypeOK, local
<1>2. CloudMovesOn
  BY DEF IInv, PodGoes, TypeOK, CloudMovesOn
<1>3. Recorded'
  BY <1>2 DEF IInv, PodGoes, Recorded, Promised!Known, CloudMovesOn
<1>4. ASSUME NEW k \in Procs PROVE Place(k)'
  BY <1>2, PlaceSurvives DEF PodGoes, local
<1> QED BY <1>1, <1>3, <1>4 DEF IInv

\* The lock goes to a process only when nobody is in the locked region.
LEMMA AcquireKeepsInv ==
  ASSUME IInv, NEW i \in Procs, Acquire(i)
  PROVE  IInv'
<1>1. TypeOK'
  BY DEF IInv, Acquire, TypeOK, GoTo, local, Locked
<1>2. Recorded'
  BY DEF IInv, Acquire, Recorded
<1>3. Place(i)'
  BY DEF IInv, Acquire, TypeOK, GoTo, Place
<1>4. ASSUME NEW k \in Procs, k # i PROVE Place(k)'
  <2>1. step'[k] = step[k] /\ lock # k
    BY <1>4, RegistryAssumption DEF IInv, TypeOK, Acquire, CanLock, GoTo
  <2> QED BY <2>1, PlaceSurvives DEF Acquire, local, CloudMovesOn
<1> QED BY <1>1, <1>2, <1>3, <1>4 DEF IInv

\* The steps under the lock that leave the file alone change the holder's
\* locals only.
LEMMA LocalStepFrame ==
  ASSUME IInv, NEW i \in Procs, Load(i) \/ Modify(i) \/ Ask(i) \/ Asked(i),
         NEW k \in Procs, k # i
  PROVE  Place(k)'
<1>1. /\ step'[k] = step[k] /\ copy'[k] = copy[k]
      /\ unasked'[k] = unasked[k] /\ unsure'[k] = unsure[k]
  BY DEF IInv, TypeOK, Load, Modify, Ask, Asked, GoTo, local
<1>2. disk' = disk /\ cloud' = cloud /\ lock' = lock /\ call' = call
  BY DEF Load, Modify, Ask, Asked
<1> QED BY <1>1, <1>2, PlaceSurvives DEF CloudMovesOn

\* The copy a process has just read is the content of the file.
LEMMA LoadKeepsInv ==
  ASSUME IInv, NEW i \in Procs, Load(i)
  PROVE  IInv'
<1>1. TypeOK'
  BY DEF IInv, Load, TypeOK, GoTo, Locked, Promised!Known
<1>2. Recorded'
  BY DEF IInv, Load, Recorded
<1>3. Place(i)'
  <2>1. /\ step'[i] \in {"ask", "modify"} /\ copy'[i] = disk /\ disk' = disk /\ lock' = i
        /\ unasked'[i] = Promised!Known(disk) /\ call' = call /\ cloud' = cloud
        /\ step'[i] = "ask" <=> call[i].op = "reconcile"
    BY DEF IInv, Load, TypeOK, GoTo, Place, Locked
  <2>2. TruthfulCopy(i)'
    BY <2>1 DEF TruthfulCopy, Promised!Known
  <2> QED BY <2>1, <2>2 DEF IInv, Load, Place
<1> QED BY <1>1, <1>2, <1>3, LocalStepFrame DEF IInv

\* The bodies of add_pod, update_pod and remove_pod.
LEMMA ModifyKeepsInv ==
  ASSUME IInv, NEW i \in Procs, Modify(i)
  PROVE  IInv'
<1>1. copy'[i] = Promised!Applied(call[i], disk) /\ call[i] \in Promised!Calls
  BY DEF IInv, Modify, TypeOK, Place
<1>2. copy'[i] \in [Pods -> Statuses]
  BY <1>1, AppliedFacts DEF IInv, TypeOK
<1>3. TypeOK'
  BY <1>1, <1>2 DEF IInv, Modify, TypeOK, GoTo, Locked
<1>4. Recorded'
  BY DEF IInv, Modify, Recorded
<1>5. Place(i)'
  BY <1>1 DEF IInv, Modify, TypeOK, GoTo, Place, Locked
<1> QED BY <1>3, <1>4, <1>5, LocalStepFrame DEF IInv

\* One answer of the provider: the record of a pod becomes terminated only
\* when the pod is gone, and stays terminated only when it is gone or unknown.
LEMMA AskKeepsInv ==
  ASSUME IInv, NEW i \in Procs, Ask(i)
  PROVE  IInv'
<1>1. PICK p \in unasked[i], a \in {"exists", "gone", "none"} :
        /\ a \in Answers(p)
        /\ copy' = [copy EXCEPT ![i][p] = StatusAfterAnswer(a, @)]
        /\ unasked' = [unasked EXCEPT ![i] = @ \ {p}]
        /\ unsure' = IF a = "none" THEN [unsure EXCEPT ![i] = @ \cup {p}] ELSE unsure
  BY DEF Ask
<1>2. /\ p \in Pods /\ copy[i] \in [Pods -> Statuses] /\ cloud[p] \in {"none", "alive", "gone"}
      /\ TruthfulCopy(i) /\ call[i].op = "reconcile" /\ lock = i /\ step[i] = "ask"
  BY DEF IInv, TypeOK, Ask, Place, Locked
<1>3. copy \in [Procs -> [Pods -> Statuses]] /\ unasked \in [Procs -> SUBSET Pods]
      /\ unsure \in [Procs -> SUBSET Pods]
  BY DEF IInv, TypeOK
<1>4. /\ copy'[i] = [copy[i] EXCEPT ![p] = StatusAfterAnswer(a, copy[i][p])]
      /\ unasked'[i] = unasked[i] \ {p}
      /\ unsure'[i] = IF a = "none" THEN unsure[i] \cup {p} ELSE unsure[i]
  <2>1. copy'[i] = [copy[i] EXCEPT ![p] = StatusAfterAnswer(a, @)]
    BY <1>1, <1>3
  <2>2. unasked'[i] = unasked[i] \ {p}
    BY <1>1, <1>3
  <2>3. unsure'[i] = IF a = "none" THEN unsure[i] \cup {p} ELSE unsure[i]
    BY <1>1, <1>3
  <2> QED BY <2>1, <2>2, <2>3
<1>5. copy[i][p] \in {"running", "terminated"} /\ cloud[p] # "none" /\ disk[p] # "absent"
  BY <1>2 DEF TruthfulCopy, Promised!Known, IInv, Recorded, Statuses
<1>6. StatusAfterAnswer(a, copy[i][p]) \in {"running", "terminated"}
  BY <1>5 DEF StatusAfterAnswer
<1>7. TypeOK'
  <2>1. copy'[i] \in [Pods -> Statuses]
    BY <1>2, <1>4, <1>6 DEF Statuses
  <2>2. copy' \in [Procs -> [Pods -> Statuses]]
    BY <1>1, <1>3, <2>1
  <2>3. unasked' \in [Procs -> SUBSET Pods] /\ unsure' \in [Procs -> SUBSET Pods]
    BY <1>1, <1>2, <1>3
  <2> QED BY <2>2, <2>3 DEF IInv, TypeOK, Ask
<1>8. TruthfulCopy(i)'
  <2>1. Promised!Known(copy'[i]) = Promised!Known(disk)
    BY <1>2, <1>4, <1>5, <1>6 DEF TruthfulCopy, Promised!Known
  <2>2. ASSUME NEW q \in Pods
        PROVE  /\ disk[q] = "running" /\ copy'[i][q] = "terminated" => cloud[q] = "gone"
               /\ copy'[i][q] = "terminated" /\ cloud[q] = "alive"
                  => q \in unasked'[i] \cup unsure'[i]
    <3>1. CASE q # p
      BY <1>2, <1>4, <3>1 DEF TruthfulCopy
    <3>2. CASE q = p
      BY <1>1, <1>2, <1>4, <1>5, <3>2 DEF TruthfulCopy, Answers, StatusAfterAnswer
    <3> QED BY <3>1, <3>2
  <2> QED BY <1>2, <1>4, <2>1, <2>2 DEF TruthfulCopy, Ask, Promised!Known
<1>9. Place(i)'
  BY <1>2, <1>8 DEF IInv, Ask, Place
<1>10. Recorded'
  BY DEF IInv, Ask, Recorded
<1> QED BY <1>7, <1>9, <1>10, LocalStepFrame DEF IInv

\* The end of the loop of reconcile_with_provider.
LEMMA AskedKeepsInv ==
  ASSUME IInv, NEW i \in Procs, Asked(i)
  PROVE  IInv'
<1>1. TypeOK'
  BY DEF IInv, Asked, TypeOK, GoTo, Locked, local
<1>2. Recorded'
  BY DEF IInv, Asked, Recorded
<1>3. Place(i)'
  <2>1. TruthfulCopy(i) => TruthfulCopy(i)'
    BY DEF Asked, local, TruthfulCopy
  <2> QED BY <2>1 DEF IInv, Asked, TypeOK, GoTo, Place, Locked, local
<1> QED BY <1>1, <1>2, <1>3, LocalStepFrame DEF IInv

\* The holder of the lock replaces the file by what the promise allows.
LEMMA ReplaceIsEffect ==
  ASSUME IInv, NEW i \in Procs, Replace(i)
  PROVE  disk' \in Promised!Effects(call[i], disk)
<1>1. copy[i] \in [Pods -> Promised!RecordStatuses \cup {"absent"}] /\ disk' = copy[i]
  BY DEF IInv, TypeOK, Replace, Statuses, Promised!RecordStatuses
<1> QED BY <1>1 DEF IInv, Replace, Place, TruthfulCopy, Promised!Effects

\* No other process is in the locked region when the file is replaced.
LEMMA ReplaceKeepsInv ==
  ASSUME IInv, NEW i \in Procs, Replace(i)
  PROVE  IInv'
<1>1. TypeOK'
  BY DEF IInv, Replace, TypeOK, GoTo, Locked, local
<1>2. Recorded'
  <2>1. CASE call[i].op = "reconcile"
    BY <2>1 DEF IInv, Replace, Place, TruthfulCopy, Recorded
  <2>2. CASE call[i].op # "reconcile"
    <3>1. /\ disk' = Promised!Applied(call[i], disk) /\ call[i] \in Promised!Calls
          /\ call[i].op = "add" => cloud[call[i].pod] # "none"
      BY <2>2 DEF IInv, Replace, Place
    <3> QED BY <3>1, AppliedFacts DEF IInv, TypeOK, Recorded, Replace, Promised!Known
  <2> QED BY <2>1, <2>2
<1>3. Place(i)'
  BY DEF IInv, Replace, TypeOK, GoTo, Place, Locked
<1>4. ASSUME NEW k \in Procs, k # i PROVE Place(k)'
  <2>1. step'[k] = step[k] /\ step[k] \notin Locked
    BY <1>4 DEF IInv, Replace, TypeOK, GoTo, Place, Locked
  <2>2. step[k] \in {"idle", "waiting"}
    BY <2>1 DEF IInv, TypeOK
  <2> QED BY <2>1, <2>2 DEF IInv, Place, Replace, Locked
<1> QED BY <1>1, <1>2, <1>3, <1>4 DEF IInv

\* The invariant holds in every behaviour.
THEOREM RegistryInvariant == Spec => []IInv
<1>1. Init => IInv
  <2> SUFFICES ASSUME Init PROVE IInv OBVIOUS
  <2>1. TypeOK
    BY DEF Init, TypeOK, Statuses
  <2>2. Recorded
    BY DEF Init, Recorded, Promised!Known
  <2>3. \A i \in Procs : Place(i)
    BY DEF Init, Place, Locked
  <2> QED BY <2>1, <2>2, <2>3 DEF IInv
<1>2. IInv /\ [Next]_vars => IInv'
  <2> SUFFICES ASSUME IInv, [Next]_vars PROVE IInv' OBVIOUS
  <2>1. ASSUME NEW i \in Procs, Begin(i) PROVE IInv'
    BY <2>1, BeginKeepsInv
  <2>2. ASSUME NEW i \in Procs, Acquire(i) PROVE IInv'
    BY <2>2, AcquireKeepsInv
  <2>3. ASSUME NEW i \in Procs, Inside(i) PROVE IInv'
    <3>1. CASE Unlock(i) BY <3>1, LeaveKeepsInv DEF Unlock
    <3> QED BY <2>3, <3>1, LoadKeepsInv, ModifyKeepsInv, AskKeepsInv, AskedKeepsInv,
               ReplaceKeepsInv DEF Inside
  <2>4. ASSUME NEW i \in Procs, Raise(i) PROVE IInv'
    BY <2>4, LeaveKeepsInv DEF Raise
  <2>5. ASSUME NEW i \in Procs, Kill(i) PROVE IInv'
    BY <2>5, LeaveKeepsInv DEF Kill
  <2>6. ASSUME NEW p \in Pods, PodGoes(p) PROVE IInv'
    BY <2>6, PodGoesKeepsInv
  <2>7. CASE UNCHANGED vars
    <3>1. TypeOK' /\ Recorded'
      BY <2>7 DEF vars, local, IInv, TypeOK, Recorded
    <3>2. ASSUME NEW k \in Procs PROVE Place(k)'
      BY <2>7, PlaceSurvives DEF vars, local, CloudMovesOn
    <3> QED BY <3>1, <3>2 DEF IInv
  <2> QED BY <2>1, <2>2, <2>3, <2>4, <2>5, <2>6, <2>7 DEF Next
<1> QED BY <1>1, <1>2, PTL DEF Spec

\* The file, the copies and the program points keep their types (registry.py, all
\* four calls).
THEOREM RegistryTypeCorrect == Spec => []TypeOK
<1>1. IInv => TypeOK BY DEF IInv
<1> QED BY <1>1, RegistryInvariant, PTL

\* Every call of registry.py is atomic for its caller and for the others: the
\* file and the calls in progress behave as PodRegistry specifies.
THEOREM RegistryIsAtomic == Spec => NoLostUpdate
<1>1. Init => Promised!Init
  BY DEF Init, Promised!Init, client
<1>2. IInv /\ [Next]_vars => [Promised!Next]_Promised!registryVars
  <2> SUFFICES ASSUME IInv, [Next]_vars PROVE [Promised!Next]_Promised!registryVars OBVIOUS
  <2> USE DEF client
  <2>1. ASSUME NEW i \in Procs, Begin(i) PROVE Promised!Call(i)
    BY <2>1 DEF IInv, TypeOK, Begin, GoTo, Promised!Call
  <2>2. ASSUME NEW i \in Procs, Replace(i) PROVE Promised!Perform(i)
    BY <2>2, ReplaceIsEffect DEF IInv, TypeOK, Replace, GoTo, Promised!Perform
  <2>3. ASSUME NEW i \in Procs, step[i] # "idle", Leave(i) PROVE Promised!Return(i)
    BY <2>3 DEF IInv, TypeOK, Leave, GoTo, Promised!Return
  <2>4. ASSUME NEW i \in Procs, Acquire(i) \/ Load(i) \/ Modify(i) \/ Ask(i) \/ Asked(i)
        PROVE  UNCHANGED Promised!registryVars
    BY <2>4 DEF IInv, TypeOK, Acquire, Load, Modify, Ask, Asked, GoTo, Promised!registryVars
  <2>5. CASE UNCHANGED vars \/ \E p \in Pods : PodGoes(p)
    BY <2>5 DEF vars, PodGoes, Promised!registryVars
  <2> QED BY <2>1, <2>2, <2>3, <2>4, <2>5
          DEF Next, Inside, Unlock, Raise, Kill, Promised!Next
<1> QED BY <1>1, <1>2, RegistryInvariant, PTL DEF Spec, NoLostUpdate, Promised!Spec

\* What a reconciliation writes is true when it writes it.
THEOREM ReconciliationIsTrue == Spec => TerminatedOnlyWhenGone
<1>1. IInv /\ [Next]_vars
      => [\A i \in Procs, p \in Pods :
            /\ step[i] = "save" /\ step'[i] = "unlock" /\ call[i].op = "reconcile"
            => /\ disk[p] = "running" /\ disk'[p] = "terminated" => cloud[p] = "gone"
               /\ disk'[p] = "terminated" /\ cloud[p] = "alive" => p \in unsure[i]]_vars
  <2> SUFFICES ASSUME IInv, [Next]_vars, NEW i \in Procs, NEW p \in Pods,
                      step[i] = "save", step'[i] = "unlock", call[i].op = "reconcile"
               PROVE  /\ disk[p] = "running" /\ disk'[p] = "terminated" => cloud[p] = "gone"
                      /\ disk'[p] = "terminated" /\ cloud[p] = "alive" => p \in unsure[i]
    OBVIOUS
  <2>1. Replace(i)
    BY DEF IInv, TypeOK, Next, vars, GoTo, Begin, Acquire, Inside, Load, Modify, Ask, Asked,
           Replace, Unlock, Raise, Kill, Leave, PodGoes
  <2>2. TruthfulCopy(i) /\ unasked[i] = {}
    BY DEF IInv, Place
  <2> QED BY <2>1, <2>2 DEF Replace, TruthfulCopy
<1> QED BY <1>1, RegistryInvariant, PTL DEF Spec, TerminatedOnlyWhenGone
=============================================================================
