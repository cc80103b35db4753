---------------------------- MODULE RegistryFile ----------------------------
(***************************************************************************)
(* The pod registry as registry.py implements it: every call reads the     *)
(* whole file under an exclusive lock (filelock.locked), changes its copy  *)
(* and replaces the file.  The processes are the orchestrator, its pool    *)
(* threads and the CLI commands; any of them can be killed at any step.    *)
(***************************************************************************)
EXTENDS Integers

CONSTANTS
  Procs,      \* processes and threads that use the registry
  Pods,       \* pod ids
  NoProc,     \* nobody holds the lock
  MaxCalls    \* bound: calls per behaviour

ASSUME RegistryAssumption == NoProc \notin Procs /\ MaxCalls \in Nat

VARIABLES
  disk,       \* the records in the file: status of each pod, or "absent"
  cloud,      \* the provider's view of a pod: "none" (not created), "alive" or "gone"
  lock,       \* holder of the advisory lock, or NoProc
  step,       \* step[i]: where process i is inside a registry call
  call,       \* call[i]: the call it makes
  copy,       \* copy[i]: the list it read, with its changes
  unasked,    \* unasked[i]: records a reconciliation has still to ask about
  unsure,     \* unsure[i]: records it had no answer about
  calls       \* calls begun so far

vars == <<disk, cloud, lock, step, call, copy, unasked, unsure, calls>>
local == <<copy, unasked, unsure>>

Statuses == {"absent", "running", "terminated"}

\* The steps inside the locked region.
Locked == {"load", "modify", "ask", "save", "unlock"}

\* What a caller sees of its call.
client == [i \in Procs |-> CASE step[i] = "idle"   -> "idle"
                             [] step[i] = "unlock" -> "done"
                             [] OTHER              -> "called"]

\* The registry its callers rely on.
Promised == INSTANCE PodRegistry WITH reg <- disk

TypeOK ==
  /\ disk \in [Pods -> Statuses] /\ cloud \in [Pods -> {"none", "alive", "gone"}]
  /\ lock \in Procs \cup {NoProc}
  /\ step \in [Procs -> {"idle", "waiting"} \cup Locked]
  /\ call \in [Procs -> Promised!Calls \cup {Promised!NoCall}]
  /\ copy \in [Procs -> [Pods -> Statuses]]
  /\ unasked \in [Procs -> SUBSET Pods] /\ unsure \in [Procs -> SUBSET Pods]
  /\ calls \in Nat

Init ==
  /\ disk = [p \in Pods |-> "absent"] /\ cloud = [p \in Pods |-> "none"]
  /\ lock = NoProc
  /\ step = [i \in Procs |-> "idle"] /\ call = [i \in Procs |-> Promised!NoCall]
  /\ copy = [i \in Procs |-> disk]
  /\ unasked = [i \in Procs |-> {}] /\ unsure = [i \in Procs |-> {}]
  /\ calls = 0

GoTo(i, s) == step' = [step EXCEPT ![i] = s]

-----------------------------------------------------------------------------

\* add_pod is called with the id of a pod just created or, when it is ready or
\* adopted, of one created earlier; the others with any.
Begin(i) ==
  /\ step[i] = "idle" /\ calls < MaxCalls
  /\ \E c \in Promised!Calls :
       /\ call' = [call EXCEPT ![i] = c]
       /\ \/ c.op = "add" /\ cloud[c.pod] = "none" /\ cloud' = [cloud EXCEPT ![c.pod] = "alive"]
          \/ (c.op = "add" => cloud[c.pod] # "none") /\ UNCHANGED cloud
  /\ GoTo(i, "waiting") /\ calls' = calls + 1
  /\ UNCHANGED <<disk, lock, local>>

\* Wrong variant: a shared lock.
CanLockShared(i) == TRUE

\* flock(LOCK_EX) blocks until no other descriptor holds the lock.
CanLock(i) == lock = NoProc

Acquire(i) ==
  /\ step[i] = "waiting" /\ CanLock(i)
  /\ lock' = i /\ GoTo(i, "load")
  /\ UNCHANGED <<disk, cloud, call, local, calls>>

\* _load_unlocked, and the records a reconciliation iterates over.
Load(i) ==
  /\ step[i] = "load"
  /\ copy' = [copy EXCEPT ![i] = disk]
  /\ unasked' = [unasked EXCEPT ![i] = Promised!Known(disk)]
  /\ unsure' = [unsure EXCEPT ![i] = {}]
  /\ GoTo(i, IF call[i].op = "reconcile" THEN "ask" ELSE "modify")
  /\ UNCHANGED <<disk, cloud, lock, call, calls>>

\* The body of add_pod, update_pod or remove_pod.
Modify(i) ==
  /\ step[i] = "modify"
  /\ copy' = [copy EXCEPT ![i] = Promised!Applied(call[i], @)]
  /\ GoTo(i, "save")
  /\ UNCHANGED <<disk, cloud, lock, call, unasked, unsure, calls>>

\* The answers of check_exists about pod p, with "none" for None, an exception
\* or a provider that is not configured.
Answers(p) == {IF cloud[p] = "alive" THEN "exists" ELSE "gone", "none"}

\* Wrong variant: only an answer "exists" keeps the record running.
StatusAfterAnswerTwoValued(a, s) == IF a = "exists" THEN "running" ELSE "terminated"

\* Wrong variant: a status the readers do not know.
StatusAfterAnswerStopped(a, s) == IF a = "gone" THEN "stopped" ELSE s

StatusAfterAnswer(a, s) ==
  CASE a = "exists" /\ s = "terminated" -> "running"
    [] a = "gone"                       -> "terminated"
    [] OTHER                            -> s

\* One round of the loop of reconcile_with_provider, the lock held.
Ask(i) ==
  /\ step[i] = "ask"
  /\ \E p \in unasked[i], a \in {"exists", "gone", "none"} :
       /\ a \in Answers(p)
       /\ copy' = [copy EXCEPT ![i][p] = StatusAfterAnswer(a, @)]
       /\ unasked' = [unasked EXCEPT ![i] = @ \ {p}]
       /\ unsure' = IF a = "none" THEN [unsure EXCEPT ![i] = @ \cup {p}] ELSE unsure
  /\ UNCHANGED <<disk, cloud, lock, step, call, calls>>

Asked(i) ==
  /\ step[i] = "ask" /\ unasked[i] = {}
  /\ GoTo(i, "save")
  /\ UNCHANGED <<disk, cloud, lock, call, local, calls>>

\* _save_unlocked: write a temporary file and os.replace() the registry.
Replace(i) ==
  /\ step[i] = "save"
  /\ disk' = copy[i]
  /\ GoTo(i, "unlock")
  /\ UNCHANGED <<cloud, lock, call, local, calls>>

\* Wrong variant: the lock outlives its holder, as a lock file would.
FreedByKept(i) == lock

\* The lock after i leaves or loses the locked region; the kernel drops it
\* with the last descriptor.
FreedBy(i) == IF lock = i THEN NoProc ELSE lock

\* The call is over, however it ends.
Leave(i) ==
  /\ lock' = FreedBy(i) /\ GoTo(i, "idle")
  /\ call' = [call EXCEPT ![i] = Promised!NoCall]
  /\ UNCHANGED <<disk, cloud, local, calls>>

Unlock(i) == step[i] = "unlock" /\ Leave(i)

\* Reading, or writing the temporary file, raises: the lock is released and
\* the registry is as before.
Raise(i) == step[i] \in {"load", "save"} /\ Leave(i)

\* The process is killed inside a call; another command takes its place.
Kill(i) == step[i] # "idle" /\ Leave(i)

\* A pod ends at the provider; its id is not used again.
PodGoes(p) ==
  /\ cloud[p] = "alive"
  /\ cloud' = [cloud EXCEPT ![p] = "gone"]
  /\ UNCHANGED <<disk, lock, step, call, local, calls>>

\* The steps a process takes of itself once it has the lock.
Inside(i) == Load(i) \/ Modify(i) \/ Ask(i) \/ Asked(i) \/ Replace(i) \/ Unlock(i)

Next == \/ \E i \in Procs : Begin(i) \/ Acquire(i) \/ Inside(i) \/ Raise(i) \/ Kill(i)
        \/ \E p \in Pods : PodGoes(p)

\* A process inside the locked region runs on unless it is killed: it waits
\* for nothing but the provider, whose requests time out.
Spec == Init /\ [][Next]_vars /\ \A i \in Procs : WF_vars(Inside(i))

-----------------------------------------------------------------------------

\* Calls are atomic: the file changes by one whole call applied to its current
\* content, so no record of another process is lost, whatever the
\* interleaving, the exceptions and the kills.
NoLostUpdate == Promised!Spec

\* A reconciliation tells the truth as of the moment it writes, except for the
\* pods it had no answer about: a record becomes terminated only when the pod is
\* gone, and no pod that exists stays recorded as terminated.
TerminatedOnlyWhenGone ==
  [][\A i \in Procs, p \in Pods :
       /\ step[i] = "save" /\ step'[i] = "unlock" /\ call[i].op = "reconcile"
       => /\ disk[p] = "running" /\ disk'[p] = "terminated" => cloud[p] = "gone"
          /\ disk'[p] = "terminated" /\ cloud[p] = "alive" => p \in unsure[i]]_vars

\* The lock is never held for ever, not even by a process that was killed.
LockIsReleased == \A i \in Procs : lock = i ~> lock # i
=============================================================================
