----------------------------- MODULE PodRegistry -----------------------------
(***************************************************************************)
(* What the pod registry (~/.conductor/pods.json) promises the processes   *)
(* that use it: a call of add_pod, update_pod, remove_pod or               *)
(* reconcile_with_provider takes effect at one instant between its start   *)
(* and its return, on the registry as it is then; a call that raises has   *)
(* no effect; a process that is killed leaves its call done or not done.   *)
(***************************************************************************)
CONSTANTS
  Procs,    \* processes and threads that use the registry
  Pods      \* pod ids

VARIABLES
  reg,      \* reg[p]: status of the record of pod p, "absent" when there is none
  client,   \* client[i]: "idle", "called" or, once its call took effect, "done"
  call      \* call[i]: the call i is in, NoCall when it is idle

registryVars == <<reg, client, call>>

RecordStatuses == {"running", "terminated"}

\* A call names its operation, a pod and a status; reconcile_with_provider
\* ignores the last two.
Calls == [op : {"add", "update", "remove", "reconcile"}, pod : Pods, status : RecordStatuses]

NoCall == [op |-> "none"]

Known(r) == {p \in Pods : r[p] # "absent"}

\* add_pod replaces or appends, update_pod changes a record that exists,
\* remove_pod filters.
Applied(c, r) ==
  CASE c.op = "add"    -> [r EXCEPT ![c.pod] = "running"]
    [] c.op = "update" -> [r EXCEPT ![c.pod] = IF @ = "absent" THEN "absent" ELSE c.status]
    [] c.op = "remove" -> [r EXCEPT ![c.pod] = "absent"]
    [] OTHER           -> r

\* reconcile_with_provider changes statuses only: it adds and removes no record.
Effects(c, r) ==
  IF c.op = "reconcile"
  THEN {s \in [Pods -> RecordStatuses \cup {"absent"}] : Known(s) = Known(r)}
  ELSE {Applied(c, r)}

Init ==
  /\ reg = [p \in Pods |-> "absent"]
  /\ client = [i \in Procs |-> "idle"]
  /\ call = [i \in Procs |-> NoCall]

Call(i) ==
  /\ client[i] = "idle"
  /\ \E c \in Calls : call' = [call EXCEPT ![i] = c]
  /\ client' = [client EXCEPT ![i] = "called"]
  /\ UNCHANGED reg

Perform(i) ==
  /\ client[i] = "called"
  /\ reg' \in Effects(call[i], reg)
  /\ client' = [client EXCEPT ![i] = "done"]
  /\ UNCHANGED call

\* The call returns, raises, or its process is killed.
Return(i) ==
  /\ client[i] \in {"called", "done"}
  /\ client' = [client EXCEPT ![i] = "idle"]
  /\ call' = [call EXCEPT ![i] = NoCall]
  /\ UNCHANGED reg

Next == \E i \in Procs : Call(i) \/ Perform(i) \/ Return(i)

Spec == Init /\ [][Next]_registryVars
=============================================================================
