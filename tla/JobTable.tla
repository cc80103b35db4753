------------------------------ MODULE JobTable ------------------------------
(***************************************************************************)
(* The job table of a run (state.RunState.jobs): the record kept for every *)
(* job and the pure operations on the whole table that the orchestrator    *)
(* and the command line apply to it.  A table is a function from Jobs to   *)
(* JobRecord.                                                              *)
(*                                                                         *)
(* Jobs are numbered by their position in state.jobs, the order in which   *)
(* every loop of the orchestrator visits them.  (A job that is merged into *)
(* an existing file is appended to it; the number stays the one it has in  *)
(* the configuration.)                                                     *)
(***************************************************************************)
EXTENDS Integers

CONSTANTS
  NJobs,          \* number of jobs in the configuration file
  Deps,           \* Deps[j]: the jobs that j names in depends_on
  KeepAlive,      \* the jobs with keep_pod_alive = true
  Pods,           \* pod ids the provider can hand out
  NoPod           \* the value None of a pod id

Jobs == 1 .. NJobs

\* What the validator guarantees of the configuration (_check_dependencies),
\* and None is not a pod id.
ASSUME ConstantsAssumption ==
  /\ NJobs \in Nat \ {0}
  /\ Deps \in [Jobs -> SUBSET Jobs]
  /\ KeepAlive \subseteq Jobs
  /\ NoPod \notin Pods

\* _check_dependencies rejects a configuration with a dependency cycle.
ASSUME AcyclicAssumption ==
  \A S \in (SUBSET Jobs) \ {{}} : \E j \in S : Deps[j] \cap S = {}

\* "absent": the state file has no entry for the job, because no `conductor run`
\* selected it yet.
Statuses == {"absent", "pending", "provisioning", "deploying", "running",
             "completed", "failed", "skipped", "sync_failed"}

\* Wrong variant: sync_failed is not final.
TerminalStatusesNoSync == {"completed", "failed", "skipped"}

\* TERMINAL_STATUSES: the run loop ends when every job has one of these.
TerminalStatuses == {"completed", "failed", "skipped", "sync_failed"}

\* The statuses a monitor tick looks at.
TickedStatuses == {"running", "provisioning", "deploying"}

\* live_pods / state.LIVE_STATUSES: the pod exists and is billing.
LiveStatuses == TickedStatuses \cup {"sync_failed"}

\* PodState, reduced to the fields that steer control flow.  ssh, pid and
\* started say whether ssh_host, pid and started_at are set, not their values.
JobRecord == [status   : Statuses,
              pod      : Pods \cup {NoPod},
              ssh      : BOOLEAN,
              pid      : BOOLEAN,
              started  : BOOLEAN,        \* started_at is set
              attempts : Nat,            \* provision_attempts
              gone     : Nat]            \* gone_confirmations

FreshJob == [status |-> "pending", pod |-> NoPod, ssh |-> FALSE, pid |-> FALSE,
             started |-> FALSE, attempts |-> 0, gone |-> 0]

AbsentJob == [FreshJob EXCEPT !.status = "absent"]

-----------------------------------------------------------------------------

\* The jobs an outcome of the jobs F reaches through pending dependents only:
\* _propagate_failure recurses from a job into its direct dependents that are
\* still pending, so a finished or running dependent stops the propagation.
\* They are the least set that holds F and every pending job with a
\* dependency in it.
ReachedBy(m, F) ==
  {k \in Jobs : \A S \in SUBSET Jobs :
     /\ F \subseteq S
     /\ \A i \in Jobs : m[i].status = "pending" /\ Deps[i] \cap S # {} => i \in S
     => k \in S}

\* _propagate_failure applied to every job of F.
PropagateFailure(m, F) ==
  [k \in Jobs |-> IF m[k].status = "pending" /\ k \in ReachedBy(m, F)
                  THEN [m[k] EXCEPT !.status = "skipped"]
                  ELSE m[k]]

SetStatus(m, j, s) == [m EXCEPT ![j].status = s]

\* The table after job j ended as failed, its pending dependents skipped.
FailJob(m, j) == PropagateFailure(SetStatus(m, j, "failed"), {j})

\* Wrong variant: the scan relies on the propagation alone.
SkipBlockedNever(m, C) == m

\* The scan of _start_unblocked_jobs over the configured jobs C: the pending
\* ones with a failed or skipped dependency are skipped, and so is what
\* follows them.
SkipBlocked(m, C) ==
  PropagateFailure(m, {k \in C : /\ m[k].status = "pending"
                                 /\ \E d \in Deps[k] : m[d].status \in {"failed", "skipped"}})

\* Wrong variant: a dependency that has not failed counts as met.
ReadyJobsUnlessFailed(m, C) ==
  {k \in C : /\ m[k].status = "pending"
             /\ \A d \in Deps[k] : m[d].status \notin {"pending", "failed", "skipped"}}

\* The pending jobs whose dependencies all completed (_deps_met).
ReadyJobs(m, C) ==
  {k \in C : /\ m[k].status = "pending"
             /\ \A d \in Deps[k] : m[d].status = "completed"}

\* _all_done, over the jobs the table has.
AllDone(m) == \A k \in Jobs : m[k].status \in TerminalStatuses \cup {"absent"}

-----------------------------------------------------------------------------

\* The jobs C get an entry if they have none: init_state, or the merge of new
\* jobs into an existing file.
Merge(m, C) ==
  [k \in Jobs |-> IF k \in C /\ m[k].status = "absent"
                  THEN [m[k] EXCEPT !.status = "pending"] ELSE m[k]]

\* reset_job_for_retry
ResetForRetry(r, keep) ==
  [FreshJob EXCEPT !.pod = IF keep THEN r.pod ELSE NoPod,
                   !.ssh = keep /\ r.ssh]

\* _apply_retry_flags over the configured jobs C, with flags the statuses that
\* --retry-failed and --retry-completed name.  A job that references a pod
\* keeps it, except a skipped one.
ApplyRetryFlags(m, C, flags) ==
  [k \in Jobs |->
     IF k \in C /\ m[k].status \in flags
     THEN ResetForRetry(m[k], \/ m[k].status = "completed" /\ k \in KeepAlive
                              \/ m[k].pod # NoPod)
     ELSE IF k \in C /\ m[k].status = "skipped" /\ "failed" \in flags
     THEN ResetForRetry(m[k], FALSE)
     ELSE m[k]]
=============================================================================
