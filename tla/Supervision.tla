---------------------------- MODULE Supervision -----------------------------
(***************************************************************************)
(* One job against the clock: what its pods cost, the budgets, the idle    *)
(* and stall timers and the confirmations that its pod is gone, over ticks,*)
(* recoveries, detached periods and retries.                               *)
(*                                                                         *)
(* A pod costs one unit of money per unit of time.  The steps of a tick    *)
(* take no time; what waits does: a pipeline, a backoff, a final sync with *)
(* its teardown, and the sleep between ticks.  Terminations succeed and    *)
(* nobody is killed: Lifecycle and StateFile are about that.               *)
(***************************************************************************)
EXTENDS Integers

CONSTANTS
  KeepOnFailure,   \* keep_pod_on_failure
  JobBudget,       \* job_budget_usd
  Budget,          \* budget_usd
  IdleTimeout,     \* idle_timeout_minutes
  StallTimeout,    \* stall_timeout_minutes
  Confirmations,   \* recovery_confirmations
  MaxAttempts,     \* max_provision_attempts
  MaxTime          \* bound: length of a behaviour

ASSUME SupervisionAssumption ==
  /\ KeepOnFailure \in BOOLEAN
  /\ JobBudget \in Nat \ {0} /\ Budget \in Nat \ {0}
  /\ IdleTimeout \in Nat /\ StallTimeout \in Nat \ {0}
  /\ Confirmations \in Nat \ {0} /\ MaxAttempts \in Nat \ {0} /\ MaxTime \in Nat

VARIABLES
  now,
  job,        \* the job's record in the state file, and its keep_pod_alive
  total,      \* total_cost_usd
  alive,      \* the job's pod runs, as the provider sees it
  proc,       \* the process on it
  place,      \* where the orchestrator is, or "off"
  first,      \* its first tick is still to come
  verdict,    \* why the job is being finished
  stopped,    \* the cost log holds a pod_stopped event of the job's pod
  released,   \* the orchestrator has let the job's pod go
  paid,       \* what the job's pods cost until they were let go
  odd         \* what happened to the job that its cost does not reflect

None  == -1
Times == 0 .. MaxTime
Live  == {"provisioning", "running", "sync_failed"}        \* deploying is provisioning
Over  == {"completed", "failed"}

JobRecord ==
  [keep : BOOLEAN, status : {"pending"} \cup Live \cup Over, pod : BOOLEAN,
   started : Times \cup {None}, finished : Times \cup {None}, cost : Times,
   idle : Times \cup {None}, stalled : Times \cup {None},
   gone : 0 .. Confirmations, attempts : 0 .. MaxAttempts]

TypeOK ==
  /\ now \in Times /\ job \in JobRecord /\ total \in Nat /\ paid \in Nat
  /\ alive \in BOOLEAN /\ first \in BOOLEAN /\ stopped \in BOOLEAN /\ released \in BOOLEAN
  /\ proc \in {"none", "busy", "quiet", "vanished", "exit0", "exit1"}
  /\ place \in {"off", "loop", "check", "asleep", "create", "deploy", "backoff", "finish", "down"}
  /\ verdict \in {"none", "job_budget", "budget", "stall", "idle", "exit0", "exit1"}
  /\ odd \subseteq {"replaced", "unbilled", "reused", "interrupted"}

FreshJob(keep) ==
  [keep |-> keep, status |-> "pending", pod |-> FALSE, started |-> None, finished |-> None, cost |-> 0,
   idle |-> None, stalled |-> None, gone |-> 0, attempts |-> 0]

Init ==
  /\ now = 0 /\ job \in {FreshJob(k) : k \in BOOLEAN} /\ total = 0 /\ paid = 0
  /\ alive = FALSE /\ proc = "none" /\ stopped = FALSE /\ released = TRUE
  /\ place = "off" /\ first = TRUE /\ verdict = "none" /\ odd = {}

pod   == <<alive, proc, released>>
tally == <<total, stopped, odd>>
vars  == <<now, job, pod, tally, place, first, verdict, paid>>

-----------------------------------------------------------------------------
(* accrue_cost                                                              *)

\* Wrong variant: the cost of an earlier attempt is not taken off.
GainFromStart(j) == IF j.started = None THEN 0 ELSE now - j.started

\* From the creation of the pod to its release.
Elapsed(j) ==
  IF j.started = None THEN 0
  ELSE (IF j.finished # None /\ j.finished < now THEN j.finished ELSE now) - j.started

\* What the job's cost, and the total with it, grow by.
Gain(j) == IF Elapsed(j) > j.cost THEN Elapsed(j) - j.cost ELSE 0

Accrued(j) == [j EXCEPT !.cost = @ + Gain(j)]

\* _mark_finished.
MarkFinished(j) ==
  IF j.started # None /\ j.finished = None THEN [j EXCEPT !.finished = now] ELSE j

-----------------------------------------------------------------------------
(* The pod, its process and the clock.                                      *)

\* What waits may wait longer.  A reclaimed pod is paid for until the orchestrator
\* learns of it.
Advance ==
  /\ now < MaxTime /\ place \notin {"loop", "check"}
  /\ now' = now + 1
  /\ paid' = IF job.pod /\ ~released /\ job.finished = None THEN paid + 1 ELSE paid
  /\ UNCHANGED <<job, pod, tally, place, first, verdict>>

\* The GPU of the process goes idle or busy, the process dies, or it exits.
ProcessMoves ==
  /\ alive /\ proc \in {"busy", "quiet"}
  /\ proc' \in {"busy", "quiet", "vanished", "exit0", "exit1"} \ {proc}
  /\ UNCHANGED <<now, job, alive, released, tally, place, first, verdict, paid>>

\* The provider takes the pod back.
SpotLoss ==
  /\ alive /\ alive' = FALSE /\ proc' = "none"
  /\ UNCHANGED <<now, job, released, tally, place, first, verdict, paid>>

NoPod == alive' = FALSE /\ proc' = "none" /\ released' = TRUE

-----------------------------------------------------------------------------
(* conductor run and the pipeline.                                          *)

\* Wrong variant: the timers of the earlier attempt stay.
ResetKeepsTimers(j) ==
  [FreshJob(j.keep) EXCEPT !.pod = j.pod, !.idle = j.idle, !.stalled = j.stalled]

\* Wrong variant: the pod of the earlier attempt is charged again.
ResetKeepsStart(j) == [FreshJob(j.keep) EXCEPT !.pod = j.pod, !.started = j.started]

\* reset_job_for_retry; the reference to a pod stays.
ResetForRetry(j) == [FreshJob(j.keep) EXCEPT !.pod = j.pod]

\* keep_pod_alive: provision_pod finds the pod of the earlier attempt.
Reuses(j) == j.pod /\ j.keep /\ alive

\* A pass of provision_pod, which drops an earlier pod; passes are counted up to
\* the number that ends the recoveries.
Pass(j) == [j EXCEPT !.status = "provisioning", !.pod = FALSE,
                     !.attempts = IF @ < MaxAttempts THEN @ + 1 ELSE @]

\* conductor run, which may retry a finished job: a pending job enters its
\* pipeline, after an earlier pod it cannot reuse is terminated.
Start ==
  /\ place = "off" /\ first' = TRUE
  /\ \E retry \in BOOLEAN :
       LET j == IF retry THEN ResetForRetry(job) ELSE job
       IN  /\ retry => job.status \in Over
           /\ CASE j.status # "pending" -> /\ place' = "loop" /\ job' = j
                                           /\ UNCHANGED <<pod, odd>>
                [] j.status = "pending" /\ Reuses(j) ->
                     /\ place' = "deploy" /\ job' = [j EXCEPT !.status = "provisioning"]
                     /\ odd' = odd \cup {"reused"} /\ UNCHANGED pod
                [] OTHER -> /\ place' = "create" /\ job' = Pass(j)
                            /\ NoPod /\ UNCHANGED odd
  /\ UNCHANGED <<now, total, stopped, verdict, paid>>

\* A candidate gives a pod: the cost counts from now, where cost_usd stands.
CreatePod ==
  /\ place = "create" /\ ~job.pod
  /\ job' = [job EXCEPT !.pod = TRUE, !.started = now]
  /\ alive' = TRUE /\ proc' = "none" /\ released' = FALSE /\ stopped' = FALSE
  /\ odd' = IF job.started = None THEN odd ELSE odd \cup {"replaced"}
  /\ UNCHANGED <<now, total, place, first, verdict, paid>>

\* It cannot be reached and is released; the next candidate is tried.
PodUnreachable ==
  /\ place = "create" /\ job.pod
  /\ job' = [job EXCEPT !.pod = FALSE] /\ NoPod
  /\ odd' = odd \cup {"unbilled"}
  /\ UNCHANGED <<now, total, stopped, place, first, verdict, paid>>

PodReady ==
  /\ place = "create" /\ job.pod /\ alive /\ place' = "deploy"
  /\ UNCHANGED <<now, job, pod, tally, first, verdict, paid>>

AfterPipeline == IF first THEN "loop" ELSE "check"

\* No candidate is left, or what follows fails and the pod is terminated: the job
\* is over without a last accrual.
PipelineFails ==
  /\ place \in {"create", "deploy"} /\ (place = "create" => ~job.pod)
  /\ job' = MarkFinished([job EXCEPT !.status = "failed"]) /\ NoPod
  /\ odd' = odd \cup {"unbilled"}
  /\ place' = AfterPipeline
  /\ UNCHANGED <<now, total, stopped, first, verdict, paid>>

\* The code is deployed and the job launched, unless its process still runs.
Launch ==
  /\ place = "deploy" /\ alive
  /\ job' = [job EXCEPT !.status = "running", !.started = IF @ = None THEN now ELSE @]
  /\ proc' = IF proc \in {"busy", "quiet"} THEN proc ELSE "busy"
  /\ place' = AfterPipeline
  /\ UNCHANGED <<now, alive, released, tally, first, verdict, paid>>

-----------------------------------------------------------------------------
(* The tick.                                                                *)

\* Begin _finish_job, or end the tick.
Finish(v) == place' = "finish" /\ verdict' = v
Resting   == place' = "check" /\ UNCHANGED verdict

\* Wrong variant: the cost of the previous tick is compared.
OverJobBudgetBefore(j) == job.cost >= JobBudget

\* The job's own budget, once its cost is up to date.
OverJobBudget(j) == j.cost >= JobBudget

\* status.running: the stall timer runs while the GPU is idle; a utilisation that
\* cannot be read clears it.
TickRunning(j) ==
  /\ alive /\ proc \in {"busy", "quiet"}
  /\ \E quiet \in {FALSE, proc = "quiet"} :
       /\ job' = [j EXCEPT !.idle = None, !.gone = 0,
                           !.stalled = IF quiet THEN (IF @ = None THEN now ELSE @)
                                                  ELSE None]
       /\ IF quiet /\ j.stalled # None /\ now - j.stalled >= StallTimeout
            THEN Finish("stall") ELSE Resting

\* The exit file tells the outcome.
TickExited(j) == alive /\ proc \in {"exit0", "exit1"} /\ job' = j /\ Finish(proc)

\* The process is gone without an exit file and the pod still exists.
TickIdle(j) ==
  /\ alive /\ proc = "vanished"
  /\ job' = [j EXCEPT !.gone = 0, !.idle = IF @ = None THEN now ELSE @]
  /\ IF j.idle # None /\ now - j.idle >= IdleTimeout THEN Finish("idle") ELSE Resting

\* The process cannot be reached; the pod exists, or no answer tells.
TickUnknown(j) ==
  /\ \/ alive /\ job' = [j EXCEPT !.gone = 0]
     \/ job' = j
  /\ Resting

\* One more answer that the pod is gone; after the last one the job fails, or the
\* pod is let go and the backoff begins.
TickGone(j) ==
  /\ ~alive
  /\ LET confirmed == j.gone + 1 >= Confirmations
         counted   == [j EXCEPT !.gone = IF confirmed THEN Confirmations ELSE @ + 1]
     IN  CASE ~confirmed -> job' = counted /\ Resting /\ UNCHANGED <<stopped, released>>
           [] confirmed /\ j.attempts >= MaxAttempts ->
                /\ job' = MarkFinished([counted EXCEPT !.status = "failed"])
                /\ Resting /\ UNCHANGED <<stopped, released>>
           [] OTHER -> /\ job' = counted /\ stopped' = TRUE /\ released' = TRUE
                       /\ place' = "backoff" /\ UNCHANGED verdict

\* _tick_job: the cost, the budget, then what the probes answer.
TickJob ==
  /\ place = "loop" /\ job.status = "running" /\ first' = FALSE
  /\ total' = total + Gain(job)
  /\ LET j == Accrued(job)
     IN  IF OverJobBudget(j)
           THEN job' = j /\ Finish("job_budget") /\ UNCHANGED <<stopped, released>>
           ELSE \/ /\ TickRunning(j) \/ TickExited(j) \/ TickIdle(j) \/ TickUnknown(j)
                   /\ UNCHANGED <<stopped, released>>
                \/ TickGone(j)
  /\ UNCHANGED <<now, alive, proc, odd, paid>>

\* A job that an earlier orchestrator left in its pipeline is charged and goes on:
\* on its pod, on a new one if it has none or it is gone, or at the next tick.
TickResume ==
  /\ place = "loop" /\ job.status = "provisioning" /\ first' = FALSE
  /\ total' = total + Gain(job)
  /\ LET j == Accrued(job)
     IN  \/ j.pod /\ alive /\ job' = j /\ place' = "deploy" /\ UNCHANGED pod
         \/ j.pod /\ ~alive /\ job' = Pass(j) /\ place' = "create" /\ NoPod
         \/ ~j.pod /\ job' = Pass(j) /\ place' = "create" /\ UNCHANGED pod
         \/ j.pod /\ job' = j /\ place' = "check" /\ UNCHANGED pod
  /\ UNCHANGED <<now, stopped, odd, verdict, paid>>

\* The end of the backoff.
Recover ==
  /\ place = "backoff"
  /\ job' = [Pass(job) EXCEPT !.gone = 0] /\ NoPod
  /\ place' = "create"
  /\ UNCHANGED <<now, tally, first, verdict, paid>>

Completes(v) == v \in {"exit0", "idle"}
Forced(v)    == v \in {"job_budget", "budget"}

\* Wrong variant: the final sync and the teardown are not charged.
FinalGainForgotten(j) == 0

\* The accrual of _finish_job, after the teardown.
FinalGain(j) == Gain(j)

\* _finish_job after the attempts of the final sync: the pod waits for a sync by
\* hand, is kept, or is released, and the cost is final.
FinishJob ==
  /\ place = "finish" /\ place' = "check" /\ verdict' = "none"
  /\ \E synced \in BOOLEAN :
       IF ~synced /\ ~Forced(verdict) /\ (Completes(verdict) \/ KeepOnFailure)
         THEN job' = [job EXCEPT !.status = "sync_failed"] /\ UNCHANGED <<pod, total, stopped>>
         ELSE LET j == [job EXCEPT !.finished = now]
              IN  /\ job' = [j EXCEPT !.cost = @ + FinalGain(j),
                               !.status = IF Completes(verdict) THEN "completed" ELSE "failed"]
                  /\ total' = total + FinalGain(j) /\ stopped' = TRUE
                  /\ IF Completes(verdict) /\ job.keep THEN UNCHANGED pod ELSE NoPod
  /\ UNCHANGED <<now, first, odd, paid>>

\* The global budget after the tick, and the end of the loop.
Check ==
  /\ place = "check"
  /\ CASE total >= Budget /\ job.status \in Live -> Finish("budget")
       [] job.status \in Live \ {"sync_failed"} /\ total < Budget ->
            place' = "asleep" /\ UNCHANGED verdict
       [] OTHER -> place' = "off" /\ UNCHANGED verdict
  /\ UNCHANGED <<now, job, pod, tally, first, paid>>

Wake ==
  /\ place = "asleep" /\ place' = "loop"
  /\ UNCHANGED <<now, job, pod, tally, first, verdict, paid>>

\* _all_done.
LoopEnds ==
  /\ place = "loop" /\ job.status \in Over \cup {"sync_failed"} /\ place' = "off"
  /\ UNCHANGED <<now, job, pod, tally, first, verdict, paid>>

-----------------------------------------------------------------------------
(* Ctrl-C and conductor teardown.                                           *)

\* The waits give way; the job stays as it is, also when its pod was let go.
Interrupt ==
  /\ place \in {"asleep", "create", "deploy", "backoff"}
  /\ place' \in {"off", "down"}
  /\ odd' = IF released /\ job.started # None THEN odd \cup {"interrupted"} ELSE odd
  /\ UNCHANGED <<now, job, pod, total, stopped, first, verdict, paid>>

\* The end of a job by hand: its cost is final from now on.
Ended(j) == [j EXCEPT !.status = "failed", !.finished = now]

\* _graceful_shutdown, after the sync and the teardown.
GracefulShutdown ==
  /\ place = "down" /\ place' = "off"
  /\ IF job.pod /\ job.started # None
       THEN /\ job' = Accrued(Ended(job)) /\ total' = total + Gain(Ended(job))
            /\ stopped' = TRUE
       ELSE job' = [job EXCEPT !.status = "failed"] /\ UNCHANGED <<total, stopped>>
  /\ IF job.keep THEN UNCHANGED pod ELSE NoPod
  /\ UNCHANGED <<now, odd, first, verdict, paid>>

\* Nothing is charged for a pod that was let go before.
AlreadyStopped(j) == j.finished # None \/ stopped

\* conductor teardown.
ManualTeardown ==
  /\ place = "off" /\ job.pod /\ NoPod
  /\ IF AlreadyStopped(job)
       THEN /\ job' = IF job.status \in Live THEN [job EXCEPT !.status = "failed"] ELSE job
            /\ UNCHANGED <<total, stopped>>
       ELSE /\ job' = [Accrued([job EXCEPT !.finished = now])
                         EXCEPT !.status = IF @ \in Live THEN "failed" ELSE @]
            /\ total' = total + Gain([job EXCEPT !.finished = now])
            /\ stopped' = TRUE
  /\ UNCHANGED <<now, place, first, odd, verdict, paid>>

-----------------------------------------------------------------------------

Pipeline == CreatePod \/ PodUnreachable \/ PodReady \/ PipelineFails \/ Launch
Tick     == TickJob \/ TickResume \/ Recover \/ FinishJob \/ Check \/ Wake \/ LoopEnds

\* The bound on time is reached and nothing runs.
Done == now = MaxTime /\ UNCHANGED vars

Next ==
  \/ Advance \/ ProcessMoves \/ SpotLoss
  \/ Start \/ Pipeline \/ Tick
  \/ Interrupt \/ GracefulShutdown \/ ManualTeardown
  \/ Done

Spec == Init /\ [][Next]_vars

-----------------------------------------------------------------------------

\* No hour is charged twice: over recoveries, detached periods, retries, kept pods
\* and teardowns by hand, the total stays within what the pods cost until they were
\* let go.  (Unless Ctrl-C comes when the job is between two pods: the next run then
\* charges the time it was away.)
NeverCountsTwice == "interrupted" \notin odd => total <= paid

\* The total is all there was to pay for a job that is over: the wait for the pod,
\* the time a detached run was away, the final sync and the teardown included.
\* (Pods that were replaced in one attempt, failed pipelines and the pipeline on a
\* kept pod are not charged.)
TotalIsTruth == odd = {} /\ job.status \in Over => total = paid

\* A tick that leaves the job running leaves its pod below the job's budget, also
\* when earlier pods of the job have cost something.
PodStaysInBudget ==
  [][place = "loop" /\ place' = "check" /\ job'.status = "running"
       => now - job'.started < JobBudget]_vars

\* A job is failed for a stall, or completed because its process vanished, only on
\* a pod it has had for as long as the timer says.  (A timer survives a recovery.)
VerdictIsEarned ==
  "replaced" \notin odd =>
    /\ verdict = "stall" => now - job.started >= StallTimeout
    /\ verdict = "idle"  => now - job.started >= IdleTimeout

\* The total that is compared with the budgets holds every pod a completed job ran
\* on, the ones that were reclaimed under it included.
CompletedIsPaidFor ==
  job.status = "completed" /\ odd \subseteq {"replaced"} => total = paid
=============================================================================
