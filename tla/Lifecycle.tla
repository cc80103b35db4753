------------------------------ MODULE Lifecycle ------------------------------
(***************************************************************************)
(* The life of a run under `conductor run`: the orchestrator process with  *)
(* its main loop and its parallel provision-deploy-launch pipelines, the   *)
(* state file it leaves behind, the pod registry and the cost log, the     *)
(* provider's pods and the job processes on them, over several invocations *)
(* of the command separated by clean exits, detaches, crashes and kills.   *)
(*                                                                         *)
(* One orchestrator runs at a time (the heartbeat lock is a component of   *)
(* its own).  Time, money and log texts are left out: a timeout or a       *)
(* budget that is reached is a choice, as is every answer of the provider  *)
(* and of SSH.  Each unfavourable choice is an event of a kind in Hazards  *)
(* and uses up one of MaxHazards.                                          *)
(***************************************************************************)
EXTENDS JobTable, FiniteSets

CONSTANTS
  KeepOnFailure,   \* the jobs with keep_pod_on_failure = true
  TeardownOnCrash, \* the jobs with teardown_on_crash = true
  MaxAttempts,     \* max_provision_attempts
  Passes,          \* provision_retries
  Confirmations,   \* recovery_confirmations
  Hazards,         \* the kinds of unfavourable event a behaviour may contain
  MaxHazards,      \* bound: how many of them
  MaxRuns          \* bound: how many invocations of `conductor run`

ASSUME BoundsAssumption ==
  /\ KeepOnFailure \subseteq Jobs /\ TeardownOnCrash \subseteq Jobs
  /\ MaxAttempts \in Nat /\ Passes \in Nat /\ Confirmations \in Nat
  /\ MaxHazards \in Nat /\ MaxRuns \in Nat

VARIABLES
  \* files
  file,       \* the job table in the state file
  registry,   \* ~/.conductor/pods.json: status of each pod, or "absent"
  events,     \* the cost log, as a set of <<kind, pod>>
  \* the orchestrator process
  mem,        \* the job table in memory
  phase,      \* where the main thread is
  cursor,     \* the job the main thread's current loop looks at next
  cfgs,       \* the jobs selected with --jobs (config_map)
  shut,       \* Ctrl-C: "no", "detach" or "teardown"
  insts,      \* reconcile: listed instances still to be matched
  pc,         \* pc[j]: the step of the function running for job j
  reuse,      \* jobs whose pipeline computed is_reuse
  adopt,      \* jobs whose pipeline computed adopt
  newpod,     \* newpod[j]: id returned by create_instance, not yet persisted
  pass,       \* pass[j]: pass over the GPU candidates in provision_pod
  fin,        \* arguments and locals of the running _finish_job
  \* the provider and the pods
  alive,      \* the pods that exist and bill
  owner,      \* owner[p]: the job in the pod's name, 0 if p was never created
  tried,      \* pods for which a terminate call was issued
  remote,     \* remote[p]: job processes and files on the pod
  \* bookkeeping
  synced,     \* jobs whose latest process had its results pulled at the end
  known,      \* pods whose id was persisted, or read back from a listing
  runs, hazards

files    == <<file, registry, events>>
pipeline == <<reuse, adopt, newpod, pass>>
control  == <<phase, cursor, cfgs, shut, insts>>
cloud    == <<alive, owner, tried, known>>
bounds   == <<runs, hazards>>
vars == <<files, mem, control, pc, pipeline, fin, cloud, remote, synced, bounds>>

-----------------------------------------------------------------------------

Phases == {"down", "reconcile", "matching", "start", "starting", "ticking",
           "unblocking", "leaving", "budget", "crashing", "graceful", "exit", "manual"}

Steps == {"idle",
          \* _pipeline, provision_pod and provision_pod_direct
          "begin", "resume", "adopt", "provision", "create", "next", "created",
          "persisted", "sshwait", "release", "release_auth", "ready", "deploy",
          "launch", "launched", "abort", "abort_tick", "except",
          \* _finish_job and _spot_recover
          "final_sync", "teardown", "record", "recover", "backoff"}

\* The files on a pod that the runner reads, and how many copies of the job
\* command are running there.
NoRemote == [deployed |-> FALSE, setup |-> FALSE, copies |-> 0, pidfile |-> FALSE,
             exit |-> "none", unready |-> FALSE]

RemoteState == [deployed : BOOLEAN,                  \* the code was uploaded
                setup    : BOOLEAN,                  \* setup_command ran to its end
                copies   : Nat,
                pidfile  : BOOLEAN,                  \* .conductor_pid
                exit     : {"none", "ok", "bad"},    \* .conductor_exit
                unready  : BOOLEAN]                  \* a copy started before deploy and setup

TypeOK ==
  /\ file \in [Jobs -> JobRecord] /\ mem \in [Jobs -> JobRecord]
  /\ registry \in [Pods -> {"absent", "running", "terminated"}]
  /\ events \subseteq {"started", "stopped", "orphaned"} \X (Pods \cup {NoPod})
  /\ phase \in Phases /\ cursor \in 1 .. NJobs + 1 /\ cfgs \subseteq Jobs
  /\ shut \in {"no", "detach", "teardown"} /\ insts \subseteq Pods
  /\ pc \in [Jobs -> Steps]
  /\ reuse \subseteq Jobs /\ adopt \subseteq Jobs
  /\ newpod \in [Jobs -> Pods \cup {NoPod}] /\ pass \in [Jobs -> Nat]
  /\ fin \in [goal : {"completed", "failed"}, force : BOOLEAN, torn : BOOLEAN]
  /\ alive \subseteq Pods /\ owner \in [Pods -> Jobs \cup {0}] /\ tried \subseteq Pods
  /\ remote \in [Pods -> RemoteState] /\ synced \subseteq Jobs /\ known \subseteq Pods
  /\ runs \in Nat /\ hazards \in Nat

NoFinish == [goal |-> "failed", force |-> FALSE, torn |-> FALSE]

Init ==
  /\ file = [j \in Jobs |-> AbsentJob] /\ mem = file
  /\ registry = [p \in Pods |-> "absent"] /\ events = {}
  /\ phase = "down" /\ cursor = 1 /\ cfgs = Jobs /\ shut = "no" /\ insts = {}
  /\ pc = [j \in Jobs |-> "idle"] /\ reuse = {} /\ adopt = {}
  /\ newpod = [j \in Jobs |-> NoPod] /\ pass = [j \in Jobs |-> 0] /\ fin = NoFinish
  /\ alive = {} /\ owner = [p \in Pods |-> 0] /\ tried = {}
  /\ remote = [p \in Pods |-> NoRemote] /\ synced = {} /\ known = {}
  /\ runs = 0 /\ hazards = 0

-----------------------------------------------------------------------------
(* What the environment may answer.                                         *)

\* An unfavourable event of kind k happens in this step, or none does.
Adverse(k) == k \in Hazards /\ hazards < MaxHazards /\ hazards' = hazards + 1
NoHazard   == UNCHANGED hazards

\* teardown_pod: terminate, retried, then poll until the provider confirms.
\* ok is the function's result: TRUE only when the provider said that the pod
\* is gone; after FALSE it may exist or not.
Terminate(p, ok) ==
  /\ tried' = tried \cup {p}
  /\ \/ ok  /\ alive' = alive \ {p} /\ NoHazard
     \/ ~ok /\ alive' \in {alive, alive \ {p}} /\ Adverse("terminate")

\* registry.update_pod changes a record that exists and adds none.
RegistryUpdate(reg, p, s) ==
  IF p = NoPod \/ reg[p] = "absent" THEN reg ELSE [reg EXCEPT ![p] = s]

\* registry.add_pod
RegistryAdd(reg, p) == [reg EXCEPT ![p] = "running"]

\* Wrong variant: no answer counts as "gone".
SaysGoneOrUnknown(p) == p \in Pods /\ (p \notin alive \/ "check" \in Hazards)

\* check_pod_exists answers False.
SaysGone(p) == p \in Pods \ alive

Idle == \A j \in Jobs : pc[j] = "idle"

\* The function running for job j is at step s, and goes to it.
At(j, s)   == pc[j] = s
Goto(j, s) == pc' = [pc EXCEPT ![j] = s]

\* save_state of the table as this step leaves it.
Save == file' = mem'

\* SSH to the job's pod works (when the network does).
Reachable(j) == mem[j].ssh /\ mem[j].pod \in alive

-----------------------------------------------------------------------------
(* `conductor run`: start, reconcile, main loop, exit.                      *)

\* cmd_run on the selected jobs C with the retry flags, up to the first
\* heartbeat of run_lifecycle, which saves the table.  Selected jobs that the
\* state file does not have are added to it.
Run(C, flags) ==
  /\ phase = "down" /\ runs < MaxRuns
  /\ C # {} /\ \A j \in C : Deps[j] \subseteq C      \* else validation fails
  /\ C = Jobs \/ "subset" \in Hazards
  /\ CASE flags # {} -> Adverse("retry")
       [] flags = {} /\ C # Jobs -> Adverse("subset")
       [] OTHER -> NoHazard
  /\ mem' = ApplyRetryFlags(Merge(file, C), C, flags) /\ Save
  /\ phase' = "reconcile" /\ cfgs' = C /\ shut' = "no" /\ runs' = runs + 1
  /\ UNCHANGED <<registry, events, cursor, insts, pc, pipeline, fin, cloud, remote, synced>>

\* reconcile_run_pods: list_instances, whose failure is only logged.
ListInstances ==
  /\ phase = "reconcile"
  /\ \/ insts' = alive /\ NoHazard
     \/ insts' = {} /\ Adverse("list")
  /\ phase' = "matching"
  /\ UNCHANGED <<files, mem, cursor, cfgs, shut, pc, pipeline, fin, cloud, remote, synced, runs>>

\* _terminate_stray
TerminateStray(p) ==
  /\ \E ok \in BOOLEAN :
        /\ Terminate(p, ok)
        /\ registry' = RegistryUpdate(registry, p, IF ok THEN "terminated" ELSE "running")
  /\ events' = events \cup {<<"stopped", p>>}
  /\ UNCHANGED mem

\* Wrong variant: a replacement pod restarts the job whatever its status.
StatusAfterReplacementAlways(s) == "provisioning"

\* The status of a job whose lost pod is replaced by another one of its own.
StatusAfterReplacement(s) == IF s = "running" THEN "provisioning" ELSE s

\* Wrong variant: the first job whose name starts like the pod's is taken.
MatchedJobByPrefix(p) == IF owner[p] = 0 THEN 0 ELSE 1

\* The job named in the pod's name.
MatchedJob(p) == owner[p]

\* The status of a job that takes over a pod it lost track of.
StatusAfterAdoption(s) == IF s = "pending" THEN "provisioning" ELSE s

\* One listed instance is matched to the run by its name.
MatchInstance(p) ==
  LET j == MatchedJob(p) IN
  /\ phase = "matching" /\ p \in insts /\ insts' = insts \ {p}
  /\ known' = known \cup {p}
  /\ \/ /\ j \notin cfgs
        /\ TerminateStray(p)
     \/ /\ j \in cfgs /\ mem[j].pod = p
        /\ NoHazard /\ UNCHANGED <<registry, events, mem, alive, tried>>
     \/ /\ j \in cfgs /\ mem[j].pod = NoPod
        /\ mem[j].status \in {"completed", "failed", "skipped"}
        /\ TerminateStray(p)
     \/ /\ j \in cfgs /\ mem[j].pod = NoPod
        /\ mem[j].status \notin {"completed", "failed", "skipped"}
        /\ mem' = [mem EXCEPT ![j] = [@ EXCEPT !.pod = p, !.started = TRUE,
                              !.status = StatusAfterAdoption(mem[j].status)]]
        /\ registry' = RegistryAdd(registry, p)
        /\ NoHazard /\ UNCHANGED <<events, alive, tried>>
     \/ /\ j \in cfgs /\ mem[j].pod # p /\ SaysGone(mem[j].pod)
        /\ mem' = [mem EXCEPT ![j] = [@ EXCEPT !.pod = p, !.ssh = FALSE, !.pid = FALSE,
                              !.status = StatusAfterReplacement(mem[j].status)]]
        /\ registry' = RegistryAdd(RegistryUpdate(registry, mem[j].pod, "terminated"), p)
        /\ NoHazard /\ UNCHANGED <<events, alive, tried>>
     \/ /\ j \in cfgs /\ mem[j].pod \notin {p, NoPod}
        /\ mem[j].pod \in alive \/ "check" \in Hazards   \* True, or None
        /\ TerminateStray(p)
  /\ UNCHANGED <<file, phase, cursor, cfgs, shut, pc, pipeline, fin, owner, remote, synced, runs>>

EndReconcile ==
  /\ phase = "matching" /\ insts = {}
  /\ phase' = "start" /\ file' = mem
  /\ UNCHANGED <<registry, events, mem, cursor, cfgs, shut, insts, pc, pipeline, fin, cloud,
                 remote, synced, bounds>>

\* _start_unblocked_jobs: skip what cannot run any more, then start every
\* ready job, inline when there is one and on a thread pool otherwise.
StartUnblocked ==
  /\ \/ phase = "start" /\ phase' = "starting"
     \/ phase = "ticking" /\ cursor = NJobs + 1 /\ Idle /\ phase' = "unblocking"
  /\ IF shut # "no" THEN UNCHANGED <<mem, pc>>
     ELSE /\ mem' = SkipBlocked(mem, cfgs)
          /\ pc' = [j \in Jobs |-> IF j \in ReadyJobs(mem', cfgs) THEN "begin" ELSE "idle"]
  /\ UNCHANGED <<files, cursor, cfgs, shut, insts, pipeline, fin, cloud, remote, synced, bounds>>

\* The main loop between two ticks: save, then leave, stop for the global
\* budget (only after a tick), or tick again.
LoopHead ==
  /\ phase \in {"starting", "unblocking"} /\ Idle
  /\ file' = mem /\ cursor' = 1
  /\ \/ /\ AllDone(mem) \/ shut # "no"
        /\ phase' = "leaving" /\ NoHazard
     \/ /\ ~AllDone(mem) /\ shut = "no"
        /\ phase' = "ticking" /\ NoHazard
     \/ /\ phase = "unblocking" /\ shut = "no"
        /\ phase' = "budget" /\ Adverse("budget")
  /\ UNCHANGED <<registry, events, mem, cfgs, shut, insts, pc, pipeline, fin, cloud, remote,
                 synced, runs>>

\* _teardown_all, for the budget or from _handle_crash: each live job is
\* finished as failed with force_teardown.
TeardownAll ==
  /\ phase \in {"budget", "crashing"} /\ Idle
  /\ IF cursor \in Jobs
     THEN /\ IF mem[cursor].status \in LiveStatuses /\ cursor \in cfgs
             THEN /\ Goto(cursor, "final_sync")
                  /\ fin' = [goal |-> "failed", force |-> TRUE, torn |-> FALSE]
             ELSE UNCHANGED <<pc, fin>>
          /\ cursor' = cursor + 1 /\ UNCHANGED <<file, phase>>
     ELSE /\ file' = mem /\ cursor' = 1
          /\ phase' = IF phase = "budget" THEN "leaving" ELSE "exit"
          /\ UNCHANGED <<pc, fin>>
  /\ UNCHANGED <<registry, events, mem, cfgs, shut, insts, pipeline, cloud, remote, synced, bounds>>

\* After the loop: with --teardown-on-interrupt a Ctrl-C tears down, without
\* it the run detaches.
Leave ==
  /\ phase = "leaving"
  /\ phase' = IF shut = "teardown" THEN "graceful" ELSE "exit"
  /\ UNCHANGED <<files, mem, cursor, cfgs, shut, insts, pc, pipeline, fin, cloud, remote, synced,
                 bounds>>

\* _graceful_shutdown: one job per step.  The result of the teardown is not
\* looked at and the registry is left alone.
GracefulShutdown ==
  /\ phase = "graceful"
  /\ IF cursor \in Jobs
     THEN LET j == cursor  p == mem[j].pod IN
          /\ cursor' = cursor + 1 /\ UNCHANGED <<file, phase>>
          /\ IF mem[j].status \in TickedStatuses /\ j \in cfgs
             THEN /\ mem' = SetStatus(mem, j, "failed")
                  /\ IF p # NoPod /\ j \notin KeepAlive
                     THEN \E ok \in BOOLEAN : Terminate(p, ok)
                     ELSE NoHazard /\ UNCHANGED <<alive, tried>>
                  /\ events' = IF p = NoPod \/ ~mem[j].started THEN events
                               ELSE events \cup {<<"stopped", p>>}
             ELSE NoHazard /\ UNCHANGED <<mem, events, alive, tried>>
     ELSE /\ file' = mem /\ phase' = "exit" /\ cursor' = 1
          /\ NoHazard /\ UNCHANGED <<mem, events, alive, tried>>
  /\ UNCHANGED <<registry, cfgs, shut, insts, pc, pipeline, fin, owner, known, remote, synced,
                 runs>>

\* The finally clause of run_lifecycle.
Exit ==
  /\ phase = "exit" /\ phase' = "down" /\ file' = mem
  /\ shut' = "no" /\ cursor' = 1
  /\ UNCHANGED <<registry, events, mem, cfgs, insts, pc, pipeline, fin, cloud, remote, synced,
                 bounds>>

-----------------------------------------------------------------------------
(* _monitor_tick: the main thread visits the jobs in order.  What it starts *)
(* for a job (a pipeline, _finish_job, _spot_recover) runs to its end       *)
(* before it moves on.                                                      *)

Ticking(j) == /\ phase = "ticking" /\ cursor = j /\ Idle
              /\ j \in cfgs /\ mem[j].status \in TickedStatuses
              /\ cursor' = cursor + 1

TickFrame == UNCHANGED <<file, phase, cfgs, shut, insts, pipeline, cloud, remote, synced, runs>>

\* A job that is not live, or not selected, is passed over.
TickSkip(j) ==
  /\ phase = "ticking" /\ cursor = j /\ Idle
  /\ j \notin cfgs \/ mem[j].status \notin TickedStatuses
  /\ cursor' = cursor + 1
  /\ TickFrame /\ UNCHANGED <<registry, events, mem, pc, fin, hazards>>

\* _resume_job: a job persisted as provisioning or deploying.  Its pod is
\* re-checked; a pod that is gone is forgotten.
TickResume(j) ==
  LET p == mem[j].pod IN
  /\ Ticking(j) /\ mem[j].status # "running"
  /\ \/ /\ p # NoPod /\ Adverse("check") /\ UNCHANGED <<registry, mem, pc>>
     \/ /\ p = NoPod \/ p \in alive
        /\ Goto(j, "resume") /\ NoHazard /\ UNCHANGED <<registry, mem>>
     \/ /\ SaysGone(p)
        /\ registry' = RegistryUpdate(registry, p, "terminated")
        /\ mem' = [mem EXCEPT ![j] = [@ EXCEPT !.pod = NoPod, !.ssh = FALSE, !.pid = FALSE]]
        /\ Goto(j, "resume") /\ NoHazard
  /\ TickFrame /\ UNCHANGED <<events, fin>>

\* _finish_job is called for j from a tick.
Finish(j, goal, force) ==
  /\ Goto(j, "final_sync")
  /\ fin' = [goal |-> goal, force |-> force, torn |-> FALSE]

\* _tick_job: the job's own budget is exceeded.
TickJobBudget(j) ==
  /\ Ticking(j) /\ mem[j].status = "running" /\ Adverse("job_budget")
  /\ Finish(j, "failed", TRUE)
  /\ TickFrame /\ UNCHANGED <<registry, events, mem>>

\* is_alive reads an exit file: _handle_exit.
TickExited(j) ==
  /\ Ticking(j) /\ mem[j].status = "running" /\ NoHazard
  /\ Reachable(j) /\ remote[mem[j].pod].exit # "none"
  /\ Finish(j, IF remote[mem[j].pod].exit = "ok" THEN "completed" ELSE "failed", FALSE)
  /\ TickFrame /\ UNCHANGED <<registry, events, mem>>

\* The recorded process runs.  It may have stalled for too long, or the
\* visit hits an unexpected error (_fail_job_safely).
TickRunning(j) ==
  /\ Ticking(j) /\ mem[j].status = "running"
  /\ Reachable(j) /\ mem[j].pid
  /\ remote[mem[j].pod].exit = "none" /\ remote[mem[j].pod].copies > 0
  /\ mem' = [mem EXCEPT ![j] = [@ EXCEPT !.gone = 0]]
  /\ \/ NoHazard /\ UNCHANGED <<pc, fin>>
     \/ Adverse("stall") /\ Finish(j, "failed", FALSE)
  /\ TickFrame /\ UNCHANGED <<registry, events>>

\* The recorded process is gone and left no exit file.
Vanished(j) == /\ Ticking(j) /\ mem[j].status = "running"
               /\ Reachable(j) /\ mem[j].pid
               /\ remote[mem[j].pod].exit = "none" /\ remote[mem[j].pod].copies = 0

\* The idle timer is started or goes on; or the provider gives no answer.
TickIdle(j) ==
  /\ Vanished(j)
  /\ \/ Adverse("check") /\ UNCHANGED mem
     \/ NoHazard /\ mem' = [mem EXCEPT ![j] = [@ EXCEPT !.gone = 0]]
  /\ TickFrame /\ UNCHANGED <<registry, events, pc, fin>>

\* The idle timer expires: the job counts as completed.
TickIdleTimeout(j) ==
  /\ Vanished(j) /\ NoHazard
  /\ mem' = [mem EXCEPT ![j] = [@ EXCEPT !.gone = 0]] /\ Finish(j, "completed", FALSE)
  /\ TickFrame /\ UNCHANGED <<registry, events>>

\* _pod_gone_confirmed and the start of _spot_recover, after the provider
\* answered that the pod is gone.
GoneAnswer(j) ==
  LET g == mem[j].gone + 1 IN
  IF g < Confirmations              \* below max(1, recovery_confirmations)
  THEN mem' = [mem EXCEPT ![j] = [@ EXCEPT !.gone = g]] /\ UNCHANGED pc
  ELSE IF mem[j].attempts >= MaxAttempts
  THEN mem' = FailJob([mem EXCEPT ![j] = [@ EXCEPT !.gone = g]], j) /\ UNCHANGED pc
  ELSE mem' = [mem EXCEPT ![j] = [@ EXCEPT !.gone = g]] /\ Goto(j, "recover")

\* The process state is unknown (no SSH info, no answer, or no pid recorded
\* and no exit file): ask the provider about the pod.  With no pod id recorded
\* there is nobody to ask.
TickUnknown(j) ==
  LET p == mem[j].pod IN
  /\ Ticking(j) /\ mem[j].status = "running"
  /\ \/ /\ p = NoPod
        /\ NoHazard /\ UNCHANGED <<mem, pc>>
     \/ /\ p # NoPod /\ Adverse("check") /\ UNCHANGED <<mem, pc>>
     \/ /\ SaysGone(p)
        /\ NoHazard /\ GoneAnswer(j)
     \/ /\ p \in alive
        /\ \/ NoHazard /\ (~mem[j].ssh \/ (~mem[j].pid /\ remote[p].exit = "none"))
           \/ Adverse("ssh")
        /\ IF ~mem[j].pid /\ mem[j].ssh
           THEN mem' = [mem EXCEPT ![j] = [@ EXCEPT !.gone = 0]] /\ Goto(j, "launch")
           ELSE /\ UNCHANGED pc
                /\ \/ mem' = [mem EXCEPT ![j] = [@ EXCEPT !.gone = 0, !.ssh = TRUE]]
                   \/ /\ Adverse("ssh")                  \* no answer to refresh_ssh_info
                      /\ mem' = [mem EXCEPT ![j] = [@ EXCEPT !.gone = 0]]
  /\ TickFrame /\ UNCHANGED <<registry, events, fin>>

\* _spot_recover: release what is left of the pod ...
RecoverTeardown(j) ==
  /\ At(j, "recover") /\ Goto(j, "backoff")
  /\ \E ok \in BOOLEAN : Terminate(mem[j].pod, ok)
  /\ registry' = RegistryUpdate(registry, mem[j].pod, "terminated")
  /\ events' = events \cup {<<"stopped", mem[j].pod>>}
  /\ UNCHANGED <<file, mem, control, pipeline, fin, owner, known, remote, synced, runs>>

\* ... back off, which a Ctrl-C ends, and provision again from nothing.
RecoverBackoff(j) ==
  /\ At(j, "backoff")
  /\ IF shut # "no" THEN Goto(j, "idle") /\ UNCHANGED mem
     ELSE /\ Goto(j, "begin")
          /\ mem' = [mem EXCEPT ![j] = [@ EXCEPT !.pod = NoPod, !.ssh = FALSE, !.pid = FALSE,
                                                  !.gone = 0]]
  /\ UNCHANGED <<files, control, pipeline, fin, cloud, remote, synced, bounds>>

-----------------------------------------------------------------------------
(* _finish_job: final sync, teardown, record.                               *)

FinishFrame == UNCHANGED <<file, control, pipeline, owner, known, remote, runs>>

\* Wrong variant: a job that succeeded is torn down although its results
\* could not be pulled.
TeardownAfterFailedSyncAlways(j) == TRUE

\* Whether _finish_job goes on to the teardown after a failed final sync;
\* otherwise the pod is kept and the job ends as sync_failed.
TeardownAfterFailedSync(j) ==
  \/ fin.force \/ mem[j].pod = NoPod
  \/ fin.goal = "failed" /\ j \notin KeepOnFailure

FinalSync(j) ==
  /\ At(j, "final_sync")
  /\ \/ /\ Reachable(j)
        /\ synced' = synced \cup {j}
        /\ Goto(j, "teardown") /\ NoHazard /\ UNCHANGED <<mem, registry>>
     \/ /\ IF Reachable(j) THEN Adverse("sync") ELSE NoHazard
        /\ synced' = synced
        /\ IF TeardownAfterFailedSync(j)
           THEN Goto(j, "teardown") /\ UNCHANGED <<mem, registry>>
           ELSE /\ Goto(j, "idle")
                /\ LET m == SetStatus(mem, j, "sync_failed") IN
                   mem' = IF fin.goal = "failed" THEN PropagateFailure(m, {j}) ELSE m
                /\ registry' = RegistryUpdate(registry, mem[j].pod, "running")
  /\ FinishFrame /\ UNCHANGED <<events, fin, alive, tried>>

\* Wrong variant: any completed job keeps its pod.
KeepsPodWhenCompleted(j) == fin.goal = "completed"

\* pod_kept_alive
KeepsPod(j) == fin.goal = "completed" /\ j \in KeepAlive

\* Wrong variant: the pod id is not looked at.
ReleasesPodUnchecked(j) == ~KeepsPod(j)

ReleasesPod(j) == mem[j].pod # NoPod /\ ~KeepsPod(j)

FinishTeardown(j) ==
  /\ At(j, "teardown") /\ Goto(j, "record")
  /\ IF ReleasesPod(j)
     THEN \E ok \in BOOLEAN : Terminate(mem[j].pod, ok) /\ fin' = [fin EXCEPT !.torn = ok]
     ELSE NoHazard /\ UNCHANGED <<fin, alive, tried>>
  /\ FinishFrame /\ UNCHANGED <<registry, events, mem, synced>>

\* Wrong variant: a released pod is assumed to be gone.
FinalRegistryStatusAssumed(torn) == "terminated"

\* "only a verified teardown is recorded as such"
FinalRegistryStatus(torn) == IF torn THEN "terminated" ELSE "running"

FinishRecord(j) ==
  /\ At(j, "record") /\ Goto(j, "idle")
  /\ events' = events \cup {<<"stopped", mem[j].pod>>}
  /\ mem' = IF fin.goal = "failed" THEN FailJob(mem, j)
            ELSE SetStatus(mem, j, "completed")
  /\ registry' = RegistryUpdate(registry, mem[j].pod, FinalRegistryStatus(fin.torn))
  /\ fin' = NoFinish
  /\ FinishFrame /\ UNCHANGED <<alive, tried, synced, hazards>>

-----------------------------------------------------------------------------
(* _provision_deploy_launch: the pipeline of one job.  Several run at once  *)
(* on the thread pool; each ends with a save.                               *)

PipeFrame == UNCHANGED <<control, fin, runs>>

\* The pipeline of j ends here, with the table as this step leaves it saved.
EndPipeline(j) == Goto(j, "idle") /\ Save

\* Ctrl-C was noticed at a shutdown check or in a wait: the job is left as it
\* is, for the next `conductor run` to resume.
Interrupted(j) ==
  /\ shut # "no" /\ UNCHANGED mem /\ EndPipeline(j)
  /\ NoHazard /\ UNCHANGED <<registry, events, pipeline, cloud, remote, synced>>

\* Wrong variant: a job that is resumed on its pod counts as reusing it.
IsReuseOfAny(j) == mem[j].pod # NoPod

\* is_reuse
IsReuse(j) == j \in KeepAlive /\ mem[j].pod # NoPod

\* The head of _pipeline: decide between reusing, adopting and replacing the
\* pod the job references; a pod to be replaced is terminated.
Begin(j) ==
  LET p == mem[j].pod
      isReuse == IsReuse(j)
      isAdopt == At(j, "resume") /\ p # NoPod
  IN
  /\ At(j, "begin") \/ At(j, "resume")
  /\ reuse' = IF isReuse THEN reuse \cup {j} ELSE reuse \ {j}
  /\ adopt' = IF isAdopt THEN adopt \cup {j} ELSE adopt \ {j}
  /\ IF p # NoPod /\ ~isReuse /\ ~isAdopt
     THEN \E ok \in BOOLEAN :
            /\ Terminate(p, ok)
            /\ registry' = IF ok THEN RegistryUpdate(registry, p, "terminated") ELSE registry
     ELSE NoHazard /\ UNCHANGED <<registry, alive, tried>>
  /\ IF isAdopt
     THEN mem' = SetStatus(mem, j, "provisioning") /\ Save /\ Goto(j, "adopt")
     ELSE UNCHANGED <<mem, file>> /\ Goto(j, "provision")
  /\ PipeFrame /\ UNCHANGED <<events, newpod, pass, owner, known, remote, synced>>

\* Adopting: wait for SSH on the existing pod.
AdoptPod(j) ==
  /\ At(j, "adopt") /\ PipeFrame
  /\ \/ /\ mem[j].pod \in alive
        /\ mem' = [mem EXCEPT ![j] = [@ EXCEPT !.ssh = TRUE]] /\ Goto(j, "ready") /\ NoHazard
        /\ UNCHANGED <<files, pipeline, cloud, remote, synced>>
     \/ /\ (mem[j].pod \notin alive /\ NoHazard) \/ Adverse("ssh")
        /\ mem' = SetStatus(mem, j, "failed") /\ Goto(j, "except")
        /\ UNCHANGED <<files, pipeline, cloud, remote, synced>>
     \/ Interrupted(j)

\* The head of provision_pod: reuse a kept pod that exists, with the SSH info
\* it had if it cannot be refreshed, else fetch the GPU candidates and start
\* the first pass over them.
Provision(j) ==
  LET kept == j \in KeepAlive /\ mem[j].pod # NoPod IN
  /\ At(j, "provision") /\ PipeFrame
  /\ \/ /\ kept /\ mem[j].pod \in alive
        /\ \/ NoHazard /\ mem' = [mem EXCEPT ![j] = [@ EXCEPT !.ssh = TRUE]]
           \/ Adverse("ssh") /\ UNCHANGED mem
        /\ Goto(j, "ready") /\ UNCHANGED <<file, pass>>
     \/ /\ kept => mem[j].pod \notin alive
        /\ Adverse("catalog")
        /\ mem' = FailJob(mem, j) /\ EndPipeline(j) /\ UNCHANGED pass
     \/ /\ IF kept /\ mem[j].pod \in alive THEN Adverse("check") ELSE NoHazard
        /\ mem' = [mem EXCEPT ![j] = [@ EXCEPT !.status = "provisioning",
                                              !.attempts = mem[j].attempts + 1]]
        /\ pass' = [pass EXCEPT ![j] = 1] /\ Goto(j, "create") /\ UNCHANGED file
  /\ UNCHANGED <<registry, events, reuse, adopt, newpod, cloud, remote, synced>>

\* create_instance for the next candidate: a pod, no pod, or a pod whose id
\* is lost with the answer.  An error that is not about capacity may also be
\* raised.  (No pod either once the model has run out of ids.)
CreateInstance(j) ==
  LET unused == {p \in Pods : owner[p] = 0} IN
  /\ At(j, "create") /\ PipeFrame
  /\ \/ \E p \in unused :
          /\ alive' = alive \cup {p} /\ owner' = [owner EXCEPT ![p] = j]
          /\ \/ NoHazard /\ newpod' = [newpod EXCEPT ![j] = p] /\ Goto(j, "created")
             \/ Adverse("lost") /\ UNCHANGED newpod /\ Goto(j, "next")
          /\ UNCHANGED mem
     \/ /\ IF unused = {} THEN NoHazard ELSE Adverse("capacity")
        /\ Goto(j, "next") /\ UNCHANGED <<mem, newpod, alive, owner>>
     \/ /\ Adverse("error")
        /\ mem' = SetStatus(mem, j, "failed")
        /\ Goto(j, "except") /\ UNCHANGED <<newpod, alive, owner>>
  /\ UNCHANGED <<files, reuse, adopt, pass, tried, known, remote, synced>>

\* The candidate gave no pod: the next one, another pass after a backoff (some
\* candidate of this pass had no capacity), or the end of the last pass.  The
\* number of candidates is left open.
NextCandidate(j) ==
  /\ At(j, "next") /\ PipeFrame
  /\ \/ /\ \E p \in Pods : owner[p] = 0
        /\ Goto(j, "create") /\ NoHazard
        /\ UNCHANGED <<files, mem, pipeline, cloud, remote, synced>>
     \/ /\ pass[j] < Passes /\ shut = "no" /\ NoHazard
        /\ mem' = [mem EXCEPT ![j] = [@ EXCEPT !.attempts = mem[j].attempts + 1]]
        /\ pass' = [pass EXCEPT ![j] = @ + 1] /\ Goto(j, "create")
        /\ UNCHANGED <<files, reuse, adopt, newpod, cloud, remote, synced>>
     \/ /\ pass[j] < Passes /\ Interrupted(j)
     \/ /\ mem' = FailJob(mem, j) /\ EndPipeline(j) /\ NoHazard
        /\ UNCHANGED <<registry, events, pipeline, cloud, remote, synced>>

\* _created and _persist_created: the id goes to memory and to the state file ...
PersistCreated(j) ==
  /\ At(j, "created") /\ Goto(j, "persisted")
  /\ mem' = [mem EXCEPT ![j] = [@ EXCEPT !.pod = newpod[j], !.ssh = FALSE, !.started = TRUE,
                                          !.status = "provisioning"]]
  /\ Save /\ newpod' = [newpod EXCEPT ![j] = NoPod] /\ known' = known \cup {newpod[j]}
  /\ PipeFrame
  /\ UNCHANGED <<registry, events, reuse, adopt, pass, alive, owner, tried, remote, synced,
                 hazards>>

\* ... then to the cost log and the registry.
RegisterCreated(j) ==
  /\ At(j, "persisted") /\ Goto(j, "sshwait")
  /\ events' = events \cup {<<"started", mem[j].pod>>}
  /\ registry' = RegistryAdd(registry, mem[j].pod)
  /\ PipeFrame
  /\ UNCHANGED <<file, mem, pipeline, cloud, remote, synced, hazards>>

\* wait_for_ssh and wait_ssh on the new pod.
AwaitSsh(j) ==
  /\ At(j, "sshwait") /\ PipeFrame
  /\ \/ /\ mem[j].pod \in alive /\ NoHazard
        /\ mem' = [mem EXCEPT ![j] = [@ EXCEPT !.ssh = TRUE]] /\ Goto(j, "ready")
        /\ UNCHANGED <<files, pipeline, cloud, remote, synced>>
     \/ /\ \/ mem[j].pod \notin alive /\ NoHazard /\ Goto(j, "release")
           \/ Adverse("ssh") /\ Goto(j, "release")
           \/ Adverse("auth") /\ Goto(j, "release_auth")
        /\ UNCHANGED <<files, mem, pipeline, cloud, remote, synced>>
     \/ Interrupted(j)

\* _release, the _released callback and _forget_released_pod: a pod that never
\* became reachable is terminated and the job stops tracking it.  A rejected
\* key ends the provisioning.
ReleasePod(j) ==
  LET p == mem[j].pod
      forgotten == [mem EXCEPT ![j] = [@ EXCEPT !.pod = NoPod, !.ssh = FALSE]]
  IN
  /\ At(j, "release") \/ At(j, "release_auth")
  /\ \E ok \in BOOLEAN :
       /\ Terminate(p, ok)
       /\ registry' = IF ok THEN RegistryUpdate(registry, p, "terminated") ELSE registry
       /\ events' = IF ok THEN events ELSE events \cup {<<"orphaned", p>>}
  /\ IF At(j, "release")
     THEN mem' = forgotten /\ Goto(j, "next") /\ UNCHANGED file
     ELSE mem' = FailJob(forgotten, j) /\ EndPipeline(j)
  /\ PipeFrame /\ UNCHANGED <<pipeline, owner, known, remote, synced>>

\* The pod is reachable: record it in the registry and start deploying.
PodReady(j) ==
  LET p == mem[j].pod IN
  /\ At(j, "ready")
  /\ registry' = IF j \in reuse \cup adopt THEN RegistryUpdate(registry, p, "running")
                 ELSE RegistryAdd(registry, p)
  /\ IF shut # "no" THEN UNCHANGED mem /\ EndPipeline(j)
     ELSE mem' = SetStatus(mem, j, "deploying") /\ Save /\ Goto(j, "deploy")
  /\ PipeFrame /\ UNCHANGED <<events, pipeline, cloud, remote, synced, hazards>>

\* What deploy leaves on pod p.  rsync --delete removes every file that is not
\* in the project directory, the runner's own included; setup_command runs
\* unless the pod is reused.
Deployed(r, isReuse) ==
  [r EXCEPT !.deployed = TRUE, !.pidfile = FALSE, !.exit = "none",
            !.setup = @ \/ ~isReuse]

Deploy(j) ==
  LET p == mem[j].pod IN
  /\ At(j, "deploy") /\ PipeFrame
  /\ \/ /\ Reachable(j) /\ NoHazard
        /\ remote' = [remote EXCEPT ![p] = Deployed(@, j \in reuse)]
        /\ UNCHANGED mem
        /\ IF shut # "no" THEN EndPipeline(j) ELSE Goto(j, "launch") /\ UNCHANGED file
     \/ /\ (~Reachable(j) /\ NoHazard) \/ Adverse("deploy")
        /\ mem' = SetStatus(mem, j, "failed")
        /\ Goto(j, "abort") /\ UNCHANGED <<file, remote>>
  /\ UNCHANGED <<registry, events, pipeline, cloud, synced>>

\* What the launch script does on pod p: report a copy that is running, as far
\* as the pid file tells, else start one.
Launched(r) ==
  IF r.pidfile /\ r.exit = "none" /\ r.copies > 0 THEN r
  ELSE [r EXCEPT !.copies = @ + 1, !.pidfile = TRUE, !.exit = "none",
                 !.unready = @ \/ ~r.deployed \/ ~r.setup]

\* launch: the scripts run on the pod; the answer may be lost, with or without
\* a process started.  Only a launch from _tick_job finds a running job.
Launch(j) ==
  LET p       == mem[j].pod
      onError == IF mem[j].status = "running" THEN "abort_tick" ELSE "abort"
  IN
  /\ At(j, "launch") /\ PipeFrame
  /\ \/ /\ p \in alive
        /\ remote' = [remote EXCEPT ![p] = Launched(@)]
        /\ synced' = IF remote'[p] = remote[p] THEN synced ELSE synced \ {j}
        /\ \/ NoHazard /\ Goto(j, "launched") /\ UNCHANGED mem
           \/ Adverse("launch") /\ Goto(j, onError)
              /\ mem' = SetStatus(mem, j, "failed")
     \/ /\ (p \notin alive /\ NoHazard) \/ Adverse("launch")
        /\ mem' = SetStatus(mem, j, "failed")
        /\ Goto(j, onError) /\ UNCHANGED <<remote, synced>>
  /\ UNCHANGED <<files, pipeline, cloud>>

\* _launch_job after launch returned.
RecordLaunch(j) ==
  /\ At(j, "launched")
  /\ mem' = [mem EXCEPT ![j] = [@ EXCEPT !.pid = TRUE, !.status = "running", !.started = TRUE]]
  /\ EndPipeline(j)
  /\ PipeFrame /\ UNCHANGED <<registry, events, pipeline, cloud, remote, synced, hazards>>

\* A failed deploy or launch: the pod is torn down, whatever comes of it, and
\* its registry record is left alone.  A launch from _tick_job leaves the save
\* to the main loop.
AbortPipeline(j) ==
  /\ At(j, "abort") \/ At(j, "abort_tick")
  /\ \E ok \in BOOLEAN : Terminate(mem[j].pod, ok)
  /\ mem' = PropagateFailure(mem, {j}) /\ Goto(j, "idle")
  /\ IF At(j, "abort") THEN Save ELSE UNCHANGED file
  /\ PipeFrame /\ UNCHANGED <<registry, events, pipeline, owner, known, remote, synced>>

\* An exception in the pipeline: the pod is torn down and, whatever comes of
\* it, recorded as terminated.
PipelineException(j) ==
  LET p == mem[j].pod IN
  /\ At(j, "except")
  /\ IF p = NoPod THEN NoHazard /\ UNCHANGED <<registry, alive, tried>>
     ELSE /\ \E ok \in BOOLEAN : Terminate(p, ok)
          /\ registry' = RegistryUpdate(registry, p, "terminated")
  /\ mem' = PropagateFailure(mem, {j}) /\ EndPipeline(j)
  /\ PipeFrame /\ UNCHANGED <<events, pipeline, owner, known, remote, synced>>

-----------------------------------------------------------------------------
(* Heartbeat, signals, failures of the process, other commands.             *)

\* The heartbeat thread saves whatever is in memory at the time.
Beat ==
  /\ phase \notin {"down", "manual"} /\ file # mem /\ file' = mem
  /\ UNCHANGED <<registry, events, mem, control, pc, pipeline, fin, cloud, remote, synced, bounds>>

\* The first Ctrl-C.
Sigint ==
  /\ phase \notin {"down", "manual", "crashing", "exit"} /\ shut = "no" /\ Adverse("sigint")
  /\ shut' \in {"detach", "teardown"}
  /\ UNCHANGED <<files, mem, phase, cursor, cfgs, insts, pc, pipeline, fin, cloud, remote, synced,
                 runs>>

\* The process is gone at once (SIGKILL, a second Ctrl-C, power loss): what is
\* not in a file is lost.  The next command starts from the state file.
Kill ==
  /\ phase # "down" /\ Adverse("kill")
  /\ phase' = "down" /\ cursor' = 1 /\ shut' = "no" /\ insts' = {}
  /\ mem' = file /\ pc' = [j \in Jobs |-> "idle"] /\ fin' = NoFinish
  /\ newpod' = [j \in Jobs |-> NoPod]
  /\ UNCHANGED <<files, cfgs, reuse, adopt, pass, cloud, remote, synced, runs>>

\* An exception reaches run_lifecycle (_handle_crash): save, and tear down if
\* a live job is configured so.  The ticks and the pipelines catch what their
\* functions raise; _teardown_all does not, and an exception in the teardown of
\* _handle_crash itself only leaves the finally clause to run.
Crash ==
  /\ phase \notin {"down", "manual", "exit"} /\ Adverse("crash")
  /\ \/ Idle
     \/ /\ phase \in {"budget", "crashing"}
        /\ \A j \in Jobs : pc[j] \in {"idle", "final_sync", "teardown", "record"}
  /\ cursor' = 1 /\ insts' = {} /\ pc' = [j \in Jobs |-> "idle"] /\ fin' = NoFinish
  /\ file' = IF phase = "crashing" THEN file ELSE mem
  /\ phase' = IF /\ phase # "crashing"
                 /\ \E j \in cfgs \cap TeardownOnCrash :
                      mem[j].pod # NoPod /\ mem[j].status \in LiveStatuses
              THEN "crashing" ELSE "exit"
  /\ UNCHANGED <<registry, events, mem, cfgs, shut, pipeline, cloud, remote, synced, runs>>

\* `conductor teardown` while no run is live: one selected pod per step, the
\* state file written at the end.
ManualTeardownStart(C) ==
  /\ phase = "down" /\ Adverse("manual") /\ C # {}
  /\ phase' = "manual" /\ cfgs' = C
  /\ UNCHANGED <<files, mem, cursor, shut, insts, pc, pipeline, fin, cloud, remote, synced, runs>>

ManualTeardown ==
  /\ phase = "manual"
  /\ IF cursor \in Jobs
     THEN LET j == cursor  p == mem[j].pod IN
          /\ cursor' = cursor + 1 /\ UNCHANGED <<file, phase>>
          /\ IF j \in cfgs /\ p # NoPod
             THEN /\ \E ok \in BOOLEAN :
                       /\ Terminate(p, ok)
                       /\ registry' = RegistryUpdate(registry, p,
                                                     IF ok THEN "terminated" ELSE "running")
                  /\ events' = IF mem[j].status \in {"completed", "failed"} /\ mem[j].started
                               THEN events               \* finished_at is set
                               ELSE events \cup {<<"stopped", p>>}
                  /\ mem' = IF mem[j].status \in LiveStatuses \cup {"pending"}
                            THEN SetStatus(mem, j, "failed") ELSE mem
             ELSE NoHazard /\ UNCHANGED <<mem, registry, events, alive, tried>>
     ELSE /\ file' = mem /\ phase' = "down" /\ cursor' = 1
          /\ NoHazard /\ UNCHANGED <<mem, registry, events, alive, tried>>
  /\ UNCHANGED <<cfgs, shut, insts, pc, pipeline, fin, owner, known, remote, synced, runs>>

-----------------------------------------------------------------------------
(* The pods.                                                                *)

\* A spot instance is reclaimed.
SpotLoss(p) ==
  /\ p \in alive /\ Adverse("spot") /\ alive' = alive \ {p}
  /\ UNCHANGED <<files, mem, control, pc, pipeline, fin, owner, known, tried, remote, synced, runs>>

\* The launch script's wrapper after a copy of the job ended.
Exited(r, code) == [r EXCEPT !.copies = @ - 1, !.exit = code]

\* A copy of the job ends and writes the exit file, or all are killed without.
JobEnds(p) ==
  /\ p \in alive /\ remote[p].copies > 0
  /\ \/ NoHazard /\ remote' = [remote EXCEPT ![p] = Exited(@, "ok")]
     \/ Adverse("exit") /\ remote' = [remote EXCEPT ![p] = Exited(@, "bad")]
     \/ Adverse("vanish") /\ remote' = [remote EXCEPT ![p] = [@ EXCEPT !.copies = 0]]
  /\ UNCHANGED <<files, mem, control, pc, pipeline, fin, cloud, synced, runs>>

-----------------------------------------------------------------------------

MainThread ==
  \/ ListInstances \/ EndReconcile \/ StartUnblocked \/ LoopHead \/ TeardownAll
  \/ Leave \/ GracefulShutdown \/ Exit \/ ManualTeardown
  \/ \E p \in Pods : MatchInstance(p)

TickStep(j) ==
  \/ TickSkip(j) \/ TickResume(j) \/ TickJobBudget(j) \/ TickExited(j)
  \/ TickRunning(j) \/ TickIdle(j) \/ TickIdleTimeout(j) \/ TickUnknown(j)

FinishStep(j) ==
  \/ RecoverTeardown(j) \/ RecoverBackoff(j)
  \/ FinalSync(j) \/ FinishTeardown(j) \/ FinishRecord(j)

PipelineStep(j) ==
  \/ Begin(j) \/ AdoptPod(j) \/ Provision(j) \/ CreateInstance(j) \/ NextCandidate(j)
  \/ PersistCreated(j) \/ RegisterCreated(j) \/ AwaitSsh(j) \/ ReleasePod(j) \/ PodReady(j)
  \/ Deploy(j) \/ Launch(j) \/ RecordLaunch(j) \/ AbortPipeline(j) \/ PipelineException(j)

JobStep(j) == TickStep(j) \/ FinishStep(j) \/ PipelineStep(j)

Environment ==
  \/ \E C \in SUBSET Jobs, flags \in SUBSET {"failed", "completed"} : Run(C, flags)
  \/ \E C \in SUBSET Jobs : ManualTeardownStart(C)
  \/ Beat \/ Sigint \/ Kill \/ Crash
  \/ \E p \in Pods : SpotLoss(p) \/ JobEnds(p)

\* No command is running and no more are given.
Rest == phase = "down" /\ runs = MaxRuns /\ UNCHANGED vars

Next == MainThread \/ (\E j \in Jobs : JobStep(j)) \/ Environment \/ Rest

Spec == Init /\ [][Next]_vars

\* The orchestrator's threads keep running while the process lives, a job ends
\* some day, and the clock reaches the idle timeout of a job that stays idle.
\* Commands, signals and failures are never forced.
Fairness ==
  /\ WF_vars(MainThread)
  /\ \A j \in Jobs : WF_vars(JobStep(j))
  /\ \A j \in Jobs : SF_vars(TickIdleTimeout(j))
  /\ \A p \in Pods : WF_vars(JobEnds(p))

FairSpec == Spec /\ Fairness

-----------------------------------------------------------------------------
(* Properties.                                                              *)

\* A job only ever refers to pods that were created under its own name, in
\* memory, in the state file and between create_instance and its callback:
\* whatever the pipelines, the reconciliation by name and a restart from an
\* old state file do, no job tears down or reuses another job's pod.
OwnPodsOnly ==
  \A j \in Jobs :
    /\ mem[j].pod # NoPod => owner[mem[j].pod] = j
    /\ file[j].pod # NoPod => owner[file[j].pod] = j
    /\ newpod[j] # NoPod => owner[newpod[j]] = j

\* A job is recorded as completed only if the results of its latest process
\* were pulled after that process had ended (_finish_job syncs before it marks,
\* and keeps the pod as sync_failed otherwise), in memory and in the state
\* file, through crashes, recoveries and retries.
CompletedMeansSynced ==
  \A j \in Jobs : /\ mem[j].status = "completed" => j \in synced
                  /\ file[j].status = "completed" => j \in synced

\* A pod that the cost log records as stopped has been asked to terminate or
\* is gone, unless its job keeps pods alive: no path writes the stop event
\* without releasing the pod first.
StoppedMeansReleased ==
  \A p \in alive : <<"stopped", p>> \in events => p \in tried \/ owner[p] \in KeepAlive

\* Every pod whose id was once persisted, that still exists and that nobody
\* tried to terminate, is referenced by the state file or by the memory of
\* the running orchestrator, or is in the registry as running.
NoForgottenPod ==
  \A p \in (alive \cap known) \ tried :
    \/ \E j \in Jobs : p \in {mem[j].pod, file[j].pod}
    \/ registry[p] = "running"

\* "They are only provisioned after all dependencies reach completed status."
DependenciesFirst ==
  \A j \in Jobs : mem[j].status \in TickedStatuses =>
    \A d \in Deps[j] : mem[d].status = "completed"

\* A copy of a job that does not keep its pods alive only ever starts on a pod
\* to which the code was uploaded and on which setup_command ran to its end.
SetupBeforeLaunch == \A p \in Pods : owner[p] \notin KeepAlive => ~remote[p].unready

\* A job that ended as completed, failed or skipped stays so in the state file
\* until a `conductor run` with a retry flag: neither a tick, nor a
\* reconciliation, nor a restart revives it.
FinishedStaysFinished ==
  [][\A j \in Jobs : /\ file[j].status \in {"completed", "failed", "skipped"}
                     /\ file'[j].status # file[j].status
                     => runs' # runs]_vars

\* While an orchestrator runs, a job that does not keep its pods alive stops
\* tracking a pod only when the pod is gone or a terminate call was made for it:
\* a provider that cannot tell whether the pod exists never makes the job drop it.
TrackedUntilReleased ==
  [][phase # "down" /\ phase' # "down" =>
       \A j \in Jobs \ KeepAlive :
         mem[j].pod # NoPod /\ mem'[j].pod # mem[j].pod
           => mem[j].pod \notin alive' \/ mem[j].pod \in tried']_vars

\* The reconciliation leaves alone a pod that "the job already tracks".
ReconcileSparesTracked ==
  [][phase = "matching" =>
       \A j \in Jobs : mem[j].pod # NoPod => mem[j].pod \notin tried' \ tried]_vars

\* The registry says "terminated" of a pod that exists only after a terminate
\* call for it, confirmed or not: an answer that could not tell, a lost pod id
\* or a restart never makes a pod look released that nobody tried to release.
TerminatedMeansTried == \A p \in alive : registry[p] = "terminated" => p \in tried

\* A job whose dependency failed or was skipped does not stay pending once the
\* orchestrator is between two ticks, transitively.
BlockedJobsAreSkipped ==
  phase \in {"starting", "unblocking"} /\ shut = "no" /\ Idle =>
    \A j \in cfgs : mem[j].status = "pending" =>
      \A d \in Deps[j] : mem[d].status \notin {"failed", "skipped"}

\* A pending job waits for one whose results could not be pulled.
WaitsForSync ==
  \E j \in Jobs : /\ mem[j].status = "pending"
                  /\ \E d \in Deps[j] : mem[d].status = "sync_failed"

\* `conductor run` ends: once started it is eventually down again, unless a job
\* waits for one that ended as sync_failed: such a job is neither ready nor
\* skipped, and the loop goes on until the user intervenes.
RunEndsUnlessWaiting == (phase # "down") ~> (phase = "down" \/ WaitsForSync)
=============================================================================
