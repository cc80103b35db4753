------------------------ MODULE LifecycleInvariants ------------------------
(***************************************************************************)
(* The inductive invariants behind the theorems about Lifecycle: TypeInv   *)
(* (types, and what the functions that run for a job presuppose), SyncInv  *)
(* (the results of a completed job were pulled), ReleaseInv (pods are      *)
(* given up before they are logged or dropped), StatusInv (a job that      *)
(* ended stays so, and blocks those that depend on it) and, for runs that  *)
(* are never killed, DepsInv, SetupInv and Recorded, and through kills      *)
(* Traceable.                                                              *)
(***************************************************************************)
EXTENDS Lifecycle

\* The phases of the main thread in which no function runs for a job.
Quiet == {"down", "reconcile", "matching", "start", "leaving", "graceful", "exit", "manual"}

QuietPhases == phase \in Quiet => Idle

\* The steps that work on the pod the job references.
HoldsPod == {"adopt", "persisted", "sshwait", "release", "release_auth", "ready", "deploy",
             "launch", "launched", "abort", "abort_tick", "recover"}

PodSteps ==
  \A j \in Jobs : /\ pc[j] \in HoldsPod => mem[j].pod # NoPod
                  /\ pc[j] = "created" => newpod[j] # NoPod

TypeInv == TypeOK /\ QuietPhases /\ PodSteps

\* Why a job that is recorded as completed was synced: only _finish_job with
\* goal "completed" records it, which was entered with a pod and without force,
\* and so gets past a failed sync only by not going on to the teardown.
FinishSynced ==
  /\ fin.force => fin.goal = "failed"
  /\ \A j \in Jobs : fin.goal = "completed" =>
       /\ pc[j] = "final_sync" => mem[j].pod # NoPod
       /\ pc[j] \in {"teardown", "record"} => j \in synced

\* No function runs for a completed job, and memory is never behind the state
\* file about a completed job.
CompletedAtRest ==
  \A j \in Jobs : /\ pc[j] # "idle" => mem[j].status # "completed"
                  /\ file[j].status = "completed" => mem[j].status = "completed"

SyncInv == CompletedMeansSynced /\ FinishSynced /\ CompletedAtRest

-----------------------------------------------------------------------------
(* Pods are released before they are logged as stopped or dropped.          *)

FinishSteps == {"final_sync", "teardown", "record"}

\* Nothing refers to an id before the provider hands it out, and it hands out
\* each id once: a pod that is gone does not come back.
OnlyCreatedPods ==
  \A p \in Pods : owner[p] = 0 => /\ p \notin alive \cup insts \cup known
                                  /\ registry[p] = "absent"
                                  /\ <<"stopped", p>> \notin events

\* _finish_job runs for one job at a time, and nothing else runs then: its
\* locals, kept in fin, are its own.
OneFinishes ==
  \A j \in Jobs : pc[j] \in FinishSteps => \A k \in Jobs \ {j} : pc[k] = "idle"

\* A terminate call was made for p, if p is a pod at all.
GivenUp(p) == p = NoPod \/ p \in tried

\* _finish_job, _spot_recover and the pipeline give the job's pod up before
\* they record it as stopped, or put another one in its place.
ReleasesFirst(j) ==
  /\ pc[j] \in {"final_sync", "teardown"} => ~fin.torn
  /\ pc[j] = "record" => /\ GivenUp(mem[j].pod) \/ j \in KeepAlive
                         /\ fin.torn => GivenUp(mem[j].pod)
  /\ pc[j] = "backoff" => GivenUp(mem[j].pod)
  /\ pc[j] \in {"provision", "create", "next", "created"} /\ j \notin KeepAlive
       => GivenUp(mem[j].pod) \/ mem[j].pod \notin alive

ReleasedFirst == \A j \in Jobs : ReleasesFirst(j)

ReleaseInv == /\ OnlyCreatedPods /\ OneFinishes /\ ReleasedFirst
              /\ StoppedMeansReleased /\ TerminatedMeansTried

-----------------------------------------------------------------------------
(* A job that ended stays so, and its failure reaches its dependents.       *)

FinalStatuses == {"completed", "failed", "skipped"}
Blocking      == {"failed", "skipped"}

\* The steps that are left after the job was marked failed.
Cleanup == {"abort", "abort_tick", "except"}

\* A pipeline whose job failed has only its cleanup left, and no other function
\* runs for a job that ended; memory is never behind the state file about one.
FinalAtRest ==
  \A j \in Jobs :
    /\ pc[j] # "idle" => /\ mem[j].status \notin {"completed", "skipped"}
                         /\ mem[j].status = "failed" <=> pc[j] \in Cleanup
    /\ file[j].status \in FinalStatuses => mem[j].status = file[j].status

\* A pipeline that has not left "pending" behind runs for a ready job: no
\* failure can reach it.
ReadyAtStart ==
  \A j \in Jobs : pc[j] # "idle" /\ mem[j].status = "pending" =>
                    \A d \in Deps[j] : mem[d].status = "completed"

\* Between two ticks a pending job follows a failed one only while the failed
\* one's pipeline has yet to propagate.
FailuresPropagate ==
  phase \in {"starting", "unblocking"} /\ shut = "no" =>
    \A j \in cfgs : mem[j].status = "pending" =>
      \A d \in Deps[j] : mem[d].status \in Blocking => pc[d] \in Cleanup

StatusInv == FinalAtRest /\ ReadyAtStart /\ FailuresPropagate

-----------------------------------------------------------------------------
(* What holds as long as the process is never killed.                       *)

\* Every way the process ends saves the table first.
SavedAtEnd == phase = "down" => file = mem

\* A job has a pod, or something running for it, only after its dependencies
\* completed (with no retry flag, they stay so).
StartedAfterDeps ==
  \A j \in Jobs : \/ mem[j].status \in LiveStatuses
                  \/ pc[j] # "idle"
                  \/ \E p \in Pods : owner[p] = j
                  => \A d \in Deps[j] : mem[d].status = "completed"

DepsInv == SavedAtEnd /\ StartedAfterDeps

\* The steps of the pipeline after it gave the job a status of its own.
MidPipeline == (HoldsPod \ {"recover"}) \cup {"create", "next", "created"}

\* The launch follows the deploy.  In particular _tick_job finds no running job
\* without a pid, for which it would launch at once.
Launchable(j) ==
  /\ j \notin reuse
  /\ pc[j] = "launch" => remote[mem[j].pod].deployed /\ remote[mem[j].pod].setup
  /\ mem[j].status = "running" => /\ mem[j].pid \/ pc[j] \in {"begin", "provision"}
                                  /\ pc[j] \notin MidPipeline

LaunchReady == \A j \in Jobs \ KeepAlive : Launchable(j)

SetupInv == SavedAtEnd /\ LaunchReady /\ SetupBeforeLaunch

\* A job refers only to pods whose id was persisted.
KnownPods == \A j \in Jobs : mem[j].pod \in known \cup {NoPod}

\* Every pod whose id was persisted is in the registry, from the very next step
\* on, until somebody tries to terminate it.
Recorded ==
  /\ KnownPods
  /\ \A p \in (alive \cap known) \ tried :
       \/ registry[p] = "running"
       \/ \E j \in Jobs : pc[j] = "persisted" /\ mem[j].pod = p

-----------------------------------------------------------------------------
(* What holds through kills, if no job keeps its pods and none is retried.   *)

\* A persisted pod that is not in the registry is referenced both by the memory
\* and by the state file, so a kill at any time leaves it referenced.
Traceable ==
  /\ KnownPods /\ \A j \in Jobs : file[j].pod \in known \cup {NoPod}
  /\ \A p \in (alive \cap known) \ tried :
       \/ registry[p] = "running"
       \/ \E j \in Jobs : mem[j].pod = p /\ file[j].pod = p

-----------------------------------------------------------------------------
(* Without --jobs every command works on all the jobs.                      *)

AllSelected == phase \notin {"down", "manual"} => cfgs = Jobs
=============================================================================
