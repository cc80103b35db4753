--------------------------- MODULE LifecycleSafety ---------------------------
(***************************************************************************)
(* Safety theorems about Lifecycle, for every configuration, every set of  *)
(* pods and every number of commands and unfavourable events.  Most hold   *)
(* whatever happens; those that hold only as long as the process is not    *)
(* killed, nothing is retried, every job is selected or no pod is kept say *)
(* so as an assumption on Hazards, the kinds of event a behaviour may      *)
(* contain, or on KeepAlive.                                               *)
(***************************************************************************)
EXTENDS LifecycleTypes

USE DEF files, pipeline, control, cloud, bounds, At, Goto, Save, EndPipeline

-----------------------------------------------------------------------------
(* Jobs refer to their own pods only.                                       *)

\* Where the pod ids of the next state come from: only from the job's own
\* references, from create_instance for the job, and from a pod that carries
\* the job's name.  A created pod keeps its name.
PodMoves ==
  /\ \A p \in Pods : owner[p] # 0 => owner'[p] = owner[p]
  /\ \A k \in Jobs :
       /\ \/ mem'[k].pod \in {mem[k].pod, file[k].pod, newpod[k], NoPod}
          \/ mem'[k].pod \in Pods /\ owner[mem'[k].pod] = k
       /\ file'[k].pod \in {file[k].pod, mem[k].pod, mem'[k].pod}
       /\ \/ newpod'[k] \in {newpod[k], NoPod}
          \/ newpod'[k] \in Pods /\ owner'[newpod'[k]] = k

\* A step that moves pod ids as PodMoves allows keeps OwnPodsOnly.
LEMMA OwnPreserved ==
  ASSUME TypeOK, PodMoves, OwnPodsOnly
  PROVE  OwnPodsOnly'
<1>1. ASSUME NEW k \in Jobs
      PROVE  /\ mem[k].pod \in Pods \cup {NoPod} /\ file[k].pod \in Pods \cup {NoPod}
             /\ newpod[k] \in Pods \cup {NoPod}
  <2>1. mem[k] \in JobRecord /\ file[k] \in JobRecord
    BY DEF TypeOK
  <2> QED
    BY <2>1 DEF JobRecord, TypeOK
<1>2. 0 \notin Jobs
  BY DEF Jobs
<1>3. ASSUME NEW p \in Pods, NEW k \in Jobs, owner[p] = k
      PROVE  owner'[p] = k
  BY <1>2, <1>3 DEF PodMoves
<1>4. ASSUME NEW k \in Jobs, mem'[k].pod # NoPod
      PROVE  owner'[mem'[k].pod] = k
  BY <1>1, <1>3, <1>4 DEF PodMoves, OwnPodsOnly
<1>5. ASSUME NEW k \in Jobs, file'[k].pod # NoPod
      PROVE  owner'[file'[k].pod] = k
  BY <1>1, <1>3, <1>4, <1>5 DEF PodMoves, OwnPodsOnly
<1>6. ASSUME NEW k \in Jobs, newpod'[k] # NoPod
      PROVE  owner'[newpod'[k]] = k
  BY <1>1, <1>3, <1>6 DEF PodMoves, OwnPodsOnly
<1> QED
  BY <1>4, <1>5, <1>6 DEF OwnPodsOnly

\* Pod ids move as PodMoves says in the main thread's own steps.
LEMMA MainThreadMovesPods ==
  ASSUME TypeOK, MainThread
  PROVE  PodMoves
<1>1. CASE ListInstances
  BY <1>1 DEF PodMoves, ListInstances
<1>2. CASE EndReconcile
  BY <1>2 DEF PodMoves, EndReconcile
<1>3. CASE StartUnblocked
  BY <1>3, PropagateFailureFacts DEF TypeOK, PodMoves, StartUnblocked, SkipBlocked
<1>4. CASE LoopHead
  BY <1>4 DEF PodMoves, LoopHead
<1>5. CASE TeardownAll
  BY <1>5 DEF PodMoves, TeardownAll
<1>6. CASE Leave
  BY <1>6 DEF PodMoves, Leave
<1>7. CASE GracefulShutdown
  BY <1>7, SweepTable DEF PodMoves, GracefulShutdown, Touches
<1>8. CASE Exit
  BY <1>8 DEF PodMoves, Exit
<1>9. CASE ManualTeardown
  BY <1>9, SweepTable DEF PodMoves, ManualTeardown, Touches
<1>10. ASSUME NEW p \in Pods, MatchInstance(p)
      PROVE  PodMoves
  <2>1. /\ Touches(mem, mem', owner[p])
        /\ owner[p] \in Jobs => mem'[owner[p]].pod \in {mem[owner[p]].pod, p}
    BY <1>10, MatchTable DEF TypeOK
  <2>2. UNCHANGED <<file, newpod, owner>>
    BY <1>10 DEF MatchInstance
  <2>3. ASSUME NEW k \in Jobs
        PROVE  \/ mem'[k].pod = mem[k].pod
               \/ mem'[k].pod \in Pods /\ owner[mem'[k].pod] = k
    BY <1>10, <2>1 DEF Touches
  <2> QED
    BY <2>2, <2>3 DEF PodMoves
<1> QED
  BY <1>1, <1>2, <1>3, <1>4, <1>5, <1>6, <1>7, <1>8, <1>9, <1>10 DEF MainThread

\* Pod ids move as PodMoves says in the monitor tick.
LEMMA TickStepMovesPods ==
  ASSUME TypeOK, NEW j \in Jobs, TickStep(j)
  PROVE  PodMoves
<1>1. CASE TickSkip(j)
  BY <1>1 DEF PodMoves, TickSkip, TickFrame
<1>2. CASE TickResume(j)
  BY <1>2, ForgetTable DEF TypeOK, PodMoves, TickResume, TickFrame, Ticking
<1>3. CASE TickJobBudget(j)
  BY <1>3 DEF PodMoves, TickJobBudget, TickFrame, Ticking
<1>4. CASE TickExited(j)
  BY <1>4 DEF PodMoves, TickExited, TickFrame, Ticking
<1>5. CASE TickRunning(j)
  BY <1>5 DEF PodMoves, TickRunning, TickFrame, Ticking
<1>6. CASE TickIdle(j)
  BY <1>6, TickTable DEF TypeOK, PodMoves, TickIdle, TickFrame, Ticking, Vanished
<1>7. CASE TickIdleTimeout(j)
  BY <1>7 DEF PodMoves, TickIdleTimeout, TickFrame, Ticking, Vanished
<1>8. CASE TickUnknown(j)
  BY <1>8, TickUnknownTable DEF TypeOK, PodMoves, TickUnknown, TickFrame, Ticking, Touches
<1> QED
  BY <1>1, <1>2, <1>3, <1>4, <1>5, <1>6, <1>7, <1>8 DEF TickStep

\* Pod ids move as PodMoves says in _finish_job and _spot_recover.
LEMMA FinishStepMovesPods ==
  ASSUME TypeOK, NEW j \in Jobs, FinishStep(j)
  PROVE  PodMoves
<1>1. CASE RecoverTeardown(j)
  BY <1>1 DEF PodMoves, RecoverTeardown
<1>2. CASE RecoverBackoff(j)
  BY <1>2, ForgetTable DEF TypeOK, PodMoves, RecoverBackoff
<1>3. CASE FinalSync(j)
  BY <1>3, StatusTable DEF TypeOK, PodMoves, FinalSync, FinishFrame, Touches
<1>4. CASE FinishTeardown(j)
  BY <1>4 DEF PodMoves, FinishTeardown, FinishFrame
<1>5. CASE FinishRecord(j)
  BY <1>5, FinishRecordTable DEF PodMoves, FinishRecord, FinishFrame
<1> QED
  BY <1>1, <1>2, <1>3, <1>4, <1>5 DEF FinishStep

\* Pod ids move as PodMoves says in the provision-deploy-launch pipeline.
LEMMA PipelineStepMovesPods ==
  ASSUME TypeOK, NEW j \in Jobs, PipelineStep(j)
  PROVE  PodMoves
<1>1. CASE Begin(j)
  BY <1>1, StatusTable DEF TypeOK, PodMoves, Begin, Touches
<1>2. CASE AdoptPod(j)
  BY <1>2, SshTable DEF TypeOK, PodMoves, AdoptPod, Interrupted, Touches
<1>3. CASE Provision(j)
  BY <1>3, ProvisionTable DEF TypeOK, PodMoves, Provision, Touches
<1>4. CASE CreateInstance(j)
  BY <1>4, StatusTable DEF TypeOK, PodMoves, CreateInstance, Touches
<1>5. CASE NextCandidate(j)
  BY <1>5, ProvisionTable DEF TypeOK, PodMoves, NextCandidate, Interrupted, Touches
<1>6. CASE PersistCreated(j)
  <2>1. Touches(mem, mem', j) /\ mem'[j].pod = newpod[j]
    BY <1>6, PersistTable DEF TypeOK
  <2>2. file' = mem' /\ owner' = owner
    BY <1>6 DEF PersistCreated
  <2>3. \A k \in Jobs : newpod'[k] \in {newpod[k], NoPod}
    BY <1>6 DEF PersistCreated
  <2> QED
    BY <2>1, <2>2, <2>3 DEF PodMoves, Touches
<1>7. CASE RegisterCreated(j)
  BY <1>7 DEF PodMoves, RegisterCreated
<1>8. CASE AwaitSsh(j)
  BY <1>8, SshTable DEF TypeOK, PodMoves, AwaitSsh, Interrupted
<1>9. CASE ReleasePod(j)
  BY <1>9, ReleaseTable DEF TypeOK, PodMoves, ReleasePod, Touches
<1>10. CASE PodReady(j)
  BY <1>10, StatusTable DEF TypeOK, PodMoves, PodReady, Touches
<1>11. CASE Deploy(j)
  BY <1>11, StatusTable DEF TypeOK, PodMoves, Deploy, Touches
<1>12. CASE Launch(j)
  BY <1>12, StatusTable DEF TypeOK, PodMoves, Launch, Touches
<1>13. CASE RecordLaunch(j)
  BY <1>13 DEF TypeOK, PodMoves, RecordLaunch
<1>14. CASE AbortPipeline(j)
  BY <1>14, StatusTable DEF TypeOK, PodMoves, AbortPipeline, Touches
<1>15. CASE PipelineException(j)
  BY <1>15, StatusTable DEF TypeOK, PodMoves, PipelineException, Touches
<1> QED
  BY <1>1, <1>2, <1>3, <1>4, <1>5, <1>6, <1>7, <1>8, <1>9, <1>10, <1>11, <1>12, <1>13, <1>14,
     <1>15 DEF PipelineStep

\* Pod ids move as PodMoves says in commands, signals, failures and the pods.
LEMMA EnvironmentMovesPods ==
  ASSUME TypeOK, Environment
  PROVE  PodMoves
<1>1. ASSUME NEW C \in SUBSET Jobs, NEW flags \in SUBSET {"failed", "completed"}, Run(C, flags)
      PROVE  PodMoves
  BY <1>1, RunTable DEF TypeOK, PodMoves, Run
<1>2. ASSUME NEW C \in SUBSET Jobs, ManualTeardownStart(C)
      PROVE  PodMoves
  BY <1>2 DEF PodMoves, ManualTeardownStart
<1>3. CASE Beat
  BY <1>3 DEF PodMoves, Beat
<1>4. CASE Sigint
  BY <1>4 DEF PodMoves, Sigint
<1>5. CASE Kill
  BY <1>5 DEF PodMoves, Kill
<1>6. CASE Crash
  BY <1>6 DEF PodMoves, Crash
<1>7. ASSUME NEW p \in Pods, SpotLoss(p)
      PROVE  PodMoves
  BY <1>7 DEF PodMoves, SpotLoss
<1>8. ASSUME NEW p \in Pods, JobEnds(p)
      PROVE  PodMoves
  BY <1>8 DEF PodMoves, JobEnds
<1> QED
  BY <1>1, <1>2, <1>3, <1>4, <1>5, <1>6, <1>7, <1>8 DEF Environment

\* No step makes a job refer to another job's pod.
LEMMA NextKeepsOwnPods == TypeInv /\ OwnPodsOnly /\ [Next]_vars => OwnPodsOnly'
<1> SUFFICES ASSUME TypeInv, OwnPodsOnly, [Next]_vars
             PROVE  OwnPodsOnly'
  OBVIOUS
<1>1. TypeOK
  BY DEF TypeInv
<1>2. ASSUME NEW j \in Jobs, JobStep(j)
      PROVE  PodMoves
  BY <1>1, <1>2, TickStepMovesPods, FinishStepMovesPods, PipelineStepMovesPods DEF JobStep
<1>3. CASE UNCHANGED vars
  BY <1>3 DEF vars, OwnPodsOnly
<1> QED
  BY <1>1, <1>2, <1>3, MainThreadMovesPods, EnvironmentMovesPods, OwnPreserved DEF Next, Rest

\* In memory, in the state file and between create_instance and its callback,
\* a job only refers to pods that were created under its own name.
THEOREM OwnPods == Spec => []OwnPodsOnly
<1>1. Init => OwnPodsOnly
  BY DEF Init, OwnPodsOnly, AbsentJob, FreshJob
<1> QED
  BY <1>1, NextKeepsOwnPods, TypeInvariance, PTL DEF Spec

-----------------------------------------------------------------------------
(* A completed job was synced.                                              *)

\* What a step may do to the things SyncInv relates.
SyncMoves ==
  \A k \in Jobs :
    /\ mem'[k].status = "completed" =>
         \/ mem[k].status = "completed" \/ file[k].status = "completed"
         \/ pc[k] = "record" /\ fin.goal = "completed"
    /\ pc'[k] # "idle" =>
         /\ mem'[k].status = "completed" => mem[k].status = "completed"
         /\ pc[k] # "idle" \/ mem[k].status # "completed"
    /\ file'[k].status = "completed" =>
         \/ mem'[k].status = "completed"
         \/ /\ file[k].status = "completed"
            /\ pc[k] # "idle" \/ mem[k].status # "completed"
    /\ k \in synced => k \in synced' \/ pc[k] = "launch"

\* The step does not touch a _finish_job that runs.
FinishKept ==
  /\ UNCHANGED fin
  /\ \A k \in Jobs : pc'[k] \in FinishSteps => pc'[k] = pc[k] /\ mem'[k].pod = mem[k].pod

\* A step that keeps to SyncMoves, and leaves _finish_job alone or re-establishes
\* FinishSynced, keeps SyncInv.
LEMMA SyncPreserved ==
  ASSUME SyncInv, SyncMoves, FinishKept \/ FinishSynced'
  PROVE  SyncInv'
<1>1. CompletedAtRest'
  BY DEF SyncInv, SyncMoves, CompletedAtRest
<1>2. CompletedMeansSynced'
  BY <1>1 DEF SyncInv, SyncMoves, CompletedAtRest, CompletedMeansSynced, FinishSynced
<1>3. FinishSynced'
  BY DEF SyncInv, SyncMoves, FinishKept, FinishSteps, FinishSynced
<1> QED
  BY <1>1, <1>2, <1>3 DEF SyncInv

\* SyncInv is preserved by the main thread's own steps.
LEMMA MainThreadKeepsSync ==
  ASSUME TypeInv, SyncInv, MainThread
  PROVE  SyncInv'
<1>0. TypeOK /\ QuietPhases
  BY DEF TypeInv
<1>1. CASE ListInstances
  <2>1. SyncMoves
    BY <1>1, <1>0 DEF LiveStatuses, SyncMoves, ListInstances
  <2>2. FinishKept
    BY <1>1, <1>0 DEF FinishKept, FinishSteps, ListInstances
  <2> QED
    BY <2>1, <2>2, SyncPreserved
<1>2. CASE EndReconcile
  <2>1. SyncMoves
    BY <1>2, <1>0 DEF LiveStatuses, SyncMoves, EndReconcile
  <2>2. FinishKept
    BY <1>2, <1>0 DEF FinishKept, FinishSteps, EndReconcile
  <2> QED
    BY <2>1, <2>2, SyncPreserved
<1>3. CASE StartUnblocked
  <2>1. SyncMoves
    <3>1. /\ mem' \in [Jobs -> JobRecord]
          /\ \A k \in Jobs : mem'[k].status = "completed" <=> mem[k].status = "completed"
      BY <1>3, <1>0, PropagateFailureFacts DEF TypeOK, StartUnblocked, SkipBlocked
    <3>2. \A k \in Jobs : pc'[k] # "idle" => mem[k].status # "completed" \/ pc[k] # "idle"
      BY <1>3, <3>1 DEF StartUnblocked, ReadyJobs
    <3>3. UNCHANGED <<file, synced>>
      BY <1>3 DEF StartUnblocked
    <3> QED
      BY <1>3, <3>1, <3>2, <3>3 DEF SyncMoves
  <2>2. FinishKept
    BY <1>3, <1>0 DEF FinishKept, FinishSteps, StartUnblocked
  <2> QED
    BY <2>1, <2>2, SyncPreserved
<1>4. CASE LoopHead
  <2>1. SyncMoves
    BY <1>4, <1>0 DEF LiveStatuses, SyncMoves, LoopHead
  <2>2. FinishKept
    BY <1>4, <1>0 DEF FinishKept, FinishSteps, LoopHead
  <2> QED
    BY <2>1, <2>2, SyncPreserved
<1>5. CASE TeardownAll
  <2>1. SyncMoves
    BY <1>5, <1>0 DEF TypeOK, TickedStatuses, LiveStatuses, SyncMoves, TeardownAll
  <2>2. FinishSynced'
    BY <1>5, <1>0 DEF SyncInv, FinishSynced, TeardownAll
  <2> QED
    BY <2>1, <2>2, SyncPreserved
<1>6. CASE Leave
  <2>1. SyncMoves
    BY <1>6, <1>0 DEF LiveStatuses, SyncMoves, Leave
  <2>2. FinishKept
    BY <1>6, <1>0 DEF FinishKept, FinishSteps, Leave
  <2> QED
    BY <2>1, <2>2, SyncPreserved
<1>7. CASE GracefulShutdown
  <2>1. SyncMoves
    BY <1>7, <1>0, SweepTable
    DEF TickedStatuses, LiveStatuses, SyncMoves, GracefulShutdown, Touches
  <2>2. FinishKept
    BY <1>7, <1>0, SweepTable DEF FinishKept, FinishSteps, GracefulShutdown, Touches
  <2> QED
    BY <2>1, <2>2, SyncPreserved
<1>8. CASE Exit
  <2>1. SyncMoves
    BY <1>8, <1>0 DEF LiveStatuses, SyncMoves, Exit
  <2>2. FinishKept
    BY <1>8, <1>0 DEF FinishKept, FinishSteps, Exit
  <2> QED
    BY <2>1, <2>2, SyncPreserved
<1>9. CASE ManualTeardown
  <2>1. SyncMoves
    BY <1>9, <1>0, SweepTable
    DEF TickedStatuses, LiveStatuses, SyncMoves, ManualTeardown, Touches
  <2>2. FinishKept
    BY <1>9, <1>0, SweepTable DEF FinishKept, FinishSteps, ManualTeardown, Touches
  <2> QED
    BY <2>1, <2>2, SyncPreserved
<1>10. ASSUME NEW p \in Pods, MatchInstance(p)
      PROVE  SyncInv'
  <2>1. SyncMoves
    <3>1. /\ Touches(mem, mem', owner[p])
          /\ \A k \in Jobs : mem[k].status = "completed" => mem'[k].status = "completed"
      BY <1>10, <1>0, MatchTable DEF TypeOK
    <3>2. UNCHANGED <<file, synced, pc>> /\ Idle
      BY <1>10, <1>0 DEF QuietPhases, Quiet, MatchInstance
    <3> QED
      BY <1>10, <3>1, <3>2 DEF SyncMoves, Touches
  <2>2. FinishKept
    BY <1>10, <1>0
    DEF QuietPhases, Quiet, Idle, FinishKept, FinishSteps, MatchInstance, TerminateStray,
       MatchedJob
  <2> QED
    BY <2>1, <2>2, SyncPreserved
<1> QED
  BY <1>1, <1>2, <1>3, <1>4, <1>5, <1>6, <1>7, <1>8, <1>9, <1>10 DEF MainThread

\* SyncInv is preserved by the monitor tick.
LEMMA TickStepKeepsSync ==
  ASSUME TypeInv, SyncInv, NEW j \in Jobs, TickStep(j)
  PROVE  SyncInv'
<1>0. TypeOK /\ QuietPhases
  BY DEF TypeInv
<1>1. CASE TickSkip(j)
  <2>1. SyncMoves
    BY <1>1, <1>0 DEF LiveStatuses, SyncMoves, TickSkip, TickFrame
  <2>2. FinishKept
    BY <1>1, <1>0 DEF FinishKept, FinishSteps, TickSkip
  <2> QED
    BY <2>1, <2>2, SyncPreserved
<1>2. CASE TickResume(j)
  <2>1. SyncMoves
    <3>1. Touches(mem, mem', j)
      BY <1>2, <1>0, ForgetTable DEF TypeOK
    <3>2. pc[j] # "idle" \/ mem[j].status # "completed"
      BY <1>2 DEF TickedStatuses, TickResume, Ticking
    <3>3. \A k \in Jobs \ {j} : pc'[k] = pc[k]
      BY <1>2, <1>0 DEF TypeOK, TickResume
    <3>4. (file' = file \/ file' = mem') /\ synced \subseteq synced'
      BY <1>2 DEF TickResume, TickFrame
    <3> QED
      BY <1>2, <3>1, <3>2, <3>3, <3>4 DEF SyncMoves, Touches
  <2>2. FinishKept
    <3>1. Touches(mem, mem', j)
      BY <1>2, <1>0, ForgetTable DEF TypeOK
    <3>2. UNCHANGED fin /\ pc'[j] \notin FinishSteps
      BY <1>2, <1>0 DEF TypeOK, Idle, FinishSteps, TickResume, Ticking
    <3>3. \A k \in Jobs \ {j} : pc'[k] = pc[k]
      BY <1>2, <1>0 DEF TypeOK, TickResume
    <3> QED
      BY <1>2, <3>1, <3>2, <3>3 DEF FinishKept, FinishSteps, Touches
  <2> QED
    BY <2>1, <2>2, SyncPreserved
<1>3. CASE TickJobBudget(j)
  <2>1. SyncMoves
    BY <1>3, <1>0 DEF LiveStatuses, SyncMoves, TickJobBudget, TickFrame, Ticking, Finish
  <2>2. FinishSynced'
    BY <1>3, <1>0 DEF FinishSynced, TickJobBudget, Ticking, Finish
  <2> QED
    BY <2>1, <2>2, SyncPreserved
<1>4. CASE TickExited(j)
  <2>1. SyncMoves
    BY <1>4, <1>0 DEF LiveStatuses, SyncMoves, TickExited, TickFrame, Ticking, Finish
  <2>2. FinishSynced'
    <3>1. \A k \in Jobs : pc'[k] = IF k = j THEN "final_sync" ELSE "idle"
      BY <1>4, <1>0 DEF TypeOK, Idle, TickExited, Ticking, Finish
    <3>2. mem[j].pod # NoPod
      BY <1>4, <1>0, ConstantsAssumption DEF TypeOK, TickExited, Reachable
    <3>3. mem'[j].pod = mem[j].pod
      BY <1>4 DEF TickExited
    <3>4. ~fin'.force
      BY <1>4 DEF TickExited, Finish
    <3> QED
      BY <1>4, <3>1, <3>2, <3>3, <3>4 DEF FinishSynced
  <2> QED
    BY <2>1, <2>2, SyncPreserved
<1>5. CASE TickRunning(j)
  <2>1. SyncMoves
    BY <1>5, <1>0
    DEF TypeOK, TickedStatuses, LiveStatuses, SyncMoves, TickRunning, TickFrame, Ticking, Finish
  <2>2. FinishSynced'
    BY <1>5, <1>0 DEF SyncInv, FinishSynced, TickRunning, TickFrame, Ticking, Finish
  <2> QED
    BY <2>1, <2>2, SyncPreserved
<1>6. CASE TickIdle(j)
  <2>1. SyncMoves
    BY <1>6, <1>0, TickTable
    DEF TypeOK, TickedStatuses, LiveStatuses, SyncMoves, TickIdle, TickFrame, Ticking, Vanished,
       Touches
  <2>2. FinishKept
    BY <1>6, <1>0, TickTable DEF TypeOK, FinishKept, FinishSteps, TickIdle, Ticking, Vanished
  <2> QED
    BY <2>1, <2>2, SyncPreserved
<1>7. CASE TickIdleTimeout(j)
  <2>1. SyncMoves
    BY <1>7, <1>0
    DEF TickedStatuses, LiveStatuses, SyncMoves, TickIdleTimeout, TickFrame, Ticking, Vanished,
       Finish
  <2>2. FinishSynced'
    <3>1. \A k \in Jobs : pc'[k] = IF k = j THEN "final_sync" ELSE "idle"
      BY <1>7, <1>0 DEF TypeOK, Idle, TickIdleTimeout, Ticking, Finish, Vanished
    <3>2. mem[j].pod # NoPod
      BY <1>7, <1>0, ConstantsAssumption DEF TypeOK, TickIdleTimeout, Reachable, Vanished
    <3>3. mem'[j].pod = mem[j].pod
      BY <1>7, <1>0, TickTable DEF TypeOK
    <3>4. ~fin'.force
      BY <1>7 DEF TickIdleTimeout, Finish
    <3> QED
      BY <1>7, <3>1, <3>2, <3>3, <3>4 DEF FinishSynced
  <2> QED
    BY <2>1, <2>2, SyncPreserved
<1>8. CASE TickUnknown(j)
  <2>1. SyncMoves
    <3>1. Touches(mem, mem', j)
      BY <1>8, <1>0, TickUnknownTable DEF TypeOK
    <3>2. pc[j] # "idle" \/ mem[j].status # "completed"
      BY <1>8 DEF TickUnknown, GoneAnswer, Ticking
    <3>3. \A k \in Jobs \ {j} : pc'[k] = pc[k]
      BY <1>8, <1>0 DEF TypeOK, TickUnknown, GoneAnswer, Ticking
    <3>4. (file' = file \/ file' = mem') /\ synced \subseteq synced'
      BY <1>8 DEF TickUnknown, TickFrame, Ticking
    <3> QED
      BY <1>8, <3>1, <3>2, <3>3, <3>4 DEF SyncMoves, Touches
  <2>2. FinishKept
    <3>1. Touches(mem, mem', j)
      BY <1>8, <1>0, TickUnknownTable DEF TypeOK
    <3>2. UNCHANGED fin /\ pc'[j] \notin FinishSteps
      BY <1>8, <1>0 DEF TypeOK, Idle, FinishSteps, TickUnknown, GoneAnswer, Ticking
    <3>3. \A k \in Jobs \ {j} : pc'[k] = pc[k]
      BY <1>8, <1>0 DEF TypeOK, TickUnknown, GoneAnswer, Ticking
    <3> QED
      BY <1>8, <3>1, <3>2, <3>3 DEF FinishKept, FinishSteps, Touches
  <2> QED
    BY <2>1, <2>2, SyncPreserved
<1> QED
  BY <1>1, <1>2, <1>3, <1>4, <1>5, <1>6, <1>7, <1>8 DEF TickStep

\* SyncInv is preserved by _finish_job and _spot_recover.
LEMMA FinishStepKeepsSync ==
  ASSUME TypeInv, SyncInv, NEW j \in Jobs, FinishStep(j)
  PROVE  SyncInv'
<1>0. TypeOK /\ QuietPhases
  BY DEF TypeInv
<1>1. CASE RecoverTeardown(j)
  <2>1. SyncMoves
    BY <1>1, <1>0 DEF LiveStatuses, SyncMoves, RecoverTeardown
  <2>2. FinishKept
    BY <1>1, <1>0 DEF FinishKept, FinishSteps, RecoverTeardown
  <2> QED
    BY <2>1, <2>2, SyncPreserved
<1>2. CASE RecoverBackoff(j)
  <2>1. SyncMoves
    BY <1>2, <1>0, ForgetTable
    DEF TypeOK, TickedStatuses, LiveStatuses, SyncMoves, RecoverBackoff, Touches
  <2>2. FinishKept
    <3>1. Touches(mem, mem', j)
      BY <1>2, <1>0, ForgetTable DEF TypeOK
    <3>2. UNCHANGED fin /\ pc'[j] \notin FinishSteps
      BY <1>2, <1>0 DEF TypeOK, FinishSteps, RecoverBackoff
    <3>3. \A k \in Jobs \ {j} : pc'[k] = pc[k]
      BY <1>2, <1>0 DEF TypeOK, RecoverBackoff
    <3> QED
      BY <1>2, <3>1, <3>2, <3>3 DEF FinishKept, FinishSteps, Touches
  <2> QED
    BY <2>1, <2>2, SyncPreserved
<1>3. CASE FinalSync(j)
  <2>1. SyncMoves
    <3>1. Touches(mem, mem', j)
      BY <1>3, <1>0, StatusTable DEF TypeOK
    <3>2. pc[j] # "idle" \/ mem[j].status # "completed"
      BY <1>3 DEF FinalSync
    <3>3. \A k \in Jobs \ {j} : pc'[k] = pc[k]
      BY <1>3, <1>0 DEF TypeOK, FinalSync
    <3>4. (file' = file \/ file' = mem') /\ synced \subseteq synced'
      BY <1>3 DEF FinalSync, FinishFrame
    <3> QED
      BY <1>3, <3>1, <3>2, <3>3, <3>4 DEF SyncMoves, Touches
  <2>2. FinishSynced'
    <3>1. UNCHANGED fin /\ synced \subseteq synced'
      BY <1>3 DEF FinalSync
    <3>2. Touches(mem, mem', j)
      BY <1>3, <1>0, StatusTable DEF TypeOK
    <3>3. \A k \in Jobs \ {j} : pc'[k] = pc[k]
      BY <1>3, <1>0 DEF TypeOK, FinalSync
    <3>4. pc[j] = "final_sync" /\ pc'[j] \in {"teardown", "idle"}
      BY <1>3, <1>0 DEF TypeOK, FinalSync
    <3>5. fin.goal = "completed" /\ pc'[j] = "teardown" => j \in synced'
      BY <1>3, <1>0, <3>4 DEF TypeOK, FinalSync, TeardownAfterFailedSync, SyncInv, FinishSynced
    <3> QED
      BY <1>3, <3>1, <3>2, <3>3, <3>4, <3>5 DEF SyncInv, FinishSynced, Touches
  <2> QED
    BY <2>1, <2>2, SyncPreserved
<1>4. CASE FinishTeardown(j)
  <2>1. SyncMoves
    BY <1>4, <1>0 DEF LiveStatuses, SyncMoves, FinishTeardown, FinishFrame
  <2>2. FinishSynced'
    BY <1>4, <1>0 DEF TypeOK, SyncInv, FinishSynced, FinishTeardown
  <2> QED
    BY <2>1, <2>2, SyncPreserved
<1>5. CASE FinishRecord(j)
  <2>1. SyncMoves
    BY <1>5, <1>0, FinishRecordTable
    DEF TypeOK, TickedStatuses, LiveStatuses, SyncMoves, FinishRecord, FinishFrame, NoFinish
  <2>2. FinishSynced'
    BY <1>5, <1>0 DEF SyncInv, FinishSynced, FinishRecord, NoFinish
  <2> QED
    BY <2>1, <2>2, SyncPreserved
<1> QED
  BY <1>1, <1>2, <1>3, <1>4, <1>5 DEF FinishStep

\* SyncInv is preserved by the provision-deploy-launch pipeline.
LEMMA PipelineStepKeepsSync ==
  ASSUME TypeInv, SyncInv, NEW j \in Jobs, PipelineStep(j)
  PROVE  SyncInv'
<1>0. TypeOK /\ QuietPhases
  BY DEF TypeInv
<1>1. CASE Begin(j)
  <2>1. SyncMoves
    BY <1>1, <1>0, StatusTable
    DEF TypeOK, TickedStatuses, LiveStatuses, SyncMoves, Begin, Touches
  <2>2. FinishKept
    BY <1>1, <1>0, StatusTable DEF TypeOK, FinishKept, FinishSteps, Begin, PipeFrame, Touches
  <2> QED
    BY <2>1, <2>2, SyncPreserved
<1>2. CASE AdoptPod(j)
  <2>1. SyncMoves
    BY <1>2, <1>0, SshTable
    DEF TypeOK, TickedStatuses, LiveStatuses, SyncMoves, AdoptPod, Interrupted, Touches
  <2>2. FinishKept
    BY <1>2, <1>0, SshTable
    DEF TypeOK, FinishKept, FinishSteps, AdoptPod, PipeFrame, Interrupted, Touches
  <2> QED
    BY <2>1, <2>2, SyncPreserved
<1>3. CASE Provision(j)
  <2>1. SyncMoves
    BY <1>3, <1>0, ProvisionTable, ConstantsAssumption
    DEF TypeOK, TickedStatuses, LiveStatuses, SyncMoves, Provision, Touches
  <2>2. FinishKept
    <3>1. Touches(mem, mem', j)
      BY <1>3, <1>0, ProvisionTable DEF TypeOK
    <3>2. UNCHANGED fin /\ pc'[j] \notin FinishSteps
      BY <1>3, <1>0 DEF TypeOK, FinishSteps, Provision, PipeFrame
    <3>3. \A k \in Jobs \ {j} : pc'[k] = pc[k]
      BY <1>3, <1>0 DEF TypeOK, Provision
    <3> QED
      BY <1>3, <3>1, <3>2, <3>3 DEF FinishKept, FinishSteps, Touches
  <2> QED
    BY <2>1, <2>2, SyncPreserved
<1>4. CASE CreateInstance(j)
  <2>1. SyncMoves
    BY <1>4, <1>0, StatusTable
    DEF TypeOK, TickedStatuses, LiveStatuses, SyncMoves, CreateInstance, Touches
  <2>2. FinishKept
    BY <1>4, <1>0, StatusTable
    DEF TypeOK, FinishKept, FinishSteps, CreateInstance, PipeFrame, Touches
  <2> QED
    BY <2>1, <2>2, SyncPreserved
<1>5. CASE NextCandidate(j)
  <2>1. SyncMoves
    BY <1>5, <1>0, ProvisionTable
    DEF TypeOK, TickedStatuses, LiveStatuses, SyncMoves, NextCandidate, Interrupted, Touches
  <2>2. FinishKept
    BY <1>5, <1>0, ProvisionTable
    DEF TypeOK, FinishKept, FinishSteps, NextCandidate, PipeFrame, Interrupted, Touches
  <2> QED
    BY <2>1, <2>2, SyncPreserved
<1>6. CASE PersistCreated(j)
  <2>1. SyncMoves
    <3>1. Touches(mem, mem', j)
      BY <1>6, <1>0, PersistTable DEF TypeOK
    <3>2. pc[j] # "idle" \/ mem[j].status # "completed"
      BY <1>6 DEF PersistCreated
    <3>3. \A k \in Jobs \ {j} : pc'[k] = pc[k]
      BY <1>6, <1>0 DEF PersistCreated
    <3>4. (file' = file \/ file' = mem') /\ synced \subseteq synced'
      BY <1>6 DEF PersistCreated
    <3> QED
      BY <1>6, <3>1, <3>2, <3>3, <3>4 DEF SyncMoves, Touches
  <2>2. FinishKept
    <3>1. Touches(mem, mem', j)
      BY <1>6, <1>0, PersistTable DEF TypeOK
    <3>2. UNCHANGED fin /\ pc'[j] \notin FinishSteps
      BY <1>6, <1>0 DEF FinishSteps, PersistCreated, PipeFrame
    <3>3. \A k \in Jobs \ {j} : pc'[k] = pc[k]
      BY <1>6, <1>0 DEF PersistCreated
    <3> QED
      BY <1>6, <3>1, <3>2, <3>3 DEF FinishKept, FinishSteps, Touches
  <2> QED
    BY <2>1, <2>2, SyncPreserved
<1>7. CASE RegisterCreated(j)
  <2>1. SyncMoves
    BY <1>7, <1>0 DEF LiveStatuses, SyncMoves, RegisterCreated
  <2>2. FinishKept
    BY <1>7, <1>0 DEF FinishKept, FinishSteps, RegisterCreated, PipeFrame
  <2> QED
    BY <2>1, <2>2, SyncPreserved
<1>8. CASE AwaitSsh(j)
  <2>1. SyncMoves
    BY <1>8, <1>0, SshTable
    DEF TypeOK, TickedStatuses, LiveStatuses, SyncMoves, AwaitSsh, Interrupted, Touches
  <2>2. FinishKept
    BY <1>8, <1>0 DEF TypeOK, FinishKept, FinishSteps, AwaitSsh, PipeFrame, Interrupted
  <2> QED
    BY <2>1, <2>2, SyncPreserved
<1>9. CASE ReleasePod(j)
  <2>1. SyncMoves
    BY <1>9, <1>0, ReleaseTable
    DEF TypeOK, TickedStatuses, LiveStatuses, SyncMoves, ReleasePod, Touches
  <2>2. FinishKept
    <3>1. Touches(mem, mem', j)
      BY <1>9, <1>0, ReleaseTable DEF TypeOK
    <3>2. UNCHANGED fin /\ pc'[j] \notin FinishSteps
      BY <1>9, <1>0 DEF TypeOK, FinishSteps, ReleasePod, PipeFrame
    <3>3. \A k \in Jobs \ {j} : pc'[k] = pc[k]
      BY <1>9, <1>0 DEF TypeOK, ReleasePod
    <3> QED
      BY <1>9, <3>1, <3>2, <3>3 DEF FinishKept, FinishSteps, Touches
  <2> QED
    BY <2>1, <2>2, SyncPreserved
<1>10. CASE PodReady(j)
  <2>1. SyncMoves
    BY <1>10, <1>0, StatusTable
    DEF TypeOK, TickedStatuses, LiveStatuses, SyncMoves, PodReady, Touches
  <2>2. FinishKept
    BY <1>10, <1>0, StatusTable DEF TypeOK, FinishKept, FinishSteps, PodReady, PipeFrame, Touches
  <2> QED
    BY <2>1, <2>2, SyncPreserved
<1>11. CASE Deploy(j)
  <2>1. SyncMoves
    BY <1>11, <1>0, StatusTable
    DEF TypeOK, TickedStatuses, LiveStatuses, SyncMoves, Deploy, Touches
  <2>2. FinishKept
    BY <1>11, <1>0, StatusTable DEF TypeOK, FinishKept, FinishSteps, Deploy, PipeFrame, Touches
  <2> QED
    BY <2>1, <2>2, SyncPreserved
<1>12. CASE Launch(j)
  <2>1. SyncMoves
    BY <1>12, <1>0, StatusTable
    DEF TypeOK, TickedStatuses, LiveStatuses, SyncMoves, Launch, Touches
  <2>2. FinishKept
    BY <1>12, <1>0, StatusTable DEF TypeOK, FinishKept, FinishSteps, Launch, PipeFrame, Touches
  <2> QED
    BY <2>1, <2>2, SyncPreserved
<1>13. CASE RecordLaunch(j)
  <2>1. SyncMoves
    <3>1. Touches(mem, mem', j)
      BY <1>13, <1>0, RecordLaunchTable DEF TypeOK
    <3>2. pc[j] # "idle" \/ mem[j].status # "completed"
      BY <1>13 DEF RecordLaunch
    <3>3. \A k \in Jobs \ {j} : pc'[k] = pc[k]
      BY <1>13, <1>0 DEF RecordLaunch
    <3>4. (file' = file \/ file' = mem') /\ synced \subseteq synced'
      BY <1>13 DEF RecordLaunch
    <3> QED
      BY <1>13, <3>1, <3>2, <3>3, <3>4 DEF SyncMoves, Touches
  <2>2. FinishKept
    BY <1>13, <1>0 DEF TypeOK, FinishKept, FinishSteps, RecordLaunch, PipeFrame
  <2> QED
    BY <2>1, <2>2, SyncPreserved
<1>14. CASE AbortPipeline(j)
  <2>1. SyncMoves
    BY <1>14, <1>0, StatusTable
    DEF TypeOK, TickedStatuses, LiveStatuses, SyncMoves, AbortPipeline, Touches
  <2>2. FinishKept
    BY <1>14, <1>0, StatusTable
    DEF TypeOK, FinishKept, FinishSteps, AbortPipeline, PipeFrame, Touches
  <2> QED
    BY <2>1, <2>2, SyncPreserved
<1>15. CASE PipelineException(j)
  <2>1. SyncMoves
    BY <1>15, <1>0, StatusTable
    DEF TypeOK, TickedStatuses, LiveStatuses, SyncMoves, PipelineException, Touches
  <2>2. FinishKept
    BY <1>15, <1>0, StatusTable
    DEF TypeOK, FinishKept, FinishSteps, PipelineException, PipeFrame, Touches
  <2> QED
    BY <2>1, <2>2, SyncPreserved
<1> QED
  BY <1>1, <1>2, <1>3, <1>4, <1>5, <1>6, <1>7, <1>8, <1>9, <1>10, <1>11, <1>12, <1>13, <1>14,
     <1>15 DEF PipelineStep

\* SyncInv is preserved by commands, signals, failures and the pods.
LEMMA EnvironmentKeepsSync ==
  ASSUME TypeInv, SyncInv, Environment
  PROVE  SyncInv'
<1>0. TypeOK /\ QuietPhases
  BY DEF TypeInv
<1>1. ASSUME NEW C \in SUBSET Jobs, NEW flags \in SUBSET {"failed", "completed"}, Run(C, flags)
      PROVE  SyncInv'
  <2>1. SyncMoves
    BY <1>1, <1>0, RunTable DEF TypeOK, QuietPhases, Quiet, Idle, SyncMoves, Run
  <2>2. FinishKept
    BY <1>1, <1>0 DEF QuietPhases, Quiet, Idle, FinishKept, FinishSteps, Run
  <2> QED
    BY <2>1, <2>2, SyncPreserved
<1>2. ASSUME NEW C \in SUBSET Jobs, ManualTeardownStart(C)
      PROVE  SyncInv'
  <2>1. SyncMoves
    BY <1>2, <1>0 DEF LiveStatuses, SyncMoves, ManualTeardownStart
  <2>2. FinishKept
    BY <1>2, <1>0 DEF FinishKept, FinishSteps, ManualTeardownStart
  <2> QED
    BY <2>1, <2>2, SyncPreserved
<1>3. CASE Beat
  <2>1. SyncMoves
    BY <1>3, <1>0 DEF LiveStatuses, SyncMoves, Beat
  <2>2. FinishKept
    BY <1>3, <1>0 DEF FinishKept, FinishSteps, Beat
  <2> QED
    BY <2>1, <2>2, SyncPreserved
<1>4. CASE Sigint
  <2>1. SyncMoves
    BY <1>4, <1>0 DEF LiveStatuses, SyncMoves, Sigint
  <2>2. FinishKept
    BY <1>4, <1>0 DEF FinishKept, FinishSteps, Sigint
  <2> QED
    BY <2>1, <2>2, SyncPreserved
<1>5. CASE Kill
  <2>1. SyncMoves
    BY <1>5, <1>0 DEF LiveStatuses, SyncMoves, Kill, NoFinish
  <2>2. FinishSynced'
    BY <1>5, <1>0 DEF FinishSynced, Kill, NoFinish
  <2> QED
    BY <2>1, <2>2, SyncPreserved
<1>6. CASE Crash
  <2>1. SyncMoves
    BY <1>6, CrashTable DEF SyncMoves
  <2>2. FinishSynced'
    BY <1>6, CrashTable DEF FinishSynced, NoFinish
  <2> QED
    BY <2>1, <2>2, SyncPreserved
<1>7. ASSUME NEW p \in Pods, SpotLoss(p)
      PROVE  SyncInv'
  <2>1. SyncMoves
    BY <1>7, <1>0 DEF LiveStatuses, SyncMoves, SpotLoss
  <2>2. FinishKept
    BY <1>7, <1>0 DEF FinishKept, FinishSteps, SpotLoss
  <2> QED
    BY <2>1, <2>2, SyncPreserved
<1>8. ASSUME NEW p \in Pods, JobEnds(p)
      PROVE  SyncInv'
  <2>1. SyncMoves
    BY <1>8, <1>0 DEF LiveStatuses, SyncMoves, JobEnds
  <2>2. FinishKept
    BY <1>8, <1>0 DEF FinishKept, FinishSteps, JobEnds
  <2> QED
    BY <2>1, <2>2, SyncPreserved
<1> QED
  BY <1>1, <1>2, <1>3, <1>4, <1>5, <1>6, <1>7, <1>8 DEF Environment

\* No step completes a job without its results.
LEMMA NextKeepsSync == TypeInv /\ SyncInv /\ [Next]_vars => SyncInv'
<1> SUFFICES ASSUME TypeInv, SyncInv, [Next]_vars
             PROVE  SyncInv'
  OBVIOUS
<1>1. ASSUME NEW j \in Jobs, JobStep(j)
      PROVE  SyncInv'
  BY <1>1, TickStepKeepsSync, FinishStepKeepsSync, PipelineStepKeepsSync DEF JobStep
<1>2. CASE UNCHANGED vars
  BY <1>2 DEF vars, SyncInv, CompletedMeansSynced, FinishSynced, CompletedAtRest
<1> QED
  BY <1>1, <1>2, MainThreadKeepsSync, EnvironmentKeepsSync DEF Next, Rest

\* A job recorded as completed, in memory or in the state file, had the
\* results of its latest process pulled at its end.
THEOREM CompletedSynced == Spec => []CompletedMeansSynced
<1>1. Init => SyncInv
  BY DEF Init, SyncInv, CompletedMeansSynced, FinishSynced, CompletedAtRest, AbsentJob, FreshJob,
         NoFinish
<1>2. SyncInv => CompletedMeansSynced
  BY DEF SyncInv
<1> QED
  BY <1>1, <1>2, NextKeepsSync, TypeInvariance, PTL DEF Spec

-----------------------------------------------------------------------------
(* Pods are released before they are logged as stopped or dropped.          *)

\* A terminate call is made, whatever comes of it.
LEMMA TerminateGives ==
  ASSUME NEW p, NEW ok, Terminate(p, ok)
  PROVE  tried' = tried \cup {p} /\ alive' \subseteq alive
  BY DEF Terminate

\* registry.update_pod changes one record, and only if it exists.
LEMMA UpdateGives ==
  ASSUME TypeOK, NEW p, NEW s \in {"running", "terminated"}, NEW q \in Pods
  PROVE  /\ RegistryUpdate(registry, p, s)[q] = "absent" <=> registry[q] = "absent"
         /\ RegistryUpdate(registry, p, s)[q] \in {registry[q], s}
         /\ q # p => RegistryUpdate(registry, p, s)[q] = registry[q]
  BY DEF TypeOK, RegistryUpdate

\* registry.add_pod makes one record say "running".
LEMMA AddGives ==
  ASSUME TypeOK, NEW p \in Pods, NEW q \in Pods
  PROVE  RegistryAdd(registry, p)[q] = IF q = p THEN "running" ELSE registry[q]
  BY DEF TypeOK, RegistryAdd

\* The pod of a job was created for it.
LEMMA OwnPod ==
  ASSUME TypeOK, OwnPodsOnly, NEW j \in Jobs
  PROVE  /\ mem[j].pod \in Pods \cup {NoPod} /\ (mem[j].pod # NoPod => owner[mem[j].pod] = j)
         /\ newpod[j] \in Pods \cup {NoPod} /\ (newpod[j] # NoPod => owner[newpod[j]] = j)
         /\ j # 0
  BY PodIds DEF TypeOK, OwnPodsOnly, Jobs

\* What a step may do to the pods, the registry and the cost log: a pod is
\* alive, listed, known or registered only after it was created; it is logged
\* as stopped, or registered as terminated while it exists, only when a
\* terminate call was made for it.
ReleaseMoves ==
  /\ tried \subseteq tried'
  /\ \A p \in Pods :
       /\ p \in alive' => p \in alive \/ (owner[p] = 0 /\ owner'[p] # 0)
       /\ p \in insts' \cup known' => p \in alive \cup insts \cup known \/ owner[p] # 0
       /\ registry'[p] # "absent" => registry[p] # "absent" \/ owner[p] # 0
       /\ registry[p] # "absent" => registry'[p] # "absent"
       /\ registry'[p] = "terminated" => \/ registry[p] = "terminated"
                                         \/ p \in tried' \/ p \notin alive'
       /\ <<"stopped", p>> \in events' => \/ <<"stopped", p>> \in events
                                          \/ /\ owner[p] # 0
                                             /\ p \in tried' \/ owner[p] \in KeepAlive

\* A step that moves pods as PodMoves and ReleaseMoves allow keeps what
\* ReleaseInv says of the pods themselves.
LEMMA ReleasePreserved ==
  ASSUME TypeOK', PodMoves, ReleaseInv, ReleaseMoves
  PROVE  OnlyCreatedPods' /\ StoppedMeansReleased' /\ TerminatedMeansTried'
<1> USE DEF PodMoves, ReleaseInv, ReleaseMoves, OnlyCreatedPods
<1>1. OnlyCreatedPods'
  OBVIOUS
<1>2. ASSUME NEW p \in Pods, p \in alive', owner[p] # 0
      PROVE  p \in alive /\ owner'[p] = owner[p]
  BY <1>2
<1>3. alive' \subseteq Pods
  BY DEF TypeOK
<1>4. StoppedMeansReleased'
  BY <1>2, <1>3 DEF StoppedMeansReleased
<1>5. TerminatedMeansTried'
  BY <1>2, <1>3 DEF TerminatedMeansTried
<1> QED
  BY <1>1, <1>4, <1>5

\* ReleaseMoves holds of the main thread's own steps.
LEMMA MainThreadReleases ==
  ASSUME TypeOK, OwnPodsOnly, ReleaseInv, MainThread
  PROVE  ReleaseMoves
<1>1. CASE ListInstances
  BY <1>1 DEF ReleaseMoves, ListInstances
<1>2. CASE EndReconcile
  BY <1>2 DEF ReleaseMoves, EndReconcile
<1>3. CASE StartUnblocked
  BY <1>3 DEF ReleaseMoves, StartUnblocked
<1>4. CASE LoopHead
  BY <1>4 DEF ReleaseMoves, LoopHead
<1>5. CASE TeardownAll
  BY <1>5 DEF ReleaseMoves, TeardownAll
<1>6. CASE Leave
  BY <1>6 DEF ReleaseMoves, Leave
<1>7. CASE GracefulShutdown
  <2>1. UNCHANGED <<insts, registry, known, owner>>
    BY <1>7 DEF GracefulShutdown
  <2>2. CASE UNCHANGED <<events, alive, tried>>
    BY <2>1, <2>2 DEF ReleaseMoves
  <2>3. ASSUME cursor \in Jobs, mem[cursor].pod = NoPod
        PROVE  UNCHANGED <<events, alive, tried>>
    BY <1>7, <2>3 DEF GracefulShutdown
  <2>4. CASE cursor \in Jobs /\ mem[cursor].pod # NoPod
    <3> DEFINE p == mem[cursor].pod
    <3>1. p \in Pods /\ owner[p] = cursor /\ cursor # 0
      BY <2>4, OwnPod
    <3>2. \/ tried' = tried \cup {p} /\ alive' \subseteq alive
          \/ UNCHANGED <<alive, tried>> /\ (cursor \in KeepAlive \/ events' = events)
      BY <1>7, <2>4, TerminateGives DEF GracefulShutdown
    <3>3. events' \subseteq events \cup {<<"stopped", p>>}
      BY <1>7, <2>4 DEF GracefulShutdown
    <3> HIDE DEF p
    <3> QED
      BY <2>1, <3>1, <3>2, <3>3 DEF ReleaseMoves
  <2>5. CASE cursor \notin Jobs
    BY <1>7, <2>2, <2>5 DEF GracefulShutdown
  <2> QED
    BY <2>2, <2>3, <2>4, <2>5
<1>8. CASE Exit
  BY <1>8 DEF ReleaseMoves, Exit
<1>9. CASE ManualTeardown
  <2>1. UNCHANGED <<insts, known, owner>>
    BY <1>9 DEF ManualTeardown
  <2>2. CASE UNCHANGED <<registry, events, alive, tried>>
    BY <2>1, <2>2 DEF ReleaseMoves
  <2>3. CASE cursor \in Jobs /\ mem[cursor].pod # NoPod /\ cursor \in cfgs
    <3> DEFINE p == mem[cursor].pod
    <3>1. p \in Pods /\ owner[p] = cursor /\ cursor # 0
      BY <2>3, OwnPod
    <3>2. tried' = tried \cup {p} /\ alive' \subseteq alive
      BY <1>9, <2>3, TerminateGives DEF ManualTeardown
    <3>3. events' \subseteq events \cup {<<"stopped", p>>}
      BY <1>9, <2>3 DEF ManualTeardown
    <3>4. PICK s \in {"running", "terminated"} : registry' = RegistryUpdate(registry, p, s)
      BY <1>9, <2>3 DEF ManualTeardown
    <3>5. \A q \in Pods : /\ registry'[q] = "absent" <=> registry[q] = "absent"
                          /\ q # p => registry'[q] = registry[q]
      BY <3>4, UpdateGives
    <3> HIDE DEF p
    <3> QED
      BY <2>1, <3>1, <3>2, <3>3, <3>5 DEF ReleaseMoves
  <2>4. CASE ~(cursor \in Jobs /\ mem[cursor].pod # NoPod /\ cursor \in cfgs)
    BY <1>9, <2>2, <2>4 DEF ManualTeardown
  <2> QED
    BY <2>3, <2>4
<1>10. ASSUME NEW p \in Pods, MatchInstance(p)
       PROVE  ReleaseMoves
  <2>1. owner[p] # 0 /\ insts' \subseteq insts /\ known' = known \cup {p} /\ owner' = owner
    BY <1>10 DEF MatchInstance, ReleaseInv, OnlyCreatedPods
  <2>2. CASE TerminateStray(p)
    <3>1. tried' = tried \cup {p} /\ alive' \subseteq alive
      BY <2>2, TerminateGives DEF TerminateStray
    <3>2. PICK s \in {"running", "terminated"} : registry' = RegistryUpdate(registry, p, s)
      BY <2>2 DEF TerminateStray
    <3>3. \A q \in Pods : /\ registry'[q] = "absent" <=> registry[q] = "absent"
                          /\ q # p => registry'[q] = registry[q]
      BY <3>2, UpdateGives
    <3>4. events' = events \cup {<<"stopped", p>>}
      BY <2>2 DEF TerminateStray
    <3> QED
      BY <2>1, <3>1, <3>3, <3>4 DEF ReleaseMoves
  <2>3. CASE UNCHANGED <<registry, events, alive, tried>>
    BY <2>1, <2>3 DEF ReleaseMoves
  <2>4. CASE UNCHANGED <<events, alive, tried>> /\ registry' = RegistryAdd(registry, p)
    BY <2>1, <2>4, AddGives DEF ReleaseMoves
  <2>5. ASSUME owner[p] \in cfgs, SaysGone(mem[owner[p]].pod), UNCHANGED <<events, alive, tried>>,
               registry' = RegistryAdd(RegistryUpdate(registry, mem[owner[p]].pod, "terminated"), p)
        PROVE  ReleaseMoves
    <3> DEFINE g == mem[owner[p]].pod
               reg == RegistryUpdate(registry, g, "terminated")
    <3>1. g \in Pods /\ g \notin alive
      BY <2>5 DEF SaysGone
    <3>2. \A q \in Pods : /\ reg[q] = "absent" <=> registry[q] = "absent"
                          /\ q # g => reg[q] = registry[q]
      BY UpdateGives
    <3>3. \A q \in Pods \ {p} : registry'[q] = reg[q]
      BY <2>5 DEF RegistryAdd
    <3>4. registry'[p] = "running"
      BY <2>5, <3>1 DEF TypeOK, RegistryAdd, RegistryUpdate
    <3> HIDE DEF g, reg
    <3> QED
      BY <2>1, <2>5, <3>1, <3>2, <3>3, <3>4 DEF ReleaseMoves
  <2> QED
    BY <1>10, <2>2, <2>3, <2>4, <2>5 DEF MatchInstance, MatchedJob
<1> QED
  BY <1>1, <1>2, <1>3, <1>4, <1>5, <1>6, <1>7, <1>8, <1>9, <1>10 DEF MainThread

\* ReleaseMoves holds of the monitor tick.
LEMMA TickStepReleases ==
  ASSUME TypeOK, OwnPodsOnly, ReleaseInv, NEW j \in Jobs, TickStep(j)
  PROVE  ReleaseMoves
<1>1. CASE UNCHANGED <<registry, events, alive, tried, insts, known, owner>>
  BY <1>1 DEF ReleaseMoves
<1>2. CASE TickResume(j)
  <2>1. UNCHANGED <<events, alive, tried, insts, known, owner>>
    BY <1>2 DEF TickResume, TickFrame
  <2>2. CASE SaysGone(mem[j].pod) /\ registry' = RegistryUpdate(registry, mem[j].pod, "terminated")
    <3> DEFINE p == mem[j].pod
    <3>1. p \notin alive
      BY <2>2 DEF SaysGone
    <3>2. \A q \in Pods : /\ registry'[q] = "absent" <=> registry[q] = "absent"
                          /\ q # p => registry'[q] = registry[q]
      BY <2>2, UpdateGives
    <3> HIDE DEF p
    <3> QED
      BY <2>1, <3>1, <3>2 DEF ReleaseMoves
  <2>3. \/ registry' = registry
        \/ SaysGone(mem[j].pod) /\ registry' = RegistryUpdate(registry, mem[j].pod, "terminated")
    BY <1>2 DEF TickResume
  <2> QED
    BY <1>1, <2>1, <2>2, <2>3
<1>3. CASE TickSkip(j) \/ TickJobBudget(j) \/ TickExited(j) \/ TickRunning(j) \/ TickIdle(j)
             \/ TickIdleTimeout(j) \/ TickUnknown(j)
  BY <1>1, <1>3
  DEF TickFrame, TickSkip, TickJobBudget, TickExited, TickRunning, TickIdle, TickIdleTimeout,
     TickUnknown
<1> QED
  BY <1>2, <1>3 DEF TickStep

\* ReleaseMoves holds of _finish_job and _spot_recover.
LEMMA FinishStepReleases ==
  ASSUME TypeInv, OwnPodsOnly, ReleaseInv, NEW j \in Jobs, FinishStep(j)
  PROVE  ReleaseMoves
<1> DEFINE p == mem[j].pod
<1>0. TypeOK
  BY DEF TypeInv
<1>1. /\ p \in Pods \cup {NoPod} /\ (p # NoPod => owner[p] = j) /\ j # 0
      /\ NoPod \notin Pods
  BY <1>0, OwnPod, ConstantsAssumption
<1>2. UNCHANGED <<insts, known, owner>>
  BY DEF FinishStep, RecoverTeardown, RecoverBackoff, FinalSync, FinishTeardown, FinishRecord,
         FinishFrame
<1>3. ASSUME NEW s \in {"running", "terminated"}, registry' = RegistryUpdate(registry, p, s)
      PROVE  \A q \in Pods : /\ registry'[q] = "absent" <=> registry[q] = "absent"
                             /\ registry'[q] \in {registry[q], s}
                             /\ q # p => registry'[q] = registry[q]
  BY <1>0, <1>3, UpdateGives
<1>4. CASE RecoverTeardown(j)
  <2>1. /\ tried' = tried \cup {p} /\ alive' \subseteq alive
        /\ events' = events \cup {<<"stopped", p>>}
        /\ registry' = RegistryUpdate(registry, p, "terminated")
    BY <1>4, TerminateGives DEF RecoverTeardown
  <2> HIDE DEF p
  <2> QED
    BY <1>1, <1>2, <1>3, <2>1 DEF ReleaseMoves
<1>5. CASE RecoverBackoff(j)
  BY <1>2, <1>5 DEF RecoverBackoff, ReleaseMoves
<1>6. CASE FinalSync(j)
  <2>1. /\ UNCHANGED <<events, alive, tried>>
        /\ registry' = registry \/ registry' = RegistryUpdate(registry, p, "running")
    BY <1>6 DEF FinalSync
  <2> HIDE DEF p
  <2> QED
    BY <1>2, <1>3, <2>1 DEF ReleaseMoves
<1>7. CASE FinishTeardown(j)
  <2>1. UNCHANGED <<registry, events>> /\ tried \subseteq tried' /\ alive' \subseteq alive
    BY <1>7, TerminateGives DEF FinishTeardown
  <2> QED
    BY <1>2, <2>1 DEF ReleaseMoves
<1>8. CASE FinishRecord(j)
  <2>1. /\ UNCHANGED <<alive, tried>> /\ events' = events \cup {<<"stopped", p>>}
        /\ \E s \in {"running", "terminated"} :
             registry' = RegistryUpdate(registry, p, s) /\ (s = "terminated" => fin.torn)
    BY <1>8 DEF FinishRecord, FinalRegistryStatus
  <2>2. GivenUp(p) \/ j \in KeepAlive
    BY <1>8 DEF FinishRecord, ReleaseInv, ReleasedFirst, ReleasesFirst
  <2>3. fin.torn => GivenUp(p)
    BY <1>8 DEF FinishRecord, ReleaseInv, ReleasedFirst, ReleasesFirst
  <2> HIDE DEF p
  <2> QED
    BY <1>1, <1>2, <1>3, <2>1, <2>2, <2>3 DEF ReleaseMoves, GivenUp
<1> QED
  BY <1>4, <1>5, <1>6, <1>7, <1>8 DEF FinishStep

\* ReleaseMoves holds of the provision-deploy-launch pipeline.
LEMMA PipelineStepReleases ==
  ASSUME TypeInv, OwnPodsOnly, ReleaseInv, NEW j \in Jobs, PipelineStep(j)
  PROVE  ReleaseMoves
<1> DEFINE p == mem[j].pod
<1>0. TypeOK /\ PodSteps
  BY DEF TypeInv
<1>1. /\ p \in Pods \cup {NoPod} /\ (p # NoPod => owner[p] = j) /\ j # 0
      /\ newpod[j] \in Pods \cup {NoPod} /\ (newpod[j] # NoPod => owner[newpod[j]] = j)
      /\ NoPod \notin Pods
  BY <1>0, OwnPod, ConstantsAssumption
<1>2. ASSUME NEW s \in {"running", "terminated"}, registry' = RegistryUpdate(registry, p, s)
      PROVE  \A q \in Pods : /\ registry'[q] = "absent" <=> registry[q] = "absent"
                             /\ registry'[q] \in {registry[q], s}
                             /\ q # p => registry'[q] = registry[q]
  BY <1>0, <1>2, UpdateGives
<1>3. ASSUME p # NoPod, registry' = RegistryAdd(registry, p)
      PROVE  \A q \in Pods : registry'[q] = IF q = p THEN "running" ELSE registry[q]
  BY <1>0, <1>1, <1>3, AddGives
<1>4. CASE UNCHANGED <<registry, events, alive, tried, insts, known, owner>>
  BY <1>4 DEF ReleaseMoves
<1>5. CASE Begin(j)
  <2>1. UNCHANGED <<events, insts, known, owner>>
    BY <1>5 DEF Begin, PipeFrame
  <2>2. \/ UNCHANGED <<registry, alive, tried>>
        \/ /\ tried' = tried \cup {p} /\ alive' \subseteq alive
           /\ registry' = registry \/ registry' = RegistryUpdate(registry, p, "terminated")
    BY <1>5, TerminateGives DEF Begin
  <2> HIDE DEF p
  <2> QED
    BY <1>2, <2>1, <2>2 DEF ReleaseMoves
<1>6. CASE AdoptPod(j) \/ Provision(j) \/ NextCandidate(j) \/ AwaitSsh(j) \/ Deploy(j)
             \/ Launch(j) \/ RecordLaunch(j)
  BY <1>4, <1>6
  DEF PipeFrame, Interrupted, AdoptPod, Provision, NextCandidate, AwaitSsh, Deploy, Launch,
     RecordLaunch
<1>7. CASE CreateInstance(j)
  <2>1. UNCHANGED <<registry, events, tried, insts, known>>
    BY <1>7 DEF CreateInstance, PipeFrame
  <2>2. \/ UNCHANGED <<alive, owner>>
        \/ \E q \in Pods : /\ owner[q] = 0 /\ alive' = alive \cup {q}
                           /\ owner' = [owner EXCEPT ![q] = j]
    BY <1>7 DEF CreateInstance
  <2> QED
    BY <1>0, <1>1, <2>1, <2>2 DEF ReleaseMoves, TypeOK
<1>8. CASE PersistCreated(j)
  <2>1. /\ UNCHANGED <<registry, events, alive, tried, insts, owner>>
        /\ known' = known \cup {newpod[j]}
    BY <1>8 DEF PersistCreated, PipeFrame
  <2> QED
    BY <1>1, <2>1 DEF ReleaseMoves
<1>9. CASE RegisterCreated(j)
  <2>1. /\ UNCHANGED <<alive, tried, insts, known, owner>> /\ p # NoPod
        /\ events' = events \cup {<<"started", p>>} /\ registry' = RegistryAdd(registry, p)
    BY <1>9, <1>0 DEF RegisterCreated, PipeFrame, PodSteps, HoldsPod
  <2>2. \A q \in Pods : <<"stopped", q>> \in events' => <<"stopped", q>> \in events
    BY <2>1
  <2> HIDE DEF p
  <2> QED
    BY <1>1, <1>3, <2>1, <2>2 DEF ReleaseMoves
<1>10. CASE ReleasePod(j)
  <2>1. /\ UNCHANGED <<insts, known, owner>>
        /\ tried' = tried \cup {p} /\ alive' \subseteq alive
        /\ registry' = registry \/ registry' = RegistryUpdate(registry, p, "terminated")
        /\ events' \subseteq events \cup {<<"orphaned", p>>}
    BY <1>10, TerminateGives DEF ReleasePod, PipeFrame
  <2>2. \A q \in Pods : <<"stopped", q>> \in events' => <<"stopped", q>> \in events
    BY <2>1
  <2> HIDE DEF p
  <2> QED
    BY <1>2, <2>1, <2>2 DEF ReleaseMoves
<1>11. CASE PodReady(j)
  <2>1. /\ UNCHANGED <<events, alive, tried, insts, known, owner>> /\ p # NoPod
        /\ \/ registry' = RegistryAdd(registry, p)
           \/ registry' = RegistryUpdate(registry, p, "running")
    BY <1>11, <1>0 DEF PodReady, PipeFrame, PodSteps, HoldsPod
  <2> HIDE DEF p
  <2> QED
    BY <1>1, <1>2, <1>3, <2>1 DEF ReleaseMoves
<1>12. CASE AbortPipeline(j)
  <2>1. UNCHANGED <<registry, events, insts, known, owner>> /\ tried \subseteq tried'
          /\ alive' \subseteq alive
    BY <1>12, TerminateGives DEF AbortPipeline, PipeFrame
  <2> QED
    BY <2>1 DEF ReleaseMoves
<1>13. CASE PipelineException(j)
  <2>1. UNCHANGED <<events, insts, known, owner>>
    BY <1>13 DEF PipelineException, PipeFrame
  <2>2. \/ UNCHANGED <<registry, alive, tried>>
        \/ /\ tried' = tried \cup {p} /\ alive' \subseteq alive
           /\ registry' = RegistryUpdate(registry, p, "terminated")
    BY <1>13, TerminateGives DEF PipelineException
  <2> HIDE DEF p
  <2> QED
    BY <1>2, <2>1, <2>2 DEF ReleaseMoves
<1> QED
  BY <1>5, <1>6, <1>7, <1>8, <1>9, <1>10, <1>11, <1>12, <1>13 DEF PipelineStep

\* ReleaseMoves holds of commands, signals, failures and the pods.
LEMMA EnvironmentReleases ==
  ASSUME Environment
  PROVE  ReleaseMoves
<1>1. /\ UNCHANGED <<registry, events, tried, known, owner>> /\ alive' \subseteq alive
      /\ insts' = insts \/ insts' = {}
  BY DEF Environment, Run, ManualTeardownStart, Beat, Sigint, Kill, Crash, SpotLoss, JobEnds
<1> QED
  BY <1>1 DEF ReleaseMoves

\* When nothing runs after a step, no function has anything left to release.
LEMMA IdleReleases ==
  ASSUME Idle'
  PROVE  OneFinishes' /\ ReleasedFirst'
  BY DEF Idle, OneFinishes, ReleasedFirst, ReleasesFirst, FinishSteps

\* A step that leaves the function and the pod of job k alone, and fin if that
\* function is _finish_job, leaves what it has released as it was.
LEMMA OtherReleases ==
  ASSUME TypeOK, OwnPodsOnly, ReleaseInv, ReleaseMoves, NEW k \in Jobs,
         pc'[k] = pc[k], mem'[k].pod = mem[k].pod, pc[k] \in FinishSteps => fin' = fin
  PROVE  ReleasesFirst(k)'
<1> DEFINE p == mem[k].pod
<1>1. p \in Pods \cup {NoPod} /\ (p # NoPod => owner[p] # 0)
  BY OwnPod
<1>2. ReleasesFirst(k)
  BY DEF ReleaseInv, ReleasedFirst
<1>3. p = NoPod \/ p \in tried => p = NoPod \/ p \in tried'
  BY DEF ReleaseMoves
<1>4. p # NoPod /\ p \notin alive => p \notin alive'
  BY <1>1 DEF ReleaseMoves
<1> HIDE DEF p
<1>5. ASSUME pc[k] \in FinishSteps
      PROVE  ReleasesFirst(k)'
  BY <1>2, <1>3, <1>5 DEF p, ReleasesFirst, GivenUp, FinishSteps
<1>6. ASSUME pc[k] \notin FinishSteps
      PROVE  ReleasesFirst(k)'
  BY <1>2, <1>3, <1>4, <1>6 DEF p, ReleasesFirst, GivenUp, FinishSteps
<1> QED
  BY <1>5, <1>6

\* A step that concerns at most job j leaves what the functions of the other
\* jobs have released as it was.
LEMMA OthersRelease ==
  ASSUME TypeOK, OwnPodsOnly, ReleaseInv, ReleaseMoves, NEW j \in Jobs,
         \A k \in Jobs \ {j} : pc'[k] = pc[k] /\ mem'[k].pod = mem[k].pod,
         pc[j] # "idle" \/ Idle,
         pc'[j] \in FinishSteps => pc[j] \in FinishSteps \/ Idle,
         ReleasesFirst(j)'
  PROVE  OneFinishes' /\ ReleasedFirst'
<1>1. OneFinishes'
  BY DEF ReleaseInv, OneFinishes, Idle, FinishSteps
<1>2. ASSUME NEW k \in Jobs \ {j}
      PROVE  ReleasesFirst(k)'
  <2>1. pc[k] \notin FinishSteps
    BY DEF ReleaseInv, OneFinishes, Idle, FinishSteps
  <2> QED
    BY <2>1, OtherReleases
<1> QED
  BY <1>1, <1>2 DEF ReleasedFirst

\* What the main thread's own steps leave of the functions that run.
LEMMA MainThreadReleasesFirst ==
  ASSUME TypeInv, OwnPodsOnly, ReleaseInv, ReleaseMoves, MainThread
  PROVE  OneFinishes' /\ ReleasedFirst'
<1>0. TypeOK /\ QuietPhases
  BY DEF TypeInv
<1>1. CASE Idle /\ pc' = pc
  BY <1>1, IdleReleases DEF Idle
<1>2. ASSUME \/ ListInstances \/ EndReconcile \/ LoopHead \/ Leave \/ GracefulShutdown
             \/ Exit \/ ManualTeardown \/ \E p \in Pods : MatchInstance(p)
      PROVE  Idle /\ pc' = pc
  BY <1>0, <1>2
  DEF QuietPhases, Quiet, ListInstances, EndReconcile, LoopHead, Leave, GracefulShutdown, Exit,
      ManualTeardown, MatchInstance
<1>3. CASE StartUnblocked
  <2>1. Idle
    BY <1>0, <1>3 DEF StartUnblocked, QuietPhases, Quiet
  <2>2. CASE pc' = pc
    BY <1>1, <2>1, <2>2
  <2>3. ASSUME \A j \in Jobs : pc'[j] \in {"begin", "idle"}
        PROVE  OneFinishes' /\ ReleasedFirst'
    BY <2>3 DEF OneFinishes, ReleasedFirst, ReleasesFirst, FinishSteps
  <2> QED
    BY <1>3, <2>2, <2>3 DEF StartUnblocked
<1>4. CASE TeardownAll
  <2>1. Idle /\ mem' = mem
    BY <1>4 DEF TeardownAll
  <2>2. ASSUME NEW c \in Jobs, pc' = [pc EXCEPT ![c] = "final_sync"], fin'.torn = FALSE
        PROVE  OneFinishes' /\ ReleasedFirst'
    <3>1. pc'[c] = "final_sync" /\ \A k \in Jobs \ {c} : pc'[k] = pc[k]
      BY <1>0, <2>2 DEF TypeOK
    <3>2. ReleasesFirst(c)'
      BY <2>2, <3>1 DEF ReleasesFirst
    <3> QED
      BY <1>0, <2>1, <2>2, <3>1, <3>2, OthersRelease
  <2>3. \/ pc' = pc
        \/ /\ cursor \in Jobs /\ pc' = [pc EXCEPT ![cursor] = "final_sync"]
           /\ fin'.torn = FALSE
    BY <1>4 DEF TeardownAll
  <2> QED
    BY <1>1, <2>1, <2>2, <2>3
<1> QED
  BY <1>1, <1>2, <1>3, <1>4 DEF MainThread

\* The steps after a job's old pod was given up, until it has a new one.
Podless == {"provision", "create", "next", "created"}

\* What a monitor tick leaves of the functions that run.
LEMMA TickStepReleasesFirst ==
  ASSUME TypeInv, OwnPodsOnly, ReleaseInv, ReleaseMoves, NEW j \in Jobs, TickStep(j)
  PROVE  OneFinishes' /\ ReleasedFirst'
<1>0. TypeOK
  BY DEF TypeInv
<1>1. Idle
  BY DEF TickStep, TickSkip, TickResume, TickJobBudget, TickExited, TickRunning, TickIdle,
         TickIdleTimeout, TickUnknown, Vanished, Ticking
<1>2. \A k \in Jobs \ {j} : mem'[k].pod = mem[k].pod
  BY <1>0, TickTable, ForgetTable, TickUnknownTable
  DEF TypeOK, Touches, TickStep, TickSkip, TickJobBudget, TickExited
<1>3. \/ pc' = pc
      \/ \E s \in {"resume", "recover", "launch"} : Goto(j, s)
      \/ Goto(j, "final_sync") /\ fin'.torn = FALSE
  BY DEF TickStep, TickSkip, TickResume, TickJobBudget, TickExited, TickRunning, TickIdle,
         TickIdleTimeout, TickUnknown, GoneAnswer, Finish
<1>4. /\ \A k \in Jobs \ {j} : pc'[k] = pc[k]
      /\ \/ pc'[j] \in {"idle", "resume", "recover", "launch"}
         \/ pc'[j] = "final_sync" /\ fin'.torn = FALSE
  BY <1>0, <1>1, <1>3 DEF TypeOK, Idle
<1>5. ReleasesFirst(j)'
  BY <1>4 DEF ReleasesFirst
<1> QED
  BY <1>0, <1>1, <1>2, <1>4, <1>5, OthersRelease

\* What _finish_job and _spot_recover leave of the functions that run.
LEMMA FinishStepReleasesFirst ==
  ASSUME TypeInv, OwnPodsOnly, ReleaseInv, ReleaseMoves, NEW j \in Jobs, FinishStep(j)
  PROVE  OneFinishes' /\ ReleasedFirst'
<1>0. TypeOK
  BY DEF TypeInv
<1>1. \A k \in Jobs \ {j} : mem'[k].pod = mem[k].pod
  BY <1>0, ForgetTable, StatusTable, FinishRecordTable
  DEF TypeOK, Touches, FinishStep, RecoverTeardown, FinishTeardown
<1>2. /\ pc[j] # "idle" /\ (pc'[j] \in FinishSteps => pc[j] \in FinishSteps)
      /\ \A k \in Jobs \ {j} : pc'[k] = pc[k]
  BY <1>0 DEF TypeOK, FinishStep, RecoverTeardown, RecoverBackoff, FinalSync, FinishTeardown,
              FinishRecord, FinishSteps
<1>3. ReleasesFirst(j)
  BY DEF ReleaseInv, ReleasedFirst
<1>4. ASSUME RecoverTeardown(j)
      PROVE  ReleasesFirst(j)'
  <2>1. pc'[j] = "backoff" /\ mem'[j].pod = mem[j].pod /\ mem[j].pod \in tried'
    BY <1>0, <1>4, TerminateGives DEF TypeOK, RecoverTeardown
  <2> QED
    BY <2>1 DEF ReleasesFirst, GivenUp
<1>5. ASSUME FinalSync(j)
      PROVE  ReleasesFirst(j)'
  <2>1. pc'[j] \in {"teardown", "idle"} /\ fin' = fin /\ ~fin.torn
    BY <1>0, <1>3, <1>5 DEF TypeOK, FinalSync, ReleasesFirst
  <2> QED
    BY <2>1 DEF ReleasesFirst
<1>6. ASSUME FinishTeardown(j)
      PROVE  ReleasesFirst(j)'
  <2>1. pc'[j] = "record" /\ mem' = mem /\ ~fin.torn
    BY <1>0, <1>3, <1>6 DEF TypeOK, FinishTeardown, ReleasesFirst
  <2>2. CASE ReleasesPod(j)
    BY <1>6, <2>1, <2>2, TerminateGives DEF FinishTeardown, ReleasesFirst, GivenUp
  <2>3. CASE ~ReleasesPod(j)
    <3>1. fin' = fin
      BY <1>6, <2>3 DEF FinishTeardown
    <3> QED
      BY <2>1, <2>3, <3>1 DEF ReleasesPod, KeepsPod, ReleasesFirst, GivenUp
  <2> QED
    BY <2>2, <2>3
<1>7. ASSUME RecoverBackoff(j) \/ FinishRecord(j)
      PROVE  ReleasesFirst(j)'
  <2>1. pc'[j] \in {"idle", "begin"}
    BY <1>0, <1>7 DEF TypeOK, RecoverBackoff, FinishRecord
  <2> QED
    BY <2>1 DEF ReleasesFirst
<1>8. ReleasesFirst(j)'
  BY <1>4, <1>5, <1>6, <1>7 DEF FinishStep
<1> QED
  BY <1>0, <1>1, <1>2, <1>8, OthersRelease

\* What the pipeline leaves of the functions that run.
LEMMA PipelineStepReleasesFirst ==
  ASSUME TypeInv, OwnPodsOnly, ReleaseInv, ReleaseMoves, NEW j \in Jobs, PipelineStep(j)
  PROVE  OneFinishes' /\ ReleasedFirst'
<1> DEFINE p == mem[j].pod
<1>0. TypeOK
  BY DEF TypeInv
<1>1. \A k \in Jobs \ {j} : mem'[k].pod = mem[k].pod
  BY <1>0, StatusTable, SshTable, ProvisionTable, PersistTable, ReleaseTable, RecordLaunchTable
  DEF TypeOK, Touches, PipelineStep, RegisterCreated
<1>2. /\ pc[j] # "idle" /\ pc'[j] \notin FinishSteps /\ pc'[j] # "backoff"
      /\ \A k \in Jobs \ {j} : pc'[k] = pc[k]
  BY <1>0
  DEF TypeOK, FinishSteps, PipelineStep, Begin, AdoptPod, Provision, CreateInstance, NextCandidate,
      PersistCreated, RegisterCreated, AwaitSsh, ReleasePod, PodReady, Deploy, Launch,
      RecordLaunch, AbortPipeline, PipelineException, Interrupted
<1>3. ASSUME pc[j] \in Podless, mem'[j].pod = p, j \notin KeepAlive
      PROVE  mem'[j].pod = NoPod \/ mem'[j].pod \in tried' \/ mem'[j].pod \notin alive'
  <2>1. p = NoPod \/ p \in tried \/ p \notin alive
    BY <1>3 DEF ReleaseInv, ReleasedFirst, ReleasesFirst, GivenUp, Podless
  <2>2. p # NoPod => p \in Pods /\ owner[p] # 0
    BY <1>0, OwnPod
  <2> HIDE DEF p
  <2> QED
    BY <1>3, <2>1, <2>2 DEF ReleaseMoves
<1>4. ASSUME pc'[j] \in Podless, j \notin KeepAlive
      PROVE  mem'[j].pod = NoPod \/ mem'[j].pod \in tried' \/ mem'[j].pod \notin alive'
  <2>1. CASE Begin(j)
    <3>1. mem'[j].pod = p
      BY <1>0, <2>1, StatusTable DEF TypeOK
    <3>2. p = NoPod \/ p \in tried'
      BY <1>0, <1>4, <2>1, TerminateGives DEF TypeOK, Begin, IsReuse, Podless
    <3> QED
      BY <3>1, <3>2
  <2>2. CASE Provision(j) \/ CreateInstance(j) \/ NextCandidate(j)
    <3>1. pc[j] \in Podless
      BY <2>2 DEF Podless, Provision, CreateInstance, NextCandidate
    <3>2. mem'[j].pod = p
      BY <1>0, <2>2, StatusTable, ProvisionTable DEF TypeOK
    <3> QED
      BY <1>3, <1>4, <3>1, <3>2
  <2>3. CASE ReleasePod(j)
    BY <1>0, <2>3, ReleaseTable DEF TypeOK
  <2>4. CASE AdoptPod(j) \/ PersistCreated(j) \/ RegisterCreated(j) \/ AwaitSsh(j)
               \/ PodReady(j) \/ Deploy(j) \/ Launch(j) \/ RecordLaunch(j)
               \/ AbortPipeline(j) \/ PipelineException(j)
    BY <1>0, <1>4, <2>4
    DEF TypeOK, Podless, AdoptPod, PersistCreated, RegisterCreated, AwaitSsh, PodReady, Deploy,
        Launch, RecordLaunch, AbortPipeline, PipelineException, Interrupted
  <2> QED
    BY <2>1, <2>2, <2>3, <2>4 DEF PipelineStep
<1>5. ReleasesFirst(j)'
  BY <1>2, <1>4 DEF ReleasesFirst, GivenUp, FinishSteps, Podless
<1> QED
  BY <1>0, <1>1, <1>2, <1>5, OthersRelease

\* What commands, signals, failures and the pods leave of the functions that run.
LEMMA EnvironmentReleasesFirst ==
  ASSUME TypeInv, OwnPodsOnly, ReleaseInv, ReleaseMoves, Environment
  PROVE  OneFinishes' /\ ReleasedFirst'
<1>0. TypeOK /\ QuietPhases
  BY DEF TypeInv
<1>1. CASE UNCHANGED <<pc, mem, fin>>
  BY <1>0, <1>1, OtherReleases DEF ReleaseInv, OneFinishes, ReleasedFirst
<1>2. ASSUME \/ \E C \in SUBSET Jobs, flags \in SUBSET {"failed", "completed"} : Run(C, flags)
             \/ Kill \/ Crash
      PROVE  Idle'
  BY <1>0, <1>2, CrashTable DEF Run, Kill, Idle, QuietPhases, Quiet
<1>3. ASSUME \/ \E C \in SUBSET Jobs : ManualTeardownStart(C)
             \/ Beat \/ Sigint \/ \E p \in Pods : SpotLoss(p) \/ JobEnds(p)
      PROVE  UNCHANGED <<pc, mem, fin>>
  BY <1>3 DEF ManualTeardownStart, Beat, Sigint, SpotLoss, JobEnds
<1> QED
  BY <1>1, <1>2, <1>3, IdleReleases DEF Environment

\* No step breaks ReleaseInv.
LEMMA NextKeepsRelease ==
  TypeInv /\ TypeInv' /\ OwnPodsOnly /\ ReleaseInv /\ [Next]_vars => ReleaseInv'
<1> SUFFICES ASSUME TypeInv, TypeInv', OwnPodsOnly, ReleaseInv, [Next]_vars
             PROVE  ReleaseInv'
  OBVIOUS
<1>0. TypeOK /\ TypeOK'
  BY DEF TypeInv
<1>1. ASSUME PodMoves, ReleaseMoves, OneFinishes', ReleasedFirst'
      PROVE  ReleaseInv'
  BY <1>0, <1>1, ReleasePreserved DEF ReleaseInv
<1>2. CASE MainThread
  BY <1>0, <1>1, <1>2, MainThreadMovesPods, MainThreadReleases, MainThreadReleasesFirst
<1>3. ASSUME NEW j \in Jobs, TickStep(j)
      PROVE  ReleaseInv'
  BY <1>0, <1>1, <1>3, TickStepMovesPods, TickStepReleases, TickStepReleasesFirst
<1>4. ASSUME NEW j \in Jobs, FinishStep(j)
      PROVE  ReleaseInv'
  BY <1>0, <1>1, <1>4, FinishStepMovesPods, FinishStepReleases, FinishStepReleasesFirst
<1>5. ASSUME NEW j \in Jobs, PipelineStep(j)
      PROVE  ReleaseInv'
  BY <1>0, <1>1, <1>5, PipelineStepMovesPods, PipelineStepReleases, PipelineStepReleasesFirst
<1>6. CASE Environment
  BY <1>0, <1>1, <1>6, EnvironmentMovesPods, EnvironmentReleases, EnvironmentReleasesFirst
<1>7. CASE UNCHANGED vars
  BY <1>7 DEF vars, ReleaseInv, OnlyCreatedPods, OneFinishes, ReleasedFirst, ReleasesFirst,
              GivenUp, StoppedMeansReleased, TerminatedMeansTried
<1> QED
  BY <1>2, <1>3, <1>4, <1>5, <1>6, <1>7 DEF Next, Rest, JobStep

\* The functions give up pods before they record them as released.
THEOREM ReleaseInvariance == Spec => []ReleaseInv
<1>1. Init => ReleaseInv
  BY DEF Init, ReleaseInv, OnlyCreatedPods, OneFinishes, ReleasedFirst, ReleasesFirst,
         FinishSteps, StoppedMeansReleased, TerminatedMeansTried
<1> QED
  BY <1>1, NextKeepsRelease, TypeInvariance, OwnPods, PTL DEF Spec

\* A pod that the cost log records as stopped has been asked to terminate or is
\* gone, unless its job keeps its pods.
THEOREM StoppedReleased == Spec => []StoppedMeansReleased
<1>1. ReleaseInv => StoppedMeansReleased
  BY DEF ReleaseInv
<1> QED
  BY <1>1, ReleaseInvariance, PTL

\* A pod that exists and is registered as terminated has been asked to terminate.
THEOREM TerminatedTried == Spec => []TerminatedMeansTried
<1>1. ReleaseInv => TerminatedMeansTried
  BY DEF ReleaseInv
<1> QED
  BY <1>1, ReleaseInvariance, PTL

-----------------------------------------------------------------------------
(* A pod is tracked until it is released.                                   *)

\* In the step, job k keeps its pod, has none, keeps pods alive, or the pod is
\* gone or was asked to terminate.
LetsGo(k) == \/ mem'[k].pod = mem[k].pod \/ mem[k].pod = NoPod \/ k \in KeepAlive
             \/ mem[k].pod \notin alive' \/ mem[k].pod \in tried'

\* The main thread lets go of released pods only.
LEMMA MainThreadLetsGo ==
  ASSUME TypeInv, MainThread
  PROVE  \A k \in Jobs : LetsGo(k)
<1>0. TypeOK
  BY DEF TypeInv
<1>1. ASSUME NEW p \in Pods, MatchInstance(p), NEW k \in Jobs, mem'[k].pod # mem[k].pod
      PROVE  mem[k].pod = NoPod \/ mem[k].pod \notin alive'
  <2>1. k = owner[p]
    BY <1>0, <1>1, MatchTable DEF TypeOK, Touches
  <2>2. mem' = mem \/ mem[k].pod = NoPod \/ (SaysGone(mem[k].pod) /\ alive' = alive)
    BY <1>1, <2>1 DEF MatchInstance, MatchedJob, TerminateStray
  <2> QED
    BY <1>1, <2>2 DEF SaysGone
<1>2. ASSUME StartUnblocked \/ GracefulShutdown \/ ManualTeardown, NEW k \in Jobs
      PROVE  mem'[k].pod = mem[k].pod
  <2>1. CASE StartUnblocked
    BY <1>0, <2>1, PropagateFailureFacts DEF TypeOK, StartUnblocked, SkipBlocked
  <2>2. CASE GracefulShutdown \/ ManualTeardown
    BY <1>0, <2>2, SweepTable DEF TypeOK, GracefulShutdown, ManualTeardown, Touches
  <2> QED
    BY <1>2, <2>1, <2>2
<1>3. ASSUME ListInstances \/ EndReconcile \/ LoopHead \/ TeardownAll \/ Leave \/ Exit
      PROVE  mem' = mem
  BY <1>3 DEF ListInstances, EndReconcile, LoopHead, TeardownAll, Leave, Exit
<1> QED
  BY <1>1, <1>2, <1>3 DEF MainThread, LetsGo

\* The functions that run for a job let go of released pods only.
LEMMA JobStepLetsGo ==
  ASSUME TypeInv, OwnPodsOnly, ReleaseInv, ReleaseMoves, NEW j \in Jobs, JobStep(j)
  PROVE  \A k \in Jobs : LetsGo(k)
<1>0. TypeOK
  BY DEF TypeInv
<1>1. \A k \in Jobs \ {j} : mem'[k].pod = mem[k].pod
  BY <1>0, TickTable, ForgetTable, TickUnknownTable, StatusTable, FinishRecordTable, SshTable,
     ProvisionTable, PersistTable, ReleaseTable, RecordLaunchTable
  DEF TypeOK, Touches, JobStep, TickStep, TickSkip, TickJobBudget, TickExited, FinishStep,
      RecoverTeardown, FinishTeardown, PipelineStep, RegisterCreated
<1>2. CASE TickResume(j)
  <2>1. mem' = mem \/ (SaysGone(mem[j].pod) /\ alive' = alive)
    BY <1>2 DEF TickResume, TickFrame
  <2> QED
    BY <1>1, <2>1 DEF SaysGone, LetsGo
<1>3. CASE RecoverBackoff(j)
  <2>1. GivenUp(mem[j].pod)
    BY <1>3 DEF RecoverBackoff, ReleaseInv, ReleasedFirst, ReleasesFirst
  <2> QED
    BY <1>1, <2>1 DEF GivenUp, ReleaseMoves, LetsGo
<1>4. CASE PersistCreated(j)
  <2>1. GivenUp(mem[j].pod) \/ mem[j].pod \notin alive \/ j \in KeepAlive
    BY <1>4 DEF PersistCreated, ReleaseInv, ReleasedFirst, ReleasesFirst
  <2>2. UNCHANGED <<alive, tried>>
    BY <1>4 DEF PersistCreated
  <2> QED
    BY <1>1, <2>1, <2>2 DEF GivenUp, LetsGo
<1>5. CASE ReleasePod(j)
  <2>1. mem[j].pod \in tried'
    BY <1>5, TerminateGives DEF ReleasePod
  <2> QED
    BY <1>1, <2>1 DEF LetsGo
<1>6. ASSUME ~(TickResume(j) \/ RecoverBackoff(j) \/ PersistCreated(j) \/ ReleasePod(j))
      PROVE  mem'[j].pod = mem[j].pod
  BY <1>0, <1>6, TickTable, TickUnknownTable, StatusTable, FinishRecordTable, SshTable,
     ProvisionTable, RecordLaunchTable
  DEF TypeOK, JobStep, TickStep, TickSkip, TickJobBudget, TickExited, FinishStep,
      RecoverTeardown, FinishTeardown, PipelineStep, RegisterCreated
<1> QED
  BY <1>1, <1>2, <1>3, <1>4, <1>5, <1>6 DEF LetsGo

\* While an orchestrator runs, a job that does not keep its pods alive stops
\* tracking a pod only when it is gone or a terminate call was made for it.
THEOREM TrackedReleased == Spec => TrackedUntilReleased
<1> DEFINE A == phase # "down" /\ phase' # "down" =>
                  \A j \in Jobs \ KeepAlive :
                    mem[j].pod # NoPod /\ mem'[j].pod # mem[j].pod
                      => mem[j].pod \notin alive' \/ mem[j].pod \in tried'
<1>1. TypeInv /\ OwnPodsOnly /\ ReleaseInv /\ [Next]_vars => [A]_vars
  <2> SUFFICES ASSUME TypeInv, OwnPodsOnly, ReleaseInv, Next, phase # "down", phase' # "down"
               PROVE  \A k \in Jobs : LetsGo(k)
    BY DEF LetsGo
  <2>0. TypeOK
    BY DEF TypeInv
  <2>1. ASSUME NEW j \in Jobs, JobStep(j)
        PROVE  ReleaseMoves
    BY <2>0, <2>1, TickStepReleases, FinishStepReleases, PipelineStepReleases DEF JobStep
  <2>2. ASSUME Environment
        PROVE  mem' = mem
    BY <2>2 DEF Environment, Run, ManualTeardownStart, Beat, Sigint, Kill, Crash, SpotLoss, JobEnds
  <2>3. CASE Rest
    BY <2>3 DEF Rest
  <2> QED
    BY <2>1, <2>2, <2>3, MainThreadLetsGo, JobStepLetsGo DEF Next, LetsGo
<1> QED
  BY <1>1, TypeInvariance, OwnPods, ReleaseInvariance, PTL DEF Spec, TrackedUntilReleased

-----------------------------------------------------------------------------
(* How a failure propagates through the table.                              *)

\* The jobs that an outcome reaches include those it is about, and every
\* pending job that depends on one it reaches.
LEMMA ReachedByClosed ==
  ASSUME NEW m, NEW F \in SUBSET Jobs
  PROVE  /\ F \subseteq ReachedBy(m, F) /\ ReachedBy(m, F) \subseteq Jobs
         /\ \A k \in Jobs : \A d \in Deps[k] :
              m[k].status = "pending" /\ d \in ReachedBy(m, F) => k \in ReachedBy(m, F)
<1>1. F \subseteq ReachedBy(m, F) /\ ReachedBy(m, F) \subseteq Jobs
  BY DEF ReachedBy
<1>2. ASSUME NEW k \in Jobs, NEW d \in Deps[k], m[k].status = "pending", d \in ReachedBy(m, F),
             NEW S \in SUBSET Jobs, F \subseteq S,
             \A i \in Jobs : m[i].status = "pending" /\ Deps[i] \cap S # {} => i \in S
      PROVE  k \in S
  <2>1. d \in S
    BY <1>2 DEF ReachedBy
  <2> QED
    BY <1>2, <2>1
<1>3. ASSUME NEW k \in Jobs, NEW d \in Deps[k], m[k].status = "pending", d \in ReachedBy(m, F)
      PROVE  k \in ReachedBy(m, F)
  BY <1>2, <1>3 DEF ReachedBy
<1> QED
  BY <1>1, <1>3

\* An outcome of jobs that are not completed reaches another job only through a
\* dependency that is not completed.
LEMMA ReachedByNeedsDependency ==
  ASSUME NEW m, NEW F \in SUBSET Jobs, \A f \in F : m[f].status # "completed",
         NEW k \in ReachedBy(m, F), k \notin F
  PROVE  \E d \in Deps[k] : m[d].status # "completed"
<1> SUFFICES ASSUME \A d \in Deps[k] : m[d].status = "completed"
             PROVE  FALSE
  OBVIOUS
<1> DEFINE S == {i \in Jobs : m[i].status # "completed"} \ {k}
<1>1. F \subseteq S /\ S \in SUBSET Jobs /\ k \notin S
  OBVIOUS
<1>2. ASSUME NEW i \in Jobs, m[i].status = "pending", Deps[i] \cap S # {}
      PROVE  i \in S
  <2>1. Deps[k] \cap S = {}
    OBVIOUS
  <2> QED
    BY <1>2, <2>1
<1> HIDE DEF S
<1> QED
  BY <1>1, <1>2 DEF ReachedBy

\* What stays pending after a propagation was pending, and depends on nothing
\* that the propagation is about or has changed.
LEMMA PendingAfterPropagation ==
  ASSUME NEW m \in [Jobs -> JobRecord], NEW F \in SUBSET Jobs, NEW k \in Jobs,
         PropagateFailure(m, F)[k].status = "pending"
  PROVE  /\ m[k].status = "pending" /\ k \notin F
         /\ \A d \in Deps[k] : /\ d \notin F
                               /\ PropagateFailure(m, F)[d].status = m[d].status
<1> DEFINE n == PropagateFailure(m, F)
<1>1. \A i \in Jobs : /\ n[i].status = m[i].status \/ m[i].status = "pending"
                      /\ m[i].status = "pending" /\ i \in ReachedBy(m, F)
                           => n[i].status = "skipped"
                      /\ i \notin ReachedBy(m, F) => n[i].status = m[i].status
  BY DEF PropagateFailure, JobRecord
<1>2. m[k].status = "pending" /\ k \notin ReachedBy(m, F)
  BY <1>1
<1>3. Deps[k] \subseteq Jobs
  BY ConstantsAssumption
<1> HIDE DEF n
<1> QED
  BY <1>1, <1>2, <1>3, ReachedByClosed DEF n

\* How a step that concerns job j may change the other jobs' statuses: a pending
\* job with a dependency that has not completed may be skipped, and what stays
\* pending depends on no other job whose status changed.
StatusMoves(m, n, j) ==
  /\ \A k \in Jobs \ {j} :
       \/ n[k].status = m[k].status
       \/ /\ m[k].status = "pending" /\ n[k].status = "skipped"
          /\ \E d \in Deps[k] : m[d].status # "completed"
  /\ \A k \in Jobs : n[k].status = "pending" =>
       /\ k # j => m[k].status = "pending"
       /\ \A d \in Deps[k] \ {j} : n[d].status = m[d].status

\* No job waits for j any more.
Propagated(n, j) == \A k \in Jobs : j \in Deps[k] => n[k].status # "pending"

\* A change of job j alone.
LEMMA AloneMoves ==
  ASSUME NEW m, NEW n, NEW j \in Jobs, \A k \in Jobs \ {j} : n[k].status = m[k].status
  PROVE  StatusMoves(m, n, j)
  BY ConstantsAssumption DEF StatusMoves

\* A change of job j, propagated.
LEMMA FailureMoves ==
  ASSUME NEW m, NEW o \in [Jobs -> JobRecord], NEW j \in Jobs,
         \A k \in Jobs \ {j} : o[k].status = m[k].status,
         m[j].status # "completed", o[j].status \notin {"completed", "pending"}
  PROVE  /\ StatusMoves(m, PropagateFailure(o, {j}), j)
         /\ Propagated(PropagateFailure(o, {j}), j)
         /\ PropagateFailure(o, {j})[j].status = o[j].status
<1> DEFINE n == PropagateFailure(o, {j})
<1>0. \A k \in Jobs : Deps[k] \subseteq Jobs
  BY ConstantsAssumption
<1>1. \A k \in Jobs : \/ n[k].status = o[k].status
                      \/ /\ o[k].status = "pending" /\ n[k].status = "skipped"
                         /\ k \in ReachedBy(o, {j})
  BY DEF PropagateFailure, JobRecord
<1>2. n[j].status = o[j].status
  BY <1>1
<1>3. ASSUME NEW k \in Jobs \ {j}, n[k].status # o[k].status
      PROVE  \E d \in Deps[k] : m[d].status # "completed"
  <2>1. k \in ReachedBy(o, {j})
    BY <1>1, <1>3
  <2>2. PICK d \in Deps[k] : o[d].status # "completed"
    BY <2>1, ReachedByNeedsDependency
  <2> QED
    BY <1>0, <2>2
<1>4. ASSUME NEW k \in Jobs, n[k].status = "pending"
      PROVE  /\ o[k].status = "pending" /\ k # j
             /\ \A d \in Deps[k] : d # j /\ n[d].status = o[d].status
  BY <1>4, PendingAfterPropagation
<1> HIDE DEF n
<1>5. StatusMoves(m, n, j)
  BY <1>0, <1>1, <1>3, <1>4 DEF StatusMoves
<1>6. Propagated(n, j)
  BY <1>4 DEF Propagated
<1> QED
  BY <1>2, <1>5, <1>6 DEF n

\* Replacing the status of job j alone.
LEMMA SetStatusAlone ==
  ASSUME NEW m \in [Jobs -> JobRecord], NEW j \in Jobs, NEW s
  PROVE  /\ SetStatus(m, j, s)[j].status = s
         /\ \A k \in Jobs \ {j} : SetStatus(m, j, s)[k].status = m[k].status
  BY DEF SetStatus, JobRecord

\* Job j, changed in other respects or not, fails with its dependents.
LEMMA FailJobMoves ==
  ASSUME NEW m, NEW o \in [Jobs -> JobRecord], NEW j \in Jobs,
         \A k \in Jobs \ {j} : o[k].status = m[k].status, m[j].status # "completed"
  PROVE  /\ StatusMoves(m, FailJob(o, j), j) /\ Propagated(FailJob(o, j), j)
         /\ FailJob(o, j)[j].status = "failed"
<1> DEFINE n == SetStatus(o, j, "failed")
<1>1. n[j].status = "failed" /\ \A k \in Jobs \ {j} : n[k].status = m[k].status
  BY SetStatusAlone
<1>2. n \in [Jobs -> JobRecord]
  BY SetStatusFacts, StatusNames DEF Touches
<1>3. FailJob(o, j) = PropagateFailure(n, {j})
  BY DEF FailJob
<1> HIDE DEF n
<1> QED
  BY <1>1, <1>2, <1>3, FailureMoves

-----------------------------------------------------------------------------
(* What ended stays, and blocks what depends on it.                         *)

\* A step leaves the outcomes in the state file alone.
OutcomesKept ==
  \A k \in Jobs : file[k].status \in FinalStatuses => file'[k].status = file[k].status

\* The phases between two ticks.
Between == {"starting", "unblocking"}

\* A step of the function that runs for job j, or that a tick starts for it.
StatusStep(j) ==
  /\ UNCHANGED <<phase, cfgs, shut>> /\ file' \in {file, mem'}
  /\ StatusMoves(mem, mem', j) /\ \A k \in Jobs \ {j} : pc'[k] = pc[k]
  /\ mem[j].status # "completed"
  /\ mem'[j].status = mem[j].status \/ mem[j].status \notin FinalStatuses
  /\ mem'[j].status = "pending" => mem[j].status = "pending"
  /\ pc'[j] # "idle" => /\ mem'[j].status \notin {"completed", "skipped"}
                        /\ mem'[j].status = "failed" <=> pc'[j] \in Cleanup
                        /\ mem'[j].status = "pending" => pc[j] # "idle"
  /\ mem'[j].status \in Blocking => \/ pc'[j] \in Cleanup \/ Propagated(mem', j)
                                    \/ phase \notin Between

\* Such a step keeps StatusInv.
LEMMA StatusStepKeeps ==
  ASSUME cfgs' \subseteq Jobs, StatusInv, NEW j \in Jobs, StatusStep(j)
  PROVE  StatusInv' /\ OutcomesKept
<1>0. \A k \in Jobs : Deps[k] \subseteq Jobs
  BY ConstantsAssumption
<1>1. ASSUME NEW k \in Jobs, pc'[k] # "idle"
      PROVE  /\ mem'[k].status \notin {"completed", "skipped"}
             /\ mem'[k].status = "failed" <=> pc'[k] \in Cleanup
  BY <1>1 DEF StatusInv, FinalAtRest, ReadyAtStart, StatusStep, StatusMoves
<1>2. ASSUME NEW k \in Jobs, mem[k].status \in FinalStatuses
      PROVE  mem'[k].status = mem[k].status
  BY <1>2 DEF FinalStatuses, StatusStep, StatusMoves
<1>3. OutcomesKept
  BY <1>2 DEF StatusInv, FinalAtRest, OutcomesKept, StatusStep
<1>4. ASSUME NEW k \in Jobs, file'[k].status \in FinalStatuses
      PROVE  mem'[k].status = file'[k].status
  BY <1>2, <1>4 DEF StatusInv, FinalAtRest, StatusStep
<1>5. FinalAtRest'
  BY <1>1, <1>4 DEF FinalAtRest
<1>6. ASSUME NEW k \in Jobs, pc'[k] # "idle", mem'[k].status = "pending", NEW d \in Deps[k]
      PROVE  mem'[d].status = "completed"
  <2>1. mem[k].status = "pending" /\ pc[k] # "idle"
    BY <1>6 DEF StatusStep, StatusMoves
  <2>2. mem[d].status = "completed"
    BY <2>1 DEF StatusInv, ReadyAtStart
  <2>3. d # j
    BY <2>2 DEF StatusStep
  <2> QED
    BY <1>6, <2>2, <2>3 DEF StatusStep, StatusMoves
<1>7. ReadyAtStart'
  BY <1>6 DEF ReadyAtStart
<1>8. ASSUME phase' \in Between, shut' = "no", NEW k \in Jobs, k \in cfgs',
             mem'[k].status = "pending", NEW d \in Deps[k], mem'[d].status \in Blocking
      PROVE  pc'[d] \in Cleanup
  <2>1. CASE d = j
    BY <1>8, <2>1 DEF StatusStep, Propagated
  <2>2. CASE d # j
    <3>1. mem[k].status = "pending" /\ mem[d].status = mem'[d].status /\ pc'[d] = pc[d]
      BY <1>0, <1>8, <2>2 DEF StatusStep, StatusMoves
    <3> QED
      BY <1>8, <3>1 DEF StatusInv, FailuresPropagate, StatusStep, Between
  <2> QED
    BY <2>1, <2>2
<1>9. FailuresPropagate'
  BY <1>8 DEF FailuresPropagate, Between
<1> QED
  BY <1>3, <1>5, <1>7, <1>9 DEF StatusInv

\* A step that moves neither the table nor the functions, and saves or not.
LEMMA StillKeepsStatus ==
  ASSUME StatusInv, UNCHANGED <<mem, pc>>, file' \in {file, mem},
         UNCHANGED <<phase, cfgs, shut>> \/ phase' \notin Between \/ shut' # "no"
  PROVE  StatusInv' /\ OutcomesKept
  BY DEF StatusInv, FinalAtRest, ReadyAtStart, FailuresPropagate, OutcomesKept, Between

\* A step of the main thread, when nothing runs, that moves no job that ended.
LEMMA QuietKeepsStatus ==
  ASSUME StatusInv, Idle', phase' \notin Between, file' \in {file, mem'},
         \A k \in Jobs : mem[k].status \in FinalStatuses => mem'[k].status = mem[k].status
  PROVE  StatusInv' /\ OutcomesKept
  BY DEF Idle, StatusInv, FinalAtRest, ReadyAtStart, FailuresPropagate, OutcomesKept, Between

\* A pod that is gone is forgotten, whatever the status.
LEMMA ForgetStatus ==
  ASSUME mem \in [Jobs -> JobRecord], NEW j \in Jobs, TickResume(j) \/ RecoverBackoff(j)
  PROVE  \A k \in Jobs : mem'[k].status = mem[k].status
<1>1. CASE mem' = [mem EXCEPT ![j] = [@ EXCEPT !.pod = NoPod, !.ssh = FALSE, !.pid = FALSE]]
  BY <1>1 DEF JobRecord
<1>2. CASE mem' = [mem EXCEPT ![j] = [@ EXCEPT !.pod = NoPod, !.ssh = FALSE, !.pid = FALSE,
                                               !.gone = 0]]
  BY <1>2 DEF JobRecord
<1> QED
  BY <1>1, <1>2 DEF TickResume, RecoverBackoff

\* StatusInv is preserved by the main thread's own steps.
LEMMA MainThreadKeepsStatus ==
  ASSUME TypeInv, TypeInv', StatusInv, MainThread
  PROVE  StatusInv' /\ OutcomesKept
<1>0. TypeOK /\ QuietPhases /\ mem \in [Jobs -> JobRecord] /\ cfgs \subseteq Jobs
      /\ QuietPhases' /\ cfgs' \subseteq Jobs
  BY DEF TypeInv, TypeOK
<1>1. CASE ListInstances \/ EndReconcile \/ LoopHead \/ Leave \/ Exit
  <2>1. /\ UNCHANGED <<mem, pc>> /\ file' \in {file, mem}
        /\ phase' \in {"matching", "start", "leaving", "ticking", "budget", "graceful", "exit",
                       "down"}
    BY <1>1 DEF ListInstances, EndReconcile, LoopHead, Leave, Exit
  <2> QED
    BY <2>1, StillKeepsStatus DEF Between
<1>2. CASE StartUnblocked
  <2>0. Idle /\ file' = file /\ cfgs' = cfgs /\ shut' = shut
    BY <1>0, <1>2 DEF StartUnblocked, QuietPhases, Quiet
  <2>1. CASE shut # "no"
    BY <1>2, <2>0, <2>1, StillKeepsStatus DEF StartUnblocked
  <2>2. CASE shut = "no"
    <3> DEFINE F == {k \in cfgs : /\ mem[k].status = "pending"
                                  /\ \E d \in Deps[k] : mem[d].status \in {"failed", "skipped"}}
    <3>1. mem' = PropagateFailure(mem, F) /\ F \in SUBSET Jobs
      BY <1>0, <1>2, <2>2 DEF StartUnblocked, SkipBlocked
    <3>2. \A k \in Jobs : /\ pc'[k] \in {"begin", "idle"}
                          /\ pc'[k] = "begin" => k \in ReadyJobs(mem', cfgs)
      BY <1>2, <2>2 DEF StartUnblocked
    <3>3. \A k \in Jobs : pc'[k] # "idle" =>
            /\ pc'[k] = "begin" /\ mem'[k].status = "pending"
            /\ \A d \in Deps[k] : mem'[d].status = "completed"
      BY <3>2 DEF ReadyJobs
    <3>4. \A k \in Jobs : mem'[k].status = mem[k].status \/ mem[k].status = "pending"
      BY <1>0, <3>1, PropagateFailureFacts
    <3>5. FinalAtRest'
      BY <2>0, <3>3, <3>4 DEF StatusInv, FinalAtRest, FinalStatuses, Cleanup
    <3>6. ReadyAtStart'
      BY <3>3 DEF ReadyAtStart
    <3>7. ASSUME NEW k \in cfgs, mem'[k].status = "pending", NEW d \in Deps[k]
          PROVE  mem'[d].status \notin Blocking
      <4>1. mem[k].status = "pending" /\ k \notin F /\ mem'[d].status = mem[d].status
        BY <1>0, <3>1, <3>7, PendingAfterPropagation
      <4> QED
        BY <4>1 DEF Blocking
    <3>8. FailuresPropagate'
      BY <2>0, <3>7 DEF FailuresPropagate
    <3>9. OutcomesKept
      BY <2>0 DEF OutcomesKept
    <3> QED
      BY <3>5, <3>6, <3>8, <3>9 DEF StatusInv
  <2> QED
    BY <2>1, <2>2
<1>3. CASE TeardownAll
  <2>1. mem' = mem /\ UNCHANGED <<cfgs, shut>> /\ Idle
    BY <1>3 DEF TeardownAll
  <2>2. CASE cursor \notin Jobs
    <3>1. pc' = pc /\ file' = mem /\ phase' \in {"leaving", "exit"}
      BY <1>3, <2>2 DEF TeardownAll
    <3> QED
      BY <2>1, <3>1, StillKeepsStatus DEF Between
  <2>3. CASE cursor \in Jobs /\ pc' = pc
    <3>1. file' = file /\ phase' = phase
      BY <1>3, <2>3 DEF TeardownAll
    <3> QED
      BY <2>1, <2>3, <3>1, StillKeepsStatus
  <2>4. ASSUME NEW c \in Jobs, c = cursor, pc' # pc
        PROVE  StatusStep(c)
    <3>1. /\ pc' = [pc EXCEPT ![c] = "final_sync"] /\ mem[c].status \in LiveStatuses
          /\ file' = file /\ phase' = phase /\ phase \in {"budget", "crashing"}
      BY <1>3, <2>4 DEF TeardownAll
    <3>2. StatusMoves(mem, mem', c)
      BY <2>1, AloneMoves
    <3>3. pc'[c] = "final_sync" /\ \A k \in Jobs \ {c} : pc'[k] = pc[k]
      BY <1>0, <3>1 DEF TypeOK
    <3> QED
      BY <2>1, <3>1, <3>2, <3>3 DEF StatusStep, LiveStatuses, TickedStatuses, FinalStatuses,
                                    Blocking, Between, Cleanup
  <2> QED
    BY <1>0, <2>2, <2>3, <2>4, StatusStepKeeps
<1>4. CASE GracefulShutdown \/ ManualTeardown
  <2>1. /\ phase \in {"graceful", "manual"} /\ pc' = pc /\ file' \in {file, mem'}
        /\ phase' \in {"graceful", "manual", "exit", "down"}
    BY <1>4 DEF GracefulShutdown, ManualTeardown
  <2>2. Idle'
    BY <1>0, <2>1 DEF QuietPhases, Quiet, Idle
  <2>3. \/ mem' = mem
        \/ \E c \in Jobs : /\ mem' = SetStatus(mem, c, "failed")
                           /\ mem[c].status \in LiveStatuses \cup {"pending"}
    BY <1>4 DEF GracefulShutdown, ManualTeardown, LiveStatuses
  <2>4. \A k \in Jobs : mem[k].status \in FinalStatuses => mem'[k].status = mem[k].status
    BY <1>0, <2>3, SetStatusAlone DEF FinalStatuses, LiveStatuses, TickedStatuses
  <2> QED
    BY <2>1, <2>2, <2>4, QuietKeepsStatus DEF Between
<1>5. ASSUME NEW p \in Pods, MatchInstance(p)
      PROVE  StatusInv' /\ OutcomesKept
  <2>1. phase = "matching" /\ phase' = phase /\ pc' = pc /\ file' = file
    BY <1>5 DEF MatchInstance
  <2>2. Idle'
    BY <1>0, <2>1 DEF QuietPhases, Quiet, Idle
  <2>3. \A k \in Jobs : mem[k].status \in FinalStatuses => mem'[k].status = mem[k].status
    <3> DEFINE i == owner[p]
    <3>1. \/ mem' = mem
          \/ /\ i \in cfgs /\ mem[i].status \notin FinalStatuses
             /\ mem' = [mem EXCEPT ![i] = [@ EXCEPT !.pod = p, !.started = TRUE,
                                            !.status = StatusAfterAdoption(mem[i].status)]]
          \/ /\ i \in cfgs
             /\ mem' = [mem EXCEPT ![i] = [@ EXCEPT !.pod = p, !.ssh = FALSE, !.pid = FALSE,
                                            !.status = StatusAfterReplacement(mem[i].status)]]
      BY <1>5 DEF MatchInstance, MatchedJob, TerminateStray, FinalStatuses
    <3> HIDE DEF i
    <3>2. \/ \A k \in Jobs : mem'[k].status = mem[k].status
          \/ /\ i \in Jobs /\ \A k \in Jobs \ {i} : mem'[k].status = mem[k].status
             /\ \/ mem[i].status \notin FinalStatuses
                \/ mem'[i].status = StatusAfterReplacement(mem[i].status)
      BY <1>0, <3>1 DEF JobRecord
    <3> QED
      BY <3>2 DEF FinalStatuses, StatusAfterReplacement
  <2> QED
    BY <2>1, <2>2, <2>3, QuietKeepsStatus DEF Between
<1> QED
  BY <1>1, <1>2, <1>3, <1>4, <1>5 DEF MainThread

\* A monitor tick that looks at job j is a StatusStep of j.
LEMMA TickStepMovesStatus ==
  ASSUME TypeInv, NEW j \in Jobs, TickStep(j), ~TickSkip(j)
  PROVE  StatusStep(j)
<1>0. TypeOK /\ mem \in [Jobs -> JobRecord]
  BY DEF TypeInv, TypeOK
<1>1. /\ Idle /\ phase = "ticking" /\ mem[j].status \in TickedStatuses
      /\ UNCHANGED <<file, phase, cfgs, shut>>
  BY DEF TickStep, TickResume, TickJobBudget, TickExited, TickRunning, TickIdle,
              TickIdleTimeout, TickUnknown, Vanished, Ticking, TickFrame
<1>2. pc' = pc \/ \E s \in {"resume", "recover", "launch", "final_sync"} : Goto(j, s)
  BY DEF TickStep, TickResume, TickJobBudget, TickExited, TickRunning, TickIdle,
              TickIdleTimeout, TickUnknown, GoneAnswer, Finish
<1>3. /\ pc'[j] \in {"idle", "resume", "recover", "launch", "final_sync"}
      /\ \A k \in Jobs \ {j} : pc'[k] = pc[k]
  BY <1>0, <1>1, <1>2 DEF TypeOK, Idle
<1>4. CASE \A k \in Jobs : mem'[k].status = mem[k].status
  <2>1. StatusMoves(mem, mem', j)
    BY <1>4, AloneMoves
  <2> QED
    BY <1>1, <1>3, <1>4, <2>1 DEF StatusStep, TickedStatuses, FinalStatuses, Between, Cleanup
<1>5. ASSUME NEW o \in [Jobs -> JobRecord], mem' = FailJob(o, j), pc' = pc,
             \A k \in Jobs : o[k].status = mem[k].status
      PROVE  StatusStep(j)
  <2>1. StatusMoves(mem, mem', j) /\ mem'[j].status = "failed"
    BY <1>1, <1>5, FailJobMoves DEF TickedStatuses
  <2> QED
    BY <1>1, <1>3, <1>5, <2>1 DEF StatusStep, Idle, TickedStatuses, FinalStatuses, Between
<1>6. CASE TickUnknown(j)
  <2> DEFINE o == [mem EXCEPT ![j] = [@ EXCEPT !.gone = mem[j].gone + 1]]
  <2>1. o \in [Jobs -> JobRecord] /\ \A k \in Jobs : o[k].status = mem[k].status
    BY <1>0 DEF JobRecord
  <2>2. \/ mem' = mem \/ mem' = o \/ (mem' = FailJob(o, j) /\ pc' = pc)
        \/ mem' = [mem EXCEPT ![j] = [@ EXCEPT !.gone = 0]]
        \/ mem' = [mem EXCEPT ![j] = [@ EXCEPT !.gone = 0, !.ssh = TRUE]]
    <3>1. GoneAnswer(j) => mem' = o \/ (mem' = FailJob(o, j) /\ pc' = pc)
      BY DEF GoneAnswer
    <3> HIDE DEF o
    <3>2. \/ GoneAnswer(j) \/ mem' = mem
          \/ mem' = [mem EXCEPT ![j] = [@ EXCEPT !.gone = 0]]
          \/ mem' = [mem EXCEPT ![j] = [@ EXCEPT !.gone = 0, !.ssh = TRUE]]
      BY <1>6 DEF TickUnknown
    <3> QED
      BY <3>1, <3>2
  <2> HIDE DEF o
  <2>3. \/ \A k \in Jobs : mem'[k].status = mem[k].status
        \/ mem' = FailJob(o, j) /\ pc' = pc
    BY <1>0, <2>1, <2>2 DEF JobRecord
  <2> QED
    BY <1>4, <1>5, <2>1, <2>3
<1>7. ASSUME ~TickUnknown(j)
      PROVE  \A k \in Jobs : mem'[k].status = mem[k].status
  <2>1. \/ mem' = mem \/ mem' = [mem EXCEPT ![j] = [@ EXCEPT !.gone = 0]] \/ TickResume(j)
    BY <1>7 DEF TickStep, TickJobBudget, TickExited, TickRunning, TickIdle,
                      TickIdleTimeout
  <2> QED
    BY <1>0, <2>1, ForgetStatus DEF JobRecord
<1> QED
  BY <1>4, <1>6, <1>7

\* _finish_job and _spot_recover take StatusSteps of their job.
LEMMA FinishStepMovesStatus ==
  ASSUME TypeInv, StatusInv, NEW j \in Jobs, FinishStep(j)
  PROVE  StatusStep(j)
<1>0. TypeOK /\ mem \in [Jobs -> JobRecord]
  BY DEF TypeInv, TypeOK
<1>1. /\ pc[j] \in FinishSteps \cup {"recover", "backoff"}
      /\ pc'[j] \in {"teardown", "record", "backoff", "idle", "begin"}
      /\ \A k \in Jobs \ {j} : pc'[k] = pc[k]
      /\ UNCHANGED <<file, phase, cfgs, shut>>
  BY <1>0 DEF TypeOK, FinishSteps, FinishStep, RecoverTeardown, RecoverBackoff, FinalSync,
              FinishTeardown, FinishRecord, FinishFrame
<1>2. mem[j].status \notin FinalStatuses
  BY <1>1 DEF StatusInv, FinalAtRest, FinalStatuses, FinishSteps, Cleanup
<1>3. ASSUME \A k \in Jobs \ {j} : mem'[k].status = mem[k].status,
             \/ mem'[j].status \in {mem[j].status, "sync_failed"}
             \/ mem'[j].status = "completed" /\ pc'[j] = "idle"
      PROVE  StatusStep(j)
  <2>1. StatusMoves(mem, mem', j)
    BY <1>3, AloneMoves
  <2> QED
    BY <1>1, <1>2, <1>3, <2>1 DEF StatusStep, FinalStatuses, FinishSteps, Blocking, Cleanup
<1>4. ASSUME StatusMoves(mem, mem', j), Propagated(mem', j), pc'[j] = "idle",
             mem'[j].status \in {"failed", "sync_failed"}
      PROVE  StatusStep(j)
  BY <1>1, <1>2, <1>4 DEF StatusStep, FinalStatuses, FinishSteps
<1>5. ASSUME RecoverTeardown(j) \/ RecoverBackoff(j) \/ FinishTeardown(j)
      PROVE  StatusStep(j)
  <2>1. \A k \in Jobs : mem'[k].status = mem[k].status
    BY <1>0, <1>5, ForgetStatus DEF RecoverTeardown, FinishTeardown
  <2> QED
    BY <1>3, <2>1
<1>6. ASSUME FinalSync(j)
      PROVE  StatusStep(j)
  <2> DEFINE m == SetStatus(mem, j, "sync_failed")
  <2>1. /\ m \in [Jobs -> JobRecord] /\ m[j].status = "sync_failed"
        /\ \A k \in Jobs \ {j} : m[k].status = mem[k].status
    BY <1>0, SetStatusFacts, SetStatusAlone, StatusNames DEF Touches
  <2>2. \/ mem' = mem \/ mem' = m
        \/ mem' = PropagateFailure(m, {j}) /\ pc' = [pc EXCEPT ![j] = "idle"]
    BY <1>6 DEF FinalSync
  <2> HIDE DEF m
  <2>3. CASE mem' = PropagateFailure(m, {j}) /\ pc' = [pc EXCEPT ![j] = "idle"]
    <3>1. /\ StatusMoves(mem, mem', j) /\ Propagated(mem', j)
          /\ mem'[j].status = "sync_failed"
      BY <1>2, <2>1, <2>3, FailureMoves DEF FinalStatuses
    <3> QED
      BY <1>0, <1>4, <2>3, <3>1 DEF TypeOK
  <2> QED
    BY <1>3, <2>1, <2>2, <2>3
<1>7. ASSUME FinishRecord(j)
      PROVE  StatusStep(j)
  <2>1. pc'[j] = "idle"
    BY <1>0, <1>7 DEF TypeOK, FinishRecord
  <2>2. mem' = FailJob(mem, j) \/ mem' = SetStatus(mem, j, "completed")
    BY <1>7 DEF FinishRecord
  <2>3. /\ StatusMoves(mem, FailJob(mem, j), j) /\ Propagated(FailJob(mem, j), j)
        /\ FailJob(mem, j)[j].status = "failed"
    BY <1>0, <1>2, FailJobMoves DEF FinalStatuses
  <2> QED
    BY <1>0, <1>3, <1>4, <2>1, <2>2, <2>3, SetStatusAlone
<1> QED
  BY <1>5, <1>6, <1>7 DEF FinishStep

\* The provision-deploy-launch pipeline takes StatusSteps of its job.
LEMMA PipelineStepMovesStatus ==
  ASSUME TypeInv, StatusInv, NEW j \in Jobs, PipelineStep(j)
  PROVE  StatusStep(j)
<1>0. TypeOK /\ mem \in [Jobs -> JobRecord]
  BY DEF TypeInv, TypeOK
<1>1. /\ pc[j] # "idle" /\ \A k \in Jobs \ {j} : pc'[k] = pc[k]
      /\ UNCHANGED <<phase, cfgs, shut>> /\ file' \in {file, mem'}
  BY <1>0
  DEF TypeOK, PipelineStep, PipeFrame, Begin, AdoptPod, Provision, CreateInstance, NextCandidate,
      PersistCreated, RegisterCreated, AwaitSsh, ReleasePod, PodReady, Deploy, Launch,
      RecordLaunch, AbortPipeline, PipelineException, Interrupted
<1>2. /\ mem[j].status \notin {"completed", "skipped"}
      /\ mem[j].status = "failed" <=> pc[j] \in Cleanup
  BY <1>1 DEF StatusInv, FinalAtRest
<1>3. ASSUME \A k \in Jobs \ {j} : mem'[k].status = mem[k].status,
             mem'[j].status \in {mem[j].status, "provisioning", "deploying", "running"},
             pc[j] \notin Cleanup, pc'[j] \notin Cleanup
      PROVE  StatusStep(j)
  <2>1. StatusMoves(mem, mem', j)
    BY <1>3, AloneMoves
  <2> QED
    BY <1>1, <1>2, <1>3, <2>1 DEF StatusStep, FinalStatuses, Blocking
<1>4. ASSUME \A k \in Jobs \ {j} : mem'[k].status = mem[k].status, mem'[j].status = "failed",
             pc[j] \notin Cleanup, pc'[j] \in Cleanup
      PROVE  StatusStep(j)
  <2>1. StatusMoves(mem, mem', j)
    BY <1>4, AloneMoves
  <2> QED
    BY <1>1, <1>2, <1>4, <2>1 DEF StatusStep, FinalStatuses, Blocking
<1>5. ASSUME StatusMoves(mem, mem', j), Propagated(mem', j), mem'[j].status = "failed",
             pc'[j] = "idle"
      PROVE  StatusStep(j)
  BY <1>1, <1>2, <1>5 DEF StatusStep, FinalStatuses
<1>6. ASSUME mem' = SetStatus(mem, j, "failed"), pc[j] \notin Cleanup,
             pc'[j] \in Cleanup
      PROVE  StatusStep(j)
  BY <1>0, <1>4, <1>6, SetStatusAlone
<1>7. ASSUME NEW o \in [Jobs -> JobRecord], \A k \in Jobs : o[k].status = mem[k].status,
             mem' = FailJob(o, j), pc'[j] = "idle"
      PROVE  StatusStep(j)
  BY <1>2, <1>5, <1>7, FailJobMoves
<1>8. ASSUME \A k \in Jobs : mem'[k].status = mem[k].status, pc[j] \notin Cleanup,
             pc'[j] \notin Cleanup
      PROVE  StatusStep(j)
  BY <1>3, <1>8
<1>9. ASSUME NEW s \in {"provisioning", "deploying"}, mem' = SetStatus(mem, j, s),
             pc[j] \notin Cleanup, pc'[j] \notin Cleanup
      PROVE  StatusStep(j)
  BY <1>0, <1>3, <1>9, SetStatusAlone
<1>10. ASSUME Begin(j)
       PROVE  StatusStep(j)
  <2>1. /\ pc[j] \notin Cleanup /\ pc'[j] \notin Cleanup
        /\ mem' = mem \/ mem' = SetStatus(mem, j, "provisioning")
    BY <1>0, <1>10 DEF TypeOK, Begin, Cleanup
  <2> QED
    BY <1>8, <1>9, <2>1
<1>11. ASSUME AdoptPod(j) \/ AwaitSsh(j)
       PROVE  StatusStep(j)
  <2>1. /\ pc[j] \notin Cleanup
        /\ \/ mem' \in {mem, [mem EXCEPT ![j] = [@ EXCEPT !.ssh = TRUE]]}
                /\ pc'[j] \notin Cleanup
           \/ mem' = SetStatus(mem, j, "failed") /\ pc'[j] = "except"
    BY <1>0, <1>11 DEF TypeOK, AdoptPod, AwaitSsh, Interrupted, Cleanup
  <2>2. mem' \in {mem, [mem EXCEPT ![j] = [@ EXCEPT !.ssh = TRUE]]}
          => \A k \in Jobs : mem'[k].status = mem[k].status
    BY <1>0 DEF JobRecord
  <2> QED
    BY <1>6, <1>8, <2>1, <2>2 DEF Cleanup
<1>12. ASSUME Provision(j) \/ NextCandidate(j)
       PROVE  StatusStep(j)
  <2> DEFINE Ssh     == [mem EXCEPT ![j] = [@ EXCEPT !.ssh = TRUE]]
             Counted == [mem EXCEPT ![j] = [@ EXCEPT !.attempts = mem[j].attempts + 1]]
             Retried == [mem EXCEPT ![j] = [@ EXCEPT !.status = "provisioning",
                                                     !.attempts = mem[j].attempts + 1]]
  <2>1. /\ pc[j] \notin Cleanup /\ pc'[j] \notin Cleanup
        /\ \/ mem' \in {mem, Ssh, Counted, Retried}
           \/ mem' = FailJob(mem, j) /\ pc'[j] = "idle"
    BY <1>0, <1>12 DEF TypeOK, Provision, NextCandidate, Interrupted, Cleanup
  <2>2. /\ \A k \in Jobs : Ssh[k].status = mem[k].status /\ Counted[k].status = mem[k].status
        /\ Retried[j].status = "provisioning"
        /\ \A k \in Jobs \ {j} : Retried[k].status = mem[k].status
    BY <1>0 DEF JobRecord
  <2> HIDE DEF Ssh, Counted, Retried
  <2>3. CASE mem' \in {mem, Ssh, Counted, Retried}
    BY <1>3, <2>1, <2>2, <2>3
  <2> QED
    BY <1>0, <1>7, <2>1, <2>3
<1>13. ASSUME CreateInstance(j)
       PROVE  StatusStep(j)
  <2>1. /\ pc[j] \notin Cleanup
        /\ \/ mem' = mem /\ pc'[j] \notin Cleanup
           \/ mem' = SetStatus(mem, j, "failed") /\ pc'[j] = "except"
    BY <1>0, <1>13 DEF TypeOK, CreateInstance, Cleanup
  <2> QED
    BY <1>6, <1>8, <2>1 DEF Cleanup
<1>14. ASSUME PersistCreated(j)
       PROVE  StatusStep(j)
  <2>1. /\ pc[j] \notin Cleanup /\ pc'[j] \notin Cleanup
        /\ mem' = [mem EXCEPT ![j] = [@ EXCEPT !.pod = newpod[j], !.ssh = FALSE, !.started = TRUE,
                                               !.status = "provisioning"]]
    BY <1>0, <1>14 DEF TypeOK, PersistCreated, Cleanup
  <2>2. /\ mem'[j].status = "provisioning"
        /\ \A k \in Jobs \ {j} : mem'[k].status = mem[k].status
    BY <1>0, <2>1 DEF JobRecord
  <2> QED
    BY <1>3, <2>1, <2>2
<1>15. ASSUME RegisterCreated(j)
       PROVE  StatusStep(j)
  <2>1. /\ pc[j] \notin Cleanup /\ pc'[j] \notin Cleanup /\ mem' = mem
    BY <1>0, <1>15 DEF TypeOK, RegisterCreated, Cleanup
  <2> QED
    BY <1>8, <2>1
<1>16. ASSUME ReleasePod(j)
       PROVE  StatusStep(j)
  <2> DEFINE o == [mem EXCEPT ![j] = [@ EXCEPT !.pod = NoPod, !.ssh = FALSE]]
  <2>1. /\ o \in [Jobs -> JobRecord] /\ \A k \in Jobs : o[k].status = mem[k].status
    BY <1>0 DEF JobRecord
  <2>2. /\ pc[j] \notin Cleanup /\ pc'[j] \notin Cleanup
        /\ mem' = o \/ (mem' = FailJob(o, j) /\ pc'[j] = "idle")
    BY <1>0, <1>16 DEF TypeOK, ReleasePod, Cleanup
  <2> HIDE DEF o
  <2> QED
    BY <1>7, <1>8, <2>1, <2>2
<1>17. ASSUME PodReady(j)
       PROVE  StatusStep(j)
  <2>1. /\ pc[j] \notin Cleanup /\ pc'[j] \notin Cleanup
        /\ mem' = mem \/ mem' = SetStatus(mem, j, "deploying")
    BY <1>0, <1>17 DEF TypeOK, PodReady, Cleanup
  <2> QED
    BY <1>8, <1>9, <2>1
<1>18. ASSUME Deploy(j) \/ Launch(j)
       PROVE  StatusStep(j)
  <2>1. /\ pc[j] \notin Cleanup
        /\ \/ mem' = mem /\ pc'[j] \notin Cleanup
           \/ mem' = SetStatus(mem, j, "failed") /\ pc'[j] \in {"abort", "abort_tick"}
    BY <1>0, <1>18 DEF TypeOK, Deploy, Launch, Cleanup
  <2> QED
    BY <1>6, <1>8, <2>1 DEF Cleanup
<1>19. ASSUME RecordLaunch(j)
       PROVE  StatusStep(j)
  <2>1. /\ pc[j] \notin Cleanup /\ pc'[j] \notin Cleanup
        /\ mem' = [mem EXCEPT ![j] = [@ EXCEPT !.pid = TRUE, !.status = "running",
                                               !.started = TRUE]]
    BY <1>0, <1>19 DEF TypeOK, RecordLaunch, Cleanup
  <2>2. /\ mem'[j].status = "running"
        /\ \A k \in Jobs \ {j} : mem'[k].status = mem[k].status
    BY <1>0, <2>1 DEF JobRecord
  <2> QED
    BY <1>3, <2>1, <2>2
<1>20. ASSUME AbortPipeline(j) \/ PipelineException(j)
       PROVE  StatusStep(j)
  <2>1. /\ pc[j] \in Cleanup /\ pc'[j] = "idle"
        /\ mem' = PropagateFailure(mem, {j})
    BY <1>0, <1>20 DEF TypeOK, AbortPipeline, PipelineException, Cleanup
  <2>2. /\ StatusMoves(mem, mem', j) /\ Propagated(mem', j) /\ mem'[j].status = "failed"
    BY <1>0, <1>2, <2>1, FailureMoves
  <2> QED
    BY <1>5, <2>1, <2>2
<1> QED
  BY <1>10, <1>11, <1>12, <1>13, <1>14, <1>15, <1>16, <1>17, <1>18, <1>19, <1>20
  DEF PipelineStep

\* A step of a job is a StatusStep of it, or passes it over.
LEMMA JobStepMovesStatus ==
  ASSUME TypeInv, StatusInv, NEW j \in Jobs, JobStep(j)
  PROVE  \/ StatusStep(j) /\ (pc[j] # "idle" \/ mem[j].status \in LiveStatuses)
         \/ UNCHANGED <<mem, pc, file, phase, cfgs, shut>>
<1>1. CASE TickSkip(j)
  BY <1>1 DEF TickSkip, TickFrame
<1>2. ASSUME TickStep(j), ~TickSkip(j)
      PROVE  mem[j].status \in LiveStatuses
  BY <1>2 DEF TickStep, TickResume, TickJobBudget, TickExited, TickRunning, TickIdle,
              TickIdleTimeout, TickUnknown, Vanished, Ticking, LiveStatuses
<1>3. ASSUME FinishStep(j) \/ PipelineStep(j)
      PROVE  pc[j] # "idle"
  BY <1>3
  DEF FinishStep, RecoverTeardown, RecoverBackoff, FinalSync, FinishTeardown, FinishRecord,
      PipelineStep, Begin, AdoptPod, Provision, CreateInstance, NextCandidate, PersistCreated,
      RegisterCreated, AwaitSsh, ReleasePod, PodReady, Deploy, Launch, RecordLaunch,
      AbortPipeline, PipelineException
<1> QED
  BY <1>1, <1>2, <1>3, TickStepMovesStatus, FinishStepMovesStatus, PipelineStepMovesStatus
  DEF JobStep

\* StatusInv is preserved by commands, signals, failures and the pods, and only
\* a new command changes an outcome that was recorded.
LEMMA EnvironmentKeepsStatus ==
  ASSUME TypeInv, StatusInv, Environment
  PROVE  StatusInv' /\ (OutcomesKept \/ runs' # runs)
<1>0. TypeOK /\ QuietPhases
  BY DEF TypeInv
<1>1. ASSUME NEW C \in SUBSET Jobs, NEW flags \in SUBSET {"failed", "completed"}, Run(C, flags)
      PROVE  StatusInv' /\ runs' # runs
  <2>1. /\ phase = "down" /\ phase' = "reconcile" /\ file' = mem' /\ pc' = pc
        /\ runs' = runs + 1
    BY <1>1 DEF Run
  <2>2. Idle'
    BY <1>0, <2>1 DEF QuietPhases, Quiet, Idle
  <2>3. StatusInv'
    BY <2>1, <2>2 DEF Idle, StatusInv, FinalAtRest, ReadyAtStart, FailuresPropagate
  <2> QED
    BY <1>0, <2>1, <2>3 DEF TypeOK
<1>2. CASE Kill
  <2>1. /\ mem' = file /\ file' = file /\ phase' = "down" /\ Idle'
    BY <1>2 DEF Kill, Idle
  <2> QED
    BY <2>1 DEF Idle, StatusInv, FinalAtRest, ReadyAtStart, FailuresPropagate, OutcomesKept
<1>3. ASSUME \/ \E C \in SUBSET Jobs : ManualTeardownStart(C)
             \/ Beat \/ Sigint \/ \E p \in Pods : SpotLoss(p) \/ JobEnds(p)
      PROVE  /\ UNCHANGED <<mem, pc>> /\ file' \in {file, mem}
             /\ UNCHANGED <<phase, cfgs, shut>> \/ phase' \notin Between \/ shut' # "no"
  BY <1>3 DEF ManualTeardownStart, Beat, Sigint, SpotLoss, JobEnds, Between
<1>4. CASE Crash
  BY <1>4, CrashTable, QuietKeepsStatus DEF Idle, Between
<1> QED
  BY <1>1, <1>2, <1>3, <1>4, StillKeepsStatus DEF Environment

\* No step breaks StatusInv, and only a new command changes a recorded outcome.
LEMMA NextKeepsStatus ==
  TypeInv /\ TypeInv' /\ StatusInv /\ [Next]_vars
    => StatusInv' /\ (OutcomesKept \/ runs' # runs)
<1> SUFFICES ASSUME TypeInv, TypeInv', StatusInv, [Next]_vars
             PROVE  StatusInv' /\ (OutcomesKept \/ runs' # runs)
  OBVIOUS
<1>1. ASSUME NEW j \in Jobs, JobStep(j)
      PROVE  StatusInv' /\ OutcomesKept
  <2>1. cfgs' \subseteq Jobs
    BY DEF TypeInv, TypeOK
  <2> QED
    BY <1>1, <2>1, JobStepMovesStatus, StatusStepKeeps, StillKeepsStatus
<1>2. CASE UNCHANGED vars
  <2>1. UNCHANGED <<mem, pc, file, phase, cfgs, shut>>
    BY <1>2 DEF vars
  <2> QED
    BY <2>1, StillKeepsStatus
<1> QED
  BY <1>1, <1>2, MainThreadKeepsStatus, EnvironmentKeepsStatus DEF Next, Rest

\* A job that ended stays so while it runs, and its failure reaches the pending
\* jobs that depend on it before the next tick.
THEOREM StatusInvariance == Spec => []StatusInv
<1>1. Init => StatusInv
  BY DEF Init, StatusInv, FinalAtRest, ReadyAtStart, FailuresPropagate, AbsentJob, FreshJob,
         FinalStatuses
<1>2. TypeInv /\ TypeInv' /\ StatusInv /\ [Next]_vars => StatusInv'
  BY NextKeepsStatus
<1> QED
  BY <1>1, <1>2, TypeInvariance, PTL DEF Spec

\* Between two ticks no pending job depends on a failed or skipped one.
THEOREM BlockedSkipped == Spec => []BlockedJobsAreSkipped
<1>1. TypeInv /\ StatusInv => BlockedJobsAreSkipped
  <2> SUFFICES ASSUME TypeInv, StatusInv, phase \in {"starting", "unblocking"}, shut = "no", Idle,
                      NEW j \in cfgs, mem[j].status = "pending", NEW d \in Deps[j]
               PROVE  mem[d].status \notin {"failed", "skipped"}
    BY DEF BlockedJobsAreSkipped
  <2>1. d \in Jobs
    BY ConstantsAssumption DEF TypeInv, TypeOK
  <2>2. pc[d] = "idle"
    BY <2>1 DEF Idle
  <2> QED
    BY <2>2 DEF StatusInv, FailuresPropagate, Blocking, Cleanup
<1> QED
  BY <1>1, StatusInvariance, TypeInvariance, PTL

\* A job that is recorded as completed, failed or skipped stays so until another
\* `conductor run`.
THEOREM FinishedStays == Spec => FinishedStaysFinished
<1>1. TypeInv /\ TypeInv' /\ StatusInv /\ [Next]_vars =>
        [\A j \in Jobs : /\ file[j].status \in {"completed", "failed", "skipped"}
                         /\ file'[j].status # file[j].status
                         => runs' # runs]_vars
  BY NextKeepsStatus DEF OutcomesKept, FinalStatuses
<1> QED
  BY <1>1, TypeInvariance, StatusInvariance, PTL DEF Spec, FinishedStaysFinished

-----------------------------------------------------------------------------
(* Without --jobs the reconciliation spares what is tracked.                *)

\* Without --jobs the configured jobs are all the jobs.
LEMMA NextKeepsSelection ==
  ASSUME "subset" \notin Hazards
  PROVE  AllSelected /\ [Next]_vars => AllSelected'
<1> SUFFICES ASSUME AllSelected, [Next]_vars, phase' \notin {"down", "manual"}
             PROVE  cfgs' = Jobs
  BY DEF AllSelected
<1>1. ASSUME NEW C \in SUBSET Jobs, NEW flags \in SUBSET {"failed", "completed"}, Run(C, flags)
      PROVE  cfgs' = Jobs
  BY <1>1 DEF Run
<1>2. ASSUME UNCHANGED cfgs /\ phase \notin {"down", "manual"}
      PROVE  cfgs' = Jobs
  BY <1>2 DEF AllSelected
<1>3. ASSUME NEW j \in Jobs, JobStep(j)
      PROVE  UNCHANGED <<cfgs, phase>>
  BY <1>3
  DEF JobStep, TickStep, TickSkip, TickResume, TickJobBudget, TickExited, TickRunning, TickIdle,
      TickIdleTimeout, TickUnknown, TickFrame, FinishStep, RecoverTeardown, RecoverBackoff,
      FinalSync, FinishTeardown, FinishRecord, FinishFrame, PipelineStep, PipeFrame, Begin,
      AdoptPod, Provision, CreateInstance, NextCandidate, PersistCreated, RegisterCreated,
      AwaitSsh, ReleasePod, PodReady, Deploy, Launch, RecordLaunch, AbortPipeline,
      PipelineException
<1>4. CASE MainThread
  BY <1>2, <1>4
  DEF MainThread, ListInstances, EndReconcile, StartUnblocked, LoopHead, TeardownAll, Leave,
      GracefulShutdown, Exit, ManualTeardown, MatchInstance
<1>5. CASE Environment
  BY <1>1, <1>2, <1>5
  DEF Environment, ManualTeardownStart, Beat, Sigint, Kill, Crash, SpotLoss, JobEnds
<1>6. CASE UNCHANGED vars
  BY <1>2, <1>6 DEF vars
<1> QED
  BY <1>2, <1>3, <1>4, <1>5, <1>6 DEF Next, Rest

\* As long as no command is restricted with --jobs, the reconciliation does not
\* terminate a pod that a job tracks.
THEOREM ReconcileSpares ==
  ASSUME "subset" \notin Hazards
  PROVE  Spec => ReconcileSparesTracked
<1> DEFINE A == phase = "matching" =>
                  \A j \in Jobs : mem[j].pod # NoPod => mem[j].pod \notin tried' \ tried
<1>1. Init => AllSelected
  BY DEF Init, AllSelected
<1>2. AllSelected /\ [Next]_vars => AllSelected'
  BY NextKeepsSelection
<1>3. TypeInv /\ OwnPodsOnly /\ AllSelected /\ [Next]_vars => [A]_vars
  <2> SUFFICES ASSUME TypeInv, OwnPodsOnly, AllSelected, Next, phase = "matching",
                      NEW j \in Jobs, mem[j].pod # NoPod, mem[j].pod \in tried',
                      mem[j].pod \notin tried
               PROVE  FALSE
    OBVIOUS
  <2>0. TypeOK /\ Idle /\ cfgs = Jobs
    BY DEF TypeInv, QuietPhases, Quiet, AllSelected
  <2>1. ASSUME NEW p \in Pods, MatchInstance(p)
        PROVE  FALSE
    <3>1. tried' = tried \cup {p} /\ TerminateStray(p)
      BY <2>1 DEF MatchInstance, TerminateStray, Terminate
    <3>2. mem[j].pod = p /\ owner[p] = j
      BY <3>1 DEF OwnPodsOnly
    <3>3. tried' # tried
      OBVIOUS
    <3> QED
      BY <2>0, <2>1, <3>2, <3>3 DEF MatchInstance, MatchedJob
  <2>2. ASSUME NEW k \in Jobs, JobStep(k)
        PROVE  FALSE
    BY <2>0, <2>2
    DEF Idle, JobStep, TickStep, TickSkip, TickResume, TickJobBudget, TickExited, TickRunning,
        TickIdle, TickIdleTimeout, TickUnknown, Vanished, Ticking, FinishStep, RecoverTeardown,
        RecoverBackoff, FinalSync, FinishTeardown, FinishRecord, PipelineStep, Begin, AdoptPod,
        Provision, CreateInstance, NextCandidate, PersistCreated, RegisterCreated, AwaitSsh,
        ReleasePod, PodReady, Deploy, Launch, RecordLaunch, AbortPipeline, PipelineException
  <2>3. CASE ListInstances \/ EndReconcile \/ StartUnblocked \/ LoopHead \/ TeardownAll \/ Leave
               \/ GracefulShutdown \/ Exit \/ ManualTeardown
    BY <2>3 DEF ListInstances, EndReconcile, StartUnblocked, LoopHead, TeardownAll, Leave,
                GracefulShutdown, Exit, ManualTeardown
  <2>4. CASE Environment
    BY <2>4 DEF Environment, Run, ManualTeardownStart, Beat, Sigint, Kill, Crash, SpotLoss, JobEnds
  <2>5. CASE Rest
    BY <2>5 DEF Rest
  <2> QED
    BY <2>1, <2>2, <2>3, <2>4, <2>5 DEF Next, MainThread
<1> QED
  BY <1>1, <1>2, <1>3, TypeInvariance, OwnPods, PTL DEF Spec, ReconcileSparesTracked

-----------------------------------------------------------------------------
(* Without a kill no pod is forgotten.                                      *)

\* No step leaves the process down with anything that is not in the file.
LEMMA NextKeepsSaved == TypeInv /\ SavedAtEnd /\ [Next]_vars => SavedAtEnd'
<1> SUFFICES ASSUME TypeInv, SavedAtEnd, [Next]_vars, phase' = "down"
             PROVE  file' = mem'
  BY DEF SavedAtEnd
<1>0. phase = "down" => Idle
  BY DEF TypeInv, QuietPhases, Quiet
<1>1. CASE UNCHANGED <<file, mem, phase>>
  BY <1>1 DEF SavedAtEnd
<1>2. CASE MainThread
  BY <1>1, <1>2
  DEF MainThread, ListInstances, EndReconcile, StartUnblocked, LoopHead, TeardownAll, Leave,
      GracefulShutdown, Exit, ManualTeardown, MatchInstance
<1>3. ASSUME NEW j \in Jobs, JobStep(j)
      PROVE  FALSE
  <2>1. phase' = phase
    BY <1>3
    DEF JobStep, TickStep, TickSkip, TickResume, TickJobBudget, TickExited, TickRunning, TickIdle,
        TickIdleTimeout, TickUnknown, TickFrame, FinishStep, RecoverTeardown, RecoverBackoff,
        FinalSync, FinishTeardown, FinishRecord, FinishFrame, PipelineStep, PipeFrame, Begin,
        AdoptPod, Provision, CreateInstance, NextCandidate, PersistCreated, RegisterCreated,
        AwaitSsh, ReleasePod, PodReady, Deploy, Launch, RecordLaunch, AbortPipeline,
        PipelineException
  <2>2. phase = "ticking" \/ pc[j] # "idle"
    BY <1>3
    DEF JobStep, TickStep, TickSkip, TickResume, TickJobBudget, TickExited, TickRunning, TickIdle,
        TickIdleTimeout, TickUnknown, Vanished, Ticking, FinishStep, RecoverTeardown,
        RecoverBackoff, FinalSync, FinishTeardown, FinishRecord, PipelineStep, Begin, AdoptPod,
        Provision, CreateInstance, NextCandidate, PersistCreated, RegisterCreated, AwaitSsh,
        ReleasePod, PodReady, Deploy, Launch, RecordLaunch, AbortPipeline, PipelineException
  <2> QED
    BY <1>0, <2>1, <2>2 DEF Idle
<1>4. CASE Environment
  BY <1>1, <1>4 DEF Environment, Run, ManualTeardownStart, Beat, Sigint, Kill, Crash, SpotLoss,
                    JobEnds
<1>5. CASE UNCHANGED vars
  BY <1>1, <1>5 DEF vars
<1> QED
  BY <1>2, <1>3, <1>4, <1>5 DEF Next, Rest

\* The way the process ends, a kill included, leaves the table it goes on from in
\* the state file.
LEMMA AlwaysSaved == Spec => []SavedAtEnd
<1>1. Init => SavedAtEnd
  BY DEF Init, SavedAtEnd
<1> QED
  BY <1>1, NextKeepsSaved, TypeInvariance, PTL DEF Spec

\* What a step may do to what Recorded relates.
RecordMoves ==
  /\ known \subseteq known'
  /\ \A j \in Jobs : mem'[j].pod \in known' \cup {NoPod}
  /\ \A p \in known' \ known : \/ registry'[p] = "running" \/ p \in tried'
                               \/ \E j \in Jobs : pc'[j] = "persisted" /\ mem'[j].pod = p
  /\ \A j \in Jobs : pc[j] = "persisted" =>
       \/ pc'[j] = "persisted" /\ mem'[j].pod = mem[j].pod
       \/ registry'[mem[j].pod] = "running"

\* Such a step keeps Recorded.
LEMMA RecordedPreserved ==
  ASSUME TypeOK, TypeOK', ReleaseInv, ReleaseMoves, Recorded, RecordMoves
  PROVE  Recorded'
<1>1. ASSUME NEW p \in Pods, p \in alive', p \in known', p \notin tried'
      PROVE  registry'[p] = "running" \/ \E j \in Jobs : pc'[j] = "persisted" /\ mem'[j].pod = p
  <2>1. CASE p \notin known
    BY <1>1, <2>1 DEF RecordMoves
  <2>2. CASE p \in known
    <3>1. p \in alive /\ p \notin tried
      BY <1>1, <2>2 DEF ReleaseMoves, ReleaseInv, OnlyCreatedPods
    <3>2. CASE registry[p] = "running"
      <4>1. registry'[p] # "absent" /\ registry'[p] # "terminated"
        BY <1>1, <3>2 DEF ReleaseMoves
      <4>2. registry'[p] \in {"absent", "running", "terminated"}
        BY DEF TypeOK
      <4> QED
        BY <4>1, <4>2
    <3>3. ASSUME NEW j \in Jobs, pc[j] = "persisted", mem[j].pod = p
          PROVE  \/ registry'[p] = "running"
                 \/ \E k \in Jobs : pc'[k] = "persisted" /\ mem'[k].pod = p
      BY <3>3 DEF RecordMoves
    <3> QED
      BY <2>2, <3>1, <3>2, <3>3 DEF Recorded
  <2> QED
    BY <2>1, <2>2
<1>2. alive' \subseteq Pods
  BY DEF TypeOK
<1> QED
  BY <1>1, <1>2 DEF Recorded, KnownPods, RecordMoves

\* RecordMoves holds of the main thread's own steps.
LEMMA MainThreadRecords ==
  ASSUME TypeInv, KnownPods, MainThread
  PROVE  RecordMoves
<1>0. TypeOK /\ QuietPhases
  BY DEF TypeInv
<1>1. \A j \in Jobs : pc[j] = "persisted" => FALSE
  <2>1. Idle
    BY <1>0 DEF MainThread, ListInstances, EndReconcile, StartUnblocked, LoopHead, TeardownAll,
                Leave, GracefulShutdown, Exit, ManualTeardown, MatchInstance, QuietPhases, Quiet
  <2> QED
    BY <2>1 DEF Idle
<1>2. ASSUME known' = known, \A k \in Jobs : mem'[k].pod = mem[k].pod
      PROVE  RecordMoves
  BY <1>1, <1>2 DEF KnownPods, RecordMoves
<1>3. ASSUME ListInstances \/ EndReconcile \/ LoopHead \/ TeardownAll \/ Leave \/ Exit
      PROVE  known' = known /\ mem' = mem
  BY <1>3 DEF ListInstances, EndReconcile, LoopHead, TeardownAll, Leave, Exit
<1>4. ASSUME StartUnblocked \/ GracefulShutdown \/ ManualTeardown
      PROVE  known' = known /\ \A k \in Jobs : mem'[k].pod = mem[k].pod
  <2>1. CASE StartUnblocked
    BY <1>0, <2>1, PropagateFailureFacts DEF TypeOK, StartUnblocked, SkipBlocked
  <2>2. CASE GracefulShutdown \/ ManualTeardown
    BY <1>0, <2>2, SweepTable DEF TypeOK, GracefulShutdown, ManualTeardown, Touches
  <2> QED
    BY <1>4, <2>1, <2>2
<1>5. ASSUME NEW p \in Pods, MatchInstance(p)
      PROVE  RecordMoves
  <2>1. known' = known \cup {p}
    BY <1>5 DEF MatchInstance
  <2>2. \A k \in Jobs : mem'[k].pod \in {mem[k].pod, p}
    BY <1>0, <1>5, MatchTable DEF TypeOK, Touches
  <2>3. p \in tried' \/ p \in known \/ registry'[p] = "running"
    <3>1. CASE TerminateStray(p)
      BY <3>1, TerminateGives DEF TerminateStray
    <3>2. ASSUME NEW reg, registry' = RegistryAdd(reg, p),
                 reg \in {registry, RegistryUpdate(registry, mem[owner[p]].pod, "terminated")}
          PROVE  registry'[p] = "running"
      BY <1>0, <3>2 DEF TypeOK, RegistryAdd, RegistryUpdate
    <3>3. CASE owner[p] \in cfgs /\ mem[owner[p]].pod = p
      BY <1>0, <3>3, ConstantsAssumption DEF TypeOK, KnownPods
    <3> QED
      BY <1>5, <3>1, <3>2, <3>3 DEF MatchInstance, MatchedJob
  <2> QED
    BY <1>1, <2>1, <2>2, <2>3 DEF KnownPods, RecordMoves
<1> QED
  BY <1>2, <1>3, <1>4, <1>5 DEF MainThread

\* RecordMoves holds of the functions that run for a job.
LEMMA JobStepRecords ==
  ASSUME TypeInv, KnownPods, NEW j \in Jobs, JobStep(j)
  PROVE  RecordMoves
<1>0. TypeOK /\ PodSteps
  BY DEF TypeInv
<1>1. /\ \A k \in Jobs \ {j} : mem'[k].pod = mem[k].pod
      /\ ~PersistCreated(j) => mem'[j].pod \in {mem[j].pod, NoPod}
  BY <1>0, TickTable, ForgetTable, TickUnknownTable, StatusTable, FinishRecordTable, SshTable,
     ProvisionTable, PersistTable, ReleaseTable, RecordLaunchTable
  DEF TypeOK, Touches, JobStep, TickStep, TickSkip, TickJobBudget, TickExited, FinishStep,
      RecoverTeardown, FinishTeardown, PipelineStep, RegisterCreated
<1>2. \A k \in Jobs \ {j} : pc'[k] = pc[k]
  BY <1>0
  DEF TypeOK, JobStep, TickStep, TickSkip, TickResume, TickJobBudget, TickExited, TickRunning,
      TickIdle, TickIdleTimeout, TickUnknown, GoneAnswer, Finish, FinishStep, RecoverTeardown,
      RecoverBackoff, FinalSync, FinishTeardown, FinishRecord, PipelineStep, Begin, AdoptPod,
      Provision, CreateInstance, NextCandidate, PersistCreated, RegisterCreated, AwaitSsh,
      ReleasePod, PodReady, Deploy, Launch, RecordLaunch, AbortPipeline, PipelineException,
      Interrupted
<1>3. ~PersistCreated(j) => known' = known
  BY DEF JobStep, TickStep, TickSkip, TickResume, TickJobBudget, TickExited, TickRunning,
         TickIdle, TickIdleTimeout, TickUnknown, TickFrame, FinishStep, RecoverTeardown,
         RecoverBackoff, FinalSync, FinishTeardown, FinishRecord, FinishFrame, PipelineStep, Begin,
         AdoptPod, Provision, CreateInstance, NextCandidate, RegisterCreated, AwaitSsh,
         ReleasePod, PodReady, Deploy, Launch, RecordLaunch, AbortPipeline, PipelineException,
         Interrupted
<1>4. pc[j] = "persisted" => RegisterCreated(j)
  BY DEF JobStep, TickStep, TickSkip, TickResume, TickJobBudget, TickExited, TickRunning,
         TickIdle, TickIdleTimeout, TickUnknown, Vanished, Ticking, Idle, FinishStep,
         RecoverTeardown, RecoverBackoff, FinalSync, FinishTeardown, FinishRecord, PipelineStep,
         Begin, AdoptPod, Provision, CreateInstance, NextCandidate, PersistCreated, AwaitSsh,
         ReleasePod, PodReady, Deploy, Launch, RecordLaunch, AbortPipeline, PipelineException
<1>5. CASE PersistCreated(j)
  <2>1. /\ pc[j] = "created" /\ pc'[j] = "persisted" /\ mem'[j].pod = newpod[j]
        /\ known' = known \cup {newpod[j]}
    BY <1>0, <1>5, PersistTable DEF TypeOK, PersistCreated
  <2> QED
    BY <1>1, <1>2, <2>1 DEF KnownPods, RecordMoves
<1>6. CASE RegisterCreated(j)
  <2>1. registry'[mem[j].pod] = "running" /\ mem' = mem
    BY <1>0, <1>6, AddGives DEF RegisterCreated, PodSteps, HoldsPod, TypeOK, JobRecord
  <2>2. known' = known
    BY <1>6 DEF RegisterCreated
  <2> QED
    BY <1>2, <2>1, <2>2 DEF KnownPods, RecordMoves
<1>7. CASE ~PersistCreated(j) /\ ~RegisterCreated(j)
  BY <1>1, <1>2, <1>3, <1>4, <1>7 DEF KnownPods, RecordMoves
<1> QED
  BY <1>5, <1>6, <1>7

\* RecordMoves holds of everything else but a kill.
LEMMA EnvironmentRecords ==
  ASSUME "kill" \notin Hazards, TypeInv, SavedAtEnd, Recorded, Environment
  PROVE  RecordMoves
<1>0. TypeOK /\ QuietPhases
  BY DEF TypeInv
<1>1. ASSUME NEW C \in SUBSET Jobs, NEW flags \in SUBSET {"failed", "completed"}, Run(C, flags)
      PROVE  RecordMoves
  <2>1. phase = "down" /\ known' = known
    BY <1>1 DEF Run
  <2>2. Idle /\ file = mem
    BY <1>0, <2>1 DEF QuietPhases, Quiet, SavedAtEnd
  <2>3. \A k \in Jobs : mem'[k].pod \in {mem[k].pod, NoPod}
    BY <1>0, <1>1, <2>2, RunTable DEF TypeOK
  <2> QED
    BY <2>1, <2>2, <2>3 DEF Recorded, KnownPods, RecordMoves, Idle
<1>2. CASE Kill
  BY <1>2 DEF Kill, Adverse
<1>3. ASSUME \/ \E C \in SUBSET Jobs : ManualTeardownStart(C)
             \/ Beat \/ Sigint \/ \E p \in Pods : SpotLoss(p) \/ JobEnds(p)
      PROVE  UNCHANGED <<mem, pc, known>>
  BY <1>3 DEF ManualTeardownStart, Beat, Sigint, SpotLoss, JobEnds
<1>4. CASE UNCHANGED <<mem, pc, known>>
  BY <1>4 DEF Recorded, KnownPods, RecordMoves
<1>5. CASE Crash
  <2>1. mem' = mem /\ known' = known /\ \A k \in Jobs : pc[k] # "persisted"
    BY <1>5, CrashTable
  <2> QED
    BY <2>1 DEF Recorded, KnownPods, RecordMoves
<1> QED
  BY <1>1, <1>2, <1>3, <1>4, <1>5 DEF Environment

\* No step but a kill breaks Recorded.
LEMMA NextKeepsRecorded ==
  ASSUME "kill" \notin Hazards
  PROVE  TypeInv /\ TypeInv' /\ OwnPodsOnly /\ ReleaseInv /\ SavedAtEnd /\ Recorded /\ [Next]_vars
           => Recorded'
<1> SUFFICES ASSUME TypeInv, TypeInv', OwnPodsOnly, ReleaseInv, SavedAtEnd, Recorded, [Next]_vars
             PROVE  Recorded'
  OBVIOUS
<1>0. TypeOK /\ TypeOK'
  BY DEF TypeInv
<1>1. CASE MainThread
  BY <1>0, <1>1, MainThreadReleases, MainThreadRecords, RecordedPreserved DEF Recorded
<1>2. ASSUME NEW j \in Jobs, JobStep(j)
      PROVE  Recorded'
  <2>1. ReleaseMoves
    BY <1>0, <1>2, TickStepReleases, FinishStepReleases, PipelineStepReleases DEF JobStep
  <2> QED
    BY <1>0, <1>2, <2>1, JobStepRecords, RecordedPreserved DEF Recorded
<1>3. CASE Environment
  BY <1>0, <1>3, EnvironmentReleases, EnvironmentRecords, RecordedPreserved
<1>4. CASE UNCHANGED vars
  BY <1>4 DEF vars, Recorded, KnownPods
<1> QED
  BY <1>1, <1>2, <1>3, <1>4 DEF Next, Rest

\* As long as the process is not killed, every pod whose id was persisted, that
\* exists and that nobody tried to terminate, is referenced or registered.
THEOREM NoPodForgotten ==
  ASSUME "kill" \notin Hazards
  PROVE  Spec => []NoForgottenPod
<1>1. Init => Recorded
  BY DEF Init, Recorded, KnownPods, AbsentJob, FreshJob
<1>2. TypeInv /\ TypeInv' /\ OwnPodsOnly /\ ReleaseInv /\ SavedAtEnd /\ Recorded /\ [Next]_vars
        => Recorded'
  BY NextKeepsRecorded
<1>3. Recorded => NoForgottenPod
  BY DEF Recorded, NoForgottenPod
<1> QED
  BY <1>1, <1>2, <1>3, TypeInvariance, OwnPods, ReleaseInvariance, AlwaysSaved, PTL DEF Spec

-----------------------------------------------------------------------------
(* Without kept pods and without --retry a kill forgets no pod either.       *)

\* What a step may do to what Traceable relates: ids come from persisted pods,
\* a newly persisted pod is saved, registered or terminated at once, a job lets
\* go of released pods only or goes back to the file, and a save is one of the
\* whole table.
TraceMoves ==
  /\ known \subseteq known' /\ file' \in {file, mem'}
  /\ \A j \in Jobs : /\ mem'[j].pod \in known' \cup {NoPod}
                     /\ LetsGo(j) \/ mem'[j].pod = file[j].pod
  /\ \A p \in known' \ known : \/ registry'[p] = "running" \/ p \in tried'
                               \/ file' = mem' /\ \E j \in Jobs : mem'[j].pod = p

\* Such a step keeps Traceable.
LEMMA TraceablePreserved ==
  ASSUME KeepAlive = {}, TypeOK, TypeOK', ReleaseInv, ReleaseMoves, Traceable, TraceMoves
  PROVE  Traceable'
<1>1. ASSUME NEW p \in Pods, p \in alive', p \in known', p \notin tried'
      PROVE  registry'[p] = "running" \/ \E j \in Jobs : mem'[j].pod = p /\ file'[j].pod = p
  <2>1. CASE p \notin known
    BY <1>1, <2>1 DEF TraceMoves
  <2>2. CASE p \in known
    <3>1. p \in alive /\ p \notin tried
      BY <1>1, <2>2 DEF ReleaseMoves, ReleaseInv, OnlyCreatedPods
    <3>2. CASE registry[p] = "running"
      <4>1. registry'[p] # "absent" /\ registry'[p] # "terminated"
        BY <1>1, <3>2 DEF ReleaseMoves
      <4>2. registry'[p] \in {"absent", "running", "terminated"}
        BY DEF TypeOK
      <4> QED
        BY <4>1, <4>2
    <3>3. ASSUME NEW j \in Jobs, mem[j].pod = p, file[j].pod = p
          PROVE  mem'[j].pod = p /\ file'[j].pod = p
      <4>1. p # NoPod
        BY ConstantsAssumption
      <4>2. mem'[j].pod = p
        BY <1>1, <3>3, <4>1 DEF TraceMoves, LetsGo
      <4> QED
        BY <3>3, <4>2 DEF TraceMoves
    <3> QED
      BY <2>2, <3>1, <3>2, <3>3 DEF Traceable
  <2> QED
    BY <2>1, <2>2
<1>2. alive' \subseteq Pods
  BY DEF TypeOK
<1>3. \A j \in Jobs : file'[j].pod \in known' \cup {NoPod}
  BY DEF Traceable, TraceMoves
<1> QED
  BY <1>1, <1>2, <1>3 DEF Traceable, KnownPods, TraceMoves

\* TraceMoves holds of the main thread's own steps.
LEMMA MainThreadTraces ==
  ASSUME TypeInv, KnownPods, MainThread
  PROVE  TraceMoves
<1>1. RecordMoves /\ \A k \in Jobs : LetsGo(k)
  BY MainThreadRecords, MainThreadLetsGo
<1>2. file' \in {file, mem'}
  BY DEF MainThread, ListInstances, EndReconcile, StartUnblocked, LoopHead, TeardownAll, Leave,
         GracefulShutdown, Exit, ManualTeardown, MatchInstance
<1>3. ASSUME NEW j \in Jobs, pc'[j] = "persisted"
      PROVE  FALSE
  <2>1. Idle
    BY DEF TypeInv, MainThread, ListInstances, EndReconcile, StartUnblocked, LoopHead, TeardownAll,
           Leave, GracefulShutdown, Exit, ManualTeardown, MatchInstance, QuietPhases, Quiet
  <2>2. pc[j] = "idle" /\ pc \in [Jobs -> Steps]
    BY <2>1 DEF Idle, TypeInv, TypeOK
  <2> QED
    BY <1>3, <2>2 DEF MainThread, ListInstances, EndReconcile, StartUnblocked, LoopHead,
                      TeardownAll, Leave, GracefulShutdown, Exit, ManualTeardown, MatchInstance
<1> QED
  BY <1>1, <1>2, <1>3 DEF RecordMoves, TraceMoves

\* TraceMoves holds of the functions that run for a job.
LEMMA JobStepTraces ==
  ASSUME TypeInv, OwnPodsOnly, ReleaseInv, ReleaseMoves, KnownPods, NEW j \in Jobs, JobStep(j)
  PROVE  TraceMoves
<1>1. RecordMoves /\ \A k \in Jobs : LetsGo(k)
  BY JobStepRecords, JobStepLetsGo
<1>2. file' \in {file, mem'} /\ (PersistCreated(j) => file' = mem')
  BY DEF JobStep, TickStep, TickSkip, TickResume, TickJobBudget, TickExited, TickRunning,
         TickIdle, TickIdleTimeout, TickUnknown, TickFrame, FinishStep, RecoverTeardown,
         RecoverBackoff, FinalSync, FinishTeardown, FinishRecord, FinishFrame, PipelineStep, Begin,
         AdoptPod, Provision, CreateInstance, NextCandidate, PersistCreated, RegisterCreated,
         AwaitSsh, ReleasePod, PodReady, Deploy, Launch, RecordLaunch, AbortPipeline,
         PipelineException, Interrupted
<1>3. ~PersistCreated(j) => known' = known
  BY DEF JobStep, TickStep, TickSkip, TickResume, TickJobBudget, TickExited, TickRunning,
         TickIdle, TickIdleTimeout, TickUnknown, TickFrame, FinishStep, RecoverTeardown,
         RecoverBackoff, FinalSync, FinishTeardown, FinishRecord, FinishFrame, PipelineStep, Begin,
         AdoptPod, Provision, CreateInstance, NextCandidate, RegisterCreated, AwaitSsh,
         ReleasePod, PodReady, Deploy, Launch, RecordLaunch, AbortPipeline, PipelineException,
         Interrupted
<1> QED
  BY <1>1, <1>2, <1>3 DEF RecordMoves, TraceMoves

\* TraceMoves holds of everything else, a kill included, but a retry.
LEMMA EnvironmentTraces ==
  ASSUME "retry" \notin Hazards, TypeInv, SavedAtEnd, Traceable, Environment
  PROVE  TraceMoves
<1>0. TypeOK
  BY DEF TypeInv
<1>1. known' = known /\ file' \in {file, mem'}
  BY DEF Environment, Run, ManualTeardownStart, Beat, Sigint, Kill, Crash, SpotLoss, JobEnds
<1>2. ASSUME NEW C \in SUBSET Jobs, NEW flags \in SUBSET {"failed", "completed"}, Run(C, flags)
      PROVE  \A k \in Jobs : mem'[k].pod = file[k].pod
  <2>1. flags = {} /\ mem' = ApplyRetryFlags(Merge(file, C), C, flags)
    BY <1>2 DEF Run, Adverse
  <2>2. \A k \in Jobs : mem'[k] = Merge(file, C)[k]
    BY <2>1 DEF ApplyRetryFlags
  <2> QED
    BY <1>0, <2>2, MergeFacts DEF TypeOK
<1>3. ASSUME \/ \E C \in SUBSET Jobs : ManualTeardownStart(C)
             \/ Beat \/ Sigint \/ Kill \/ Crash \/ \E p \in Pods : SpotLoss(p) \/ JobEnds(p)
      PROVE  mem' \in {mem, file}
  BY <1>3 DEF ManualTeardownStart, Beat, Sigint, Kill, Crash, SpotLoss, JobEnds
<1>4. \/ mem' = mem
      \/ \A k \in Jobs : mem'[k].pod = file[k].pod
  BY <1>2, <1>3 DEF Environment
<1> QED
  BY <1>1, <1>4 DEF Traceable, KnownPods, TraceMoves, LetsGo

\* No step but a retry breaks Traceable.
LEMMA NextKeepsTraceable ==
  ASSUME KeepAlive = {}, "retry" \notin Hazards
  PROVE  TypeInv /\ TypeInv' /\ OwnPodsOnly /\ ReleaseInv /\ SavedAtEnd /\ Traceable /\ [Next]_vars
           => Traceable'
<1> SUFFICES ASSUME TypeInv, TypeInv', OwnPodsOnly, ReleaseInv, SavedAtEnd, Traceable, [Next]_vars
             PROVE  Traceable'
  OBVIOUS
<1>0. TypeOK /\ TypeOK' /\ KnownPods
  BY DEF TypeInv, Traceable
<1>1. CASE MainThread
  BY <1>0, <1>1, MainThreadReleases, MainThreadTraces, TraceablePreserved
<1>2. ASSUME NEW j \in Jobs, JobStep(j)
      PROVE  Traceable'
  <2>1. ReleaseMoves
    BY <1>0, <1>2, TickStepReleases, FinishStepReleases, PipelineStepReleases DEF JobStep
  <2> QED
    BY <1>0, <1>2, <2>1, JobStepTraces, TraceablePreserved
<1>3. CASE Environment
  BY <1>0, <1>3, EnvironmentReleases, EnvironmentTraces, TraceablePreserved
<1>4. CASE UNCHANGED vars
  BY <1>4 DEF vars, Traceable, KnownPods
<1> QED
  BY <1>1, <1>2, <1>3, <1>4 DEF Next, Rest

\* If no job keeps its pods alive and no finished job is retried, no kill makes
\* the state file, the table and the registry lose a pod: whatever command is
\* killed where, every pod whose id was persisted, that exists and that nobody
\* tried to terminate, is referenced or registered.
THEOREM NoPodForgottenInKills ==
  ASSUME KeepAlive = {}, "retry" \notin Hazards
  PROVE  Spec => []NoForgottenPod
<1>1. Init => Traceable
  BY DEF Init, Traceable, KnownPods, AbsentJob, FreshJob
<1>2. TypeInv /\ TypeInv' /\ OwnPodsOnly /\ ReleaseInv /\ SavedAtEnd /\ Traceable /\ [Next]_vars
        => Traceable'
  BY NextKeepsTraceable
<1>3. Traceable => NoForgottenPod
  BY DEF Traceable, NoForgottenPod
<1> QED
  BY <1>1, <1>2, <1>3, TypeInvariance, OwnPods, ReleaseInvariance, AlwaysSaved, PTL DEF Spec

-----------------------------------------------------------------------------
(* Without a kill and without --retry dependencies come first.              *)

\* Job j has a pod or something that runs for it.
Started(j) == \/ mem[j].status \in LiveStatuses \/ pc[j] # "idle"
              \/ \E p \in Pods : owner[p] = j

\* What a step may do to what StartedAfterDeps relates.
StartMoves ==
  /\ \A k \in Jobs : mem[k].status = "completed" => mem'[k].status = "completed"
  /\ \A k \in Jobs : Started(k)' => \/ Started(k)
                                    \/ \A d \in Deps[k] : mem'[d].status = "completed"

\* Such a step keeps StartedAfterDeps.
LEMMA StartedPreserved ==
  ASSUME StartedAfterDeps, StartMoves
  PROVE  StartedAfterDeps'
<1>1. ASSUME NEW k \in Jobs, Started(k)', NEW d \in Deps[k]
      PROVE  mem'[d].status = "completed"
  <2>1. d \in Jobs
    BY ConstantsAssumption
  <2>2. Started(k) => mem[d].status = "completed"
    BY DEF StartedAfterDeps, Started
  <2> QED
    BY <1>1, <2>1, <2>2 DEF StartMoves
<1> QED
  BY <1>1 DEF StartedAfterDeps, Started

\* StartMoves holds of the main thread's own steps.
LEMMA MainThreadStarts ==
  ASSUME TypeInv, MainThread
  PROVE  StartMoves
<1>0. TypeOK /\ QuietPhases /\ mem \in [Jobs -> JobRecord] /\ cfgs \subseteq Jobs
  BY DEF TypeInv, TypeOK
<1>1. owner' = owner
  BY DEF MainThread, ListInstances, EndReconcile, StartUnblocked, LoopHead, TeardownAll, Leave,
         GracefulShutdown, Exit, ManualTeardown, MatchInstance
<1>2. ASSUME UNCHANGED <<mem, pc>>
      PROVE  StartMoves
  BY <1>1, <1>2 DEF StartMoves, Started
<1>3. ASSUME ListInstances \/ EndReconcile \/ LoopHead \/ Leave \/ Exit
      PROVE  UNCHANGED <<mem, pc>>
  BY <1>3 DEF ListInstances, EndReconcile, LoopHead, Leave, Exit
<1>4. CASE StartUnblocked
  <2>1. \A k \in Jobs : \/ mem'[k].status = mem[k].status
                        \/ mem[k].status = "pending" /\ mem'[k].status = "skipped"
    BY <1>0, <1>4, PropagateFailureFacts DEF StartUnblocked, SkipBlocked
  <2>2. ASSUME NEW k \in Jobs, pc'[k] # "idle", pc' # pc
        PROVE  \A d \in Deps[k] : mem'[d].status = "completed"
    BY <1>4, <2>2 DEF StartUnblocked, ReadyJobs
  <2> QED
    BY <1>1, <2>1, <2>2 DEF StartMoves, Started, LiveStatuses, TickedStatuses
<1>5. CASE TeardownAll
  <2>1. mem' = mem
    BY <1>5 DEF TeardownAll
  <2>2. \/ pc' = pc
        \/ /\ pc' = [pc EXCEPT ![cursor] = "final_sync"] /\ mem[cursor].status \in LiveStatuses
    BY <1>5 DEF TeardownAll
  <2>3. \A k \in Jobs : pc'[k] # "idle" => pc[k] # "idle" \/ mem[k].status \in LiveStatuses
    BY <1>0, <2>2 DEF TypeOK
  <2> QED
    BY <1>1, <2>1, <2>3 DEF StartMoves, Started
<1>6. CASE GracefulShutdown \/ ManualTeardown
  <2>1. pc' = pc
    BY <1>6 DEF GracefulShutdown, ManualTeardown
  <2>2. \/ mem' = mem
        \/ \E c \in Jobs : /\ mem' = SetStatus(mem, c, "failed")
                           /\ mem[c].status \in LiveStatuses \cup {"pending"}
    BY <1>6 DEF GracefulShutdown, ManualTeardown, LiveStatuses
  <2>3. \A k \in Jobs : \/ mem'[k].status = mem[k].status
                        \/ mem[k].status # "completed" /\ mem'[k].status = "failed"
    BY <1>0, <2>2, SetStatusAlone DEF LiveStatuses, TickedStatuses
  <2> QED
    BY <1>1, <2>1, <2>3 DEF StartMoves, Started, LiveStatuses, TickedStatuses
<1>7. ASSUME NEW p \in Pods, MatchInstance(p)
      PROVE  StartMoves
  <2>1. /\ Touches(mem, mem', owner[p]) /\ pc' = pc
        /\ \A k \in Jobs : mem[k].status = "completed" => mem'[k].status = "completed"
    BY <1>0, <1>7, MatchTable DEF MatchInstance
  <2>2. \A k \in Jobs \ {owner[p]} : mem'[k].status = mem[k].status
    BY <1>0, <1>7 DEF MatchInstance, MatchedJob, TerminateStray
  <2> QED
    BY <1>1, <2>1, <2>2 DEF StartMoves, Started
<1> QED
  BY <1>2, <1>3, <1>4, <1>5, <1>6, <1>7 DEF MainThread

\* StartMoves holds of the functions that run for a job.
LEMMA JobStepStarts ==
  ASSUME TypeInv, StatusInv, NEW j \in Jobs, JobStep(j)
  PROVE  StartMoves
<1>0. TypeOK
  BY DEF TypeInv
<1>1. \A p \in Pods : owner'[p] = owner[p] \/ (owner'[p] = j /\ pc[j] # "idle")
  <2>1. CASE CreateInstance(j)
    BY <1>0, <2>1 DEF TypeOK, CreateInstance
  <2>2. CASE owner' = owner
    BY <2>2
  <2>3. ~CreateInstance(j) => owner' = owner
    BY DEF JobStep, TickStep, TickSkip, TickResume, TickJobBudget, TickExited, TickRunning,
           TickIdle, TickIdleTimeout, TickUnknown, TickFrame, FinishStep, RecoverTeardown,
           RecoverBackoff, FinalSync, FinishTeardown, FinishRecord, FinishFrame, PipelineStep,
           Begin, AdoptPod, Provision, NextCandidate, PersistCreated, RegisterCreated, AwaitSsh,
           ReleasePod, PodReady, Deploy, Launch, RecordLaunch, AbortPipeline, PipelineException,
           Interrupted
  <2> QED
    BY <2>1, <2>2, <2>3
<1>2. CASE UNCHANGED <<mem, pc>>
  <2>1. CASE pc[j] = "idle"
    BY <1>1, <1>2, <2>1 DEF StartMoves, Started
  <2>2. CASE pc[j] # "idle"
    BY <1>1, <1>2, <2>2 DEF StartMoves, Started
  <2> QED
    BY <2>1, <2>2
<1>3. CASE StatusStep(j) /\ (pc[j] # "idle" \/ mem[j].status \in LiveStatuses)
  <2>1. \A k \in Jobs : mem[k].status = "completed" => mem'[k].status = "completed"
    BY <1>3 DEF StatusStep, StatusMoves
  <2>2. Started(j)
    BY <1>3 DEF Started
  <2>3. ASSUME NEW k \in Jobs \ {j}, Started(k)'
        PROVE  Started(k)
    BY <1>1, <1>3, <2>3 DEF StatusStep, StatusMoves, Started, LiveStatuses, TickedStatuses
  <2> QED
    BY <2>1, <2>2, <2>3 DEF StartMoves
<1> QED
  BY <1>2, <1>3, JobStepMovesStatus

\* StartMoves holds of everything else but a kill and a retry.
LEMMA EnvironmentStarts ==
  ASSUME "kill" \notin Hazards, "retry" \notin Hazards, TypeInv, SavedAtEnd, Environment
  PROVE  StartMoves
<1>0. TypeOK /\ QuietPhases
  BY DEF TypeInv
<1>1. ASSUME NEW C \in SUBSET Jobs, NEW flags \in SUBSET {"failed", "completed"}, Run(C, flags)
      PROVE  StartMoves
  <2>1. /\ phase = "down" /\ UNCHANGED <<pc, owner>>
        /\ mem' = ApplyRetryFlags(Merge(file, C), C, flags)
        /\ flags # {} => Adverse("retry")
    BY <1>1 DEF Run
  <2>2. file = mem /\ flags = {}
    BY <2>1 DEF SavedAtEnd, Adverse
  <2>3. \A k \in Jobs : mem'[k] = Merge(mem, C)[k]
    BY <2>1, <2>2 DEF ApplyRetryFlags
  <2>4. \A k \in Jobs : \/ mem'[k].status = mem[k].status
                        \/ mem[k].status = "absent" /\ mem'[k].status = "pending"
    BY <1>0, <2>3, MergeFacts DEF TypeOK
  <2> QED
    BY <2>1, <2>4 DEF StartMoves, Started, LiveStatuses, TickedStatuses
<1>2. CASE Kill
  BY <1>2 DEF Kill, Adverse
<1>3. ASSUME \/ \E C \in SUBSET Jobs : ManualTeardownStart(C)
             \/ Beat \/ Sigint \/ Crash \/ \E p \in Pods : SpotLoss(p) \/ JobEnds(p)
      PROVE  UNCHANGED <<mem, owner>> /\ \A k \in Jobs : pc'[k] \in {pc[k], "idle"}
  BY <1>3, CrashTable DEF ManualTeardownStart, Beat, Sigint, SpotLoss, JobEnds
<1>4. ASSUME UNCHANGED <<mem, owner>>, \A k \in Jobs : pc'[k] \in {pc[k], "idle"}
      PROVE  StartMoves
  BY <1>4 DEF StartMoves, Started
<1> QED
  BY <1>1, <1>2, <1>3, <1>4 DEF Environment

\* As long as the process is not killed and nothing is retried, a job is started
\* only after the jobs it depends on completed.
THEOREM DependenciesCompleteFirst ==
  ASSUME "kill" \notin Hazards, "retry" \notin Hazards
  PROVE  Spec => []DependenciesFirst
<1>1. Init => StartedAfterDeps
  BY DEF Init, StartedAfterDeps, AbsentJob, FreshJob, LiveStatuses, TickedStatuses, Jobs
<1>2. TypeInv /\ StatusInv /\ SavedAtEnd /\ StartedAfterDeps /\ [Next]_vars => StartedAfterDeps'
  <2> SUFFICES ASSUME TypeInv, StatusInv, SavedAtEnd, StartedAfterDeps, [Next]_vars
               PROVE  StartMoves
    BY StartedPreserved
  <2>1. CASE UNCHANGED vars
    BY <2>1 DEF vars, StartMoves, Started
  <2> QED
    BY <2>1, MainThreadStarts, JobStepStarts, EnvironmentStarts DEF Next, Rest
<1>3. StartedAfterDeps => DependenciesFirst
  BY DEF StartedAfterDeps, DependenciesFirst, LiveStatuses
<1> QED
  BY <1>1, <1>2, <1>3, TypeInvariance, StatusInvariance, AlwaysSaved, PTL DEF Spec

-----------------------------------------------------------------------------
(* Without a kill the launch follows the deploy.                            *)

\* What a step may do to the pods' files: what was uploaded or set up stays so,
\* and only a job that keeps its pods may start a copy too early.
RemoteMoves ==
  \A p \in Pods : /\ remote[p].deployed => remote'[p].deployed
                  /\ remote[p].setup => remote'[p].setup
                  /\ remote'[p].unready => remote[p].unready \/ owner[p] \in KeepAlive
                  /\ owner'[p] = owner[p] \/ owner[p] = 0

\* Such a step keeps SetupBeforeLaunch.
LEMMA SetupPreserved ==
  ASSUME SetupBeforeLaunch, RemoteMoves
  PROVE  SetupBeforeLaunch'
<1>1. 0 \notin KeepAlive
  BY ConstantsAssumption DEF Jobs
<1> QED
  BY <1>1 DEF SetupBeforeLaunch, RemoteMoves

\* What deploying, launching and ending make of the flags of a pod.
LEMMA RemoteFlags ==
  ASSUME NEW r \in RemoteState, NEW b \in BOOLEAN, NEW c \in {"ok", "bad"}
  PROVE  /\ Deployed(r, b).deployed /\ (r.setup \/ ~b => Deployed(r, b).setup)
         /\ Deployed(r, b).unready = r.unready
         /\ Launched(r).deployed = r.deployed /\ Launched(r).setup = r.setup
         /\ r.deployed /\ r.setup /\ Launched(r).unready => r.unready
         /\ Exited(r, c).deployed = r.deployed /\ Exited(r, c).setup = r.setup
         /\ Exited(r, c).unready = r.unready
         /\ [r EXCEPT !.copies = 0].deployed = r.deployed
         /\ [r EXCEPT !.copies = 0].setup = r.setup
         /\ [r EXCEPT !.copies = 0].unready = r.unready
<1>1. /\ Deployed(r, b).deployed /\ (r.setup \/ ~b => Deployed(r, b).setup)
      /\ Deployed(r, b).unready = r.unready
  BY DEF RemoteState, Deployed
<1>2. /\ Launched(r).deployed = r.deployed /\ Launched(r).setup = r.setup
      /\ r.deployed /\ r.setup /\ Launched(r).unready => r.unready
  BY DEF RemoteState, Launched
<1>3. /\ Exited(r, c).deployed = r.deployed /\ Exited(r, c).setup = r.setup
      /\ Exited(r, c).unready = r.unready
  BY DEF RemoteState, Exited
<1> QED
  BY <1>1, <1>2, <1>3 DEF RemoteState

\* A step leaves the record of job k as it is, or skips the job.
SameOrSkipped(k) == \/ mem'[k] = mem[k]
                    \/ mem'[k].status = "skipped" /\ mem'[k].pod = mem[k].pod

\* A job that a step leaves alone, or skips, stays launchable.
LEMMA OtherLaunchable ==
  ASSUME TypeInv, RemoteMoves, NEW k \in Jobs, Launchable(k),
         pc'[k] = pc[k], SameOrSkipped(k), k \in reuse' => k \in reuse
  PROVE  Launchable(k)'
<1>1. pc[k] = "launch" => mem[k].pod \in Pods
  BY PodIds DEF TypeInv, PodSteps, HoldsPod
<1> QED
  BY <1>1 DEF Launchable, SameOrSkipped, RemoteMoves

\* A propagation leaves records as they are, or skips the job.
LEMMA PropagationSkips ==
  ASSUME NEW m \in [Jobs -> JobRecord], NEW F, NEW k \in Jobs
  PROVE  \/ PropagateFailure(m, F)[k] = m[k]
         \/ /\ PropagateFailure(m, F)[k].status = "skipped"
            /\ PropagateFailure(m, F)[k].pod = m[k].pod
  BY DEF PropagateFailure, JobRecord

\* So does the failure of another job.
LEMMA FailJobSkips ==
  ASSUME NEW m \in [Jobs -> JobRecord], NEW j \in Jobs, NEW k \in Jobs \ {j}
  PROVE  \/ FailJob(m, j)[k] = m[k]
         \/ FailJob(m, j)[k].status = "skipped" /\ FailJob(m, j)[k].pod = m[k].pod
<1> DEFINE n == SetStatus(m, j, "failed")
<1>1. n \in [Jobs -> JobRecord]
  BY SetStatusFacts, StatusNames DEF Touches
<1>2. n[k] = m[k]
  BY DEF SetStatus
<1>3. FailJob(m, j) = PropagateFailure(n, {j})
  BY DEF FailJob
<1> HIDE DEF n
<1> QED
  BY <1>1, <1>2, <1>3, PropagationSkips

\* Putting another record for job j leaves the other jobs alone.
LEMMA PutAlone ==
  ASSUME NEW m \in [Jobs -> JobRecord], NEW j \in Jobs, NEW r, NEW k \in Jobs \ {j}
  PROVE  [m EXCEPT ![j] = r][k] = m[k]
  OBVIOUS

\* Only job j may move in a step of its functions; the failure of j may skip others.
LEMMA JobStepSkips ==
  ASSUME TypeInv, NEW j \in Jobs, JobStep(j), NEW k \in Jobs \ {j}
  PROVE  SameOrSkipped(k) /\ pc'[k] = pc[k] /\ (k \in reuse' => k \in reuse)
<1>0. TypeOK /\ mem \in [Jobs -> JobRecord]
  BY DEF TypeInv, TypeOK
<1>1. pc'[k] = pc[k]
  BY <1>0
  DEF TypeOK, JobStep, TickStep, TickSkip, TickResume, TickJobBudget, TickExited, TickRunning,
      TickIdle, TickIdleTimeout, TickUnknown, GoneAnswer, Finish, FinishStep, RecoverTeardown,
      RecoverBackoff, FinalSync, FinishTeardown, FinishRecord, PipelineStep, Begin, AdoptPod,
      Provision, CreateInstance, NextCandidate, PersistCreated, RegisterCreated, AwaitSsh,
      ReleasePod, PodReady, Deploy, Launch, RecordLaunch, AbortPipeline, PipelineException,
      Interrupted
<1>2. k \in reuse' => k \in reuse
  BY DEF JobStep, TickStep, TickSkip, TickResume, TickJobBudget, TickExited, TickRunning,
      TickIdle, TickIdleTimeout, TickUnknown, TickFrame, FinishStep, RecoverTeardown,
      RecoverBackoff, FinalSync, FinishTeardown, FinishRecord, FinishFrame, PipelineStep, Begin,
      AdoptPod, Provision, CreateInstance, NextCandidate, PersistCreated, RegisterCreated,
      AwaitSsh, ReleasePod, PodReady, Deploy, Launch, RecordLaunch, AbortPipeline,
      PipelineException, Interrupted
<1> SUFFICES SameOrSkipped(k)
  BY <1>1, <1>2
<1>3. ASSUME NEW r, mem' = [mem EXCEPT ![j] = r]
      PROVE  SameOrSkipped(k)
  BY <1>0, <1>3, PutAlone DEF SameOrSkipped
<1>4. CASE mem' = PropagateFailure(mem, {j}) \/ mem' = FailJob(mem, j)
  BY <1>0, <1>4, PropagationSkips, FailJobSkips DEF SameOrSkipped
<1>5. ASSUME NEW o \in [Jobs -> JobRecord], o[k] = mem[k],
             mem' = FailJob(o, j) \/ mem' = PropagateFailure(o, {j})
      PROVE  SameOrSkipped(k)
  BY <1>5, PropagationSkips, FailJobSkips DEF SameOrSkipped
<1>6. CASE mem' = mem
  BY <1>6 DEF SameOrSkipped
<1>7. CASE TickStep(j)
  <2>1. CASE TickUnknown(j)
    <3> DEFINE o == [mem EXCEPT ![j] = [@ EXCEPT !.gone = mem[j].gone + 1]]
    <3>1. o \in [Jobs -> JobRecord] /\ o[k] = mem[k]
      BY <1>0 DEF JobRecord
    <3>2. CASE GoneAnswer(j)
      <4>1. mem' = o \/ mem' = FailJob(o, j)
        BY <3>2 DEF GoneAnswer
      <4> HIDE DEF o
      <4> QED
        BY <1>5, <3>1, <4>1 DEF SameOrSkipped
    <3>3. CASE ~GoneAnswer(j)
      BY <1>3, <1>6, <2>1, <3>3 DEF TickUnknown
    <3> QED
      BY <3>2, <3>3
  <2>2. CASE ~TickUnknown(j)
    BY <1>3, <1>6, <1>7, <2>2
    DEF TickStep, TickSkip, TickResume, TickJobBudget, TickExited, TickRunning, TickIdle,
        TickIdleTimeout
  <2> QED
    BY <2>1, <2>2
<1>8. CASE FinishStep(j)
  <2>1. CASE FinalSync(j)
    <3> DEFINE o == SetStatus(mem, j, "sync_failed")
    <3>1. o \in [Jobs -> JobRecord] /\ o[k] = mem[k]
      BY <1>0, SetStatusFacts, StatusNames DEF SetStatus, Touches
    <3>2. mem' = mem \/ mem' = o \/ mem' = PropagateFailure(o, {j})
      BY <2>1 DEF FinalSync
    <3> HIDE DEF o
    <3> QED
      BY <1>5, <1>6, <3>1, <3>2 DEF SameOrSkipped
  <2>2. CASE FinishRecord(j)
    BY <1>3, <1>4, <2>2 DEF FinishRecord, SetStatus
  <2>3. CASE RecoverTeardown(j) \/ RecoverBackoff(j) \/ FinishTeardown(j)
    BY <1>3, <1>6, <2>3 DEF RecoverTeardown, RecoverBackoff, FinishTeardown
  <2> QED
    BY <1>8, <2>1, <2>2, <2>3 DEF FinishStep
<1>9. CASE PipelineStep(j)
  <2>1. CASE ReleasePod(j)
    <3> DEFINE o == [mem EXCEPT ![j] = [@ EXCEPT !.pod = NoPod, !.ssh = FALSE]]
    <3>1. o \in [Jobs -> JobRecord] /\ o[k] = mem[k]
      BY <1>0 DEF JobRecord
    <3>2. mem' = o \/ mem' = FailJob(o, j)
      BY <2>1 DEF ReleasePod
    <3> HIDE DEF o
    <3> QED
      BY <1>5, <3>1, <3>2 DEF SameOrSkipped
  <2>2. CASE \/ Begin(j) \/ AdoptPod(j) \/ CreateInstance(j) \/ PersistCreated(j)
             \/ RegisterCreated(j) \/ AwaitSsh(j) \/ PodReady(j) \/ Deploy(j)
             \/ RecordLaunch(j)
    BY <1>3, <1>6, <2>2
    DEF Begin, AdoptPod, CreateInstance, PersistCreated, RegisterCreated, AwaitSsh, PodReady,
        Deploy, RecordLaunch, SetStatus, Interrupted
  <2>3. CASE Provision(j) \/ NextCandidate(j)
    BY <1>3, <1>4, <1>6, <2>3 DEF Provision, NextCandidate, Interrupted
  <2>4. CASE AbortPipeline(j) \/ PipelineException(j)
    BY <1>4, <2>4 DEF AbortPipeline, PipelineException
  <2>5. CASE Launch(j)
    BY <1>3, <1>6, <2>5 DEF Launch, SetStatus
  <2> QED
    BY <1>9, <2>1, <2>2, <2>3, <2>4, <2>5 DEF PipelineStep
<1> QED
  BY <1>7, <1>8, <1>9 DEF JobStep

\* A step of job j's functions that keeps j launchable.
LaunchStep(j) ==
  /\ j \in reuse' => j \in reuse
  /\ pc'[j] = "launch" => remote'[mem'[j].pod].deployed /\ remote'[mem'[j].pod].setup
  /\ mem'[j].status = "running" => /\ mem'[j].pid \/ pc'[j] \in {"begin", "provision"}
                                   /\ pc'[j] \notin MidPipeline

\* The record of a job that runs after a step of its functions ran before, and
\* kept its pid unless it is provisioned again; or it was launched.
LEMMA JobStepRuns ==
  ASSUME TypeInv, NEW j \in Jobs, JobStep(j), ~RecordLaunch(j), mem'[j].status = "running"
  PROVE  mem[j].status = "running" /\ (mem'[j].pid = mem[j].pid \/ RecoverBackoff(j))
<1>0. TypeOK /\ mem \in [Jobs -> JobRecord] /\ mem[j] \in JobRecord
  BY DEF TypeInv, TypeOK
<1>1. ASSUME mem' = mem
      PROVE  mem[j].status = "running" /\ mem'[j].pid = mem[j].pid
  BY <1>1
<1>2. ASSUME NEW o \in [Jobs -> JobRecord], mem' = o, o[j].status = mem[j].status,
             o[j].pid = mem[j].pid
      PROVE  mem[j].status = "running" /\ mem'[j].pid = mem[j].pid
  BY <1>2
<1>3. ASSUME NEW s, s # "running", mem' = SetStatus(mem, j, s)
      PROVE  FALSE
  BY <1>0, <1>3, SetStatusAlone
<1>4. ASSUME NEW o \in [Jobs -> JobRecord], mem' = FailJob(o, j)
      PROVE  FALSE
  <2>1. mem'[j].status = "failed"
    <3> DEFINE n == SetStatus(o, j, "failed")
    <3>1. n \in [Jobs -> JobRecord] /\ n[j].status = "failed"
      BY SetStatusFacts, StatusNames DEF Touches
    <3>2. FailJob(o, j) = PropagateFailure(n, {j})
      BY DEF FailJob
    <3> HIDE DEF n
    <3> QED
      BY <1>4, <3>1, <3>2, PropagateFailureFacts
  <2> QED
    BY <2>1
<1>5. ASSUME mem' = PropagateFailure(mem, {j})
      PROVE  mem[j].status = "running" /\ mem'[j].pid = mem[j].pid
  BY <1>0, <1>5, PropagationSkips
<1>6. CASE TickStep(j)
  <2> DEFINE Counted(g) == [mem EXCEPT ![j] = [@ EXCEPT !.gone = g]]
             Seen == [mem EXCEPT ![j] = [@ EXCEPT !.gone = 0, !.ssh = TRUE]]
  <2>1. ASSUME NEW g \in Nat
        PROVE  /\ Counted(g) \in [Jobs -> JobRecord] /\ Counted(g)[j].status = mem[j].status
               /\ Counted(g)[j].pid = mem[j].pid
    BY <1>0 DEF JobRecord
  <2>2. /\ Seen \in [Jobs -> JobRecord] /\ Seen[j].status = mem[j].status
        /\ Seen[j].pid = mem[j].pid
    BY <1>0 DEF JobRecord
  <2>3. mem[j].gone + 1 \in Nat
    BY <1>0 DEF JobRecord
  <2>4. CASE TickResume(j)
    <3>1. \A k \in Jobs : mem'[k].status = mem[k].status
      BY <1>0, <2>4, ForgetStatus
    <3>2. mem[j].status # "running"
      BY <2>4 DEF TickResume
    <3> QED
      BY <3>1, <3>2
  <2>5. CASE ~TickResume(j)
    <3>1. \/ mem' = mem \/ mem' = Counted(0) \/ mem' = Counted(mem[j].gone + 1)
          \/ mem' = FailJob(Counted(mem[j].gone + 1), j) \/ mem' = Seen
      BY <1>6, <2>5 DEF TickStep, TickSkip, TickJobBudget, TickExited, TickRunning, TickIdle,
                        TickIdleTimeout, TickUnknown, GoneAnswer
    <3>2. 0 \in Nat
      OBVIOUS
    <3> HIDE DEF Counted, Seen
    <3> QED
      BY <1>1, <1>2, <1>4, <2>1, <2>2, <2>3, <3>1, <3>2
  <2> QED
    BY <2>4, <2>5
<1>7. CASE FinishStep(j)
  <2>1. CASE FinalSync(j)
    <3> DEFINE o == SetStatus(mem, j, "sync_failed")
    <3>1. o \in [Jobs -> JobRecord] /\ o[j].status = "sync_failed"
      BY <1>0, SetStatusFacts, StatusNames DEF Touches
    <3>2. mem' = mem \/ mem' = o \/ mem' = PropagateFailure(o, {j})
      BY <2>1 DEF FinalSync
    <3> HIDE DEF o
    <3>3. PropagateFailure(o, {j})[j].status # "running"
      BY <3>1, PropagateFailureFacts
    <3> QED
      BY <1>1, <3>1, <3>2, <3>3
  <2>2. CASE FinishRecord(j)
    BY <1>0, <1>3, <1>4, <2>2 DEF FinishRecord
  <2>3. CASE RecoverTeardown(j) \/ FinishTeardown(j)
    BY <1>1, <2>3 DEF RecoverTeardown, FinishTeardown
  <2>4. CASE RecoverBackoff(j)
    BY <1>0, <2>4, ForgetStatus
  <2> QED
    BY <1>7, <2>1, <2>2, <2>3, <2>4 DEF FinishStep
<1>8. CASE PipelineStep(j)
  <2> DEFINE Ssh == [mem EXCEPT ![j] = [@ EXCEPT !.ssh = TRUE]]
             Tried(n) == [mem EXCEPT ![j] = [@ EXCEPT !.attempts = n]]
             Asked(n) == [mem EXCEPT ![j] = [@ EXCEPT !.status = "provisioning", !.attempts = n]]
             Forgot == [mem EXCEPT ![j] = [@ EXCEPT !.pod = NoPod, !.ssh = FALSE]]
             Created(p) == [mem EXCEPT ![j] = [@ EXCEPT !.pod = p, !.ssh = FALSE, !.started = TRUE,
                                                         !.status = "provisioning"]]
  <2>0. mem[j].attempts + 1 \in Nat
    BY <1>0 DEF JobRecord
  <2>1. Ssh \in [Jobs -> JobRecord] /\ Ssh[j].status = mem[j].status /\ Ssh[j].pid = mem[j].pid
    BY <1>0 DEF JobRecord
  <2>2. ASSUME NEW n \in Nat
        PROVE  /\ Tried(n) \in [Jobs -> JobRecord] /\ Tried(n)[j].status = mem[j].status
               /\ Tried(n)[j].pid = mem[j].pid
               /\ Asked(n)[j].status = "provisioning"
    BY <1>0 DEF JobRecord
  <2>3. /\ Forgot \in [Jobs -> JobRecord] /\ Forgot[j].status = mem[j].status
        /\ Forgot[j].pid = mem[j].pid
    BY <1>0 DEF JobRecord
  <2>4. \A p : Created(p)[j].status = "provisioning"
    BY <1>0 DEF JobRecord
  <2>5. CASE \/ Begin(j) \/ CreateInstance(j) \/ RegisterCreated(j) \/ PodReady(j) \/ Deploy(j)
             \/ Launch(j) \/ AbortPipeline(j) \/ PipelineException(j)
    <3>1. \/ mem' = mem \/ mem' = SetStatus(mem, j, "failed")
          \/ mem' = SetStatus(mem, j, "provisioning") \/ mem' = SetStatus(mem, j, "deploying")
          \/ mem' = PropagateFailure(mem, {j})
      BY <2>5 DEF Begin, CreateInstance, RegisterCreated, PodReady, Deploy, Launch, AbortPipeline,
                  PipelineException
    <3> QED
      BY <1>1, <1>3, <1>5, <3>1
  <2>6. CASE AdoptPod(j) \/ AwaitSsh(j) \/ Provision(j) \/ NextCandidate(j)
    <3>1. \/ mem' = mem \/ mem' = SetStatus(mem, j, "failed") \/ mem' = Ssh
          \/ mem' = FailJob(mem, j) \/ mem' = Tried(mem[j].attempts + 1)
          \/ mem' = Asked(mem[j].attempts + 1)
      BY <2>6 DEF AdoptPod, AwaitSsh, Provision, NextCandidate, Interrupted
    <3>2. mem' # Asked(mem[j].attempts + 1)
      BY <2>0, <2>2
    <3> HIDE DEF Ssh, Tried, Asked
    <3> QED
      BY <1>0, <1>1, <1>2, <1>3, <1>4, <2>0, <2>1, <2>2, <3>1, <3>2
  <2>7. CASE PersistCreated(j)
    <3>1. mem' = Created(newpod[j])
      BY <2>7 DEF PersistCreated
    <3> QED
      BY <2>4, <3>1
  <2>8. CASE ReleasePod(j)
    <3>1. mem' = Forgot \/ mem' = FailJob(Forgot, j)
      BY <2>8 DEF ReleasePod
    <3> HIDE DEF Forgot
    <3> QED
      BY <1>2, <1>4, <2>3, <3>1
  <2> QED
    BY <1>8, <2>5, <2>6, <2>7, <2>8 DEF PipelineStep
<1> QED
  BY <1>6, <1>7, <1>8 DEF JobStep

\* The functions that run for a job launch only what was deployed and set up.
LEMMA JobStepRemote ==
  ASSUME TypeInv, OwnPodsOnly, LaunchReady, NEW j \in Jobs, JobStep(j)
  PROVE  RemoteMoves
<1>0. TypeOK /\ PodSteps
  BY DEF TypeInv
<1>1. ASSUME owner' = owner, remote' = remote
      PROVE  RemoteMoves
  BY <1>1 DEF RemoteMoves
<1>2. CASE CreateInstance(j)
  BY <1>0, <1>2 DEF TypeOK, CreateInstance, RemoteMoves
<1>3. ASSUME NEW q \in Pods, NEW r, owner' = owner, remote' = [remote EXCEPT ![q] = r],
             /\ remote[q].deployed => r.deployed
             /\ remote[q].setup => r.setup
             /\ r.unready => remote[q].unready \/ owner[q] \in KeepAlive
      PROVE  RemoteMoves
  BY <1>0, <1>3 DEF TypeOK, RemoteMoves
<1>4. ASSUME Deploy(j) \/ Launch(j)
      PROVE  mem[j].pod \in Pods /\ owner[mem[j].pod] = j
  BY <1>0, <1>4, PodIds DEF Deploy, Launch, PodSteps, HoldsPod, OwnPodsOnly
<1>5. CASE Deploy(j)
  <2>1. \/ remote' = remote
        \/ remote' = [remote EXCEPT ![mem[j].pod] = Deployed(remote[mem[j].pod], j \in reuse)]
    BY <1>5 DEF Deploy
  <2>2. owner' = owner /\ remote[mem[j].pod] \in RemoteState /\ (j \in reuse) \in BOOLEAN
    BY <1>0, <1>4, <1>5 DEF Deploy, TypeOK
  <2>3. LET r == Deployed(remote[mem[j].pod], j \in reuse)
        IN  /\ r.deployed /\ (remote[mem[j].pod].setup => r.setup)
            /\ r.unready = remote[mem[j].pod].unready
    BY <2>2, RemoteFlags
  <2> QED
    BY <1>1, <1>3, <1>4, <1>5, <2>1, <2>2, <2>3
<1>6. CASE Launch(j)
  <2>1. remote' = remote \/ remote' = [remote EXCEPT ![mem[j].pod] = Launched(remote[mem[j].pod])]
    BY <1>6 DEF Launch
  <2>2. owner' = owner /\ remote[mem[j].pod] \in RemoteState
    BY <1>0, <1>4, <1>6 DEF Launch, TypeOK
  <2>3. j \notin KeepAlive => remote[mem[j].pod].deployed /\ remote[mem[j].pod].setup
    BY <1>6 DEF Launch, LaunchReady, Launchable
  <2>4. LET r == Launched(remote[mem[j].pod])
        IN  /\ r.deployed = remote[mem[j].pod].deployed /\ r.setup = remote[mem[j].pod].setup
            /\ remote[mem[j].pod].deployed /\ remote[mem[j].pod].setup /\ r.unready
                 => remote[mem[j].pod].unready
    BY <2>2, RemoteFlags
  <2> QED
    BY <1>1, <1>3, <1>4, <1>6, <2>1, <2>2, <2>3, <2>4
<1>7. CASE ~CreateInstance(j) /\ ~Deploy(j) /\ ~Launch(j)
  <2>1. owner' = owner /\ remote' = remote
    BY <1>7
    DEF JobStep, TickStep, TickSkip, TickResume, TickJobBudget, TickExited, TickRunning,
        TickIdle, TickIdleTimeout, TickUnknown, TickFrame, FinishStep, RecoverTeardown,
        RecoverBackoff, FinalSync, FinishTeardown, FinishRecord, FinishFrame, PipelineStep,
        Begin, AdoptPod, Provision, NextCandidate, PersistCreated, RegisterCreated, AwaitSsh,
        ReleasePod, PodReady, RecordLaunch, AbortPipeline, PipelineException, Interrupted
  <2> QED
    BY <1>1, <2>1
<1> QED
  BY <1>2, <1>5, <1>6, <1>7

\* Ticks keep the job they visit launchable.
LEMMA TickStepLaunches ==
  ASSUME TypeInv, NEW j \in Jobs, Launchable(j), TickStep(j)
  PROVE  LaunchStep(j)
<1>0. TypeOK /\ pc[j] = "idle" /\ Idle /\ reuse' = reuse /\ remote' = remote
  BY DEF TypeInv, TickStep, TickSkip, TickResume, TickJobBudget, TickExited, TickRunning, TickIdle,
         TickIdleTimeout, TickUnknown, Vanished, Ticking, TickFrame, Idle
<1>1. pc'[j] \in {"idle", "resume", "recover", "launch", "final_sync"}
  <2>1. pc' = pc \/ \E s \in {"resume", "recover", "launch", "final_sync"} : Goto(j, s)
    BY DEF TickStep, TickSkip, TickResume, TickJobBudget, TickExited, TickRunning, TickIdle,
           TickIdleTimeout, TickUnknown, GoneAnswer, Finish
  <2> QED
    BY <1>0, <2>1 DEF TypeOK
<1>2. pc'[j] # "launch"
  <2>1. CASE TickUnknown(j)
    <3>1. mem[j].status = "running" /\ mem[j].pid
      BY <1>0, <2>1 DEF TickUnknown, Ticking, Launchable
    <3>2. pc' = pc \/ Goto(j, "recover")
      BY <2>1, <3>1 DEF TickUnknown, GoneAnswer
    <3> QED
      BY <1>0, <3>2 DEF TypeOK
  <2>2. CASE ~TickUnknown(j)
    <3>1. pc' = pc \/ \E s \in {"resume", "final_sync"} : Goto(j, s)
      BY <2>2 DEF TickStep, TickSkip, TickResume, TickJobBudget, TickExited, TickRunning, TickIdle,
             TickIdleTimeout, Finish
    <3> QED
      BY <1>0, <3>1 DEF TypeOK
  <2> QED
    BY <2>1, <2>2
<1>3. ~RecordLaunch(j) /\ ~RecoverBackoff(j)
  BY <1>0 DEF RecordLaunch, RecoverBackoff
<1>4. ASSUME mem'[j].status = "running"
      PROVE  mem'[j].pid
  BY <1>0, <1>3, <1>4, JobStepRuns DEF JobStep, Launchable
<1> QED
  BY <1>0, <1>1, <1>2, <1>4 DEF LaunchStep, MidPipeline, HoldsPod

\* So do _finish_job and _spot_recover.
LEMMA FinishStepLaunches ==
  ASSUME TypeInv, NEW j \in Jobs, Launchable(j), FinishStep(j)
  PROVE  LaunchStep(j)
<1>0. TypeOK /\ reuse' = reuse
  BY DEF TypeInv, FinishStep, RecoverTeardown, RecoverBackoff, FinalSync, FinishTeardown,
         FinishRecord, FinishFrame
<1>1. /\ pc[j] \in FinishSteps \cup {"recover", "backoff"}
      /\ pc'[j] \in FinishSteps \cup {"backoff", "begin", "idle"}
      /\ RecoverBackoff(j) => pc'[j] \in {"idle", "begin"}
  BY <1>0 DEF TypeOK, FinishStep, RecoverTeardown, RecoverBackoff, FinalSync, FinishTeardown,
              FinishRecord, FinishSteps
<1>2. ~RecordLaunch(j)
  BY <1>1 DEF RecordLaunch, FinishSteps
<1>3. ASSUME mem'[j].status = "running", pc'[j] # "begin"
      PROVE  mem'[j].pid
  <2>1. RecoverBackoff(j) => mem' = mem
    BY <1>0, <1>3 DEF RecoverBackoff, TypeOK
  <2>2. mem[j].status = "running" /\ mem'[j].pid = mem[j].pid
    BY <1>2, <1>3, <2>1, JobStepRuns DEF JobStep
  <2> QED
    BY <1>1, <2>2 DEF Launchable, FinishSteps
<1> QED
  BY <1>0, <1>1, <1>3 DEF LaunchStep, MidPipeline, HoldsPod, FinishSteps

\* And so do the pipelines of the jobs that do not keep their pods.
LEMMA PipelineStepLaunches ==
  ASSUME TypeInv, OwnPodsOnly, StatusInv, NEW j \in Jobs \ KeepAlive, Launchable(j), PipelineStep(j)
  PROVE  LaunchStep(j)
<1>0. TypeOK /\ PodSteps
  BY DEF TypeInv
<1>1. j \in reuse' => j \in reuse
  BY DEF PipelineStep, Begin, IsReuse, AdoptPod, Provision, CreateInstance, NextCandidate,
         PersistCreated, RegisterCreated, AwaitSsh, ReleasePod, PodReady, Deploy, Launch,
         RecordLaunch, AbortPipeline, PipelineException, Interrupted
<1>2. ASSUME pc'[j] = "launch"
      PROVE  remote'[mem'[j].pod].deployed /\ remote'[mem'[j].pod].setup
  <2>1. Deploy(j)
    BY <1>0, <1>2
    DEF TypeOK, PipelineStep, Begin, AdoptPod, Provision, CreateInstance, NextCandidate,
        PersistCreated, RegisterCreated, AwaitSsh, ReleasePod, PodReady, Launch,
        RecordLaunch, AbortPipeline, PipelineException, Interrupted
  <2>2. /\ mem' = mem
        /\ remote' = [remote EXCEPT ![mem[j].pod] = Deployed(remote[mem[j].pod], j \in reuse)]
    BY <1>0, <1>2, <2>1 DEF TypeOK, Deploy
  <2>3. mem[j].pod \in Pods
    BY <1>0, <2>1, PodIds DEF Deploy, PodSteps, HoldsPod
  <2>4. j \notin reuse
    BY DEF Launchable
  <2>5. LET r == Deployed(remote[mem[j].pod], FALSE) IN r.deployed /\ r.setup
    BY <1>0, <2>3, RemoteFlags DEF TypeOK
  <2>6. (j \in reuse) = FALSE
    BY <2>4
  <2> QED
    BY <1>0, <2>2, <2>3, <2>5, <2>6 DEF TypeOK
<1>3. ASSUME mem'[j].status = "running"
      PROVE  /\ mem'[j].pid \/ pc'[j] \in {"begin", "provision"}
             /\ pc'[j] \notin MidPipeline
  <2>1. CASE RecordLaunch(j)
    <3>1. mem'[j].pid = TRUE
      BY <1>0, <2>1 DEF TypeOK, JobRecord, RecordLaunch
    <3>2. pc'[j] = "idle"
      BY <1>0, <2>1 DEF TypeOK, RecordLaunch
    <3> QED
      BY <3>1, <3>2 DEF MidPipeline, HoldsPod
  <2>2. CASE ~RecordLaunch(j)
    <3>1. mem[j].status = "running"
      BY <1>3, <2>2, JobStepRuns DEF JobStep
    <3>2. pc[j] \notin MidPipeline \cup {"except"}
      BY <3>1 DEF Launchable, StatusInv, FinalAtRest, Cleanup
    <3>3. Begin(j) \/ Provision(j)
      BY <2>2, <3>2
      DEF PipelineStep, AdoptPod, CreateInstance, NextCandidate, PersistCreated, RegisterCreated,
          AwaitSsh, ReleasePod, PodReady, Deploy, Launch, AbortPipeline, PipelineException,
          MidPipeline, HoldsPod
    <3>4. CASE Begin(j)
      <4>1. mem' # SetStatus(mem, j, "provisioning")
        BY <1>0, <1>3, SetStatusAlone DEF TypeOK
      <4>2. pc'[j] = "provision"
        BY <1>0, <3>4, <4>1 DEF TypeOK, Begin
      <4> QED
        BY <4>2 DEF MidPipeline, HoldsPod
    <3>5. CASE Provision(j)
      <4>1. mem' = FailJob(mem, j) => mem'[j].status = "failed"
        BY <1>0, <3>1, FailJobMoves DEF TypeOK
      <4>2. \A n : [mem EXCEPT ![j] = [@ EXCEPT !.status = "provisioning",
                                                !.attempts = n]][j].status = "provisioning"
        BY <1>0 DEF TypeOK, JobRecord
      <4>3. \/ mem' = FailJob(mem, j)
            \/ mem' = [mem EXCEPT ![j] = [@ EXCEPT !.status = "provisioning",
                                                   !.attempts = mem[j].attempts + 1]]
        BY <3>5 DEF Provision
      <4> QED
        BY <1>3, <4>1, <4>2, <4>3
    <3> QED
      BY <3>3, <3>4, <3>5
  <2> QED
    BY <2>1, <2>2
<1> QED
  BY <1>1, <1>2, <1>3 DEF LaunchStep

\* No function that runs for a job breaks LaunchReady.
LEMMA JobStepLaunches ==
  ASSUME TypeInv, OwnPodsOnly, StatusInv, LaunchReady, NEW j \in Jobs, JobStep(j)
  PROVE  LaunchReady'
<1>1. RemoteMoves
  BY JobStepRemote
<1>2. ASSUME NEW k \in Jobs \ KeepAlive, k # j
      PROVE  Launchable(k)'
  BY <1>1, <1>2, JobStepSkips, OtherLaunchable DEF LaunchReady
<1>3. ASSUME j \notin KeepAlive
      PROVE  LaunchStep(j)
  BY <1>3, TickStepLaunches, FinishStepLaunches, PipelineStepLaunches DEF JobStep, LaunchReady
<1>4. LaunchStep(j) /\ j \notin reuse => Launchable(j)'
  BY DEF LaunchStep, Launchable
<1> QED
  BY <1>2, <1>3, <1>4 DEF LaunchReady, Launchable

\* A quiet step keeps a job launchable that it does not start, unless it launched it.
LEMMA QuietLaunchable ==
  ASSUME NEW k \in Jobs, Launchable(k), reuse' = reuse, pc[k] = "idle",
         pc'[k] \in {"idle", "begin", "final_sync"},
         mem'[k].status = "running" => /\ mem[k].status = "running"
                                       /\ mem'[k].pid = mem[k].pid \/ pc'[k] = "begin"
  PROVE  Launchable(k)'
  BY DEF Launchable, MidPipeline, HoldsPod

\* The main thread's own steps do not break LaunchReady.
LEMMA MainThreadLaunches ==
  ASSUME TypeInv, LaunchReady, MainThread
  PROVE  LaunchReady'
<1>0. TypeOK /\ mem \in [Jobs -> JobRecord] /\ QuietPhases
  BY DEF TypeInv, TypeOK
<1>1. Idle /\ reuse' = reuse /\ remote' = remote
  BY <1>0 DEF MainThread, ListInstances, EndReconcile, StartUnblocked, LoopHead, TeardownAll,
              Leave, GracefulShutdown, Exit, ManualTeardown, MatchInstance, QuietPhases, Quiet
<1>2. \A k \in Jobs : pc'[k] \in {"idle", "begin", "final_sync"}
  <2>1. \/ pc' = pc \/ Goto(cursor, "final_sync")
        \/ pc' = [j \in Jobs |-> IF j \in ReadyJobs(mem', cfgs) THEN "begin" ELSE "idle"]
    BY DEF MainThread, ListInstances, EndReconcile, StartUnblocked, LoopHead, TeardownAll,
           Leave, GracefulShutdown, Exit, ManualTeardown, MatchInstance
  <2> QED
    BY <1>0, <1>1, <2>1 DEF Idle, TypeOK
<1> SUFFICES ASSUME NEW k \in Jobs, mem'[k].status = "running"
             PROVE  mem[k].status = "running" /\ mem'[k].pid = mem[k].pid
  BY <1>1, <1>2, QuietLaunchable DEF Idle, LaunchReady
<1>3. CASE mem' = mem
  BY <1>3
<1>4. CASE StartUnblocked
  <2>1. mem'[k] = mem[k] \/ mem'[k].status = "skipped"
    BY <1>0, <1>4, PropagationSkips DEF StartUnblocked, SkipBlocked
  <2> QED
    BY <2>1
<1>5. CASE GracefulShutdown \/ ManualTeardown
  <2>1. mem' = mem \/ \E c \in Jobs : mem' = SetStatus(mem, c, "failed")
    BY <1>5 DEF GracefulShutdown, ManualTeardown
  <2>2. ASSUME NEW c \in Jobs, mem' = SetStatus(mem, c, "failed")
        PROVE  mem'[k] = mem[k]
    <3>1. k # c
      BY <1>0, <2>2, SetStatusAlone
    <3> QED
      BY <1>0, <2>2, <3>1 DEF SetStatus
  <2> QED
    BY <1>3, <2>1, <2>2
<1>6. ASSUME NEW p \in Pods, MatchInstance(p)
      PROVE  mem[k].status = "running" /\ mem'[k].pid = mem[k].pid
  <2>1. \/ mem' = mem
        \/ /\ owner[p] \in Jobs
           /\ mem' = [mem EXCEPT ![owner[p]] = [@ EXCEPT !.pod = p, !.started = TRUE,
                                   !.status = StatusAfterAdoption(mem[owner[p]].status)]]
        \/ /\ owner[p] \in Jobs
           /\ mem' = [mem EXCEPT ![owner[p]] = [@ EXCEPT !.pod = p, !.ssh = FALSE, !.pid = FALSE,
                                   !.status = StatusAfterReplacement(mem[owner[p]].status)]]
    BY <1>0, <1>6 DEF MatchInstance, MatchedJob, TerminateStray, TypeOK
  <2>2. CASE k # owner[p]
    BY <1>0, <2>1, <2>2, PutAlone
  <2>3. CASE k = owner[p]
    <3>1. \A s : /\ [mem[k] EXCEPT !.pod = p, !.started = TRUE, !.status = s].status = s
                 /\ [mem[k] EXCEPT !.pod = p, !.started = TRUE, !.status = s].pid = mem[k].pid
                 /\ [mem[k] EXCEPT !.pod = p, !.ssh = FALSE, !.pid = FALSE, !.status = s].status = s
      BY <1>0 DEF JobRecord
    <3>2. /\ StatusAfterReplacement(mem[k].status) # "running"
          /\ StatusAfterAdoption(mem[k].status) = "running" => mem[k].status = "running"
      BY DEF StatusAfterReplacement, StatusAfterAdoption
    <3>3. \/ mem' = mem
          \/ mem'[k] = [mem[k] EXCEPT !.pod = p, !.started = TRUE,
                                      !.status = StatusAfterAdoption(mem[k].status)]
          \/ mem'[k] = [mem[k] EXCEPT !.pod = p, !.ssh = FALSE, !.pid = FALSE,
                                      !.status = StatusAfterReplacement(mem[k].status)]
      BY <1>0, <2>1, <2>3
    <3> QED
      BY <3>1, <3>2, <3>3
  <2> QED
    BY <2>2, <2>3
<1> QED
  BY <1>3, <1>4, <1>5, <1>6
  DEF MainThread, ListInstances, EndReconcile, LoopHead, TeardownAll, Leave, Exit

\* Neither does anything else but a kill.
LEMMA EnvironmentLaunches ==
  ASSUME "kill" \notin Hazards, TypeInv, SavedAtEnd, LaunchReady, Environment
  PROVE  LaunchReady' /\ RemoteMoves
<1>0. TypeOK /\ QuietPhases /\ mem \in [Jobs -> JobRecord]
  BY DEF TypeInv, TypeOK
<1>1. ASSUME NEW C \in SUBSET Jobs, NEW flags \in SUBSET {"failed", "completed"}, Run(C, flags)
      PROVE  LaunchReady' /\ RemoteMoves
  <2>1. phase = "down" /\ UNCHANGED <<pc, owner, remote, reuse>>
    BY <1>1 DEF Run
  <2>2. Idle /\ mem' = ApplyRetryFlags(Merge(mem, C), C, flags)
    BY <1>0, <1>1, <2>1 DEF Run, QuietPhases, Quiet, SavedAtEnd
  <2>3. ASSUME NEW k \in Jobs
        PROVE  mem'[k] = mem[k] \/ mem'[k].status = "pending"
    <3>1. Merge(mem, C)[k] = mem[k] \/ Merge(mem, C)[k].status = "pending"
      BY <1>0, MergeFacts DEF Merge
    <3>2. mem'[k] = Merge(mem, C)[k] \/ mem'[k].status = "pending"
      BY <2>2 DEF ApplyRetryFlags, ResetForRetry, FreshJob
    <3> QED
      BY <3>1, <3>2
  <2>4. ASSUME NEW k \in Jobs, Launchable(k)
        PROVE  Launchable(k)'
    <3>1. pc'[k] \in {"idle", "begin", "final_sync"} /\ pc[k] = "idle"
      BY <2>1, <2>2 DEF Idle
    <3> QED
      BY <2>1, <2>3, <2>4, <3>1, QuietLaunchable
  <2> QED
    BY <2>1, <2>4 DEF LaunchReady, RemoteMoves
<1>2. CASE Kill
  BY <1>2 DEF Kill, Adverse
<1>3. ASSUME \/ \E C \in SUBSET Jobs : ManualTeardownStart(C)
             \/ Beat \/ Sigint \/ \E p \in Pods : SpotLoss(p)
      PROVE  LaunchReady' /\ RemoteMoves
  <2>1. UNCHANGED <<mem, pc, reuse, remote, owner>>
    BY <1>3 DEF ManualTeardownStart, Beat, Sigint, SpotLoss
  <2> QED
    BY <2>1 DEF LaunchReady, Launchable, RemoteMoves
<1>4. ASSUME NEW q \in Pods, JobEnds(q)
      PROVE  LaunchReady' /\ RemoteMoves
  <2>1. UNCHANGED <<mem, pc, reuse, owner>>
    BY <1>4 DEF JobEnds
  <2>2. \E r : /\ remote' = [remote EXCEPT ![q] = r]
               /\ \/ \E c \in {"ok", "bad"} : r = Exited(remote[q], c)
                  \/ r = [remote[q] EXCEPT !.copies = 0]
    BY <1>4 DEF JobEnds
  <2>3. PICK r : /\ remote' = [remote EXCEPT ![q] = r]
                 /\ \/ \E c \in {"ok", "bad"} : r = Exited(remote[q], c)
                    \/ r = [remote[q] EXCEPT !.copies = 0]
    BY <2>2
  <2>4. remote[q] \in RemoteState
    BY <1>0 DEF TypeOK
  <2>5. /\ r.deployed = remote[q].deployed /\ r.setup = remote[q].setup
        /\ r.unready = remote[q].unready
    <3>1. CASE r = [remote[q] EXCEPT !.copies = 0]
      BY <2>4, <3>1, RemoteFlags, TRUE \in BOOLEAN, "ok" \in {"ok", "bad"}
    <3>2. ASSUME NEW c \in {"ok", "bad"}, r = Exited(remote[q], c)
          PROVE  /\ r.deployed = remote[q].deployed /\ r.setup = remote[q].setup
                 /\ r.unready = remote[q].unready
      BY <2>4, <3>2, RemoteFlags, TRUE \in BOOLEAN
    <3> QED
      BY <2>3, <3>1, <3>2
  <2>6. RemoteMoves
    BY <1>0, <2>1, <2>3, <2>5 DEF TypeOK, RemoteMoves
  <2>7. ASSUME NEW k \in Jobs, Launchable(k)
        PROVE  Launchable(k)'
    BY <2>1, <2>6, <2>7, OtherLaunchable DEF SameOrSkipped
  <2> QED
    BY <2>6, <2>7 DEF LaunchReady
<1>5. CASE Crash
  <2>1. /\ UNCHANGED <<mem, reuse, remote, owner>>
        /\ \A k \in Jobs : /\ pc'[k] = "idle"
                           /\ pc[k] \in {"idle", "final_sync", "teardown", "record"}
    BY <1>5, CrashTable
  <2>2. ASSUME NEW k \in Jobs, Launchable(k)
        PROVE  Launchable(k)'
    BY <2>1, <2>2 DEF Launchable, MidPipeline, HoldsPod
  <2> QED
    BY <2>1, <2>2 DEF LaunchReady, RemoteMoves
<1> QED
  BY <1>1, <1>2, <1>3, <1>4, <1>5 DEF Environment

\* No step but a kill breaks what SetupBeforeLaunch rests on.
LEMMA NextKeepsSetup ==
  ASSUME "kill" \notin Hazards
  PROVE  TypeInv /\ OwnPodsOnly /\ StatusInv /\ SavedAtEnd /\ LaunchReady /\ SetupBeforeLaunch
           /\ [Next]_vars => (LaunchReady /\ SetupBeforeLaunch)'
<1> SUFFICES ASSUME TypeInv, OwnPodsOnly, StatusInv, SavedAtEnd, LaunchReady, SetupBeforeLaunch,
                    [Next]_vars
             PROVE  LaunchReady' /\ SetupBeforeLaunch'
  OBVIOUS
<1>1. CASE MainThread
  <2>1. owner' = owner /\ remote' = remote
    BY <1>1 DEF MainThread, ListInstances, EndReconcile, StartUnblocked, LoopHead, TeardownAll,
                Leave, GracefulShutdown, Exit, ManualTeardown, MatchInstance
  <2> QED
    BY <1>1, <2>1, MainThreadLaunches DEF SetupBeforeLaunch
<1>2. ASSUME NEW j \in Jobs, JobStep(j)
      PROVE  LaunchReady' /\ SetupBeforeLaunch'
  BY <1>2, JobStepLaunches, JobStepRemote, SetupPreserved
<1>3. CASE Environment
  BY <1>3, EnvironmentLaunches, SetupPreserved
<1>4. CASE UNCHANGED vars
  BY <1>4 DEF vars, LaunchReady, Launchable, SetupBeforeLaunch
<1> QED
  BY <1>1, <1>2, <1>3, <1>4 DEF Next, Rest

\* As long as the process is not killed, a job that does not keep its pods is
\* launched only where its code was uploaded and its setup ran to the end.
THEOREM LaunchedAfterSetup ==
  ASSUME "kill" \notin Hazards
  PROVE  Spec => []SetupBeforeLaunch
<1>1. Init => LaunchReady /\ SetupBeforeLaunch
  BY DEF Init, LaunchReady, Launchable, SetupBeforeLaunch, AbsentJob, FreshJob, NoRemote
<1>2. TypeInv /\ OwnPodsOnly /\ StatusInv /\ SavedAtEnd /\ LaunchReady /\ SetupBeforeLaunch
        /\ [Next]_vars => (LaunchReady /\ SetupBeforeLaunch)'
  BY NextKeepsSetup
<1> QED
  BY <1>1, <1>2, TypeInvariance, OwnPods, StatusInvariance, AlwaysSaved, PTL DEF Spec
=============================================================================
