--------------------------- MODULE LifecycleTypes ---------------------------
(***************************************************************************)
(* TypeInv is an invariant of Lifecycle, for every configuration, every    *)
(* set of pods and every number of commands and unfavourable events.       *)
(*                                                                         *)
(* The lemmas about the job table come first: what its operators, and then *)
(* the actions of Lifecycle, make of the table in memory.                  *)
(***************************************************************************)
EXTENDS LifecycleInvariants, TLAPS

-----------------------------------------------------------------------------
(* Operations on a table.                                                   *)

\* The names of the statuses.
LEMMA StatusNames ==
  /\ {"pending", "provisioning", "deploying", "running"} \subseteq Statuses
  /\ {"completed", "failed", "skipped", "sync_failed"} \subseteq Statuses
  BY DEF Statuses

\* What a step that concerns job j at most makes of the table m: no other job
\* changes pods or becomes completed or ceases to be, and job j does not become
\* completed.
Touches(m, n, j) ==
  /\ n \in [Jobs -> JobRecord]
  /\ \A k \in Jobs :
       /\ n[k].status = "completed" => m[k].status = "completed"
       /\ k # j => /\ n[k].pod = m[k].pod
                   /\ m[k].status = "completed" => n[k].status = "completed"

\* An unchanged table.
LEMMA SameTable ==
  ASSUME NEW m \in [Jobs -> JobRecord], NEW j
  PROVE  Touches(m, m, j)
  BY DEF Touches

\* Two such steps in a row.
LEMMA TouchesTransitive ==
  ASSUME NEW m, NEW n, NEW o, NEW j, Touches(m, n, j), Touches(n, o, j)
  PROVE  Touches(m, o, j)
  BY DEF Touches

\* Replacing the status of job j.
LEMMA SetStatusFacts ==
  ASSUME NEW m \in [Jobs -> JobRecord], NEW j \in Jobs, NEW s \in Statuses,
         s = "completed" => m[j].status = "completed"
  PROVE  /\ Touches(m, SetStatus(m, j, s), j)
         /\ SetStatus(m, j, s)[j].status = s
         /\ SetStatus(m, j, s)[j].pod = m[j].pod
<1> DEFINE r == [m[j] EXCEPT !.status = s]
<1>1. r \in JobRecord /\ r.status = s /\ r.pod = m[j].pod
  BY DEF JobRecord
<1>2. SetStatus(m, j, s) = [m EXCEPT ![j] = r]
  BY DEF SetStatus
<1> HIDE DEF r
<1> QED
  BY <1>1, <1>2 DEF Touches

\* A propagated failure skips pending jobs and does nothing else.
LEMMA PropagateFailureFacts ==
  ASSUME NEW m \in [Jobs -> JobRecord], NEW F
  PROVE  /\ PropagateFailure(m, F) \in [Jobs -> JobRecord]
         /\ \A k \in Jobs :
              /\ PropagateFailure(m, F)[k].pod = m[k].pod
              /\ \/ PropagateFailure(m, F)[k].status = m[k].status
                 \/ m[k].status = "pending" /\ PropagateFailure(m, F)[k].status = "skipped"
<1>1. ASSUME NEW k \in Jobs
      PROVE  /\ [m[k] EXCEPT !.status = "skipped"] \in JobRecord
             /\ [m[k] EXCEPT !.status = "skipped"].status = "skipped"
             /\ [m[k] EXCEPT !.status = "skipped"].pod = m[k].pod
  BY DEF JobRecord, Statuses
<1>2. ASSUME NEW k \in Jobs
      PROVE  \/ PropagateFailure(m, F)[k] = m[k]
             \/ /\ m[k].status = "pending"
                /\ PropagateFailure(m, F)[k] = [m[k] EXCEPT !.status = "skipped"]
  BY DEF PropagateFailure
<1>3. ASSUME NEW k \in Jobs
      PROVE  /\ PropagateFailure(m, F)[k] \in JobRecord
             /\ PropagateFailure(m, F)[k].pod = m[k].pod
             /\ \/ PropagateFailure(m, F)[k].status = m[k].status
                \/ m[k].status = "pending" /\ PropagateFailure(m, F)[k].status = "skipped"
  BY <1>1, <1>2
<1> QED
  BY <1>3 DEF PropagateFailure

\* A propagated failure concerns no pod and completes no job.
LEMMA PropagateFailureTouches ==
  ASSUME NEW m \in [Jobs -> JobRecord], NEW F, NEW j \in Jobs
  PROVE  /\ Touches(m, PropagateFailure(m, F), j)
         /\ PropagateFailure(m, F)[j].pod = m[j].pod
  BY PropagateFailureFacts DEF Touches

\* Job j fails, and the pending jobs that depend on it are skipped.
LEMMA FailJobFacts ==
  ASSUME NEW m \in [Jobs -> JobRecord], NEW j \in Jobs
  PROVE  /\ Touches(m, FailJob(m, j), j)
         /\ FailJob(m, j)[j].pod = m[j].pod
<1> DEFINE n == SetStatus(m, j, "failed")
<1>1. Touches(m, n, j) /\ n[j].pod = m[j].pod
  BY SetStatusFacts, StatusNames
<1>2. FailJob(m, j) = PropagateFailure(n, {j})
  BY DEF FailJob
<1> HIDE DEF n
<1>3. n \in [Jobs -> JobRecord]
  BY <1>1 DEF Touches
<1>4. Touches(n, FailJob(m, j), j) /\ FailJob(m, j)[j].pod = n[j].pod
  BY <1>2, <1>3, PropagateFailureTouches
<1> QED
  BY <1>1, <1>4, TouchesTransitive

\* A cursor over the jobs stays in its range.
LEMMA CursorFacts ==
  /\ 1 \in 1 .. NJobs + 1
  /\ \A c \in Jobs : c \in 1 .. NJobs + 1 /\ c + 1 \in 1 .. NJobs + 1
  BY ConstantsAssumption DEF Jobs

-----------------------------------------------------------------------------
(* What each action does to the table in memory.                            *)

\* The branches of _tick_job that keep the pod.
LEMMA TickTable ==
  ASSUME mem \in [Jobs -> JobRecord], NEW j \in Jobs,
         TickIdle(j) \/ TickIdleTimeout(j) \/ TickRunning(j)
  PROVE  Touches(mem, mem', j) /\ mem'[j].pod = mem[j].pod
<1>1. CASE mem' = [mem EXCEPT ![j] = [@ EXCEPT !.gone = 0]]
  BY <1>1 DEF JobRecord, Touches
<1>2. CASE mem' = mem
  BY <1>2, SameTable
<1> QED
  BY <1>1, <1>2 DEF TickIdle, TickIdleTimeout, TickRunning

\* A tick that cannot reach the process counts the answer "gone", or gives the
\* job up.
LEMMA TickUnknownTable ==
  ASSUME mem \in [Jobs -> JobRecord], NEW j \in Jobs, TickUnknown(j)
  PROVE  Touches(mem, mem', j) /\ mem'[j].pod = mem[j].pod
<1> DEFINE Counted(g) == [mem EXCEPT ![j] = [@ EXCEPT !.gone = g]]
<1>1. ASSUME NEW g \in Nat
      PROVE  Touches(mem, Counted(g), j) /\ Counted(g)[j].pod = mem[j].pod
  BY DEF JobRecord, Touches
<1>2. mem[j].gone + 1 \in Nat
  BY DEF JobRecord
<1>3. CASE GoneAnswer(j)
  <2> DEFINE n == Counted(mem[j].gone + 1)
  <2>1. Touches(mem, n, j) /\ n[j].pod = mem[j].pod
    BY <1>1, <1>2
  <2>2. mem' = n \/ mem' = FailJob(n, j)
    BY <1>3 DEF GoneAnswer
  <2> HIDE DEF n
  <2>3. n \in [Jobs -> JobRecord]
    BY <2>1 DEF Touches
  <2> QED
    BY <2>1, <2>2, <2>3, FailJobFacts, TouchesTransitive
<1>4. CASE mem' = mem
  BY <1>4, SameTable
<1>5. CASE mem' = Counted(0)
  BY <1>5, <1>1
<1>6. CASE mem' = [mem EXCEPT ![j] = [@ EXCEPT !.gone = 0, !.ssh = TRUE]]
  BY <1>6 DEF JobRecord, Touches
<1> QED
  BY <1>3, <1>4, <1>5, <1>6 DEF TickUnknown

\* A pod that is gone is forgotten before the job is resumed or recovered.
LEMMA ForgetTable ==
  ASSUME mem \in [Jobs -> JobRecord], NEW j \in Jobs, TickResume(j) \/ RecoverBackoff(j)
  PROVE  Touches(mem, mem', j) /\ mem'[j].pod \in {mem[j].pod, NoPod}
<1>1. CASE mem' = [mem EXCEPT ![j] = [@ EXCEPT !.pod = NoPod, !.ssh = FALSE, !.pid = FALSE]]
  BY <1>1 DEF JobRecord, Touches
<1>2. CASE mem' = mem
  BY <1>2, SameTable
<1>3. CASE mem' = [mem EXCEPT ![j] = [@ EXCEPT !.pod = NoPod, !.ssh = FALSE, !.pid = FALSE,
                                               !.gone = 0]]
  BY <1>3 DEF JobRecord, Touches
<1> QED
  BY <1>1, <1>2, <1>3 DEF TickResume, RecoverBackoff

\* Waiting for SSH on the pod of job j.
LEMMA SshTable ==
  ASSUME mem \in [Jobs -> JobRecord], NEW j \in Jobs, AdoptPod(j) \/ AwaitSsh(j)
  PROVE  Touches(mem, mem', j) /\ mem'[j].pod = mem[j].pod
<1>1. CASE mem' = [mem EXCEPT ![j] = [@ EXCEPT !.ssh = TRUE]]
  BY <1>1 DEF JobRecord, Touches
<1>2. CASE mem' = mem
  BY <1>2, SameTable
<1>3. CASE mem' = SetStatus(mem, j, "failed")
  BY <1>3, SetStatusFacts, StatusNames
<1> QED
  BY <1>1, <1>2, <1>3 DEF AdoptPod, AwaitSsh, Interrupted

\* Asking for a pod and moving on to the next candidate.
LEMMA ProvisionTable ==
  ASSUME mem \in [Jobs -> JobRecord], NEW j \in Jobs, Provision(j) \/ NextCandidate(j)
  PROVE  Touches(mem, mem', j) /\ mem'[j].pod = mem[j].pod
<1> DEFINE Retried(n) == [mem EXCEPT ![j] = [@ EXCEPT !.status = "provisioning", !.attempts = n]]
           Counted(n) == [mem EXCEPT ![j] = [@ EXCEPT !.attempts = n]]
<1>1. mem[j].attempts + 1 \in Nat
  BY DEF JobRecord
<1>2. ASSUME NEW n \in Nat
      PROVE  /\ Touches(mem, Retried(n), j) /\ Retried(n)[j].pod = mem[j].pod
             /\ Touches(mem, Counted(n), j) /\ Counted(n)[j].pod = mem[j].pod
  BY DEF JobRecord, Statuses, Touches
<1>3. CASE mem' = [mem EXCEPT ![j] = [@ EXCEPT !.ssh = TRUE]]
  BY <1>3 DEF JobRecord, Touches
<1>4. CASE mem' = mem
  BY <1>4, SameTable
<1>5. CASE mem' = FailJob(mem, j)
  BY <1>5, FailJobFacts
<1>6. CASE mem' = Retried(mem[j].attempts + 1)
  <2> HIDE DEF Retried
  <2> QED
    BY <1>1, <1>2, <1>6
<1>7. CASE mem' = Counted(mem[j].attempts + 1)
  <2> HIDE DEF Counted
  <2> QED
    BY <1>1, <1>2, <1>7
<1> QED
  BY <1>3, <1>4, <1>5, <1>6, <1>7 DEF Provision, NextCandidate, Interrupted

\* An unreachable pod is released and forgotten.
LEMMA ReleaseTable ==
  ASSUME mem \in [Jobs -> JobRecord], NEW j \in Jobs, ReleasePod(j)
  PROVE  Touches(mem, mem', j) /\ mem'[j].pod = NoPod
<1> DEFINE n == [mem EXCEPT ![j] = [@ EXCEPT !.pod = NoPod, !.ssh = FALSE]]
<1>1. Touches(mem, n, j) /\ n[j].pod = NoPod
  BY DEF JobRecord, Touches
<1>2. mem' = n \/ mem' = FailJob(n, j)
  BY DEF ReleasePod
<1> HIDE DEF n
<1>3. n \in [Jobs -> JobRecord]
  BY <1>1 DEF Touches
<1> QED
  BY <1>1, <1>2, <1>3, FailJobFacts, TouchesTransitive

\* The id of the new pod is recorded.
LEMMA PersistTable ==
  ASSUME mem \in [Jobs -> JobRecord], newpod \in [Jobs -> Pods \cup {NoPod}],
         NEW j \in Jobs, PersistCreated(j)
  PROVE  Touches(mem, mem', j) /\ mem'[j].pod = newpod[j]
  BY DEF PersistCreated, JobRecord, Statuses, Touches

\* The job runs.
LEMMA RecordLaunchTable ==
  ASSUME mem \in [Jobs -> JobRecord], NEW j \in Jobs, RecordLaunch(j)
  PROVE  Touches(mem, mem', j) /\ mem'[j].pod = mem[j].pod
  BY DEF RecordLaunch, JobRecord, Statuses, Touches

\* The reconciliation gives a pod to the job in whose name it was created.
LEMMA MatchTable ==
  ASSUME mem \in [Jobs -> JobRecord], cfgs \subseteq Jobs, NEW p \in Pods, MatchInstance(p)
  PROVE  /\ Touches(mem, mem', owner[p])
         /\ owner[p] \in Jobs => mem'[owner[p]].pod \in {mem[owner[p]].pod, p}
         /\ \A k \in Jobs : mem[k].status = "completed" => mem'[k].status = "completed"
<1> DEFINE Adopted(j, s) == [mem EXCEPT ![j] = [@ EXCEPT !.pod = p, !.started = TRUE,
                                                         !.status = s]]
           Replaced(j, s) == [mem EXCEPT ![j] = [@ EXCEPT !.pod = p, !.ssh = FALSE,
                                                          !.pid = FALSE, !.status = s]]
<1>1. CASE mem' = mem
  BY <1>1, SameTable
<1>2. ASSUME NEW j \in Jobs, NEW s \in Statuses, s = "completed" <=> mem[j].status = "completed"
      PROVE  /\ Touches(mem, Adopted(j, s), j) /\ Adopted(j, s)[j].pod = p
             /\ Adopted(j, s)[j].status = s
             /\ Touches(mem, Replaced(j, s), j) /\ Replaced(j, s)[j].pod = p
             /\ Replaced(j, s)[j].status = s
  BY <1>2 DEF JobRecord, Touches
<1>3. ASSUME NEW j \in Jobs, NEW s, s \in {StatusAfterAdoption(mem[j].status),
                                           StatusAfterReplacement(mem[j].status)}
      PROVE  s \in Statuses /\ (s = "completed" <=> mem[j].status = "completed")
  BY <1>3 DEF JobRecord, Statuses, StatusAfterAdoption, StatusAfterReplacement
<1>4. \/ mem' = mem
      \/ owner[p] \in cfgs /\ mem' = Adopted(owner[p], StatusAfterAdoption(mem[owner[p]].status))
      \/ owner[p] \in cfgs
           /\ mem' = Replaced(owner[p], StatusAfterReplacement(mem[owner[p]].status))
  BY DEF MatchInstance, MatchedJob, TerminateStray
<1> HIDE DEF Adopted, Replaced
<1>5. ASSUME owner[p] \in cfgs, NEW s,
             \/ s = StatusAfterAdoption(mem[owner[p]].status) /\ mem' = Adopted(owner[p], s)
             \/ s = StatusAfterReplacement(mem[owner[p]].status) /\ mem' = Replaced(owner[p], s)
      PROVE  /\ Touches(mem, mem', owner[p])
             /\ mem'[owner[p]].pod = p
             /\ mem'[owner[p]].status = "completed" <=> mem[owner[p]].status = "completed"
  <2>1. owner[p] \in Jobs /\ s \in Statuses
          /\ (s = "completed" <=> mem[owner[p]].status = "completed")
    BY <1>3, <1>5
  <2> QED
    BY <1>2, <1>5, <2>1
<1> QED
  BY <1>1, <1>4, <1>5 DEF Touches

\* Adding the selected jobs to the table makes them pending and nothing else.
LEMMA MergeFacts ==
  ASSUME NEW m \in [Jobs -> JobRecord], NEW C
  PROVE  /\ Merge(m, C) \in [Jobs -> JobRecord]
         /\ \A k \in Jobs :
              /\ Merge(m, C)[k].pod = m[k].pod
              /\ \/ Merge(m, C)[k].status = m[k].status
                 \/ m[k].status = "absent" /\ Merge(m, C)[k].status = "pending"
<1>1. ASSUME NEW k \in Jobs
      PROVE  /\ [m[k] EXCEPT !.status = "pending"] \in JobRecord
             /\ [m[k] EXCEPT !.status = "pending"].status = "pending"
             /\ [m[k] EXCEPT !.status = "pending"].pod = m[k].pod
  BY DEF JobRecord, Statuses
<1>2. ASSUME NEW k \in Jobs
      PROVE  \/ Merge(m, C)[k] = m[k]
             \/ m[k].status = "absent" /\ Merge(m, C)[k] = [m[k] EXCEPT !.status = "pending"]
  BY DEF Merge
<1>3. ASSUME NEW k \in Jobs
      PROVE  /\ Merge(m, C)[k] \in JobRecord /\ Merge(m, C)[k].pod = m[k].pod
             /\ \/ Merge(m, C)[k].status = m[k].status
                \/ m[k].status = "absent" /\ Merge(m, C)[k].status = "pending"
  BY <1>1, <1>2
<1> QED
  BY <1>3 DEF Merge

\* Preparing the table for a new `conductor run` completes no job.
LEMMA RunTable ==
  ASSUME file \in [Jobs -> JobRecord], NEW C, NEW flags, Run(C, flags)
  PROVE  /\ mem' \in [Jobs -> JobRecord]
         /\ \A k \in Jobs : /\ mem'[k].pod \in {file[k].pod, NoPod}
                            /\ mem'[k].status = "completed" => file[k].status = "completed"
<1>1. ASSUME NEW r \in JobRecord, NEW keep \in BOOLEAN
      PROVE  /\ ResetForRetry(r, keep) \in JobRecord
             /\ ResetForRetry(r, keep).pod \in {r.pod, NoPod}
             /\ ResetForRetry(r, keep).status = "pending"
  BY DEF ResetForRetry, FreshJob, JobRecord, Statuses
<1> DEFINE m == Merge(file, C)
<1>2. mem' = ApplyRetryFlags(m, C, flags)
  BY DEF Run
<1>3. /\ m \in [Jobs -> JobRecord]
      /\ \A k \in Jobs : /\ m[k].pod = file[k].pod
                         /\ m[k].status = "completed" => file[k].status = "completed"
  BY MergeFacts
<1> HIDE DEF m
<1>4. ASSUME NEW k \in Jobs
      PROVE  /\ mem'[k] \in JobRecord /\ mem'[k].pod \in {m[k].pod, NoPod}
             /\ mem'[k].status = "completed" => m[k].status = "completed"
  BY <1>1, <1>2, <1>3 DEF ApplyRetryFlags
<1> QED
  BY <1>2, <1>3, <1>4 DEF ApplyRetryFlags

\* An exception in the main thread ends what runs, which is at most _finish_job,
\* and leaves the table alone.
LEMMA CrashTable ==
  ASSUME Crash
  PROVE  /\ mem' = mem /\ file' \in {file, mem} /\ fin' = NoFinish
         /\ UNCHANGED <<reuse, owner, known, remote, synced>> /\ phase' \in {"crashing", "exit"}
         /\ \A k \in Jobs : /\ pc'[k] = "idle"
                            /\ pc[k] \in {"idle", "final_sync", "teardown", "record"}
  BY DEF Crash, Idle, pipeline, cloud

\* The steps that set the status of a job, and of its dependents, or nothing.
LEMMA StatusTable ==
  ASSUME mem \in [Jobs -> JobRecord], NEW j \in Jobs,
         \/ Begin(j) \/ CreateInstance(j) \/ PodReady(j) \/ Deploy(j) \/ Launch(j)
         \/ AbortPipeline(j) \/ PipelineException(j) \/ FinalSync(j)
  PROVE  Touches(mem, mem', j) /\ mem'[j].pod = mem[j].pod
<1>1. CASE mem' = mem
  BY <1>1, SameTable
<1>2. ASSUME NEW s \in Statuses \ {"completed"}, mem' = SetStatus(mem, j, s)
      PROVE  Touches(mem, mem', j) /\ mem'[j].pod = mem[j].pod
  BY <1>2, SetStatusFacts
<1>3. CASE mem' = PropagateFailure(mem, {j})
  BY <1>3, PropagateFailureTouches
<1>4. CASE mem' = PropagateFailure(SetStatus(mem, j, "sync_failed"), {j})
  <2> DEFINE n == SetStatus(mem, j, "sync_failed")
  <2>1. Touches(mem, n, j) /\ n[j].pod = mem[j].pod
    BY SetStatusFacts, StatusNames
  <2>2. mem' = PropagateFailure(n, {j})
    BY <1>4
  <2> HIDE DEF n
  <2>3. n \in [Jobs -> JobRecord]
    BY <2>1 DEF Touches
  <2> QED
    BY <2>1, <2>2, <2>3, PropagateFailureTouches, TouchesTransitive
<1> QED
  BY <1>1, <1>2, <1>3, <1>4, StatusNames
  DEF Begin, CreateInstance, PodReady, Deploy, Launch, AbortPipeline, PipelineException, FinalSync

\* Only the end of _finish_job with goal "completed" completes a job.
LEMMA FinishRecordTable ==
  ASSUME TypeOK, NEW j \in Jobs, FinishRecord(j)
  PROVE  /\ mem' \in [Jobs -> JobRecord]
         /\ mem'[j].pod = mem[j].pod
         /\ mem'[j].status = "completed" => \/ fin.goal = "completed"
                                            \/ mem[j].status = "completed"
         /\ \A k \in Jobs \ {j} : /\ mem'[k].pod = mem[k].pod
                                  /\ mem'[k].status = "completed" <=> mem[k].status = "completed"
<1>0. mem \in [Jobs -> JobRecord]
  BY DEF TypeOK
<1>1. CASE mem' = FailJob(mem, j)
  BY <1>0, <1>1, FailJobFacts DEF Touches
<1>2. CASE fin.goal # "failed" /\ mem' = SetStatus(mem, j, "completed")
  <2>1. fin.goal = "completed"
    BY <1>2 DEF TypeOK
  <2>2. mem' \in [Jobs -> JobRecord] /\ mem'[j].pod = mem[j].pod
    BY <1>0, <1>2 DEF SetStatus, JobRecord, Statuses
  <2>3. \A k \in Jobs \ {j} : mem'[k] = mem[k]
    BY <1>0, <1>2 DEF SetStatus
  <2> QED
    BY <2>1, <2>2, <2>3
<1> QED
  BY <1>1, <1>2 DEF FinishRecord

\* The teardowns of the command line and of an interrupted run.
LEMMA SweepTable ==
  ASSUME TypeOK, GracefulShutdown \/ ManualTeardown, cursor \in Jobs
  PROVE  Touches(mem, mem', cursor) /\ mem'[cursor].pod = mem[cursor].pod
<1>1. mem \in [Jobs -> JobRecord]
  BY DEF TypeOK
<1>2. mem' = mem \/ mem' = SetStatus(mem, cursor, "failed")
  BY DEF GracefulShutdown, ManualTeardown
<1> QED
  BY <1>1, <1>2, SameTable, SetStatusFacts, StatusNames

-----------------------------------------------------------------------------

USE DEF files, pipeline, control, cloud, bounds, At, Goto, Save, EndPipeline, Adverse, NoHazard

-----------------------------------------------------------------------------
(* Files, pods and steps.                                                   *)

\* Registry records stay in their range.
LEMMA RegistryFacts ==
  ASSUME NEW reg \in [Pods -> {"absent", "running", "terminated"}], NEW p,
         NEW s \in {"running", "terminated"}
  PROVE  /\ p \in Pods \cup {NoPod}
              => RegistryUpdate(reg, p, s) \in [Pods -> {"absent", "running", "terminated"}]
         /\ p \in Pods => RegistryAdd(reg, p) \in [Pods -> {"absent", "running", "terminated"}]
  BY DEF RegistryUpdate, RegistryAdd

\* What a terminate call may change.
LEMMA TerminateFacts ==
  ASSUME TypeOK, NEW p \in Pods, NEW ok \in BOOLEAN, Terminate(p, ok)
  PROVE  alive' \subseteq Pods /\ tried' \subseteq Pods /\ hazards' \in Nat
  BY DEF Terminate, TypeOK, Adverse, NoHazard

\* The pod a job references.
LEMMA PodIds ==
  ASSUME TypeOK, NEW j \in Jobs
  PROVE  mem[j].pod \in Pods \cup {NoPod}
<1>1. mem[j] \in JobRecord
  BY DEF TypeOK
<1> QED
  BY <1>1 DEF JobRecord

\* What deploying, launching and ending make of the files on a pod.
LEMMA RemoteFacts ==
  ASSUME NEW r \in RemoteState, NEW b \in BOOLEAN, NEW c \in {"ok", "bad"}
  PROVE  /\ Deployed(r, b) \in RemoteState
         /\ Launched(r) \in RemoteState
         /\ r.copies > 0 => Exited(r, c) \in RemoteState
         /\ [r EXCEPT !.copies = 0] \in RemoteState
<1>1. Deployed(r, b) \in RemoteState
  <2>1. ASSUME NEW s \in BOOLEAN
        PROVE  [r EXCEPT !.deployed = TRUE, !.pidfile = FALSE, !.exit = "none", !.setup = s]
                 \in RemoteState
    BY DEF RemoteState
  <2>2. (r.setup \/ ~b) \in BOOLEAN
    OBVIOUS
  <2> QED
    BY <2>1, <2>2 DEF Deployed
<1>2. Launched(r) \in RemoteState
  <2>1. ASSUME NEW n \in Nat, NEW u \in BOOLEAN
        PROVE  [r EXCEPT !.copies = n, !.pidfile = TRUE, !.exit = "none", !.unready = u]
                 \in RemoteState
    BY DEF RemoteState
  <2>2. (r.unready \/ ~r.deployed \/ ~r.setup) \in BOOLEAN /\ r.copies + 1 \in Nat
    BY DEF RemoteState
  <2> QED
    BY <2>1, <2>2 DEF Launched
<1>3. ASSUME r.copies > 0
      PROVE  Exited(r, c) \in RemoteState
  <2>1. ASSUME NEW n \in Nat
        PROVE  [r EXCEPT !.copies = n, !.exit = c] \in RemoteState
    BY DEF RemoteState
  <2>2. r.copies - 1 \in Nat
    BY <1>3 DEF RemoteState
  <2> QED
    BY <2>1, <2>2 DEF Exited
<1>4. [r EXCEPT !.copies = 0] \in RemoteState
  BY DEF RemoteState
<1> QED
  BY <1>1, <1>2, <1>3, <1>4

\* A step that concerns job j keeps PodSteps if it keeps it for j.
LEMMA PodStepsPreserved ==
  ASSUME PodSteps, NEW j \in Jobs,
         \A k \in Jobs \ {j} : pc'[k] = pc[k] /\ newpod'[k] = newpod[k],
         \A k \in Jobs \ {j} : mem'[k].pod = mem[k].pod,
         pc'[j] \in HoldsPod => mem'[j].pod # NoPod,
         pc'[j] = "created" => newpod'[j] # NoPod
  PROVE  PodSteps'
  BY DEF PodSteps

-----------------------------------------------------------------------------
(* The actions.                                                             *)

\* TypeInv is preserved by the main thread's own steps.
LEMMA MainThreadKeepsTypes ==
  ASSUME TypeInv, MainThread
  PROVE  TypeInv'
<1>0. TypeOK /\ QuietPhases /\ PodSteps
  BY DEF TypeInv
<1>1. CASE ListInstances
  <2>1. mem' \in [Jobs -> JobRecord]
    BY <1>1, <1>0 DEF TypeOK, ListInstances
  <2>2. TypeOK'
    BY <1>1, <1>0, <2>1 DEF TypeOK, Phases, ListInstances
  <2>3. QuietPhases'
    BY <1>1, <1>0 DEF QuietPhases, Quiet, Idle, ListInstances
  <2>4. PodSteps'
    BY <1>1, <1>0, <2>1 DEF PodSteps, HoldsPod, ListInstances
  <2> QED
    BY <2>2, <2>3, <2>4 DEF TypeInv
<1>2. CASE EndReconcile
  <2>1. mem' \in [Jobs -> JobRecord]
    BY <1>2, <1>0 DEF TypeOK, EndReconcile
  <2>2. TypeOK'
    BY <1>2, <1>0, <2>1 DEF TypeOK, Phases, EndReconcile
  <2>3. QuietPhases'
    BY <1>2, <1>0 DEF QuietPhases, Quiet, Idle, EndReconcile
  <2>4. PodSteps'
    BY <1>2, <1>0, <2>1 DEF PodSteps, HoldsPod, EndReconcile
  <2> QED
    BY <2>2, <2>3, <2>4 DEF TypeInv
<1>3. CASE StartUnblocked
  <2>1. mem' \in [Jobs -> JobRecord]
    BY <1>3, <1>0, PropagateFailureFacts DEF TypeOK, StartUnblocked, SkipBlocked
  <2>2. TypeOK'
    BY <1>3, <1>0, <2>1 DEF TypeOK, Steps, Phases, StartUnblocked
  <2>3. QuietPhases'
    BY <1>3, <1>0 DEF QuietPhases, Quiet, StartUnblocked
  <2>4. PodSteps'
    BY <1>3, <1>0, <2>1 DEF PodSteps, HoldsPod, StartUnblocked
  <2> QED
    BY <2>2, <2>3, <2>4 DEF TypeInv
<1>4. CASE LoopHead
  <2>1. mem' \in [Jobs -> JobRecord]
    BY <1>4, <1>0 DEF TypeOK, LoopHead
  <2>2. TypeOK'
    BY <1>4, <1>0, <2>1, PodIds, CursorFacts DEF TypeOK, Phases, LoopHead
  <2>3. QuietPhases'
    BY <1>4, <1>0 DEF QuietPhases, Quiet, Idle, LoopHead
  <2>4. PodSteps'
    BY <1>4, <1>0, <2>1 DEF PodSteps, HoldsPod, LoopHead
  <2> QED
    BY <2>2, <2>3, <2>4 DEF TypeInv
<1>5. CASE TeardownAll
  <2>1. mem' \in [Jobs -> JobRecord]
    BY <1>5, <1>0 DEF TypeOK, TeardownAll
  <2>2. TypeOK'
    <3>0. fin
            \in [goal : {"completed", "failed"}, force : BOOLEAN, torn : BOOLEAN] /\ hazards \in Nat
      BY <1>5, <1>0 DEF TypeOK
    <3>1. pc' \in [Jobs -> Steps]
      BY <1>5, <1>0 DEF TypeOK, Steps, TeardownAll
    <3>2. fin' = fin \/ fin' = [goal |-> "failed", force |-> TRUE, torn |-> FALSE]
      BY <1>5 DEF TeardownAll
    <3>3. fin' \in [goal : {"completed", "failed"}, force : BOOLEAN, torn : BOOLEAN]
      <4>1. [goal |-> "failed", force |-> TRUE, torn |-> FALSE]
              \in [goal : {"completed", "failed"}, force : BOOLEAN, torn : BOOLEAN]
        OBVIOUS
      <4> QED
        BY <3>0, <3>2, <4>1
    <3>4. cursor' \in 1 .. NJobs + 1 /\ phase' \in Phases /\ file' \in [Jobs -> JobRecord]
      BY <1>5, <1>0, CursorFacts DEF TypeOK, Phases, TeardownAll
    <3> QED
      BY <1>5, <1>0, <2>1, <3>1, <3>3, <3>4 DEF TypeOK, TeardownAll
  <2>3. QuietPhases'
    BY <1>5, <1>0 DEF QuietPhases, Quiet, Idle, TeardownAll
  <2>4. PodSteps'
    BY <1>5, <1>0, <2>1 DEF TypeOK, PodSteps, HoldsPod, TeardownAll
  <2> QED
    BY <2>2, <2>3, <2>4 DEF TypeInv
<1>6. CASE Leave
  <2>1. mem' \in [Jobs -> JobRecord]
    BY <1>6, <1>0 DEF TypeOK, Leave
  <2>2. TypeOK'
    BY <1>6, <1>0, <2>1 DEF TypeOK, Phases, Leave
  <2>3. QuietPhases'
    BY <1>6, <1>0 DEF QuietPhases, Quiet, Idle, Leave
  <2>4. PodSteps'
    BY <1>6, <1>0, <2>1 DEF PodSteps, HoldsPod, Leave
  <2> QED
    BY <2>2, <2>3, <2>4 DEF TypeInv
<1>7. CASE GracefulShutdown
  <2>1. mem' \in [Jobs -> JobRecord]
    BY <1>7, <1>0, SweepTable DEF TypeOK, GracefulShutdown, Touches
  <2>2. alive' \subseteq Pods /\ tried' \subseteq Pods /\ hazards' \in Nat
    BY <1>7, <1>0, PodIds, TerminateFacts DEF TypeOK, GracefulShutdown
  <2>3. TypeOK'
    BY <1>7, <1>0, <2>1, <2>2, PodIds, CursorFacts DEF TypeOK, Phases, GracefulShutdown
  <2>4. QuietPhases'
    BY <1>7, <1>0 DEF QuietPhases, Quiet, Idle, GracefulShutdown
  <2>5. PodSteps'
    BY <1>7, <1>0, <2>1 DEF QuietPhases, Quiet, Idle, PodSteps, HoldsPod, GracefulShutdown
  <2> QED
    BY <2>3, <2>4, <2>5 DEF TypeInv
<1>8. CASE Exit
  <2>1. mem' \in [Jobs -> JobRecord]
    BY <1>8, <1>0 DEF TypeOK, Exit
  <2>2. TypeOK'
    BY <1>8, <1>0, <2>1, PodIds, CursorFacts DEF TypeOK, Phases, Exit
  <2>3. QuietPhases'
    BY <1>8, <1>0 DEF QuietPhases, Quiet, Idle, Exit
  <2>4. PodSteps'
    BY <1>8, <1>0, <2>1 DEF PodSteps, HoldsPod, Exit
  <2> QED
    BY <2>2, <2>3, <2>4 DEF TypeInv
<1>9. CASE ManualTeardown
  <2>1. mem' \in [Jobs -> JobRecord]
    BY <1>9, <1>0, SweepTable DEF TypeOK, ManualTeardown, Touches
  <2>2. registry' \in [Pods -> {"absent", "running", "terminated"}]
    BY <1>9, <1>0, PodIds, RegistryFacts DEF TypeOK, ManualTeardown
  <2>3. alive' \subseteq Pods /\ tried' \subseteq Pods /\ hazards' \in Nat
    BY <1>9, <1>0, PodIds, TerminateFacts DEF TypeOK, ManualTeardown
  <2>4. TypeOK'
    BY <1>9, <1>0, <2>1, <2>2, <2>3, PodIds, CursorFacts DEF TypeOK, Phases, ManualTeardown
  <2>5. QuietPhases'
    BY <1>9, <1>0 DEF QuietPhases, Quiet, Idle, ManualTeardown
  <2>6. PodSteps'
    BY <1>9, <1>0, <2>1 DEF QuietPhases, Quiet, Idle, PodSteps, HoldsPod, ManualTeardown
  <2> QED
    BY <2>4, <2>5, <2>6 DEF TypeInv
<1>10. ASSUME NEW p \in Pods, MatchInstance(p)
      PROVE  TypeInv'
  <2>1. mem' \in [Jobs -> JobRecord]
    BY <1>10, <1>0, MatchTable DEF TypeOK, Touches
  <2>2. registry' \in [Pods -> {"absent", "running", "terminated"}]
    <3>1. ASSUME NEW reg \in [Pods -> {"absent", "running", "terminated"}]
          PROVE  RegistryAdd(reg, p) \in [Pods -> {"absent", "running", "terminated"}]
      BY <1>10, <3>1, RegistryFacts
    <3>2. ASSUME NEW ok \in BOOLEAN
          PROVE  RegistryUpdate(registry, p, IF ok THEN "terminated" ELSE "running")
                   \in [Pods -> {"absent", "running", "terminated"}]
      BY <1>10, <1>0, RegistryFacts DEF TypeOK
    <3>3. ASSUME owner[p] \in cfgs
          PROVE  RegistryUpdate(registry, mem[owner[p]].pod, "terminated")
                   \in [Pods -> {"absent", "running", "terminated"}]
      BY <1>10, <1>0, <3>3, PodIds, RegistryFacts DEF TypeOK
    <3> QED
      BY <1>10, <1>0, <3>1, <3>2, <3>3 DEF TypeOK, MatchInstance, MatchedJob, TerminateStray
  <2>3. alive' \subseteq Pods /\ tried' \subseteq Pods /\ hazards' \in Nat
    BY <1>10, <1>0, TerminateFacts
    DEF TypeOK, MatchInstance, TerminateStray, MatchedJob, StatusAfterReplacement, SaysGone
  <2>4. TypeOK'
    BY <1>10, <1>0, <2>1, <2>2, <2>3
    DEF TypeOK, MatchInstance, TerminateStray, MatchedJob, StatusAfterReplacement, SaysGone
  <2>5. QuietPhases'
    BY <1>10, <1>0
    DEF QuietPhases, Quiet, Idle, MatchInstance, MatchedJob, StatusAfterReplacement, SaysGone
  <2>6. PodSteps'
    BY <1>10, <1>0, <2>1
    DEF QuietPhases, Quiet, Idle, PodSteps, HoldsPod, MatchInstance, TerminateStray, MatchedJob,
       StatusAfterReplacement, SaysGone
  <2> QED
    BY <2>4, <2>5, <2>6 DEF TypeInv
<1> QED
  BY <1>1, <1>2, <1>3, <1>4, <1>5, <1>6, <1>7, <1>8, <1>9, <1>10 DEF MainThread

\* TypeInv is preserved by the monitor tick.
LEMMA TickStepKeepsTypes ==
  ASSUME TypeInv, NEW j \in Jobs, TickStep(j)
  PROVE  TypeInv'
<1>0. TypeOK /\ QuietPhases /\ PodSteps
  BY DEF TypeInv
<1>1. CASE TickSkip(j)
  <2>1. mem' \in [Jobs -> JobRecord]
    BY <1>1, <1>0 DEF TypeOK, TickSkip
  <2>2. TypeOK'
    BY <1>1, <1>0, <2>1, PodIds, CursorFacts DEF TypeOK, TickSkip, TickFrame
  <2>3. QuietPhases'
    BY <1>1, <1>0 DEF QuietPhases, Quiet, TickSkip, TickFrame
  <2>4. PodSteps'
    BY <1>1, <1>0, <2>1 DEF PodSteps, HoldsPod, TickSkip, TickFrame
  <2> QED
    BY <2>2, <2>3, <2>4 DEF TypeInv
<1>2. CASE TickResume(j)
  <2>1. mem' \in [Jobs -> JobRecord]
    BY <1>2, <1>0, ForgetTable DEF TypeOK, Touches
  <2>2. registry' \in [Pods -> {"absent", "running", "terminated"}]
    BY <1>2, <1>0, RegistryFacts DEF TypeOK, TickResume, Ticking, SaysGone
  <2>3. TypeOK'
    BY <1>2, <1>0, <2>1, <2>2, PodIds, CursorFacts
    DEF TypeOK, Steps, TickResume, TickFrame, Ticking, SaysGone
  <2>4. QuietPhases'
    BY <1>2, <1>0 DEF QuietPhases, Quiet, TickResume, TickFrame, Ticking, SaysGone
  <2>5. PodSteps'
    <3>1. \A k \in Jobs \ {j} : pc'[k] = pc[k] /\ newpod'[k] = newpod[k]
      BY <1>2, <1>0 DEF TypeOK, TickResume, TickFrame, SaysGone
    <3>2. \A k \in Jobs \ {j} : mem'[k].pod = mem[k].pod
      BY <1>2, <1>0, ForgetTable DEF TypeOK, Touches
    <3>3. pc'[j] \in HoldsPod => mem'[j].pod # NoPod
      BY <1>2, <1>0 DEF TypeOK, PodSteps, HoldsPod, TickResume, Ticking, SaysGone
    <3>4. pc'[j] = "created" => newpod'[j] # NoPod
      BY <1>2, <1>0 DEF TypeOK, PodSteps, TickResume, TickFrame, SaysGone
    <3> QED
      BY <1>2, <1>0, <3>1, <3>2, <3>3, <3>4, PodStepsPreserved
  <2> QED
    BY <2>3, <2>4, <2>5 DEF TypeInv
<1>3. CASE TickJobBudget(j)
  <2>1. mem' \in [Jobs -> JobRecord]
    BY <1>3, <1>0 DEF TypeOK, TickJobBudget, Finish
  <2>2. TypeOK'
    BY <1>3, <1>0, <2>1, PodIds, CursorFacts
    DEF TypeOK, Steps, TickJobBudget, TickFrame, Ticking, Finish
  <2>3. QuietPhases'
    BY <1>3, <1>0 DEF QuietPhases, Quiet, TickJobBudget, TickFrame, Ticking, Finish
  <2>4. PodSteps'
    BY <1>3, <1>0, <2>1 DEF PodSteps, HoldsPod, TickJobBudget, TickFrame, Finish
  <2> QED
    BY <2>2, <2>3, <2>4 DEF TypeInv
<1>4. CASE TickExited(j)
  <2>1. mem' \in [Jobs -> JobRecord]
    BY <1>4, <1>0 DEF TypeOK, TickExited, Finish
  <2>2. TypeOK'
    BY <1>4, <1>0, <2>1, PodIds, CursorFacts
    DEF TypeOK, Steps, TickExited, TickFrame, Ticking, Finish
  <2>3. QuietPhases'
    BY <1>4, <1>0 DEF QuietPhases, Quiet, TickExited, TickFrame, Ticking, Finish
  <2>4. PodSteps'
    BY <1>4, <1>0, <2>1 DEF PodSteps, HoldsPod, TickExited, TickFrame, Finish
  <2> QED
    BY <2>2, <2>3, <2>4 DEF TypeInv
<1>5. CASE TickRunning(j)
  <2>1. mem' \in [Jobs -> JobRecord]
    BY <1>5, <1>0, TickTable DEF TypeOK, Touches
  <2>2. TypeOK'
    <3>0. fin
            \in [goal : {"completed", "failed"}, force : BOOLEAN, torn : BOOLEAN] /\ hazards \in Nat
      BY <1>5, <1>0 DEF TypeOK
    <3>1. pc' \in [Jobs -> Steps]
      BY <1>5, <1>0 DEF TypeOK, Steps, TickRunning, Finish
    <3>2. fin' = fin \/ fin' = [goal |-> "failed", force |-> FALSE, torn |-> FALSE]
      BY <1>5 DEF TickRunning, Finish
    <3>3. fin' \in [goal : {"completed", "failed"}, force : BOOLEAN, torn : BOOLEAN]
      <4>1. [goal |-> "failed", force |-> FALSE, torn |-> FALSE]
              \in [goal : {"completed", "failed"}, force : BOOLEAN, torn : BOOLEAN]
        OBVIOUS
      <4> QED
        BY <3>0, <3>2, <4>1
    <3>4. cursor' \in 1 .. NJobs + 1
      BY <1>5, <1>0, CursorFacts DEF TickRunning, Ticking
    <3>5. hazards' \in Nat
      <4>1. hazards' = hazards \/ hazards' = hazards + 1
        BY <1>5 DEF TickRunning
      <4> QED
        BY <3>0, <4>1
    <3> QED
      BY <1>5, <1>0, <2>1, <3>1, <3>3, <3>4, <3>5 DEF TypeOK, TickRunning, TickFrame
  <2>3. QuietPhases'
    BY <1>5, <1>0 DEF QuietPhases, Quiet, TickRunning, TickFrame, Ticking, Finish
  <2>4. PodSteps'
    BY <1>5, <1>0, <2>1 DEF TypeOK, PodSteps, HoldsPod, TickRunning, TickFrame, Ticking, Finish
  <2> QED
    BY <2>2, <2>3, <2>4 DEF TypeInv
<1>6. CASE TickIdle(j)
  <2>1. mem' \in [Jobs -> JobRecord]
    BY <1>6, <1>0, TickTable DEF TypeOK, Touches
  <2>2. TypeOK'
    BY <1>6, <1>0, <2>1, PodIds, CursorFacts DEF TypeOK, TickIdle, TickFrame, Ticking, Vanished
  <2>3. QuietPhases'
    BY <1>6, <1>0 DEF QuietPhases, Quiet, TickIdle, TickFrame, Ticking, Vanished
  <2>4. PodSteps'
    BY <1>6, <1>0, <2>1, TickTable
    DEF TypeOK, PodSteps, HoldsPod, TickIdle, TickFrame, Ticking, Vanished
  <2> QED
    BY <2>2, <2>3, <2>4 DEF TypeInv
<1>7. CASE TickIdleTimeout(j)
  <2>1. mem' \in [Jobs -> JobRecord]
    BY <1>7, <1>0, TickTable DEF TypeOK, Touches
  <2>2. TypeOK'
    BY <1>7, <1>0, <2>1, PodIds, CursorFacts
    DEF TypeOK, Steps, TickIdleTimeout, TickFrame, Ticking, Vanished, Finish
  <2>3. QuietPhases'
    BY <1>7, <1>0 DEF QuietPhases, Quiet, TickIdleTimeout, TickFrame, Ticking, Vanished, Finish
  <2>4. PodSteps'
    BY <1>7, <1>0, <2>1
    DEF PodSteps, HoldsPod, TickIdleTimeout, TickFrame, Ticking, Vanished, Finish
  <2> QED
    BY <2>2, <2>3, <2>4 DEF TypeInv
<1>8. CASE TickUnknown(j)
  <2>1. mem' \in [Jobs -> JobRecord]
    BY <1>8, <1>0, TickUnknownTable DEF TypeOK, Touches
  <2>2. TypeOK'
    BY <1>8, <1>0, <2>1, PodIds, CursorFacts
    DEF TypeOK, Steps, TickUnknown, TickFrame, Ticking, GoneAnswer, SaysGone
  <2>3. QuietPhases'
    BY <1>8, <1>0 DEF QuietPhases, Quiet, TickUnknown, TickFrame, Ticking, GoneAnswer, SaysGone
  <2>4. PodSteps'
    <3>1. \A k \in Jobs \ {j} : pc'[k] = pc[k] /\ newpod'[k] = newpod[k]
      BY <1>8, <1>0 DEF TypeOK, TickUnknown, TickFrame, GoneAnswer, SaysGone
    <3>2. \A k \in Jobs \ {j} : mem'[k].pod = mem[k].pod
      BY <1>8, <1>0, TickUnknownTable DEF TypeOK, Touches
    <3>3. pc'[j] \in HoldsPod => mem'[j].pod # NoPod
      BY <1>8, <1>0, TickUnknownTable, ConstantsAssumption
      DEF TypeOK, PodSteps, HoldsPod, TickUnknown, Ticking, GoneAnswer, SaysGone
    <3>4. pc'[j] = "created" => newpod'[j] # NoPod
      BY <1>8, <1>0 DEF TypeOK, PodSteps, TickUnknown, TickFrame, GoneAnswer, SaysGone
    <3> QED
      BY <1>8, <1>0, <3>1, <3>2, <3>3, <3>4, PodStepsPreserved
  <2> QED
    BY <2>2, <2>3, <2>4 DEF TypeInv
<1> QED
  BY <1>1, <1>2, <1>3, <1>4, <1>5, <1>6, <1>7, <1>8 DEF TickStep

\* TypeInv is preserved by _finish_job and _spot_recover.
LEMMA FinishStepKeepsTypes ==
  ASSUME TypeInv, NEW j \in Jobs, FinishStep(j)
  PROVE  TypeInv'
<1>0. TypeOK /\ QuietPhases /\ PodSteps
  BY DEF TypeInv
<1>1. CASE RecoverTeardown(j)
  <2>1. mem' \in [Jobs -> JobRecord]
    BY <1>1, <1>0 DEF TypeOK, RecoverTeardown
  <2>2. registry' \in [Pods -> {"absent", "running", "terminated"}]
    BY <1>1, <1>0, PodIds, RegistryFacts DEF TypeOK, RecoverTeardown
  <2>3. alive' \subseteq Pods /\ tried' \subseteq Pods /\ hazards' \in Nat
    BY <1>1, <1>0, PodIds, TerminateFacts DEF PodSteps, HoldsPod, RecoverTeardown
  <2>4. TypeOK'
    BY <1>1, <1>0, <2>1, <2>2, <2>3, PodIds, CursorFacts DEF TypeOK, Steps, RecoverTeardown
  <2>5. QuietPhases'
    BY <1>1, <1>0 DEF QuietPhases, Quiet, Idle, RecoverTeardown
  <2>6. PodSteps'
    BY <1>1, <1>0, <2>1 DEF PodSteps, HoldsPod, RecoverTeardown
  <2> QED
    BY <2>4, <2>5, <2>6 DEF TypeInv
<1>2. CASE RecoverBackoff(j)
  <2>1. mem' \in [Jobs -> JobRecord]
    BY <1>2, <1>0, ForgetTable DEF TypeOK, Touches
  <2>2. TypeOK'
    BY <1>2, <1>0, <2>1 DEF TypeOK, Steps, RecoverBackoff
  <2>3. QuietPhases'
    BY <1>2, <1>0 DEF QuietPhases, Quiet, Idle, RecoverBackoff
  <2>4. PodSteps'
    <3>1. \A k \in Jobs \ {j} : pc'[k] = pc[k] /\ newpod'[k] = newpod[k]
      BY <1>2, <1>0 DEF TypeOK, RecoverBackoff
    <3>2. \A k \in Jobs \ {j} : mem'[k].pod = mem[k].pod
      BY <1>2, <1>0, ForgetTable DEF TypeOK, Touches
    <3>3. pc'[j] \in HoldsPod => mem'[j].pod # NoPod
      BY <1>2, <1>0 DEF TypeOK, PodSteps, HoldsPod, RecoverBackoff
    <3>4. pc'[j] = "created" => newpod'[j] # NoPod
      BY <1>2, <1>0 DEF TypeOK, RecoverBackoff
    <3> QED
      BY <1>2, <1>0, <3>1, <3>2, <3>3, <3>4, PodStepsPreserved
  <2> QED
    BY <2>2, <2>3, <2>4 DEF TypeInv
<1>3. CASE FinalSync(j)
  <2>1. mem' \in [Jobs -> JobRecord]
    BY <1>3, <1>0, StatusTable DEF TypeOK, Touches
  <2>2. registry' \in [Pods -> {"absent", "running", "terminated"}]
    <3>1. RegistryUpdate(registry, mem[j].pod, "running")
            \in [Pods -> {"absent", "running", "terminated"}]
      BY <1>3, <1>0, PodIds, RegistryFacts DEF TypeOK
    <3> QED
      BY <1>3, <1>0, <3>1 DEF TypeOK, FinalSync
  <2>3. TypeOK'
    BY <1>3, <1>0, <2>1, <2>2 DEF TypeOK, Steps, FinalSync, FinishFrame
  <2>4. QuietPhases'
    BY <1>3, <1>0 DEF QuietPhases, Quiet, Idle, FinalSync, FinishFrame
  <2>5. PodSteps'
    <3>1. \A k \in Jobs \ {j} : pc'[k] = pc[k] /\ newpod'[k] = newpod[k]
      BY <1>3, <1>0 DEF TypeOK, FinalSync, FinishFrame
    <3>2. \A k \in Jobs \ {j} : mem'[k].pod = mem[k].pod
      BY <1>3, <1>0, StatusTable DEF TypeOK, Touches
    <3>3. pc'[j] \in HoldsPod => mem'[j].pod # NoPod
      BY <1>3, <1>0 DEF TypeOK, PodSteps, HoldsPod, FinalSync
    <3>4. pc'[j] = "created" => newpod'[j] # NoPod
      BY <1>3, <1>0 DEF TypeOK, FinalSync
    <3> QED
      BY <1>3, <1>0, <3>1, <3>2, <3>3, <3>4, PodStepsPreserved
  <2> QED
    BY <2>3, <2>4, <2>5 DEF TypeInv
<1>4. CASE FinishTeardown(j)
  <2>1. mem' \in [Jobs -> JobRecord]
    BY <1>4, <1>0 DEF TypeOK, FinishTeardown
  <2>2. alive' \subseteq Pods /\ tried' \subseteq Pods /\ hazards' \in Nat
    BY <1>4, <1>0, PodIds, TerminateFacts DEF TypeOK, FinishTeardown, ReleasesPod
  <2>3. TypeOK'
    BY <1>4, <1>0, <2>1, <2>2 DEF TypeOK, Steps, FinishTeardown, FinishFrame
  <2>4. QuietPhases'
    BY <1>4, <1>0 DEF QuietPhases, Quiet, Idle, FinishTeardown, FinishFrame
  <2>5. PodSteps'
    BY <1>4, <1>0, <2>1 DEF PodSteps, HoldsPod, FinishTeardown, FinishFrame
  <2> QED
    BY <2>3, <2>4, <2>5 DEF TypeInv
<1>5. CASE FinishRecord(j)
  <2>1. mem' \in [Jobs -> JobRecord]
    BY <1>5, <1>0, FinishRecordTable
  <2>2. registry' \in [Pods -> {"absent", "running", "terminated"}]
    BY <1>5, <1>0, PodIds, RegistryFacts DEF TypeOK, FinishRecord, FinalRegistryStatus, NoFinish
  <2>3. TypeOK'
    BY <1>5, <1>0, <2>1, <2>2, PodIds, CursorFacts
    DEF TypeOK, Steps, FinishRecord, FinishFrame, NoFinish
  <2>4. QuietPhases'
    BY <1>5, <1>0 DEF QuietPhases, Quiet, Idle, FinishRecord, FinishFrame, NoFinish
  <2>5. PodSteps'
    <3>1. \A k \in Jobs \ {j} : pc'[k] = pc[k] /\ newpod'[k] = newpod[k]
      BY <1>5, <1>0 DEF FinishRecord, FinishFrame, NoFinish
    <3>2. \A k \in Jobs \ {j} : mem'[k].pod = mem[k].pod
      BY <1>5, <1>0, FinishRecordTable
    <3>3. pc'[j] \in HoldsPod => mem'[j].pod # NoPod
      BY <1>5, <1>0 DEF PodSteps, HoldsPod, FinishRecord, FinalRegistryStatus, NoFinish
    <3>4. pc'[j] = "created" => newpod'[j] # NoPod
      BY <1>5, <1>0 DEF FinishRecord, NoFinish
    <3> QED
      BY <1>5, <1>0, <3>1, <3>2, <3>3, <3>4, PodStepsPreserved
  <2> QED
    BY <2>3, <2>4, <2>5 DEF TypeInv
<1> QED
  BY <1>1, <1>2, <1>3, <1>4, <1>5 DEF FinishStep

\* TypeInv is preserved by the provision-deploy-launch pipeline.
LEMMA PipelineStepKeepsTypes ==
  ASSUME TypeInv, NEW j \in Jobs, PipelineStep(j)
  PROVE  TypeInv'
<1>0. TypeOK /\ QuietPhases /\ PodSteps
  BY DEF TypeInv
<1>1. CASE Begin(j)
  <2>1. mem' \in [Jobs -> JobRecord]
    BY <1>1, <1>0, StatusTable DEF TypeOK, Touches
  <2>2. registry' \in [Pods -> {"absent", "running", "terminated"}]
    BY <1>1, <1>0, PodIds, RegistryFacts DEF TypeOK, Begin, IsReuse
  <2>3. alive' \subseteq Pods /\ tried' \subseteq Pods /\ hazards' \in Nat
    BY <1>1, <1>0, PodIds, TerminateFacts DEF TypeOK, Begin, IsReuse
  <2>4. TypeOK'
    BY <1>1, <1>0, <2>1, <2>2, <2>3 DEF TypeOK, Steps, Begin, PipeFrame
  <2>5. QuietPhases'
    BY <1>1, <1>0 DEF QuietPhases, Quiet, Idle, Begin, PipeFrame
  <2>6. PodSteps'
    <3>1. \A k \in Jobs \ {j} : pc'[k] = pc[k] /\ newpod'[k] = newpod[k]
      BY <1>1, <1>0 DEF TypeOK, Begin
    <3>2. \A k \in Jobs \ {j} : mem'[k].pod = mem[k].pod
      BY <1>1, <1>0, StatusTable DEF TypeOK, Touches
    <3>3. pc'[j] \in HoldsPod => mem'[j].pod # NoPod
      BY <1>1, <1>0, StatusTable DEF TypeOK, PodSteps, HoldsPod, Begin, IsReuse
    <3>4. pc'[j] = "created" => newpod'[j] # NoPod
      BY <1>1, <1>0 DEF TypeOK, Begin
    <3> QED
      BY <1>1, <1>0, <3>1, <3>2, <3>3, <3>4, PodStepsPreserved
  <2> QED
    BY <2>4, <2>5, <2>6 DEF TypeInv
<1>2. CASE AdoptPod(j)
  <2>1. mem' \in [Jobs -> JobRecord]
    BY <1>2, <1>0, SshTable DEF TypeOK, Touches
  <2>2. TypeOK'
    BY <1>2, <1>0, <2>1 DEF TypeOK, Steps, AdoptPod, PipeFrame, Interrupted
  <2>3. QuietPhases'
    BY <1>2, <1>0 DEF QuietPhases, Quiet, Idle, AdoptPod, PipeFrame
  <2>4. PodSteps'
    BY <1>2, <1>0, <2>1, SshTable DEF TypeOK, PodSteps, HoldsPod, Touches, AdoptPod, Interrupted
  <2> QED
    BY <2>2, <2>3, <2>4 DEF TypeInv
<1>3. CASE Provision(j)
  <2>1. mem' \in [Jobs -> JobRecord]
    BY <1>3, <1>0, ProvisionTable DEF TypeOK, Touches
  <2>2. TypeOK'
    BY <1>3, <1>0, <2>1 DEF TypeOK, Steps, Provision, PipeFrame
  <2>3. QuietPhases'
    BY <1>3, <1>0 DEF QuietPhases, Quiet, Idle, Provision, PipeFrame
  <2>4. PodSteps'
    <3>1. \A k \in Jobs \ {j} : pc'[k] = pc[k] /\ newpod'[k] = newpod[k]
      BY <1>3, <1>0 DEF TypeOK, Provision
    <3>2. \A k \in Jobs \ {j} : mem'[k].pod = mem[k].pod
      BY <1>3, <1>0, ProvisionTable DEF TypeOK, Touches
    <3>3. pc'[j] \in HoldsPod => mem'[j].pod # NoPod
      BY <1>3, <1>0, ProvisionTable DEF TypeOK, PodSteps, HoldsPod, Provision
    <3>4. pc'[j] = "created" => newpod'[j] # NoPod
      BY <1>3, <1>0 DEF TypeOK, Provision
    <3> QED
      BY <1>3, <1>0, <3>1, <3>2, <3>3, <3>4, PodStepsPreserved
  <2> QED
    BY <2>2, <2>3, <2>4 DEF TypeInv
<1>4. CASE CreateInstance(j)
  <2>1. mem' \in [Jobs -> JobRecord]
    BY <1>4, <1>0, StatusTable DEF TypeOK, Touches
  <2>2. TypeOK'
    BY <1>4, <1>0, <2>1 DEF TypeOK, Steps, CreateInstance, PipeFrame
  <2>3. QuietPhases'
    BY <1>4, <1>0 DEF QuietPhases, Quiet, Idle, CreateInstance, PipeFrame
  <2>4. PodSteps'
    BY <1>4, <1>0, <2>1, ConstantsAssumption, StatusTable
    DEF TypeOK, PodSteps, HoldsPod, Touches, CreateInstance
  <2> QED
    BY <2>2, <2>3, <2>4 DEF TypeInv
<1>5. CASE NextCandidate(j)
  <2>1. mem' \in [Jobs -> JobRecord]
    BY <1>5, <1>0, ProvisionTable DEF TypeOK, Touches
  <2>2. TypeOK'
    BY <1>5, <1>0, <2>1 DEF TypeOK, Steps, NextCandidate, PipeFrame, Interrupted
  <2>3. QuietPhases'
    BY <1>5, <1>0 DEF QuietPhases, Quiet, Idle, NextCandidate, PipeFrame
  <2>4. PodSteps'
    BY <1>5, <1>0, <2>1, ProvisionTable
    DEF TypeOK, PodSteps, HoldsPod, Touches, NextCandidate, Interrupted
  <2> QED
    BY <2>2, <2>3, <2>4 DEF TypeInv
<1>6. CASE PersistCreated(j)
  <2>1. mem' \in [Jobs -> JobRecord]
    BY <1>6, <1>0, PersistTable DEF TypeOK, Touches
  <2>2. TypeOK'
    BY <1>6, <1>0, <2>1 DEF TypeOK, PodSteps, HoldsPod, Steps, PersistCreated, PipeFrame
  <2>3. QuietPhases'
    BY <1>6, <1>0 DEF QuietPhases, Quiet, Idle, PersistCreated, PipeFrame
  <2>4. PodSteps'
    <3>1. \A k \in Jobs \ {j} : pc'[k] = pc[k] /\ newpod'[k] = newpod[k]
      BY <1>6, <1>0 DEF PersistCreated
    <3>2. \A k \in Jobs \ {j} : mem'[k].pod = mem[k].pod
      BY <1>6, <1>0, PersistTable DEF TypeOK, Touches
    <3>3. pc'[j] \in HoldsPod => mem'[j].pod # NoPod
      BY <1>6, <1>0 DEF TypeOK, PodSteps, HoldsPod, PersistCreated
    <3>4. pc'[j] = "created" => newpod'[j] # NoPod
      BY <1>6, <1>0 DEF TypeOK, PersistCreated
    <3> QED
      BY <1>6, <1>0, <3>1, <3>2, <3>3, <3>4, PodStepsPreserved
  <2> QED
    BY <2>2, <2>3, <2>4 DEF TypeInv
<1>7. CASE RegisterCreated(j)
  <2>1. mem' \in [Jobs -> JobRecord]
    BY <1>7, <1>0 DEF TypeOK, RegisterCreated
  <2>2. registry' \in [Pods -> {"absent", "running", "terminated"}]
    BY <1>7, <1>0, PodIds, RegistryFacts DEF TypeOK, PodSteps, HoldsPod, RegisterCreated
  <2>3. TypeOK'
    BY <1>7, <1>0, <2>1, <2>2, PodIds, CursorFacts DEF TypeOK, Steps, RegisterCreated, PipeFrame
  <2>4. QuietPhases'
    BY <1>7, <1>0 DEF QuietPhases, Quiet, Idle, RegisterCreated, PipeFrame
  <2>5. PodSteps'
    BY <1>7, <1>0, <2>1 DEF PodSteps, HoldsPod, RegisterCreated
  <2> QED
    BY <2>3, <2>4, <2>5 DEF TypeInv
<1>8. CASE AwaitSsh(j)
  <2>1. mem' \in [Jobs -> JobRecord]
    BY <1>8, <1>0, SshTable DEF TypeOK, Touches
  <2>2. TypeOK'
    BY <1>8, <1>0, <2>1 DEF TypeOK, Steps, AwaitSsh, PipeFrame, Interrupted
  <2>3. QuietPhases'
    BY <1>8, <1>0 DEF QuietPhases, Quiet, Idle, AwaitSsh, PipeFrame
  <2>4. PodSteps'
    BY <1>8, <1>0, <2>1, SshTable DEF TypeOK, PodSteps, HoldsPod, AwaitSsh, Interrupted
  <2> QED
    BY <2>2, <2>3, <2>4 DEF TypeInv
<1>9. CASE ReleasePod(j)
  <2>1. mem' \in [Jobs -> JobRecord]
    BY <1>9, <1>0, ReleaseTable DEF TypeOK, Touches
  <2>2. registry' \in [Pods -> {"absent", "running", "terminated"}]
    BY <1>9, <1>0, PodIds, RegistryFacts DEF TypeOK, PodSteps, HoldsPod, ReleasePod, PipeFrame
  <2>3. alive' \subseteq Pods /\ tried' \subseteq Pods /\ hazards' \in Nat
    BY <1>9, <1>0, PodIds, TerminateFacts DEF PodSteps, HoldsPod, ReleasePod
  <2>4. TypeOK'
    BY <1>9, <1>0, <2>1, <2>2, <2>3, PodIds, CursorFacts DEF TypeOK, Steps, ReleasePod, PipeFrame
  <2>5. QuietPhases'
    BY <1>9, <1>0 DEF QuietPhases, Quiet, Idle, ReleasePod, PipeFrame
  <2>6. PodSteps'
    <3>1. \A k \in Jobs \ {j} : pc'[k] = pc[k] /\ newpod'[k] = newpod[k]
      BY <1>9, <1>0 DEF TypeOK, ReleasePod
    <3>2. \A k \in Jobs \ {j} : mem'[k].pod = mem[k].pod
      BY <1>9, <1>0, ReleaseTable DEF TypeOK, Touches
    <3>3. pc'[j] \in HoldsPod => mem'[j].pod # NoPod
      BY <1>9, <1>0 DEF TypeOK, PodSteps, HoldsPod, ReleasePod
    <3>4. pc'[j] = "created" => newpod'[j] # NoPod
      BY <1>9, <1>0 DEF TypeOK, ReleasePod
    <3> QED
      BY <1>9, <1>0, <3>1, <3>2, <3>3, <3>4, PodStepsPreserved
  <2> QED
    BY <2>4, <2>5, <2>6 DEF TypeInv
<1>10. CASE PodReady(j)
  <2>1. mem' \in [Jobs -> JobRecord]
    BY <1>10, <1>0, StatusTable DEF TypeOK, Touches
  <2>2. registry' \in [Pods -> {"absent", "running", "terminated"}]
    BY <1>10, <1>0, PodIds, RegistryFacts DEF TypeOK, PodSteps, HoldsPod, PodReady
  <2>3. TypeOK'
    BY <1>10, <1>0, <2>1, <2>2 DEF TypeOK, Steps, PodReady, PipeFrame
  <2>4. QuietPhases'
    BY <1>10, <1>0 DEF QuietPhases, Quiet, Idle, PodReady, PipeFrame
  <2>5. PodSteps'
    BY <1>10, <1>0, <2>1, StatusTable DEF TypeOK, PodSteps, HoldsPod, Touches, PodReady
  <2> QED
    BY <2>3, <2>4, <2>5 DEF TypeInv
<1>11. CASE Deploy(j)
  <2>1. mem' \in [Jobs -> JobRecord]
    BY <1>11, <1>0, StatusTable DEF TypeOK, Touches
  <2>2. remote' \in [Pods -> RemoteState]
    <3> DEFINE p == mem[j].pod
               b == j \in reuse
    <3>1. p \in Pods /\ remote[p] \in RemoteState /\ b \in BOOLEAN
      BY <1>11, <1>0, PodIds DEF TypeOK, PodSteps, HoldsPod, Deploy
    <3>2. remote' = remote \/ remote' = [remote EXCEPT ![p] = Deployed(remote[p], b)]
      BY <1>11 DEF Deploy
    <3> HIDE DEF p, b
    <3>3. Deployed(remote[p], b) \in RemoteState
      BY <1>11, <3>1, RemoteFacts
    <3> QED
      BY <1>11, <1>0, <3>1, <3>2, <3>3 DEF TypeOK
  <2>3. TypeOK'
    BY <1>11, <1>0, <2>1, <2>2 DEF TypeOK, Steps, Deploy, PipeFrame
  <2>4. QuietPhases'
    BY <1>11, <1>0 DEF QuietPhases, Quiet, Idle, Deploy, PipeFrame
  <2>5. PodSteps'
    <3>1. \A k \in Jobs \ {j} : pc'[k] = pc[k] /\ newpod'[k] = newpod[k]
      BY <1>11, <1>0 DEF TypeOK, Deploy
    <3>2. \A k \in Jobs \ {j} : mem'[k].pod = mem[k].pod
      BY <1>11, <1>0, StatusTable DEF TypeOK, Touches
    <3>3. pc'[j] \in HoldsPod => mem'[j].pod # NoPod
      BY <1>11, <1>0, StatusTable DEF TypeOK, PodSteps, HoldsPod, Deploy, Deployed
    <3>4. pc'[j] = "created" => newpod'[j] # NoPod
      BY <1>11, <1>0 DEF TypeOK, Deploy
    <3> QED
      BY <1>11, <1>0, <3>1, <3>2, <3>3, <3>4, PodStepsPreserved
  <2> QED
    BY <2>3, <2>4, <2>5 DEF TypeInv
<1>12. CASE Launch(j)
  <2>1. mem' \in [Jobs -> JobRecord]
    BY <1>12, <1>0, StatusTable DEF TypeOK, Touches
  <2>2. remote' \in [Pods -> RemoteState]
    <3> DEFINE p == mem[j].pod
    <3>1. p \in Pods /\ remote[p] \in RemoteState
      BY <1>12, <1>0, PodIds DEF TypeOK, PodSteps, HoldsPod, Launch
    <3>2. Launched(remote[p]) \in RemoteState
      BY <1>12, <3>1, RemoteFacts
    <3>3. remote' = remote \/ remote' = [remote EXCEPT ![p] = Launched(remote[p])]
      BY <1>12 DEF Launch
    <3> HIDE DEF p
    <3> QED
      BY <1>12, <1>0, <3>1, <3>2, <3>3 DEF TypeOK
  <2>3. TypeOK'
    BY <1>12, <1>0, <2>1, <2>2 DEF TypeOK, Steps, Launch, PipeFrame
  <2>4. QuietPhases'
    BY <1>12, <1>0 DEF QuietPhases, Quiet, Idle, Launch, PipeFrame
  <2>5. PodSteps'
    <3>1. \A k \in Jobs \ {j} : pc'[k] = pc[k] /\ newpod'[k] = newpod[k]
      BY <1>12, <1>0 DEF TypeOK, Launch
    <3>2. \A k \in Jobs \ {j} : mem'[k].pod = mem[k].pod
      BY <1>12, <1>0, StatusTable DEF TypeOK, Touches
    <3>3. pc'[j] \in HoldsPod => mem'[j].pod # NoPod
      BY <1>12, <1>0, StatusTable DEF TypeOK, PodSteps, HoldsPod, Launch, Launched
    <3>4. pc'[j] = "created" => newpod'[j] # NoPod
      BY <1>12, <1>0 DEF TypeOK, Launch
    <3> QED
      BY <1>12, <1>0, <3>1, <3>2, <3>3, <3>4, PodStepsPreserved
  <2> QED
    BY <2>3, <2>4, <2>5 DEF TypeInv
<1>13. CASE RecordLaunch(j)
  <2>1. mem' \in [Jobs -> JobRecord]
    BY <1>13, <1>0, RecordLaunchTable DEF TypeOK, Touches
  <2>2. TypeOK'
    BY <1>13, <1>0, <2>1 DEF TypeOK, Steps, RecordLaunch, PipeFrame
  <2>3. QuietPhases'
    BY <1>13, <1>0 DEF QuietPhases, Quiet, Idle, RecordLaunch, PipeFrame
  <2>4. PodSteps'
    <3>1. \A k \in Jobs \ {j} : pc'[k] = pc[k] /\ newpod'[k] = newpod[k]
      BY <1>13, <1>0 DEF RecordLaunch
    <3>2. \A k \in Jobs \ {j} : mem'[k].pod = mem[k].pod
      BY <1>13, <1>0, RecordLaunchTable DEF TypeOK, Touches
    <3>3. pc'[j] \in HoldsPod => mem'[j].pod # NoPod
      BY <1>13, <1>0 DEF TypeOK, PodSteps, HoldsPod, RecordLaunch
    <3>4. pc'[j] = "created" => newpod'[j] # NoPod
      BY <1>13, <1>0 DEF RecordLaunch
    <3> QED
      BY <1>13, <1>0, <3>1, <3>2, <3>3, <3>4, PodStepsPreserved
  <2> QED
    BY <2>2, <2>3, <2>4 DEF TypeInv
<1>14. CASE AbortPipeline(j)
  <2>1. mem' \in [Jobs -> JobRecord]
    BY <1>14, <1>0, StatusTable DEF TypeOK, Touches
  <2>2. alive' \subseteq Pods /\ tried' \subseteq Pods /\ hazards' \in Nat
    BY <1>14, <1>0, PodIds, TerminateFacts DEF PodSteps, HoldsPod, AbortPipeline
  <2>3. TypeOK'
    BY <1>14, <1>0, <2>1, <2>2 DEF TypeOK, Steps, AbortPipeline, PipeFrame
  <2>4. QuietPhases'
    BY <1>14, <1>0 DEF QuietPhases, Quiet, Idle, AbortPipeline, PipeFrame
  <2>5. PodSteps'
    BY <1>14, <1>0, <2>1, StatusTable DEF TypeOK, PodSteps, HoldsPod, Touches, AbortPipeline
  <2> QED
    BY <2>3, <2>4, <2>5 DEF TypeInv
<1>15. CASE PipelineException(j)
  <2>1. mem' \in [Jobs -> JobRecord]
    BY <1>15, <1>0, StatusTable DEF TypeOK, Touches
  <2>2. registry' \in [Pods -> {"absent", "running", "terminated"}]
    BY <1>15, <1>0, PodIds, RegistryFacts DEF TypeOK, PipelineException
  <2>3. alive' \subseteq Pods /\ tried' \subseteq Pods /\ hazards' \in Nat
    BY <1>15, <1>0, PodIds, TerminateFacts DEF TypeOK, PipelineException
  <2>4. TypeOK'
    BY <1>15, <1>0, <2>1, <2>2, <2>3 DEF TypeOK, Steps, PipelineException, PipeFrame
  <2>5. QuietPhases'
    BY <1>15, <1>0 DEF QuietPhases, Quiet, Idle, PipelineException, PipeFrame
  <2>6. PodSteps'
    <3>1. \A k \in Jobs \ {j} : pc'[k] = pc[k] /\ newpod'[k] = newpod[k]
      BY <1>15, <1>0 DEF PipelineException
    <3>2. \A k \in Jobs \ {j} : mem'[k].pod = mem[k].pod
      BY <1>15, <1>0, StatusTable DEF TypeOK, Touches
    <3>3. pc'[j] \in HoldsPod => mem'[j].pod # NoPod
      BY <1>15, <1>0 DEF PodSteps, HoldsPod, PipelineException
    <3>4. pc'[j] = "created" => newpod'[j] # NoPod
      BY <1>15, <1>0 DEF PipelineException
    <3> QED
      BY <1>15, <1>0, <3>1, <3>2, <3>3, <3>4, PodStepsPreserved
  <2> QED
    BY <2>4, <2>5, <2>6 DEF TypeInv
<1> QED
  BY <1>1, <1>2, <1>3, <1>4, <1>5, <1>6, <1>7, <1>8, <1>9, <1>10, <1>11, <1>12, <1>13, <1>14,
     <1>15 DEF PipelineStep

\* TypeInv is preserved by commands, signals, failures and the pods.
LEMMA EnvironmentKeepsTypes ==
  ASSUME TypeInv, Environment
  PROVE  TypeInv'
<1>0. TypeOK /\ QuietPhases /\ PodSteps
  BY DEF TypeInv
<1>1. ASSUME NEW C \in SUBSET Jobs, NEW flags \in SUBSET {"failed", "completed"}, Run(C, flags)
      PROVE  TypeInv'
  <2>1. mem' \in [Jobs -> JobRecord]
    BY <1>1, <1>0, RunTable DEF TypeOK
  <2>2. TypeOK'
    <3>1. hazards' \in Nat
      BY <1>1, <1>0 DEF TypeOK, Run
    <3>2. runs' \in Nat /\ phase' \in Phases /\ shut' \in {"no", "detach", "teardown"}
      BY <1>1, <1>0 DEF TypeOK, Phases, Run
    <3> QED
      BY <1>1, <1>0, <2>1, <3>1, <3>2 DEF TypeOK, Run
  <2>3. QuietPhases'
    BY <1>1, <1>0 DEF QuietPhases, Quiet, Idle, Run, ResetForRetry, FreshJob
  <2>4. PodSteps'
    BY <1>1, <1>0, <2>1
    DEF QuietPhases, Quiet, Idle, PodSteps, HoldsPod, Run, ResetForRetry, FreshJob
  <2> QED
    BY <2>2, <2>3, <2>4 DEF TypeInv
<1>2. ASSUME NEW C \in SUBSET Jobs, ManualTeardownStart(C)
      PROVE  TypeInv'
  <2>1. mem' \in [Jobs -> JobRecord]
    BY <1>2, <1>0 DEF TypeOK, ManualTeardownStart
  <2>2. TypeOK'
    BY <1>2, <1>0, <2>1 DEF TypeOK, Phases, ManualTeardownStart
  <2>3. QuietPhases'
    BY <1>2, <1>0 DEF QuietPhases, Quiet, Idle, ManualTeardownStart
  <2>4. PodSteps'
    BY <1>2, <1>0, <2>1 DEF PodSteps, HoldsPod, ManualTeardownStart
  <2> QED
    BY <2>2, <2>3, <2>4 DEF TypeInv
<1>3. CASE Beat
  <2>1. mem' \in [Jobs -> JobRecord]
    BY <1>3, <1>0 DEF TypeOK, Beat
  <2>2. TypeOK'
    BY <1>3, <1>0, <2>1 DEF TypeOK, Beat
  <2>3. QuietPhases'
    BY <1>3, <1>0 DEF QuietPhases, Quiet, Idle, Beat
  <2>4. PodSteps'
    BY <1>3, <1>0, <2>1 DEF PodSteps, HoldsPod, Beat
  <2> QED
    BY <2>2, <2>3, <2>4 DEF TypeInv
<1>4. CASE Sigint
  <2>1. mem' \in [Jobs -> JobRecord]
    BY <1>4, <1>0 DEF TypeOK, Sigint
  <2>2. TypeOK'
    BY <1>4, <1>0, <2>1 DEF TypeOK, Sigint
  <2>3. QuietPhases'
    BY <1>4, <1>0 DEF QuietPhases, Quiet, Idle, Sigint
  <2>4. PodSteps'
    BY <1>4, <1>0, <2>1 DEF PodSteps, HoldsPod, Sigint
  <2> QED
    BY <2>2, <2>3, <2>4 DEF TypeInv
<1>5. CASE Kill
  <2>1. mem' \in [Jobs -> JobRecord]
    BY <1>5, <1>0 DEF TypeOK, Kill
  <2>2. TypeOK'
    BY <1>5, <1>0, <2>1, PodIds, CursorFacts DEF TypeOK, Steps, Phases, Kill, NoFinish
  <2>3. QuietPhases'
    BY <1>5, <1>0 DEF QuietPhases, Quiet, Idle, Kill
  <2>4. PodSteps'
    BY <1>5, <1>0, <2>1 DEF PodSteps, HoldsPod, Kill
  <2> QED
    BY <2>2, <2>3, <2>4 DEF TypeInv
<1>6. CASE Crash
  <2>1. mem' \in [Jobs -> JobRecord]
    BY <1>6, <1>0 DEF TypeOK, Crash
  <2>2. TypeOK'
    BY <1>6, <1>0, <2>1, PodIds, CursorFacts DEF TypeOK, Steps, Phases, Crash, NoFinish
  <2>3. QuietPhases'
    BY <1>6, <1>0 DEF QuietPhases, Quiet, Idle, Crash
  <2>4. PodSteps'
    BY <1>6, <1>0, <2>1 DEF PodSteps, HoldsPod, Crash
  <2> QED
    BY <2>2, <2>3, <2>4 DEF TypeInv
<1>7. ASSUME NEW p \in Pods, SpotLoss(p)
      PROVE  TypeInv'
  <2>1. mem' \in [Jobs -> JobRecord]
    BY <1>7, <1>0 DEF TypeOK, SpotLoss
  <2>2. TypeOK'
    BY <1>7, <1>0, <2>1 DEF TypeOK, SpotLoss
  <2>3. QuietPhases'
    BY <1>7, <1>0 DEF QuietPhases, Quiet, Idle, SpotLoss
  <2>4. PodSteps'
    BY <1>7, <1>0, <2>1 DEF PodSteps, HoldsPod, SpotLoss
  <2> QED
    BY <2>2, <2>3, <2>4 DEF TypeInv
<1>8. ASSUME NEW p \in Pods, JobEnds(p)
      PROVE  TypeInv'
  <2>1. mem' \in [Jobs -> JobRecord]
    BY <1>8, <1>0 DEF TypeOK, JobEnds
  <2>2. remote' \in [Pods -> RemoteState]
    <3>1. remote[p] \in RemoteState /\ remote[p].copies > 0
      BY <1>8, <1>0 DEF TypeOK, JobEnds
    <3>2. /\ Exited(remote[p], "ok") \in RemoteState
          /\ Exited(remote[p], "bad") \in RemoteState
          /\ [remote[p] EXCEPT !.copies = 0] \in RemoteState
      BY <1>8, <3>1, RemoteFacts
    <3> QED
      BY <1>8, <1>0, <3>2 DEF TypeOK, JobEnds
  <2>3. TypeOK'
    BY <1>8, <1>0, <2>1, <2>2 DEF TypeOK, JobEnds
  <2>4. QuietPhases'
    BY <1>8, <1>0 DEF QuietPhases, Quiet, Idle, JobEnds
  <2>5. PodSteps'
    BY <1>8, <1>0, <2>1 DEF PodSteps, HoldsPod, JobEnds
  <2> QED
    BY <2>3, <2>4, <2>5 DEF TypeInv
<1> QED
  BY <1>1, <1>2, <1>3, <1>4, <1>5, <1>6, <1>7, <1>8 DEF Environment

-----------------------------------------------------------------------------
(* The invariant.                                                           *)

\* TypeInv holds of the initial states.
LEMMA InitTypes == Init => TypeInv
<1> SUFFICES ASSUME Init
             PROVE  TypeInv
  OBVIOUS
<1>1. AbsentJob \in JobRecord
  BY DEF AbsentJob, FreshJob, JobRecord, Statuses
<1>2. NoRemote \in RemoteState
  BY DEF NoRemote, RemoteState
<1>3. NoFinish \in [goal : {"completed", "failed"}, force : BOOLEAN, torn : BOOLEAN]
  BY DEF NoFinish
<1>4. TypeOK
  BY <1>1, <1>2, <1>3, CursorFacts DEF Init, TypeOK, Phases, Steps
<1>5. QuietPhases /\ PodSteps
  BY DEF Init, QuietPhases, Idle, PodSteps, HoldsPod
<1> QED
  BY <1>4, <1>5 DEF TypeInv

\* TypeInv is preserved by every step.
LEMMA NextKeepsTypes == TypeInv /\ [Next]_vars => TypeInv'
<1> SUFFICES ASSUME TypeInv, [Next]_vars
             PROVE  TypeInv'
  OBVIOUS
<1>1. ASSUME NEW j \in Jobs, JobStep(j)
      PROVE  TypeInv'
  BY <1>1, TickStepKeepsTypes, FinishStepKeepsTypes, PipelineStepKeepsTypes DEF JobStep
<1>2. CASE UNCHANGED vars
  BY <1>2 DEF vars, TypeInv, TypeOK, QuietPhases, Idle, PodSteps
<1> QED
  BY <1>1, <1>2, MainThreadKeepsTypes, EnvironmentKeepsTypes DEF Next, Rest

\* TypeInv holds in every reachable state.
THEOREM TypeInvariance == Spec => []TypeInv
  BY InitTypes, NextKeepsTypes, PTL DEF Spec

\* Every variable keeps its type, whatever the environment answers and
\* whenever the process is killed: in particular every pod id in the job
\* table and in the registry is one the provider can hand out, and the step
\* at which a function stands is one of its steps.
THEOREM TypeCorrect == Spec => []TypeOK
<1>1. TypeInv => TypeOK
  BY DEF TypeInv
<1> QED
  BY <1>1, TypeInvariance, PTL

\* Each function that works on the pod of its job finds one there: no step of
\* a pipeline, of a recovery or of a launch runs for a job without a pod.
THEOREM StepsHavePods == Spec => []PodSteps
<1>1. TypeInv => PodSteps
  BY DEF TypeInv
<1> QED
  BY <1>1, TypeInvariance, PTL
=============================================================================
