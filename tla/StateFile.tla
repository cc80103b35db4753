----------------------------- MODULE StateFile ------------------------------
(***************************************************************************)
(* The state file inside one `conductor run`: the main thread, its pool    *)
(* threads and the heartbeat thread assign to one table in memory without  *)
(* a lock, and each of them saves it.  A save reads the table job by job   *)
(* (asdict), so the others may assign in between, and replaces the file.   *)
(*                                                                         *)
(* A kill may follow any step and leaves the file as it is, so whatever    *)
(* must hold after a kill is required of the file in every state.          *)
(*                                                                         *)
(* provisioning, deploying and running are one status here.  sync_failed   *)
(* is left out: a job that gets it and was to complete blocks nobody; one  *)
(* that was to fail does (keep_pod_on_failure), and that is Finish as      *)
(* failed.                                                                 *)
(***************************************************************************)
EXTENDS Integers, FiniteSets

CONSTANTS
  NJobs,       \* number of jobs
  Deps,        \* Deps[j]: the jobs that j depends on
  NoThread,    \* nobody is saving
  MaxBeats,    \* bound: beats of the heartbeat thread
  MaxErrors    \* bound: saves that fail

Jobs    == 1 .. NJobs
Main    == 0
Heart   == NJobs + 1
Threads == 0 .. NJobs + 1        \* thread j runs the pipeline of job j

ASSUME StateFileAssumption ==
  /\ NJobs \in Nat \ {0} /\ Deps \in [Jobs -> SUBSET Jobs]
  /\ NoThread \notin Threads /\ MaxBeats \in Nat /\ MaxErrors \in Nat

VARIABLES
  mem,       \* the status of each job in memory
  owned,     \* heartbeat_at is set in memory
  file,      \* what the state file holds of both
  saving,    \* holder of _SAVE_LOCK
  step,      \* step[t]: where thread t is
  after,     \* after[t]: where it goes when its save returns, and when it raises
  seen,      \* seen[t]: the snapshot its save has taken so far
  row,       \* row[t]: the job its snapshot reads next
  blocked,   \* blocked[t]: the failed jobs whose dependents it is skipping
  stop,      \* Heartbeat._stop
  raised,    \* an exception reached the main thread, or the final save failed
  beats, errors

table == <<mem, owned>>
saver == <<saving, after, seen, row>>
vars  == <<table, file, saver, step, blocked, stop, raised, beats, errors>>

Statuses == {"pending", "running", "completed", "failed", "skipped"}
Final    == {"completed", "failed", "skipped"}
Snapshot == [jobs : [Jobs -> Statuses], owned : BOOLEAN]
Steps    == {"none", "lock", "read", "write",                  \* inside save_state
             "scan", "pool", "tick", "crash", "leave", "join", "ended",  \* main thread
             "begin", "work", "skip", "finish",                 \* pool threads
             "wait"}                                            \* heartbeat thread

TypeOK ==
  /\ mem \in [Jobs -> Statuses] /\ owned \in BOOLEAN
  /\ file \in Snapshot /\ saving \in Threads \cup {NoThread}
  /\ step \in [Threads -> Steps] /\ after \in [Threads -> Steps \X Steps]
  /\ seen \in [Threads -> Snapshot] /\ row \in [Threads -> 1 .. NJobs + 1]
  /\ blocked \in [Threads -> SUBSET Jobs] /\ stop \in BOOLEAN /\ raised \in BOOLEAN
  /\ beats \in Nat /\ errors \in Nat

\* run_lifecycle after heartbeat.start(): the first beat saved the table.
Init ==
  /\ mem = [j \in Jobs |-> "pending"] /\ owned = TRUE
  /\ file = [jobs |-> mem, owned |-> TRUE] /\ saving = NoThread
  /\ step = [t \in Threads |-> IF t = Main THEN "scan"
                               ELSE IF t = Heart THEN "wait" ELSE "none"]
  /\ after = [t \in Threads |-> <<"none", "none">>]
  /\ seen = [t \in Threads |-> file] /\ row = [t \in Threads |-> 1]
  /\ blocked = [t \in Threads |-> {}]
  /\ stop = FALSE /\ raised = FALSE /\ beats = 0 /\ errors = 0

GoTo(t, s) == step' = [step EXCEPT ![t] = s]
Assign(j, s) == mem' = [mem EXCEPT ![j] = s]

\* Thread t calls save_state, to continue at ok, or at err if it raises.
CallSave(t, ok, err) ==
  /\ GoTo(t, "lock") /\ after' = [after EXCEPT ![t] = <<ok, err>>]
  /\ UNCHANGED <<file, saving, seen, row>>

NoSave == UNCHANGED <<file, saver>>

-----------------------------------------------------------------------------
(* save_state                                                               *)

\* Wrong variant: the saves of two threads overlap.
SaveLockUnchecked(t) == TRUE

\* with _SAVE_LOCK: a second thread waits.
SaveLockFree(t) == saving = NoThread

LockSave(t) ==
  /\ step[t] = "lock" /\ SaveLockFree(t)
  /\ saving' = t /\ row' = [row EXCEPT ![t] = 1]
  /\ GoTo(t, "read")
  /\ UNCHANGED <<table, file, after, seen, blocked, stop, raised, beats, errors>>

\* asdict of the next job.
ReadRow(t) ==
  /\ step[t] = "read" /\ row[t] <= NJobs
  /\ seen' = [seen EXCEPT ![t].jobs[row[t]] = mem[row[t]]]
  /\ row' = [row EXCEPT ![t] = @ + 1]
  /\ UNCHANGED <<table, file, saving, after, step, blocked, stop, raised, beats, errors>>

\* The fields of the run come after the jobs.
ReadRest(t) ==
  /\ step[t] = "read" /\ row[t] = NJobs + 1
  /\ seen' = [seen EXCEPT ![t].owned = owned]
  /\ GoTo(t, "write")
  /\ UNCHANGED <<table, file, saving, after, row, blocked, stop, raised, beats, errors>>

\* The temporary file replaces the state file and the locks are released.
WriteFile(t) ==
  /\ step[t] = "write"
  /\ file' = seen[t] /\ saving' = NoThread
  /\ GoTo(t, after[t][1])
  /\ UNCHANGED <<table, after, seen, row, blocked, stop, raised, beats, errors>>

\* Writing raises: the temporary file is removed and the state file stays.
WriteFails(t) ==
  /\ step[t] = "write" /\ errors < MaxErrors /\ errors' = errors + 1
  /\ saving' = NoThread
  /\ GoTo(t, after[t][2])
  /\ raised' = (raised \/ after[t][2] \in {"none", "crash", "leave", "ended"})
  /\ UNCHANGED <<table, file, after, seen, row, blocked, stop, beats>>

SaveStep(t) == LockSave(t) \/ ReadRow(t) \/ ReadRest(t) \/ WriteFile(t) \/ WriteFails(t)

-----------------------------------------------------------------------------
(* The heartbeat thread.                                                    *)

\* Wrong variant: the loop does not look at the event.
StopUnheeded == FALSE

\* What _stop.wait returns.
Stopped == stop

\* Heartbeat.beat when the interval is over; a failed save is logged only.  One
\* step from the look at the event to the assignment: the thread does not lose
\* the processor in between for longer than the join of Disown waits.
Beat ==
  /\ step[Heart] = "wait" /\ ~Stopped /\ beats < MaxBeats
  /\ beats' = beats + 1 /\ owned' = TRUE
  /\ CallSave(Heart, "wait", "wait")
  /\ UNCHANGED <<mem, blocked, stop, raised, errors>>

-----------------------------------------------------------------------------
(* The pool threads: the pipeline of one job.                               *)

\* The job gets a pod and its status is saved.
BeginJob(j) ==
  /\ step[j] = "begin"
  /\ Assign(j, "running")
  /\ CallSave(j, "work", "skip")
  /\ blocked' = [blocked EXCEPT ![j] = {j}]
  /\ UNCHANGED <<owned, stop, raised, beats, errors>>

\* The pipeline goes on to its end, or raises.
Work(j) ==
  /\ step[j] = "work"
  /\ \E s \in {"finish", "skip"} : GoTo(j, s)
  /\ UNCHANGED <<table, file, saver, blocked, stop, raised, beats, errors>>

\* The exception path assigns the job's own status first.
FailOwn(j) ==
  /\ step[j] = "skip" /\ mem[j] = "running"
  /\ Assign(j, "failed")
  /\ UNCHANGED <<owned, file, saver, step, blocked, stop, raised, beats, errors>>

\* The pending jobs that depend on a job thread t found failed or skipped.
Dependents(t) == {k \in Jobs : mem[k] = "pending" /\ Deps[k] \cap blocked[t] # {}}

\* Wrong variant: the main thread's case is forgotten.
AfterPropagationOfPool(t) == IF t = Main THEN "idle" ELSE "finish"

\* Where a thread goes when _propagate_failure returns.
AfterPropagation(t) == IF t = Main THEN "tick" ELSE "finish"

\* _propagate_failure assigns to one dependent after the other; it runs once
\* the failed job's own status is assigned.
Propagate(t) ==
  /\ step[t] = "skip" /\ \A j \in blocked[t] : mem[j] # "running"
  /\ \/ \E k \in Dependents(t) : /\ Assign(k, "skipped")
                                 /\ blocked' = [blocked EXCEPT ![t] = @ \cup {k}]
                                 /\ UNCHANGED step
     \/ /\ Dependents(t) = {}
        /\ GoTo(t, AfterPropagation(t))
        /\ UNCHANGED <<mem, blocked>>
  /\ UNCHANGED <<owned, file, saver, stop, raised, beats, errors>>

\* The finally clause of _provision_deploy_launch.
FinishJob(j) ==
  /\ step[j] = "finish"
  /\ CallSave(j, "none", "none")
  /\ UNCHANGED <<table, blocked, stop, raised, beats, errors>>

-----------------------------------------------------------------------------
(* The main thread.                                                         *)

Ready == {j \in Jobs : mem[j] = "pending" /\ \A d \in Deps[j] : mem[d] = "completed"}

\* _start_unblocked_jobs starts one thread per ready job.
StartBatch ==
  /\ step[Main] = "scan"
  /\ step' = [t \in Threads |-> IF t \in Ready THEN "begin"
                                ELSE IF t = Main THEN "pool" ELSE step[t]]
  /\ UNCHANGED <<table, file, saver, blocked, stop, raised, beats, errors>>

\* All of them returned: their exceptions surface, or the tick's save follows.
PoolDone ==
  /\ step[Main] = "pool" /\ \A j \in Jobs : step[j] = "none"
  /\ IF raised THEN GoTo(Main, "crash") /\ NoSave
               ELSE CallSave(Main, "tick", "crash")
  /\ UNCHANGED <<table, blocked, stop, raised, beats, errors>>

AllDone == \A j \in Jobs : mem[j] \in Final

\* _finish_job in a tick.
Finish(j, s) ==
  /\ step[Main] = "tick" /\ mem[j] = "running"
  /\ Assign(j, s)
  /\ IF s = "failed" THEN /\ GoTo(Main, "skip")
                          /\ blocked' = [blocked EXCEPT ![Main] = {j}]
                     ELSE UNCHANGED <<step, blocked>>
  /\ UNCHANGED <<owned, file, saver, stop, raised, beats, errors>>

\* The tick is over: the jobs it unblocked are started, and the table is saved.
TickDone ==
  /\ step[Main] = "tick" /\ ~AllDone
  /\ GoTo(Main, "scan")
  /\ UNCHANGED <<table, file, saver, blocked, stop, raised, beats, errors>>

\* The run is over, or is left for a detach.
LeaveLoop ==
  /\ step[Main] = "tick"
  /\ GoTo(Main, "leave")
  /\ UNCHANGED <<table, file, saver, blocked, stop, raised, beats, errors>>

\* _handle_crash saves once more and goes on whether or not that succeeds.
Crash ==
  /\ step[Main] = "crash"
  /\ CallSave(Main, "leave", "leave")
  /\ UNCHANGED <<table, blocked, stop, raised, beats, errors>>

\* The finally clause of run_lifecycle: heartbeat.stop() sets the event,
StopHeart ==
  /\ step[Main] = "leave"
  /\ GoTo(Main, "join") /\ stop' = TRUE
  /\ UNCHANGED <<table, file, saver, blocked, raised, beats, errors>>

\* joins the thread, and the run is given up.  The join gives up after a timeout,
\* so the heartbeat thread may still be inside a save.
Disown ==
  /\ step[Main] = "join"
  /\ owned' = FALSE
  /\ CallSave(Main, "ended", "ended")
  /\ UNCHANGED <<mem, blocked, stop, raised, beats, errors>>

\* The process has ended; the heartbeat thread is a daemon and dies with it.
Over == step[Main] = "ended" /\ UNCHANGED vars

MainStep == \/ StartBatch \/ PoolDone \/ TickDone \/ LeaveLoop \/ Crash
            \/ StopHeart \/ Disown
            \/ \E j \in Jobs : Finish(j, "completed") \/ Finish(j, "failed")

PoolStep(j) == BeginJob(j) \/ Work(j) \/ FailOwn(j) \/ FinishJob(j)

Next ==
  \/ step[Main] # "ended" /\ \/ \E t \in Threads : SaveStep(t)
                             \/ \E t \in Jobs \cup {Main} : Propagate(t)
                             \/ \E j \in Jobs : PoolStep(j)
                             \/ Beat \/ MainStep
  \/ Over

Spec == Init /\ [][Next]_vars

-----------------------------------------------------------------------------

\* How far a status is from pending; within one invocation, and with these
\* statuses, a job only moves up.
Rank(s) == IF s = "pending" THEN 0 ELSE IF s = "running" THEN 1 ELSE 2

\* The latest save wins: no save writes a table that is older, in any job, than
\* the one in the file, whichever threads save at once.
LatestSaveWins == [][\A j \in Jobs : Rank(file'.jobs[j]) >= Rank(file.jobs[j])]_file

\* A run that ends with every save done leaves the final table in the file and
\* no heartbeat, although the heartbeat thread may have been saving when it was
\* told to stop: the next command is not refused.
FinalFileIsTrue ==
  step[Main] = "ended" /\ ~raised => file = [jobs |-> mem, owned |-> FALSE]
=============================================================================
