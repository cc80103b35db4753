----------------------------- MODULE Ownership ------------------------------
(***************************************************************************)
(* Who owns the state file: `conductor run`, `sync` and `teardown` in      *)
(* several terminals, the heartbeat by which a live run is recognised, and *)
(* the passing of time.                                                    *)
(*                                                                         *)
(* A timestamp is its age, which a tick of the clock increases up to       *)
(* LiveWindow, so no bound on time or on the number of commands is needed. *)
(* One save of the file is one step: StateFile opens it up.                *)
(***************************************************************************)
EXTENDS Integers

CONSTANTS
  Terminals,    \* where commands are started, one at a time in each
  Interval,     \* time between two beats of the heartbeat thread
  LiveWindow,   \* 2 * poll_interval: the age from which a heartbeat is stale
  MaxFails,     \* bound: beats in a row whose save fails
  Nobody        \* no terminal

\* The defaults are 15 s and 60 s, so two beats in a row may be lost.
ASSUME OwnershipAssumption ==
  /\ Interval \in Nat \ {0} /\ LiveWindow \in Nat /\ MaxFails \in Nat
  /\ Interval * (MaxFails + 1) < LiveWindow
  /\ Nobody \notin Terminals

NoBeat == -1                       \* heartbeat_at is None, or there is no file
Ages   == {NoBeat} \cup 0 .. LiveWindow

VARIABLES
  file,      \* heartbeat_at in the state file
  copy,      \* copy[t]: heartbeat_at in the memory of the command in terminal t
  step,      \* step[t]: the command that passed its check there, or what its run became
  due,       \* due[t]: time since its heartbeat thread last woke up
  fails,     \* fails[t]: beats in a row it could not save
  writer,    \* the terminal whose command saved the file last
  raced      \* two commands were let through that do not respect each other

pulse == <<due, fails>>
vars  == <<file, copy, step, pulse, writer, raced>>

Commands == {"run", "sync", "teardown"}
Steps    == Commands \cup {"idle", "owner", "ending"}

TypeOK ==
  /\ file \in Ages /\ copy \in [Terminals -> Ages]
  /\ step \in [Terminals -> Steps]
  /\ due \in [Terminals -> 0 .. Interval] /\ fails \in [Terminals -> 0 .. MaxFails]
  /\ writer \in Terminals \cup {Nobody} /\ raced \in BOOLEAN

\* No command runs; an earlier one left the file, or there is none.
Init ==
  /\ file = NoBeat /\ copy = [t \in Terminals |-> NoBeat]
  /\ step = [t \in Terminals |-> "idle"]
  /\ due = [t \in Terminals |-> 0] /\ fails = [t \in Terminals |-> 0]
  /\ writer = Nobody /\ raced = FALSE

GoTo(t, s) == step' = [step EXCEPT ![t] = s]

\* The process exits and its memory is gone.
Exit(t) ==
  /\ GoTo(t, "idle") /\ copy' = [copy EXCEPT ![t] = NoBeat]
  /\ due' = [due EXCEPT ![t] = 0] /\ fails' = [fails EXCEPT ![t] = 0]
  /\ UNCHANGED raced

\* save_state of the copy with heartbeat b.
Write(t, b) == file' = b /\ writer' = t

NoWrite == UNCHANGED <<file, writer>>

\* Wrong variant: one poll interval.
LiveForOnePoll(b) == b # NoBeat /\ b < LiveWindow \div 2

\* Wrong variant: the age is not looked at.
LiveOnceBeaten(b) == b # NoBeat

\* run_is_live.
Live(b) == b # NoBeat /\ b < LiveWindow

\* Wrong variant: only `conductor run` looks.
RefusesRunsOnly(c, b) == c = "run" /\ Live(b)

\* The refusal of cmd_run, cmd_sync and cmd_teardown without --force.
Refuses(c, b) == c \in Commands /\ Live(b)

\* What command c in terminal t disturbs, or is disturbed by: another one
\* between its check and its first beat or its save, or between its last beat and
\* its final save; or, with --force, any other.
Races(t, forced) ==
  \E u \in Terminals \ {t} :
    step[u] \in Commands \cup {"ending"} \/ (forced /\ step[u] = "owner")

\* load_state and the check.
Start(t) ==
  /\ step[t] = "idle"
  /\ \E c \in Commands, forced \in BOOLEAN :
       /\ forced \/ ~Refuses(c, file)
       /\ GoTo(t, c)
       /\ raced' = (raced \/ Races(t, forced))
  /\ copy' = [copy EXCEPT ![t] = file]
  /\ NoWrite /\ UNCHANGED pulse

\* Kill -9, a lost terminal, or an exit before the command saved anything.
Dies(t) == step[t] # "idle" /\ Exit(t) /\ NoWrite

-----------------------------------------------------------------------------
(* conductor run                                                            *)

\* Heartbeat.start: the first beat, then the thread.
FirstBeat(t) ==
  /\ step[t] = "run"
  /\ copy' = [copy EXCEPT ![t] = 0] /\ Write(t, 0)
  /\ due' = [due EXCEPT ![t] = 0] /\ fails' = [fails EXCEPT ![t] = 0]
  /\ GoTo(t, "owner")
  /\ UNCHANGED raced

\* Its save raises: the run is over before it began.  The beat is in memory, and
\* _handle_crash saves it when it can.
FirstBeatFails(t) ==
  /\ step[t] = "run"
  /\ copy' = [copy EXCEPT ![t] = 0] /\ (Write(t, 0) \/ NoWrite)
  /\ GoTo(t, "ending")
  /\ UNCHANGED <<pulse, raced>>

\* Wrong variant: the age of the heartbeat is saved as it is.
BeatForgotten(t) == copy[t]

\* clock() in Heartbeat.beat.
BeatNow(t) == 0

\* Heartbeat._run when the interval is over: a beat whose save may fail, which
\* the thread survives.
Beat(t) ==
  /\ step[t] = "owner" /\ due[t] = Interval
  /\ copy' = [copy EXCEPT ![t] = BeatNow(t)]
  /\ due' = [due EXCEPT ![t] = 0]
  /\ \/ /\ Write(t, BeatNow(t))
        /\ fails' = [fails EXCEPT ![t] = 0]
     \/ /\ fails[t] < MaxFails
        /\ fails' = [fails EXCEPT ![t] = @ + 1]
        /\ NoWrite
  /\ UNCHANGED <<step, raced>>

\* Any save of the main thread or of a pool thread: after a tick, with a fresh
\* timestamp; elsewhere, with the one in memory.
OwnerSave(t) ==
  /\ step[t] = "owner"
  /\ \E b \in {0, copy[t]} : copy' = [copy EXCEPT ![t] = b] /\ Write(t, b)
  /\ UNCHANGED <<step, pulse, raced>>

\* The run finishes, detaches or crashes: the heartbeat thread is stopped.
StopHeart(t) ==
  /\ step[t] = "owner"
  /\ GoTo(t, "ending")
  /\ NoWrite /\ UNCHANGED <<copy, pulse, raced>>

\* The last lines of run_lifecycle: the heartbeat is cleared and saved; if that
\* raises, the process exits like one that dies.
Disown(t) == step[t] = "ending" /\ Write(t, NoBeat) /\ Exit(t)

-----------------------------------------------------------------------------
(* conductor sync and conductor teardown                                    *)

\* The end of cmd_sync: its own copy is saved unless that copy reads as live.
SyncSave(t) ==
  /\ step[t] = "sync"
  /\ IF Live(copy[t]) THEN NoWrite ELSE Write(t, copy[t])
  /\ Exit(t)

\* The end of cmd_teardown, after the prompt and the terminations.
TeardownSave(t) == step[t] = "teardown" /\ Write(t, copy[t]) /\ Exit(t)

-----------------------------------------------------------------------------

Older(b) == IF b = NoBeat \/ b = LiveWindow THEN b ELSE b + 1

\* Wrong variant: the main thread beats, when it is not busy.
PunctualNever == TRUE

\* A heartbeat thread wakes up when its interval is over.
Punctual == \A t \in Terminals : step[t] = "owner" => due[t] < Interval

\* Time passes.
Tick ==
  /\ Punctual
  /\ file' = Older(file) /\ copy' = [t \in Terminals |-> Older(copy[t])]
  /\ due' = [t \in Terminals |-> IF step[t] = "owner" THEN due[t] + 1 ELSE due[t]]
  /\ UNCHANGED <<step, fails, writer, raced>>

RunStep(t) == \/ FirstBeat(t) \/ FirstBeatFails(t) \/ Beat(t) \/ OwnerSave(t)
              \/ StopHeart(t) \/ Disown(t)

Next ==
  \/ \E t \in Terminals : Start(t) \/ Dies(t) \/ RunStep(t) \/ SyncSave(t) \/ TeardownSave(t)
  \/ Tick

Spec == Init /\ [][Next]_vars

\* The clock goes on and the heartbeat threads are scheduled.
FairSpec == Spec /\ WF_vars(Tick) /\ \A t \in Terminals : WF_vars(Beat(t))

-----------------------------------------------------------------------------

\* What a running orchestrator saved last reads as live, however long its main
\* thread is blocked, whatever its threads save in between, and through any
\* MaxFails beats in a row that could not be saved.
OwnerReadsAsLive ==
  writer \in Terminals /\ step[writer] = "owner" => Live(file)

\* As long as commands do not overlap in the windows the check leaves open and
\* --force is kept for dead runs, one process at most works with the state file:
\* no second run, no teardown under a run, no save of a copy that is out of date.
OneCommandAtATime ==
  ~raced => \A t, u \in Terminals : step[t] # "idle" /\ step[u] # "idle" => t = u

\* A run that has beaten, or tried to, and has not exited.
RunIsUp == \E t \in Terminals : step[t] \in {"owner", "ending"}

\* A run that was killed stops blocking others: unless a new one has started, its
\* heartbeat goes stale, whatever the commands forced meanwhile save back.
DeadRunIsNoticed == ~RunIsUp ~> (~Live(file) \/ RunIsUp)

\* A run whose file was overwritten, by a command that slipped through or by the
\* end of a rival, is recognised as live again.
OwnerIsSeenAgain ==
  \A t \in Terminals : (step[t] = "owner") ~> (Live(file) \/ step[t] # "owner")
=============================================================================
