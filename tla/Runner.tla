------------------------------- MODULE Runner -------------------------------
(***************************************************************************)
(* The launch of a job on a pod and the probes of its process, down to the *)
(* single commands of the remote scripts: what the pid, start and exit     *)
(* files say while connections are lost, processes end or are killed, and  *)
(* pids are used again by other processes.                                 *)
(*                                                                         *)
(* The files survive between launches, as with deploy_method "image" and   *)
(* conductor pod exec --detach; Lifecycle has the rsync that deletes them. *)
(* A launch script waits for nothing: it has ended when the next attempt,  *)
(* half a second later at least, begins.  An orchestrator that is killed   *)
(* before it recorded the launch launches again.                           *)
(***************************************************************************)
EXTENDS Integers, FiniteSets

CONSTANTS
  Pids,         \* process ids of the pod
  Attempts,     \* DEFAULT_RETRIES
  MaxLaunches,  \* bound: launches of the job
  MaxStarts     \* bound: processes started, by a launch or by others

ASSUME RunnerAssumption ==
  /\ Pids \subseteq Nat \ {0} /\ Cardinality(Pids) >= 2
  /\ Attempts \in Nat \ {0} /\ MaxLaunches \in Nat /\ MaxStarts \in Nat

VARIABLES
  procs,     \* the process behind each pid: what it is and its start time
  files,     \* .conductor_pid, .conductor_pid_start and .conductor_exit
  script,    \* the launch script: its next command, its $pid and its $start
  client,    \* the orchestrator: what it does, its attempt, what it recorded
  probe,     \* the command of is_alive: its next step
  outcome,   \* how the latest process of the job ended, "none" if the launch has none
  mistaken,  \* a launch took a process of others for the job
  launches, starts

None  == 0
Codes == {"0", "1"}
NoProcess == [kind |-> "none", start |-> None]

ProcessOf(kind, start) == [kind |-> kind, start |-> start]

Process ==
  [kind : {"none", "job", "closing", "other"}, start : 0 .. MaxStarts]

TypeOK ==
  /\ procs \in [Pids -> Process]
  /\ files \in [pid : Pids \cup {None}, start : 0 .. MaxStarts,
                exit : {"absent", "empty"} \cup Codes]
  /\ script \in [at : {"ended", "test", "rm", "fork", "pid", "start", "answer"},
                 pid : Pids \cup {None}, start : 0 .. MaxStarts]
  /\ client \in [at : {"new", "launching", "watching", "over"}, attempt : 0 .. Attempts,
                 pid : Pids \cup {None}, start : 0 .. MaxStarts, idle : BOOLEAN,
                 verdict : {"none", "failed", "vanished"} \cup Codes]
  /\ probe \in {"none", "look", "cat", "kill", "start"}
  /\ outcome \in {"none", "runs", "vanished"} \cup Codes
  /\ mistaken \in BOOLEAN /\ launches \in 0 .. MaxLaunches /\ starts \in 0 .. MaxStarts

Init ==
  /\ procs = [p \in Pids |-> NoProcess]
  /\ files = [pid |-> None, start |-> None, exit |-> "absent"]
  /\ script = [at |-> "ended", pid |-> None, start |-> None]
  /\ client = [at |-> "new", attempt |-> 0, pid |-> None, start |-> None,
               idle |-> FALSE, verdict |-> "none"]
  /\ probe = "none" /\ outcome = "none" /\ mistaken = FALSE
  /\ launches = 0 /\ starts = 0

remote == <<procs, files, outcome>>
vars == <<remote, script, client, probe, mistaken, launches, starts>>

Alive(p) == p # None /\ procs[p].kind # "none"
JobPids  == {p \in Pids : procs[p].kind \in {"job", "closing"}}

-----------------------------------------------------------------------------
(* The processes of the pod.                                                *)

\* The job's command ends, and the run script opens the exit file, then writes the
\* code and ends.
JobEnds(p) ==
  /\ procs[p].kind = "job" /\ procs' = [procs EXCEPT ![p].kind = "closing"]
  /\ files' = [files EXCEPT !.exit = "empty"]
  /\ \E code \in Codes : outcome' = code
  /\ UNCHANGED <<script, client, probe, mistaken, launches, starts>>

\* The code goes to the file that was opened, also if it was removed meanwhile.
JobCloses(p) ==
  /\ procs[p].kind = "closing" /\ procs' = [procs EXCEPT ![p] = NoProcess]
  /\ files' = [files EXCEPT !.exit = IF @ = "empty" THEN outcome ELSE @]
  /\ UNCHANGED <<outcome, script, client, probe, mistaken, launches, starts>>

\* Killed with its run script: there will be no exit file.
JobKilled(p) ==
  /\ procs[p].kind = "job" /\ procs' = [procs EXCEPT ![p] = NoProcess]
  /\ outcome' = "vanished"
  /\ UNCHANGED <<files, script, client, probe, mistaken, launches, starts>>

\* A process of others gets a free pid, or ends.
OtherProcess(p) ==
  /\ \/ /\ procs[p].kind = "none" /\ starts < MaxStarts
        /\ starts' = starts + 1
        /\ procs' = [procs EXCEPT ![p] = ProcessOf("other", starts + 1)]
     \/ /\ procs[p].kind = "other" /\ UNCHANGED starts
        /\ procs' = [procs EXCEPT ![p] = NoProcess]
  /\ UNCHANGED <<files, outcome, script, client, probe, mistaken, launches>>

-----------------------------------------------------------------------------
(* .conductor_launch.sh                                                     *)

\* Wrong variant: an earlier launch is not looked for.
NeverStillRunning == FALSE

\* A previous launch is still running, as far as the files and kill -0 tell.
StillRunning == files.pid # None /\ files.exit = "absent" /\ Alive(files.pid)

\* The script goes on to a command.
Goto(at) == script' = [script EXCEPT !.at = at]

ScriptTest ==
  /\ script.at = "test"
  /\ IF StillRunning
       THEN /\ script' = [at |-> "answer", pid |-> files.pid, start |-> files.start]
            /\ mistaken' = (mistaken \/ procs[files.pid].kind = "other")
       ELSE Goto("rm") /\ UNCHANGED mistaken
  /\ UNCHANGED <<remote, client, probe, launches, starts>>

\* Wrong variant: the exit file of the previous launch stays.
RemovedNothing == files.exit

\* rm -f of the exit file.
RemovedExit == "absent"

ScriptRm ==
  /\ script.at = "rm" /\ Goto("fork") /\ files' = [files EXCEPT !.exit = RemovedExit]
  /\ UNCHANGED <<procs, outcome, client, probe, mistaken, launches, starts>>

\* setsid nohup ... &
ScriptFork ==
  /\ script.at = "fork" /\ starts < MaxStarts
  /\ \E p \in {q \in Pids : ~Alive(q)} :
       /\ procs' = [procs EXCEPT ![p] = ProcessOf("job", starts + 1)]
       /\ script' = [at |-> "pid", pid |-> p, start |-> None]
  /\ starts' = starts + 1 /\ outcome' = "runs"
  /\ UNCHANGED <<files, client, probe, mistaken, launches>>

ScriptPid ==
  /\ script.at = "pid" /\ Goto("start") /\ files' = [files EXCEPT !.pid = script.pid]
  /\ UNCHANGED <<procs, outcome, client, probe, mistaken, launches, starts>>

\* The start time of whatever has the pid now, if anything has.
ScriptStart ==
  /\ script.at = "start"
  /\ script' = [script EXCEPT !.at = "answer", !.start = procs[script.pid].start]
  /\ files' = [files EXCEPT !.start = procs[script.pid].start]
  /\ mistaken' = (mistaken \/ procs[script.pid].kind = "other")
  /\ UNCHANGED <<procs, outcome, client, probe, launches, starts>>

ScriptSteps == ScriptTest \/ ScriptRm \/ ScriptFork \/ ScriptPid \/ ScriptStart

-----------------------------------------------------------------------------
(* launch_direct and ssh_exec.                                              *)

\* Wrong variant: one attempt too many.
MoreAttemptsByOne == client.attempt <= Attempts

\* Of ssh_exec, after the attempt at hand.
MoreAttempts == client.attempt < Attempts

\* A call of launch_direct, for a job without a recorded process: the first, a retry
\* of a job that is over, or the resumption of one whose orchestrator was killed
\* before it recorded the launch.
Launch ==
  /\ client.at \in {"new", "launching", "over"} /\ launches < MaxLaunches
  /\ script.at \in {"ended", "answer"} /\ launches' = launches + 1
  /\ client' = [at |-> "launching", attempt |-> 1, pid |-> None, start |-> None,
                idle |-> FALSE, verdict |-> "none"]
  /\ outcome' = IF client.at = "launching" \/ JobPids # {} THEN outcome ELSE "none"
  /\ Goto("test")
  /\ UNCHANGED <<procs, files, probe, mistaken, starts>>

\* The answer arrives.
Launched ==
  /\ client.at = "launching" /\ script.at = "answer" /\ Goto("ended")
  /\ client' = [client EXCEPT !.at = "watching", !.pid = script.pid, !.start = script.start]
  /\ UNCHANGED <<remote, probe, mistaken, launches, starts>>

\* The connection is lost before or after the script ran: the next attempt begins, or
\* it was the last one and the launch has failed.  It also fails, at once, when the
\* answer takes too long.
NoAnswer ==
  /\ client.at = "launching" /\ script.at \in {"test", "answer"}
  /\ \/ MoreAttempts /\ client' = [client EXCEPT !.attempt = @ + 1] /\ Goto("test")
     \/ /\ client' = [client EXCEPT !.at = "over", !.verdict = "failed"]
        /\ Goto("ended")
  /\ UNCHANGED <<remote, probe, mistaken, launches, starts>>

-----------------------------------------------------------------------------
(* is_alive, and what _tick_job makes of its answer.                        *)

\* The writing of an exit code takes less time than there is between two ticks.
BeginProbe ==
  /\ client.at = "watching" /\ probe = "none" /\ probe' = "look"
  /\ \A p \in Pids : procs[p].kind # "closing"
  /\ UNCHANGED <<remote, script, client, mistaken, launches, starts>>

\* The job is over.
Conclude(verdict) ==
  client' = [client EXCEPT !.at = "over", !.verdict = verdict, !.pid = None, !.start = None]

\* status.running
SeenRunning == client' = [client EXCEPT !.idle = FALSE]

\* status.exited without a code: the idle timer starts; when it has run out, the job
\* is completed.
SeenGone ==
  \/ client' = [client EXCEPT !.idle = TRUE]
  \/ client.idle /\ Conclude("vanished")

\* Wrong variant: no test for another process with the pid.
SameProcessByPid(start) == TRUE

\* _parse_status: both start times are known and differ if the pid was reused.
SameProcess(start) == start = None \/ client.start = None \/ start = client.start

ProbeLook ==
  /\ probe = "look" /\ probe' = IF files.exit = "absent" THEN "kill" ELSE "cat"
  /\ UNCHANGED <<remote, script, client, mistaken, launches, starts>>

ProbeCat ==
  /\ probe = "cat" /\ probe' = "none"
  /\ IF files.exit \in Codes THEN Conclude(files.exit) ELSE SeenGone
  /\ UNCHANGED <<remote, script, mistaken, launches, starts>>

ProbeKill ==
  /\ probe = "kill"
  /\ IF Alive(client.pid) THEN probe' = "start" /\ UNCHANGED client
                          ELSE probe' = "none" /\ SeenGone
  /\ UNCHANGED <<remote, script, mistaken, launches, starts>>

ProbeStart ==
  /\ probe = "start" /\ probe' = "none"
  /\ IF SameProcess(procs[client.pid].start) THEN SeenRunning ELSE SeenGone
  /\ UNCHANGED <<remote, script, mistaken, launches, starts>>

\* No answer: the state is unknown, and the job stays as it is.
ProbeLost ==
  /\ probe # "none" /\ probe' = "none"
  /\ UNCHANGED <<remote, script, client, mistaken, launches, starts>>

ProbeSteps == BeginProbe \/ ProbeLook \/ ProbeCat \/ ProbeKill \/ ProbeStart

-----------------------------------------------------------------------------

\* The bounds are used up.
Done ==
  /\ \/ client.at = "over"
     \/ script.at = "fork" /\ starts = MaxStarts
  /\ UNCHANGED vars

Next ==
  \/ \E p \in Pids : JobEnds(p) \/ JobCloses(p) \/ JobKilled(p) \/ OtherProcess(p)
  \/ ScriptSteps \/ Launch \/ Launched \/ NoAnswer
  \/ ProbeSteps \/ ProbeLost
  \/ Done

Spec == Init /\ [][Next]_vars

\* A probe is made every tick and some get through; an idle timer runs out; an exit
\* code is written.
FairSpec ==
  /\ Spec
  /\ WF_vars(BeginProbe)
  /\ SF_vars(ProbeLook) /\ SF_vars(ProbeKill) /\ SF_vars(ProbeStart)
  /\ SF_vars(ProbeCat)
  /\ SF_vars((ProbeCat \/ ProbeKill \/ ProbeStart) /\ client'.at = "over")
  /\ \A p \in Pids : WF_vars(JobCloses(p))

-----------------------------------------------------------------------------

\* One copy of the job's command runs at a time, through lost answers, retries of the
\* call and orchestrators that were killed before they recorded the launch.
OneCopy == Cardinality({p \in Pids : procs[p].kind = "job"}) <= 1

\* The job is concluded with what its latest process did: its exit code, or that it
\* was killed; never with the exit file of an earlier launch, nor as vanished while it
\* runs.  (Unless the launch took another process for the job.)
VerdictIsTrue ==
  /\ client.at = "over" /\ client.verdict \in Codes => client.verdict = outcome
  /\ client.at = "over" /\ client.verdict = "vanished" /\ ~mistaken => outcome = "vanished"

\* While a job is watched with its start time, its end is noticed, whoever gets its pid.
EndIsNoticed ==
  client.at = "watching" /\ client.start # None /\ outcome # "runs" /\ ~mistaken
    ~> client.at = "over"
=============================================================================
