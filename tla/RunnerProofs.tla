---------------------------- MODULE RunnerProofs ----------------------------
(***************************************************************************)
(* One copy of the job runs at a time, and the job is concluded with what  *)
(* that copy did, for any pids and any number of launches, lost answers    *)
(* and processes of others.                                                *)
(***************************************************************************)
EXTENDS Runner, FiniteSetTheorems, TLAPS

Runs(p) == procs[p].kind = "job"

OneJob == \A p, q \in Pids : Runs(p) /\ Runs(q) => p = q

\* A running job has no exit file, and the pid file names it as soon as the script has
\* written it; the script starts one only when none runs.
TheJob ==
  \A p \in Pids :
    Runs(p) => /\ files.exit = "absent"
               /\ script.at \notin {"rm", "fork"}
               /\ IF script.at = "pid" THEN script.pid = p ELSE files.pid = p

\* An open exit file belongs to a job that is about to write its code.
ExitFile ==
  /\ files.exit = "empty" => outcome \in Codes /\ \E p \in Pids : procs[p].kind = "closing"
  /\ script.at = "fork" => files.exit = "absent"

ScriptKnows == script.at \in {"pid", "start"} => script.pid \in Pids

IInv == TypeOK /\ OneJob /\ TheJob /\ ExitFile /\ ScriptKnows

-----------------------------------------------------------------------------

LEMMA Numbers == 0 .. MaxStarts \subseteq Nat /\ 0 \in 0 .. MaxStarts
                 /\ 0 .. Attempts \subseteq Nat /\ 0 \in 0 .. Attempts /\ 1 \in 0 .. Attempts
                 /\ 0 \in 0 .. MaxLaunches /\ None \notin Pids
BY RunnerAssumption DEF None

\* Nothing runs at first.
LEMMA InitIInv == Init => IInv
<1> SUFFICES ASSUME Init PROVE IInv
  OBVIOUS
<1>1. procs \in [Pids -> Process]
  BY Numbers DEF Init, Process, NoProcess, None
<1>2. TypeOK
  BY <1>1, Numbers DEF Init, TypeOK, Codes, None
<1> QED
  BY <1>1, <1>2 DEF Init, IInv, OneJob, TheJob, ExitFile, ScriptKnows, Runs, NoProcess

\* The end of the one job leaves none.
LEMMA JobEndsKeeps ==
  ASSUME IInv, NEW p \in Pids, JobEnds(p)
  PROVE  IInv'
BY DEF JobEnds, IInv, TypeOK, OneJob, TheJob, ExitFile, ScriptKnows, Runs, Process, Codes

LEMMA JobClosesKeeps ==
  ASSUME IInv, NEW p \in Pids, JobCloses(p)
  PROVE  IInv'
BY Numbers DEF JobCloses, IInv, TypeOK, OneJob, TheJob, ExitFile, ScriptKnows, Runs, Process,
  Codes, NoProcess, None

LEMMA JobKilledKeeps ==
  ASSUME IInv, NEW p \in Pids, JobKilled(p)
  PROVE  IInv'
BY Numbers DEF JobKilled, IInv, TypeOK, OneJob, TheJob, ExitFile, ScriptKnows, Runs, Process,
  Codes, NoProcess, None

LEMMA OtherProcessKeeps ==
  ASSUME IInv, NEW p \in Pids, OtherProcess(p)
  PROVE  IInv'
BY Numbers, RunnerAssumption DEF OtherProcess, IInv, TypeOK, OneJob, TheJob, ExitFile,
  ScriptKnows, Runs, Process, ProcessOf, Codes, NoProcess, None

LEMMA ScriptTestKeeps ==
  ASSUME IInv, ScriptTest
  PROVE  IInv'
<1>1. CASE StillRunning
  <2>1. TypeOK'
    BY <1>1, Numbers DEF ScriptTest, remote, IInv, TypeOK
  <2> QED
    BY <1>1, <2>1 DEF ScriptTest, remote, IInv, OneJob, TheJob, ExitFile, ScriptKnows, Runs
<1>2. CASE ~StillRunning
  <2>1. TypeOK'
    BY <1>2, Numbers DEF ScriptTest, Goto, remote, IInv, TypeOK
  <2>2. script' = [script EXCEPT !.at = "rm"] /\ UNCHANGED <<procs, files, outcome>>
    BY <1>2 DEF ScriptTest, Goto, remote
  <2>3. \A p \in Pids : ~Runs(p)
    BY <1>2, Numbers DEF ScriptTest, StillRunning, Alive, IInv, TheJob, Runs, None
  <2> QED
    BY <2>1, <2>2, <2>3 DEF ScriptTest, IInv, TypeOK, OneJob, TheJob, ExitFile, ScriptKnows, Runs
<1> QED
  BY <1>1, <1>2

LEMMA ScriptRmKeeps ==
  ASSUME IInv, ScriptRm
  PROVE  IInv'
BY Numbers DEF ScriptRm, RemovedExit, Goto, IInv, TypeOK, OneJob, TheJob, ExitFile,
  ScriptKnows, Runs, Process, Codes, None

LEMMA ScriptForkKeeps ==
  ASSUME IInv, ScriptFork
  PROVE  IInv'
BY Numbers, RunnerAssumption DEF ScriptFork, Alive, IInv, TypeOK, OneJob, TheJob, ExitFile,
  ScriptKnows, Runs, Process, ProcessOf, Codes, None

LEMMA ScriptPidKeeps ==
  ASSUME IInv, ScriptPid
  PROVE  IInv'
BY Numbers DEF ScriptPid, Goto, IInv, TypeOK, OneJob, TheJob, ExitFile, ScriptKnows, Runs,
  Process, Codes, None

LEMMA ScriptStartKeeps ==
  ASSUME IInv, ScriptStart
  PROVE  IInv'
<1>1. script.pid \in Pids /\ procs[script.pid].start \in 0 .. MaxStarts
  BY DEF ScriptStart, IInv, TypeOK, ScriptKnows, Process
<1>2. TypeOK'
  BY <1>1 DEF ScriptStart, IInv, TypeOK
<1> QED
  BY <1>1, <1>2 DEF ScriptStart, IInv, TypeOK, OneJob, TheJob, ExitFile, ScriptKnows, Runs

LEMMA LaunchKeeps ==
  ASSUME IInv, Launch
  PROVE  IInv'
BY Numbers, RunnerAssumption DEF Launch, Goto, JobPids, IInv, TypeOK, OneJob, TheJob,
  ExitFile, ScriptKnows, Runs, Process, Codes, None

LEMMA LaunchedKeeps ==
  ASSUME IInv, Launched
  PROVE  IInv'
<1>1. TypeOK'
  BY DEF Launched, Goto, remote, IInv, TypeOK
<1> QED
  BY <1>1 DEF Launched, Goto, remote, IInv, TypeOK, OneJob, TheJob, ExitFile, ScriptKnows, Runs

LEMMA NoAnswerKeeps ==
  ASSUME IInv, NoAnswer
  PROVE  IInv'
<1>1. TypeOK'
  <2>1. CASE MoreAttempts /\ client' = [client EXCEPT !.attempt = @ + 1] /\ Goto("test")
    BY <2>1, RunnerAssumption DEF NoAnswer, MoreAttempts, Goto, remote, IInv, TypeOK
  <2>2. CASE /\ client' = [client EXCEPT !.at = "over", !.verdict = "failed"]
             /\ Goto("ended")
    BY <2>2 DEF NoAnswer, Goto, remote, IInv, TypeOK
  <2> QED
    BY <2>1, <2>2 DEF NoAnswer
<1> QED
  BY <1>1 DEF NoAnswer, Goto, remote, IInv, TypeOK, OneJob, TheJob, ExitFile, ScriptKnows, Runs

\* A probe changes nothing on the pod.
LEMMA ProbeKeeps ==
  ASSUME IInv, ProbeSteps \/ ProbeLost
  PROVE  IInv'
<1>1. UNCHANGED <<procs, files, outcome, script, mistaken, launches, starts>>
  BY DEF ProbeSteps, BeginProbe, ProbeLook, ProbeCat, ProbeKill, ProbeStart, ProbeLost, remote
<1>2. /\ probe' \in {"none", "look", "cat", "kill", "start"}
      /\ \/ UNCHANGED client
         \/ SeenGone \/ SeenRunning
         \/ \E code \in Codes : Conclude(code)
  BY DEF ProbeSteps, BeginProbe, ProbeLook, ProbeCat, ProbeKill, ProbeStart, ProbeLost
<1>3. client' \in [at : {"new", "launching", "watching", "over"}, attempt : 0 .. Attempts,
                   pid : Pids \cup {None}, start : 0 .. MaxStarts, idle : BOOLEAN,
                   verdict : {"none", "failed", "vanished"} \cup Codes]
  <2>1. CASE UNCHANGED client
    BY <2>1 DEF IInv, TypeOK
  <2>2. CASE \E verdict \in {"vanished"} \cup Codes : Conclude(verdict)
    BY <2>2, Numbers DEF Conclude, IInv, TypeOK, None
  <2>3. CASE \E b \in BOOLEAN : client' = [client EXCEPT !.idle = b]
    BY <2>3 DEF IInv, TypeOK
  <2> QED
    BY <1>2, <2>1, <2>2, <2>3 DEF SeenGone, SeenRunning
<1>4. TypeOK'
  BY <1>1, <1>2, <1>3 DEF IInv, TypeOK
<1> QED
  BY <1>1, <1>4 DEF IInv, OneJob, TheJob, ExitFile, ScriptKnows, Runs

-----------------------------------------------------------------------------

\* The invariant that the theorems rest on.
THEOREM RunnerInvariant == Spec => []IInv
<1>1. Init => IInv
  BY InitIInv
<1>2. IInv /\ [Next]_vars => IInv'
  <2> SUFFICES ASSUME IInv, [Next]_vars PROVE IInv'
    OBVIOUS
  <2>1. CASE UNCHANGED vars
    BY <2>1 DEF vars, remote, IInv, TypeOK, OneJob, TheJob, ExitFile, ScriptKnows, Runs
  <2>2. ASSUME NEW p \in Pids, JobEnds(p) \/ JobCloses(p) \/ JobKilled(p) \/ OtherProcess(p)
        PROVE  IInv'
    BY <2>2, JobEndsKeeps, JobClosesKeeps, JobKilledKeeps, OtherProcessKeeps
  <2>3. CASE ScriptSteps
    BY <2>3, ScriptTestKeeps, ScriptRmKeeps, ScriptForkKeeps, ScriptPidKeeps, ScriptStartKeeps
    DEF ScriptSteps
  <2>4. CASE Launch \/ Launched \/ NoAnswer
    BY <2>4, LaunchKeeps, LaunchedKeeps, NoAnswerKeeps
  <2>5. CASE ProbeSteps \/ ProbeLost
    BY <2>5, ProbeKeeps
  <2>6. CASE Done
    BY <2>1, <2>6 DEF Done
  <2> QED
    BY <2>1, <2>2, <2>3, <2>4, <2>5, <2>6 DEF Next
<1> QED
  BY <1>1, <1>2, PTL DEF Spec

\* Files, scripts, probes and verdicts keep their types, for any pids and bounds.
THEOREM RunnerTypeCorrect == Spec => []TypeOK
<1>1. IInv => TypeOK
  BY DEF IInv
<1> QED
  BY <1>1, RunnerInvariant, PTL

\* The launch script never starts the job's command while an earlier launch of it runs
\* (runner.py:91-103).
THEOREM OneCopyRuns == Spec => []OneCopy
<1>1. IInv => OneCopy
  <2> SUFFICES ASSUME IInv PROVE OneCopy
    OBVIOUS
  <2> DEFINE J == {p \in Pids : procs[p].kind = "job"}
  <2>1. CASE J = {}
    <3>1. Cardinality({}) = 0
      BY FS_EmptySet
    <3> QED
      BY <2>1, <3>1 DEF OneCopy
  <2>2. ASSUME NEW p \in J PROVE OneCopy
    <3>1. J = {p}
      BY <2>2 DEF IInv, OneJob, Runs
    <3>2. Cardinality({p}) = 1
      BY FS_Singleton
    <3> QED
      BY <3>1, <3>2 DEF OneCopy
  <2> QED
    BY <2>1, <2>2
<1> QED
  BY <1>1, RunnerInvariant, PTL

-----------------------------------------------------------------------------
(* The verdict.                                                             *)

ClosingJobs == {p \in Pids : procs[p].kind = "closing"}

\* No script works any more on a job that is watched or judged, and only a job that
\* is watched is probed.
AtRest ==
  /\ client.at = "watching" => script.at = "ended"
  /\ client.at = "over" /\ client.verdict # "failed" => script.at = "ended"
  /\ client.at = "launching" => ~client.idle
  /\ probe # "none" => client.at = "watching"
  /\ probe = "cat" => files.exit # "absent"

\* The latest process runs as long as its outcome is open, and is known to a launch
\* that has begun to write its pid.
LatestRuns ==
  /\ outcome = "runs" <=> \E p \in Pids : Runs(p)
  /\ script.at \in {"pid", "start"} => outcome # "none"
  /\ script.at = "start" => files.pid = script.pid
  /\ (script.at = "answer" \/ client.at = "watching") /\ ~mistaken => outcome # "none"

\* An exit code is that of the latest process, and goes to the file.
CodeInFile ==
  /\ files.exit \in Codes => \/ files.exit = outcome
                             \/ script.at \in {"test", "rm"}
                             \/ client.at = "over" /\ client.verdict = "failed"
  /\ outcome \in Codes => \/ files.exit = outcome
                          \/ files.exit = "empty" /\ ClosingJobs # {}
                          \/ script.at = "fork"
  /\ files.pid \in ClosingJobs /\ script.at \notin {"fork", "pid"} => files.exit # "absent"
  /\ script.at = "pid" /\ script.pid \in ClosingJobs => files.exit # "absent"

\* The files, the script's answer and the orchestrator name the process that runs.
Named ==
  \A p \in Pids :
    Runs(p) =>
      /\ script.at \notin {"pid", "start"} => files.start = procs[p].start
      /\ script.at = "answer" => script.pid = p /\ script.start = procs[p].start
      /\ client.at = "watching" => client.pid = p /\ client.start = procs[p].start

\* The idle timer runs only when the process has ended, and a probe that begins then
\* finds its exit code.
IdleAfterEnd ==
  client.at = "watching" /\ client.idle =>
    /\ outcome # "runs"
    /\ probe # "none" /\ outcome \in Codes => files.exit = outcome /\ probe \in {"look", "cat"}

VInv == AtRest /\ LatestRuns /\ CodeInFile /\ Named /\ IdleAfterEnd /\ VerdictIsTrue

LEMMA InitVInv == Init => VInv
BY DEF Init, VInv, AtRest, LatestRuns, CodeInFile, Named, IdleAfterEnd, VerdictIsTrue, Runs,
  NoProcess, ClosingJobs, Codes, None

\* The one job ends: its outcome is settled, and its exit file is open.
LEMMA JobEndsVerdict ==
  ASSUME IInv, VInv, NEW p \in Pids, JobEnds(p)
  PROVE  VInv'
<1>1. /\ Runs(p) /\ outcome = "runs" /\ outcome' \in Codes /\ files'.exit = "empty"
      /\ files'.pid = files.pid /\ files'.start = files.start
      /\ p \in ClosingJobs' /\ UNCHANGED <<script, client, probe, mistaken>>
  BY DEF JobEnds, IInv, TypeOK, VInv, LatestRuns, Runs, ClosingJobs, Process
<1>2. \A q \in Pids : ~Runs(q)'
  BY <1>1 DEF JobEnds, IInv, TypeOK, OneJob, Runs, Process
<1>3. client.at # "watching" \/ ~client.idle
  BY <1>1 DEF VInv, IdleAfterEnd
<1>4. AtRest'
  BY <1>1 DEF VInv, AtRest
<1>5. LatestRuns'
  BY <1>1, <1>2 DEF VInv, LatestRuns, Codes
<1>6. CodeInFile'
  BY <1>1 DEF VInv, CodeInFile, Codes
<1>7. Named' /\ IdleAfterEnd'
  BY <1>1, <1>2, <1>3 DEF Named, IdleAfterEnd
<1>8. VerdictIsTrue'
  BY <1>1 DEF VInv, VerdictIsTrue, Codes
<1> QED
  BY <1>4, <1>5, <1>6, <1>7, <1>8 DEF VInv

\* Its code reaches the file.
LEMMA JobClosesVerdict ==
  ASSUME IInv, VInv, NEW p \in Pids, JobCloses(p)
  PROVE  VInv'
<1>1. /\ files'.exit = (IF files.exit = "empty" THEN outcome ELSE files.exit)
      /\ files'.pid = files.pid /\ files'.start = files.start
      /\ UNCHANGED <<outcome, script, client, probe, mistaken>>
  BY DEF JobCloses, IInv, TypeOK
<1>2. /\ \A q \in Pids : Runs(q)' <=> Runs(q)
      /\ \A q \in Pids : Runs(q) => procs'[q] = procs[q]
      /\ ClosingJobs' = ClosingJobs \ {p}
  BY DEF JobCloses, IInv, TypeOK, Runs, ClosingJobs, NoProcess
<1>3. files.exit = "empty" => outcome \in Codes
  BY DEF IInv, ExitFile
<1>4. AtRest'
  BY <1>1, <1>3 DEF VInv, AtRest, Codes
<1>5. LatestRuns'
  BY <1>1, <1>2 DEF VInv, LatestRuns
<1>6. CodeInFile'
  BY <1>1, <1>2, <1>3 DEF VInv, CodeInFile, Codes
<1>7. Named'
  BY <1>1, <1>2 DEF VInv, Named
<1>8. IdleAfterEnd' /\ VerdictIsTrue'
  BY <1>1, <1>3 DEF VInv, IdleAfterEnd, VerdictIsTrue, Codes
<1> QED
  BY <1>4, <1>5, <1>6, <1>7, <1>8 DEF VInv

\* The one job is killed.
LEMMA JobKilledVerdict ==
  ASSUME IInv, VInv, NEW p \in Pids, JobKilled(p)
  PROVE  VInv'
<1>1. /\ Runs(p) /\ outcome = "runs" /\ outcome' = "vanished"
      /\ UNCHANGED <<files, script, client, probe, mistaken>>
  BY DEF JobKilled, VInv, LatestRuns, Runs
<1>2. (\A q \in Pids : ~Runs(q)') /\ ClosingJobs' = ClosingJobs
  BY <1>1 DEF JobKilled, IInv, TypeOK, OneJob, Runs, NoProcess, ClosingJobs
<1>3. client.at # "watching" \/ ~client.idle
  BY <1>1 DEF VInv, IdleAfterEnd
<1>4. files.exit = "absent"
  BY <1>1 DEF IInv, TheJob
<1>5. AtRest' /\ LatestRuns'
  BY <1>1, <1>2 DEF VInv, AtRest, LatestRuns
<1>6. CodeInFile'
  BY <1>1, <1>2, <1>4 DEF VInv, CodeInFile, Codes
<1>7. Named' /\ IdleAfterEnd'
  BY <1>1, <1>2, <1>3 DEF Named, IdleAfterEnd
<1>8. VerdictIsTrue'
  BY <1>1 DEF VInv, VerdictIsTrue, Codes
<1> QED
  BY <1>5, <1>6, <1>7, <1>8 DEF VInv

\* Processes of others come and go.
LEMMA OtherProcessVerdict ==
  ASSUME IInv, VInv, NEW p \in Pids, OtherProcess(p)
  PROVE  VInv'
<1>1. UNCHANGED <<files, outcome, script, client, probe, mistaken>>
  BY DEF OtherProcess
<1>2. /\ \A q \in Pids : Runs(q)' <=> Runs(q)
      /\ \A q \in Pids : Runs(q) => procs'[q] = procs[q]
      /\ ClosingJobs' = ClosingJobs
  BY DEF OtherProcess, ProcessOf, IInv, TypeOK, Runs, NoProcess, ClosingJobs
<1>3. AtRest' /\ LatestRuns' /\ CodeInFile'
  BY <1>1, <1>2 DEF VInv, AtRest, LatestRuns, CodeInFile
<1>4. Named'
  BY <1>1, <1>2 DEF VInv, Named
<1> QED
  BY <1>1, <1>3, <1>4 DEF VInv, IdleAfterEnd, VerdictIsTrue

\* The test finds the job running, or goes on.
LEMMA ScriptTestVerdict ==
  ASSUME IInv, VInv, ScriptTest
  PROVE  VInv'
<1>1. script.at = "test" /\ UNCHANGED <<procs, files, outcome, client, probe>>
  BY DEF ScriptTest, remote
<1>2. /\ client.at # "watching" /\ probe = "none"
      /\ client.at = "over" => client.verdict = "failed"
  BY <1>1 DEF VInv, AtRest
<1>3. IdleAfterEnd' /\ VerdictIsTrue'
  BY <1>1, <1>2 DEF IdleAfterEnd, VerdictIsTrue, Codes
<1>4. CASE StillRunning
  <2>1. /\ script' = [at |-> "answer", pid |-> files.pid, start |-> files.start]
        /\ mistaken' = (mistaken \/ procs[files.pid].kind = "other")
        /\ files.pid \in Pids /\ files.exit = "absent" /\ procs[files.pid].kind # "none"
    BY <1>4 DEF ScriptTest, StillRunning, Alive, IInv, TypeOK
  <2>2. procs[files.pid].kind # "closing"
    BY <1>1, <2>1 DEF VInv, CodeInFile, ClosingJobs
  <2>3. ~mistaken' => outcome = "runs"
    BY <2>1, <2>2 DEF IInv, TypeOK, Process, VInv, LatestRuns, Runs
  <2>4. AtRest' /\ LatestRuns'
    BY <1>1, <1>2, <2>1, <2>3 DEF VInv, AtRest, LatestRuns, Runs
  <2>5. CodeInFile'
    BY <1>1, <2>1 DEF VInv, CodeInFile, ClosingJobs, Codes
  <2>6. Named'
    BY <1>1, <1>2, <2>1 DEF VInv, Named, IInv, TheJob, Runs
  <2> QED
    BY <1>3, <2>4, <2>5, <2>6 DEF VInv
<1>5. CASE ~StillRunning
  <2>1. script' = [script EXCEPT !.at = "rm"] /\ mistaken' = mistaken
    BY <1>5 DEF ScriptTest, Goto
  <2>2. AtRest' /\ LatestRuns'
    BY <1>1, <1>2, <2>1 DEF IInv, TypeOK, VInv, AtRest, LatestRuns, Runs
  <2>3. CodeInFile' /\ Named'
    BY <1>1, <1>2, <2>1 DEF IInv, TypeOK, VInv, CodeInFile, Named, ClosingJobs, Runs
  <2> QED
    BY <1>3, <2>2, <2>3 DEF VInv
<1> QED
  BY <1>4, <1>5

\* The exit file of an earlier launch goes before the job starts.
LEMMA ScriptRmVerdict ==
  ASSUME IInv, VInv, ScriptRm
  PROVE  VInv'
<1>1. /\ script.at = "rm" /\ script' = [script EXCEPT !.at = "fork"]
      /\ files'.exit = "absent" /\ files'.pid = files.pid /\ files'.start = files.start
      /\ UNCHANGED <<procs, outcome, client, probe, mistaken>>
  BY DEF ScriptRm, RemovedExit, Goto, IInv, TypeOK
<1>2. script'.at = "fork"
  BY <1>1 DEF IInv, TypeOK
<1>3. /\ client.at # "watching" /\ probe = "none"
      /\ client.at = "over" => client.verdict = "failed"
  BY <1>1 DEF VInv, AtRest
<1>4. \A p \in Pids : ~Runs(p)
  BY <1>1 DEF IInv, TheJob
<1>5. AtRest' /\ LatestRuns'
  BY <1>1, <1>2, <1>3 DEF VInv, AtRest, LatestRuns, Runs
<1>6. CodeInFile' /\ Named'
  BY <1>1, <1>2, <1>4 DEF CodeInFile, Named, Runs, Codes
<1>7. IdleAfterEnd' /\ VerdictIsTrue'
  BY <1>1, <1>3 DEF IdleAfterEnd, VerdictIsTrue, Codes
<1> QED
  BY <1>5, <1>6, <1>7 DEF VInv

\* A new process becomes the latest one.
LEMMA ScriptForkVerdict ==
  ASSUME IInv, VInv, ScriptFork
  PROVE  VInv'
<1>1. PICK p \in Pids : /\ ~Alive(p) /\ procs' = [procs EXCEPT ![p] = ProcessOf("job", starts + 1)]
                        /\ script' = [at |-> "pid", pid |-> p, start |-> None]
  BY DEF ScriptFork
<1>2. /\ script.at = "fork" /\ outcome' = "runs" /\ UNCHANGED <<files, client, probe, mistaken>>
  BY DEF ScriptFork
<1>3. /\ client.at # "watching" /\ probe = "none" /\ files.exit = "absent"
      /\ client.at = "over" => client.verdict = "failed"
  BY <1>2 DEF VInv, AtRest, IInv, ExitFile
<1>4. Runs(p)' /\ procs'[p].kind = "job"
  BY <1>1 DEF IInv, TypeOK, Runs, ProcessOf
<1>5. AtRest' /\ LatestRuns'
  BY <1>1, <1>2, <1>3, <1>4 DEF VInv, AtRest, LatestRuns
<1>6. CodeInFile' /\ Named'
  BY <1>1, <1>2, <1>3, <1>4 DEF CodeInFile, Named, ClosingJobs, Codes
<1>7. IdleAfterEnd' /\ VerdictIsTrue'
  BY <1>2, <1>3 DEF IdleAfterEnd, VerdictIsTrue, Codes
<1> QED
  BY <1>5, <1>6, <1>7 DEF VInv

\* Its pid is written ...
LEMMA ScriptPidVerdict ==
  ASSUME IInv, VInv, ScriptPid
  PROVE  VInv'
<1>1. /\ script.at = "pid" /\ script'.at = "start" /\ script'.pid = script.pid
      /\ files'.exit = files.exit /\ files'.pid = script.pid
      /\ UNCHANGED <<procs, outcome, client, probe, mistaken>>
  BY DEF ScriptPid, Goto, IInv, TypeOK
<1>2. /\ client.at # "watching" /\ probe = "none"
      /\ client.at = "over" => client.verdict = "failed"
  BY <1>1 DEF VInv, AtRest
<1>3. AtRest' /\ LatestRuns'
  BY <1>1, <1>2 DEF VInv, AtRest, LatestRuns, Runs
<1>4. CodeInFile' /\ Named'
  BY <1>1, <1>2 DEF VInv, CodeInFile, Named, ClosingJobs, Runs
<1>5. IdleAfterEnd' /\ VerdictIsTrue'
  BY <1>1, <1>2 DEF IdleAfterEnd, VerdictIsTrue, Codes
<1> QED
  BY <1>3, <1>4, <1>5 DEF VInv

\* ... and then its start time.
LEMMA ScriptStartVerdict ==
  ASSUME IInv, VInv, ScriptStart
  PROVE  VInv'
<1>1. /\ script.at = "start" /\ script'.at = "answer" /\ script'.pid = script.pid
      /\ script'.start = procs[script.pid].start
      /\ files'.exit = files.exit /\ files'.pid = files.pid
      /\ files'.start = procs[script.pid].start
      /\ mistaken => mistaken'
      /\ UNCHANGED <<procs, outcome, client, probe>>
  BY DEF ScriptStart, IInv, TypeOK
<1>2. /\ client.at # "watching" /\ probe = "none"
      /\ client.at = "over" => client.verdict = "failed"
  BY <1>1 DEF VInv, AtRest
<1>3. files.pid = script.pid /\ outcome # "none"
  BY <1>1 DEF VInv, LatestRuns
<1>4. AtRest' /\ LatestRuns'
  BY <1>1, <1>2, <1>3 DEF VInv, AtRest, LatestRuns, Runs
<1>5. \A p \in Pids : Runs(p) => script.pid = p
  BY <1>1, <1>3 DEF IInv, TheJob
<1>6. CodeInFile' /\ Named'
  BY <1>1, <1>2, <1>5 DEF VInv, CodeInFile, Named, ClosingJobs, Runs
<1>7. IdleAfterEnd' /\ VerdictIsTrue'
  BY <1>1, <1>2 DEF IdleAfterEnd, VerdictIsTrue, Codes
<1> QED
  BY <1>4, <1>6, <1>7 DEF VInv

\* A call of the launch begins.
LEMMA LaunchVerdict ==
  ASSUME IInv, VInv, Launch
  PROVE  VInv'
<1>1. /\ client.at \in {"new", "launching", "over"} /\ script.at \in {"ended", "answer"}
      /\ client'.at = "launching" /\ ~client'.idle /\ script'.at = "test"
      /\ UNCHANGED <<procs, files, probe, mistaken>>
  BY DEF Launch, Goto, IInv, TypeOK
<1>2. \/ outcome' = outcome
      \/ outcome' = "none" /\ \A p \in Pids : ~Runs(p) /\ p \notin ClosingJobs
  BY DEF Launch, JobPids, Runs, ClosingJobs
<1>3. probe = "none"
  BY <1>1 DEF VInv, AtRest
<1>4. AtRest' /\ LatestRuns'
  BY <1>1, <1>2, <1>3 DEF VInv, AtRest, LatestRuns, Runs
<1>5. CodeInFile' /\ Named'
  BY <1>1, <1>2 DEF VInv, CodeInFile, Named, ClosingJobs, Runs, Codes
<1>6. IdleAfterEnd' /\ VerdictIsTrue'
  BY <1>1 DEF IdleAfterEnd, VerdictIsTrue
<1> QED
  BY <1>4, <1>5, <1>6 DEF VInv

\* The answer arrives, and the job is watched under its pid and start time.
LEMMA LaunchedVerdict ==
  ASSUME IInv, VInv, Launched
  PROVE  VInv'
<1>1. /\ client.at = "launching" /\ script.at = "answer" /\ script'.at = "ended"
      /\ client'.at = "watching" /\ client'.pid = script.pid /\ client'.start = script.start
      /\ client'.idle = client.idle
      /\ UNCHANGED <<procs, files, outcome, probe, mistaken>>
  BY DEF Launched, Goto, remote, IInv, TypeOK
<1>2. probe = "none" /\ ~client.idle
  BY <1>1 DEF VInv, AtRest
<1>3. AtRest' /\ LatestRuns'
  BY <1>1, <1>2 DEF VInv, AtRest, LatestRuns, Runs
<1>4. CodeInFile' /\ Named'
  BY <1>1 DEF VInv, CodeInFile, Named, ClosingJobs, Runs
<1>5. IdleAfterEnd' /\ VerdictIsTrue'
  BY <1>1, <1>2 DEF IdleAfterEnd, VerdictIsTrue
<1> QED
  BY <1>3, <1>4, <1>5 DEF VInv

\* The connection is lost.
LEMMA NoAnswerVerdict ==
  ASSUME IInv, VInv, NoAnswer
  PROVE  VInv'
<1>1. /\ client.at = "launching" /\ script.at \in {"test", "answer"}
      /\ \/ client'.at = "launching" /\ script'.at = "test" /\ client'.idle = client.idle
         \/ client'.at = "over" /\ client'.verdict = "failed" /\ script'.at = "ended"
      /\ UNCHANGED <<procs, files, outcome, probe, mistaken>>
  BY DEF NoAnswer, Goto, remote, IInv, TypeOK
<1>2. probe = "none" /\ ~client.idle
  BY <1>1 DEF VInv, AtRest
<1>3. AtRest' /\ LatestRuns'
  BY <1>1, <1>2 DEF VInv, AtRest, LatestRuns, Runs
<1>4. CodeInFile' /\ Named'
  BY <1>1 DEF VInv, CodeInFile, Named, ClosingJobs, Runs
<1>5. IdleAfterEnd' /\ VerdictIsTrue'
  BY <1>1 DEF IdleAfterEnd, VerdictIsTrue, Codes
<1> QED
  BY <1>3, <1>4, <1>5 DEF VInv

\* A probe that sees the job running, or goes on.
LEMMA ProbeGoesOn ==
  ASSUME IInv, VInv, UNCHANGED <<procs, files, outcome, script, mistaken>>,
         client.at = "watching", client' = client \/ SeenRunning,
         probe' = "cat" => files.exit # "absent",
         client'.idle /\ probe' # "none" /\ outcome \in Codes
           => files.exit = outcome /\ probe' \in {"look", "cat"}
  PROVE  VInv'
<1>1. /\ client'.at = "watching" /\ client'.pid = client.pid /\ client'.start = client.start
      /\ client'.idle => client.idle
  BY DEF SeenRunning, IInv, TypeOK
<1>2. AtRest' /\ LatestRuns'
  BY <1>1 DEF VInv, AtRest, LatestRuns, Runs
<1>3. CodeInFile' /\ Named'
  BY <1>1 DEF VInv, CodeInFile, Named, ClosingJobs, Runs
<1>4. IdleAfterEnd' /\ VerdictIsTrue'
  BY <1>1 DEF VInv, IdleAfterEnd, VerdictIsTrue
<1> QED
  BY <1>2, <1>3, <1>4 DEF VInv

\* A probe that finds the process gone: the idle timer starts, or it runs out.
LEMMA ProbeFindsGone ==
  ASSUME IInv, VInv, UNCHANGED <<procs, files, outcome, script, mistaken>>,
         client.at = "watching", SeenGone, probe' = "none", outcome # "runs",
         client.idle => outcome \notin Codes
  PROVE  VInv'
<1>1. script.at = "ended" /\ (~mistaken => outcome # "none")
  BY DEF VInv, AtRest, LatestRuns
<1>2. \/ /\ client'.at = "watching" /\ client'.pid = client.pid /\ client'.start = client.start
      \/ client'.at = "over" /\ client'.verdict = "vanished" /\ client.idle
  BY DEF SeenGone, Conclude, IInv, TypeOK
<1>3. client'.at = "over" /\ ~mistaken => outcome = "vanished"
  BY <1>1, <1>2 DEF IInv, TypeOK
<1>4. AtRest' /\ LatestRuns'
  BY <1>1, <1>2 DEF VInv, AtRest, LatestRuns, Runs
<1>5. CodeInFile' /\ Named'
  BY <1>1, <1>2 DEF VInv, CodeInFile, Named, ClosingJobs, Runs
<1>6. IdleAfterEnd' /\ VerdictIsTrue'
  BY <1>2, <1>3 DEF IdleAfterEnd, VerdictIsTrue, Codes
<1> QED
  BY <1>4, <1>5, <1>6 DEF VInv

\* What the probes answer is true of the latest process.
LEMMA ProbeVerdict ==
  ASSUME IInv, VInv, ProbeSteps \/ ProbeLost
  PROVE  VInv'
<1>1. UNCHANGED <<procs, files, outcome, script, mistaken>>
  BY DEF ProbeSteps, BeginProbe, ProbeLook, ProbeCat, ProbeKill, ProbeStart, ProbeLost, remote
<1>2. client.at = "watching" /\ script.at = "ended"
  BY DEF ProbeSteps, BeginProbe, ProbeLook, ProbeCat, ProbeKill, ProbeStart, ProbeLost, VInv,
         AtRest
<1>3. CASE ProbeLost
  BY <1>1, <1>2, <1>3, ProbeGoesOn DEF ProbeLost
<1>4. CASE BeginProbe
  <2>1. /\ probe' = "look" /\ client' = client
        /\ outcome \in Codes => files.exit = outcome
    BY <1>2, <1>4 DEF BeginProbe, VInv, CodeInFile, ClosingJobs
  <2> QED
    BY <1>1, <1>2, <2>1, ProbeGoesOn
<1>5. CASE ProbeLook
  <2>1. /\ probe' = (IF files.exit = "absent" THEN "kill" ELSE "cat") /\ client' = client
        /\ client.idle /\ outcome \in Codes => files.exit = outcome
    BY <1>2, <1>5 DEF ProbeLook, VInv, IdleAfterEnd
  <2> QED
    BY <1>1, <1>2, <2>1, ProbeGoesOn DEF Codes
<1>6. CASE ProbeCat
  <2>1. probe = "cat" /\ probe' = "none" /\ files.exit # "absent"
    BY <1>6 DEF ProbeCat, VInv, AtRest
  <2>2. CASE files.exit \in Codes
    <3>1. files.exit = outcome
      BY <1>2, <2>2 DEF VInv, CodeInFile
    <3>2. client'.at = "over" /\ client'.verdict = outcome
      BY <1>6, <2>2, <3>1 DEF ProbeCat, Conclude, IInv, TypeOK
    <3>3. AtRest' /\ LatestRuns'
      BY <1>1, <1>2, <2>1, <3>2 DEF VInv, AtRest, LatestRuns, Runs
    <3>4. CodeInFile' /\ Named'
      BY <1>1, <1>2, <3>1, <3>2 DEF VInv, CodeInFile, Named, ClosingJobs, Runs
    <3>5. IdleAfterEnd' /\ VerdictIsTrue'
      BY <1>1, <2>2, <3>1, <3>2 DEF IdleAfterEnd, VerdictIsTrue, Codes
    <3> QED
      BY <3>3, <3>4, <3>5 DEF VInv
  <2>3. CASE files.exit \notin Codes
    <3>1. SeenGone
      BY <1>6, <2>3 DEF ProbeCat
    <3>2. outcome # "runs"
      BY <2>1 DEF VInv, LatestRuns, IInv, TheJob
    <3>3. client.idle => outcome \notin Codes
      BY <1>2, <2>1, <2>3 DEF VInv, IdleAfterEnd
    <3> QED
      BY <1>1, <1>2, <2>1, <3>1, <3>2, <3>3, ProbeFindsGone
  <2> QED
    BY <2>2, <2>3
<1>7. ASSUME ProbeKill \/ ProbeStart
      PROVE  client.idle => outcome \notin Codes
  BY <1>2, <1>7 DEF ProbeKill, ProbeStart, VInv, IdleAfterEnd
<1>8. CASE ProbeKill
  <2>1. CASE Alive(client.pid)
    BY <1>1, <1>2, <1>7, <1>8, <2>1, ProbeGoesOn DEF ProbeKill
  <2>2. CASE ~Alive(client.pid)
    <3>1. outcome # "runs"
      BY <1>2, <2>2, Numbers DEF Alive, VInv, LatestRuns, Named, Runs
    <3> QED
      BY <1>1, <1>2, <1>7, <1>8, <2>2, <3>1, ProbeFindsGone DEF ProbeKill
  <2> QED
    BY <2>1, <2>2
<1>9. CASE ProbeStart
  <2>1. CASE SameProcess(procs[client.pid].start)
    BY <1>1, <1>2, <1>9, <2>1, ProbeGoesOn DEF ProbeStart
  <2>2. CASE ~SameProcess(procs[client.pid].start)
    <3>1. outcome # "runs"
      BY <1>2, <2>2 DEF SameProcess, VInv, LatestRuns, Named
    <3> QED
      BY <1>1, <1>2, <1>7, <1>9, <2>2, <3>1, ProbeFindsGone DEF ProbeStart
  <2> QED
    BY <2>1, <2>2
<1> QED
  BY <1>3, <1>4, <1>5, <1>6, <1>8, <1>9 DEF ProbeSteps

\* The verdict on a job is what its latest process did, for any pids, bounds and
\* order of lost answers, ends, kills and processes of others (runner.py:158-208).
THEOREM VerdictsAreTrue == Spec => []VerdictIsTrue
<1>1. Init => VInv
  BY InitVInv
<1>2. IInv /\ VInv /\ [Next]_vars => VInv'
  <2> SUFFICES ASSUME IInv, VInv, [Next]_vars PROVE VInv'
    OBVIOUS
  <2>1. CASE UNCHANGED vars
    BY <2>1 DEF vars, remote, VInv, AtRest, LatestRuns, CodeInFile, Named, IdleAfterEnd,
                VerdictIsTrue, Runs, ClosingJobs
  <2>2. ASSUME NEW p \in Pids, JobEnds(p) \/ JobCloses(p) \/ JobKilled(p) \/ OtherProcess(p)
        PROVE  VInv'
    BY <2>2, JobEndsVerdict, JobClosesVerdict, JobKilledVerdict, OtherProcessVerdict
  <2>3. CASE ScriptSteps
    BY <2>3, ScriptTestVerdict, ScriptRmVerdict, ScriptForkVerdict, ScriptPidVerdict,
       ScriptStartVerdict DEF ScriptSteps
  <2>4. CASE Launch \/ Launched \/ NoAnswer
    BY <2>4, LaunchVerdict, LaunchedVerdict, NoAnswerVerdict
  <2>5. CASE ProbeSteps \/ ProbeLost
    BY <2>5, ProbeVerdict
  <2>6. CASE Done
    BY <2>1, <2>6 DEF Done
  <2> QED
    BY <2>1, <2>2, <2>3, <2>4, <2>5, <2>6 DEF Next
<1>3. VInv => VerdictIsTrue
  BY DEF VInv
<1> QED
  BY <1>1, <1>2, <1>3, RunnerInvariant, PTL DEF Spec
=============================================================================
