# cloud-conductor in TLA+

`conductor` rents GPU pods from a cloud provider, runs jobs on them, pulls their results and
releases the pods. A pod costs money for every minute it exists, so what matters is that no pod is
lost, that no results are lost with a pod, that jobs run in dependency order, and that a command
that was interrupted, crashed or killed can be started again. The modules here model the code that
has to get this right (`src/src/conductor/`), TLC checks them on small instances, and TLAPS proves
the safety properties for every instance.

Paths below are relative to `src/src/conductor/`.

## 1. The system

| Component | State it keeps | Operations | What makes it correct |
|---|---|---|---|
| Orchestrator (`monitor.py`) | the job table in memory, the shutdown flag, locals of the functions that run for a job | `run_lifecycle` and its loop, `reconcile_run_pods`, `_start_unblocked_jobs`, `_provision_deploy_launch`, `_tick_job`, `_spot_recover`, `_finish_job`, `_graceful_shutdown`, `_teardown_all`, `_handle_crash`, the SIGINT handler | dependency order; results pulled before the pod goes; every pod tracked until released; a run ends |
| Job table and state file (`state.py`) | `RunState` in memory and as JSON on disk | `save_state`, `load_state`, `init_state`, `reset_job_for_retry` | a restart reads a table that the run really had, and not an older one |
| Run ownership (`state.py`, `cli.py`, `Heartbeat`) | `heartbeat_at` in the state file | `run_is_live`, `_refuse_if_live`, `beat` | one orchestrator per state file |
| Provisioner (`provisioner.py`) | none of its own (retries over GPU candidates) | `provision_pod`, `provision_pod_direct`, `teardown_pod`, `check_pod_exists` | no pod is created and then dropped; "gone" only on the provider's word |
| Deployer (`deployer.py`) | files on the pod | `deploy` (rsync, `setup_command`) | a job starts on a pod with its code and its setup |
| Runner (`runner.py`) | pid, exit and script files on the pod | `launch_direct`, `is_alive` | one copy of a job per pod; a three-valued answer |
| Pod registry (`registry.py`) | `~/.conductor/pods.json` | `add_pod`, `update_pod`, `remove_pod`, `reconcile_with_provider` | updates of several processes are not lost; "terminated" is true |
| File lock (`filelock.py`) | an advisory lock | `locked` | exclusion; released when its holder dies |
| Cost log (`state.py`) | an append-only log | `append_cost_event`, `record_pod_stopped` | one stop per pod, after its release |
| Command line (`cli.py`) | none | `cmd_run`, `cmd_teardown`, `_apply_retry_flags`, the imperative pod commands | retries and partial runs leave the other jobs alone |
| Syncer (`syncer.py`) | files on the local disk | `sync_pull`, `sync_push` | says whether all results arrived |
| Validator (`validator.py`) | none | `_check_dependencies` (depth-first search) | rejects unknown and cyclic dependencies |
| Retry, SSH, shutdown flag (`retry.py`, `ssh.py`, `shutdown.py`) | one event | `retry`, `ssh_exec`, `wait_ssh`, `shutdown.wait` | bounded; interruptible by Ctrl-C |
| Providers (`providers/`) | HTTP | create, list, check, terminate | a three-valued `check_exists` |
| GPU pricing, configuration, notifications, errors, reporting | caches and text | | no state of the run |

How they interact. `cmd_run` loads the state file, refuses if its heartbeat is fresh, applies the
retry flags and calls `run_lifecycle`, which starts the heartbeat thread, matches the provider's
pods to the jobs by name (reconcile), starts the jobs whose dependencies completed (in parallel when
there are several, one pool thread each), and then loops: a tick over the active jobs, newly
unblocked jobs, a save, the budget. A pipeline provisions, deploys and launches; the id of a new pod
goes to the state file, the cost log and the registry in a callback before anything else is done
with the pod. Ctrl-C detaches (pods keep running) or tears down; a second Ctrl-C, or SIGKILL, ends
the process at once. The next `conductor run` starts from the state file and adds the jobs that it
does not have yet. The registry is shared with every other command of the user.

Behaviours that are hard:

* the process may end between any two steps, and the next one starts from an older table than the
  pods know (outcomes are only in memory until the tick's save);
* the provider may not answer, may answer late (a pod was created although the call failed), or may
  say "could not tell", which must be neither "gone" nor "exists";
* several pipelines, the main thread and the heartbeat thread share one table and one file;
* a job's pod may survive its job (`keep_pod_alive`, `sync_failed`, `keep_pod_on_failure`,
  unverified teardown), so reuse, retry and reconciliation meet pods of earlier runs;
* the loop ends only if every job reaches a final status.

`PROJECT.json` lists these hazards at their lines, with the properties aimed at them.

## 2. The modules

### JobTable

The table `RunState.jobs` as a function from jobs to records, and the pure operations on it:
`PropagateFailure` (the recursion of `_propagate_failure`, as a least fixed point), `SkipBlocked`
and `ReadyJobs` (the scan of `_start_unblocked_jobs`), `AllDone`, `Merge` (the jobs that a command
adds to an existing file; until then their status is "absent"), `ResetForRetry`, `ApplyRetryFlags`.
A `PodState` is reduced to what steers control: its status, its pod, whether `ssh_host`, `pid` and
`started_at` are set, `provision_attempts` and `gone_confirmations`.

### Lifecycle

One orchestrator at a time over several invocations, with the provider, the pods, the state file,
the registry and the cost log.

| State | In the code |
|---|---|
| `file`, `mem` | the job table on disk and in memory |
| `registry`, `events` | `pods.json` (status per pod), the cost log |
| `phase`, `cursor` | where the main thread is (`run_lifecycle`), and the job its current loop looks at |
| `cfgs`, `shut`, `insts` | `config_map` (`--jobs`), the SIGINT handler's dictionary, the instances still to be matched |
| `pc[j]` | the function that runs for job `j`: steps of `_pipeline`, `provision_pod_direct`, `_finish_job`, `_spot_recover`; "idle" if none |
| `reuse`, `adopt`, `newpod`, `pass`, `fin` | locals of those functions |
| `alive`, `owner`, `tried`, `remote` | the provider's pods, the job in each pod's name, the pods a terminate call was made for, the files and processes on each pod |
| `synced`, `known` | bookkeeping for the properties: jobs whose latest process had its results pulled, pods whose id was ever persisted |

An action is a stretch of code between two points where something else can happen: a call to the
provider or to SSH, a save, a lock. Each save point of the code (`Save`) is in the action that
reaches it, so a kill can fall between any two of them. `Kill` is enabled at every step of a
command. `Crash` is an exception that reaches `run_lifecycle`: the ticks and the pipelines catch
what their functions raise, so it comes between their steps, in every phase of the main thread
before its finally clause, and inside the `_finish_job` of a `_teardown_all`, which catches nothing.
The answers of provider, SSH, rsync and clock are choices. The unfavourable ones belong to a kind in
`Hazards` and use up one of `MaxHazards`, which bounds a behaviour without removing the combinations
of a few faults that make the interesting histories.

### PodRegistry, RegistryFile

`PodRegistry` is what the callers of `registry.py` rely on: each call takes effect at one instant
between its start and its return, or, if it raises, not at all. `RegistryFile` is the
implementation: wait for the lock, load, change the copy (or ask the provider about one record after
the other), replace the file, unlock, with exceptions, kills and pods that end meanwhile.
`NoLostUpdate` says that it implements `PodRegistry` (the registry is the file; a call is done once
the file is replaced).

### StateFile

The threads inside one run and the save itself: `save_state` reads the table job by job under
`_SAVE_LOCK` while the other threads go on assigning, then replaces the file, or fails. It opens up
what Lifecycle takes as one step (a snapshot of the whole table).

### Ownership

Who may work with a state file. `conductor run`, `sync` and `teardown` are started in `Terminals`,
each with or without `--force`; `file` and `copy[t]` are the ages of `heartbeat_at` on disk and in
the memory of the command in terminal `t`, and `step[t]` is what that command has done: passed its
check, become the owner (`Heartbeat.start`), or stopped its heartbeat. A timestamp is an age that
stops growing at `LiveWindow`, so neither time nor the number of commands is bounded. `Punctual` is
the scheduling of the heartbeat thread: it wakes up when its interval is over, whatever the main
thread waits for. `raced` records that two commands overlapped in a window that the code leaves open
(`state.py:79`: the test and the first beat are not atomic), or were forced.

### Supervision

One job against the clock: `accrue_cost`, `_mark_finished`, the job's and the global budget, the
idle and stall timers, the confirmations that the pod is gone, the backoff, over recoveries,
detached periods, retries and teardowns by hand. A pod costs one unit per unit of time. The steps of
a tick take no time; what waits in the code takes as long as it likes (`Advance`). `paid` is the
true cost of the pods, which the code does not know; `odd` records the histories in which its total
is not meant to reach it (a pod replaced within one attempt, a failed pipeline, a kept pod's second
pipeline, Ctrl-C between two pods). `Lifecycle` leaves all this to choices, and `Supervision` leaves
failing terminations and kills to `Lifecycle`.

### Runner

The launch script of `runner.py` command by command, the run script it starts, the three files on
the pod, the attempts of `ssh_exec` whose answers get lost before or after the script ran, and the
probe of `is_alive` with its parsing. Processes have pids and start times; other processes of the
pod take free pids. `outcome` is what the latest process of the job did, `mistaken` that a launch
reported another process (see below).

### PodCalls

The calls that create and terminate pods, by the pipeline of a run and by `conductor pod provision`
and `conductor pod teardown` of a second process: `create_instance`, `wait_for_ssh`, `wait_ssh` with
its count of rejected keys, `teardown_pod` with its rounds, its retries and its verification, and
what the callers make of the answers. Pods boot and go slowly, answers are lost before or after a
call takes effect, Ctrl-C comes at any time. `reported`, `lost`, `abandoned` and `assumed` say why a
pod may be without a record.

### Proof modules

`LifecycleInvariants` defines the inductive invariants, `LifecycleTypes` (with the lemmas about the
table operations) and `LifecycleSafety` have the theorems on Lifecycle, and `RegistryFileProofs`,
`StateFileProofs`, `OwnershipProofs`, `SupervisionProofs`, `RunnerProofs` and `PodCallsProofs` those
on the modules they are named after. `MCLifecycle` and `MCStateFile` hold the constants of the runs.

## 3. What TLC checks

### Properties that hold

| Run | Instance | Shows |
|---|---|---|
| `Lifecycle_faults` | a chain of two jobs, three pods, two commands, any three faults of every kind, kills and retry flags included (about 590 000 states) | `TypeOK`; no job refers to another job's pod (`OwnPodsOnly`); completed means synced; a stop event follows a release; blocked jobs are skipped between ticks; finished jobs stay finished in the file; a job without `keep_pod_alive` drops a pod only when it is gone or was asked to terminate; the registry writes off no existing pod that nobody tried to terminate |
| `Lifecycle_keepalive` | the same chain with `keep_pod_alive`, three commands, retries and manual teardowns, no SIGKILL (about 530 000 states) | no live pod whose id was persisted is forgotten by the state file and the registry at once |
| `Lifecycle_orderly` | three jobs, two of them started at once and the third after the first, four pods, two commands, any two faults; no kill, no retry flag, no `--jobs` (about 390 000 states) | dependencies complete first; no job without `keep_pod_alive` starts without code and setup; reconciliation spares tracked pods |
| `Lifecycle_ends` | one command under fairness, two faults (about 65 000 states) | a run ends, unless a pending job waits for one whose results could not be pulled |
| `RegistryFile_calls` | two processes, two pods, three calls (about 105 000 states) | calls are atomic; a reconciliation writes the truth; the lock is released whoever dies |
| `StateFile_saves` | three jobs, two of them in parallel, two beats, one failed save | the latest save wins; after the run the file holds the final table and no heartbeat |
| `Ownership_commands` | two terminals, any number of commands, kills and `--force` (about 50 000 states) | what a running orchestrator saved last reads as live; one command at a time unless two slip through a window; a dead run stops blocking others; an overwritten run is recognised again |
| `Supervision_clock` | one job with both values of `keep_pod_alive`, job budget 3, global budget 4, timers of 2, four units of time (about 7.1 million states, 2 minutes) | no time is charged twice; a finished job is charged in full; a tick keeps the pod within the job's budget; no timer ends a job early |
| `Runner_launches` | two pids, three launches of two attempts, four processes (about 109 000 states) | one copy runs at a time; the verdict is what the latest process did; the end of a watched job is noticed |
| `PodCalls_answers` | a run with two candidates and one command of another process, two pods (about 314 000 states) | a confirmed termination is true; every running pod whose id was answered is accounted for; every call returns |

`Lifecycle_keepalive` and `Lifecycle_orderly` leave some kinds of fault out because a property is
false with them (below). They state what the design achieves without those faults.

### Disagreements between the code and what the repository says

Each of these runs violates one property that quotes a document, and TLC's counterexample is the
history described. The details are under "findings" in `PROJECT.json`.

| Run | What happens |
|---|---|
| `Lifecycle_v_subset` | `conductor run --jobs a` terminates the running pod of job `b` as a stray |
| `Supervision_v_budget` | after a spot recovery `started_at` is the new pod's creation and `cost_usd` still the old pod's cost (`state.py:71`), so the new pod is free until it has cost as much, and the budgets are compared with too little |

More disagreements appear when a passing run is widened, by adding a kind to its `Hazards`, jobs to
its `KeepAlive` or a condition to its property. They have no run of their own, because their
histories need no other model:

* `DependenciesFirst` in `Lifecycle_orderly` with "kill": a kill after a dependent's pod was created
  and before the tick's save; the next run adopts that pod and moves the dependent on
  (`monitor.py:776` does not look at dependencies) while the file has its dependency still running.
* `DependenciesFirst` in `Lifecycle_orderly` with `KeepAlive` jobs and "retry", without any kill:
  `--retry-failed` resets a chain (`cli.py:458`), and the reconciliation re-adopts the kept pod of
  the dependent while its dependency is still to be re-run (`SPEC.md:589`).
* `SetupBeforeLaunch` in `Lifecycle_orderly` without its exception for `KeepAlive` jobs, with such
  jobs and a crash or a kill: `is_reuse` (`monitor.py:558`) is true of a job resumed before its
  `setup_command` ran, and deploy skips it, although the comment at `monitor.py:622` says that a
  resumed job re-runs setup.
* `SetupBeforeLaunch` in `Lifecycle_orderly` with "kill": `_spot_recover` clears the pod and the pid
  of a job that stays "running", a heartbeat saves that, the process is killed, and the next run
  adopts a pod of the job whose creation call had failed. A running job without a pid is launched by
  the next tick (`monitor.py:384`), with no deploy and no setup.
* A kill between the launch and its save: the next run deploys again, and `rsync --delete`
  (`deployer.py:88`) removes the pid file on which idempotent launching rests, so a second copy of
  the job starts beside the first, although `SPEC.md:436` calls launching idempotent.
* `NoForgottenPod` in `Lifecycle_keepalive` with "kill": a pod persisted but not registered when the
  process was killed is resumed with `registry_update`, which adds no record (`monitor.py:620`);
  once its job lets go of it, it is recorded nowhere.
* `NoForgottenPod` in `Lifecycle_faults` with six faults and four commands, without any kept pod:
  such an unregistered pod is resumed, does not answer SSH, and the process is killed again before
  the failed pipeline's cleanup; `--retry-failed --retry-completed` makes its job pending with the
  pod; a dependency fails this time and the job is skipped; the next `--retry-failed` resets a
  skipped job without its pod (`cli.py:458`), which is then recorded nowhere (it is found by its
  name if the provider can list its instances).
* `TrackedUntilReleased` in `Lifecycle_faults` without its exception for `KeepAlive` jobs, with such
  jobs: the answer "could not tell" makes `provision_pod` drop a kept pod and create another
  (`provisioner.py:133`; `CHANGELOG.md:35` says that an error is not taken for "gone").
* `RunEndsUnlessWaiting` in `Lifecycle_ends` with "kill" and two commands: a job persisted as
  running without a pod id keeps the next run looping for ever (`monitor.py:384`;
  `CHANGELOG.md:36`).
* `StateFile`, if the process may be killed after any save: a heartbeat's snapshot, taken job by job
  (`state.py:133`), can hold a dependency from before its failure and its dependent from after, and
  the next run runs the dependency and leaves the dependent skipped for no reason (`README.md:175`).
* `VerdictIsTrue` in `Runner_launches` without its exception `mistaken`: the launch
  script's `kill -0` (`runner.py:94`) does not compare start times, so a foreign process that got
  the pid of an earlier launch is reported as the job, which is later completed by the idle timer
  without having started (`SPEC.md:553`).
* `NeverCountsTwice` in `Supervision_clock` without its exception: after Ctrl-C between two pods the
  next run charges the time away, although `state.py:62-64` says that nothing accrues past the
  release.
* `VerdictIsEarned` there without "replaced": `idle_since` and `stalled_since` survive a recovery
  (`monitor.py:366`), so the new pod may be given up on its first quiet tick.
* `OneCommandAtATime` in `Ownership_commands` without `raced`: two starters both find no live
  heartbeat; and `cmd_sync` asks its own old copy before it saves (`cli.py:575-577`, whose comment
  says "never clobber a live run's state"), so it does overwrite a run that began meanwhile.
* `EveryPodIsAccounted` in `PodCalls_answers` without `abandoned` and `assumed`: `cmd_pod_provision`
  passes no `on_created` (`cli.py:962-972`), so Ctrl-C leaves a pod that is recorded nowhere,
  against `provisioner.py:40-43`; and `cmd_pod_teardown` ignores what `teardown_pod` answers
  (`cli.py:1061`, `cli.py:1079`), against `provisioner.py:285-286`.

Visible in the actions: the exception path of a pipeline records a teardown as "terminated" whatever
`teardown_pod` returned (`monitor.py:537`), so `TerminatedMeansTried` says "tried" and not "gone". A
pod found for a finished job whose own pod is gone is adopted by it instead of terminated
(`monitor.py:786`), after which nothing monitors it. After Ctrl-C during a release the next
candidate is still created (`README.md:142`). A job that ends within the retry of a launch whose
answer was lost is run twice.

### Bounds

Two jobs in a chain are the least with an order to keep, a propagation and a second pod to confuse;
`Lifecycle_orderly` adds a third job so that two pipelines run at once. The third pod (there the
fourth) is the one created when an answer was lost or a pod replaced. The counterexamples found need
no more than three faults, but for one that needs six (`NoForgottenPod` with retries). The runs on
the chain allow three; the run with parallel pipelines, which has no retries, allows two. Two
commands are a run and its resumption; `keep_pod_alive` needs a third for a retry of a retry.
`MaxAttempts = 2` lets a job be provisioned, lost, recovered and given up; `Confirmations = 2`
separates one answer "gone" from enough of them. The registry needs two processes and two records
for a lost update; three calls give each a second one. The state file needs a dependency, its
dependent and an independent job so that two pipelines save at once. Pods are symmetric; symmetry is
not used with liveness.

`Ownership` counts in half intervals: 2 for the 15 s between two beats and 7 for the 60 s window,
rounded down, so that a window that is not a multiple of the interval is tried, and two beats in a
row may be lost. Two terminals suffice for every overlap of two commands, and ages saturate, so the
run covers behaviours of any length. In `Supervision` four units of time let a pod be created,
reclaimed and replaced with the timers (2) still able to run out, or a job be retried after its
budget (3) was used up; the violation needs five. `Runner` needs two pids for a reused one, three
launches for a retry whose answer is lost after an earlier run, and four processes for three
launches and a stranger. `PodCalls` needs two candidates for a release followed by another pod, and
two attempts, rounds, polls and rejections to tell the last of each from the others. The theorems of
section 4 do without these bounds.

### Fairness

`FairSpec` asks that the main thread and each function running for a job go on while the process
lives (Python threads that wait only for calls with time limits), that a started job ends some day,
and, strongly, that the idle timeout of a job that stays idle is seen by a tick: the loop comes back
every 30 seconds and the timer is compared with the clock each time. Commands, signals, crashes and
failures are never forced. `LockIsReleased` asks the same of a process inside the locked region: it
waits only for provider requests, which have timeouts. In `Ownership` the clock goes on and the
heartbeat thread, a daemon thread that does nothing but wait and save, is scheduled (`WF` of `Tick`
and `Beat`). In `Runner` a tick probes the job again and again and some probes get through to each
of their commands (`SF`), the idle timer of a job that stays silent runs out, and a run script that
has opened the exit file writes the code (`WF`). In `PodCalls` a process goes on with its call
(`WF`): its waits are sleeps and requests with time limits; pods need not boot or go. `Supervision`
has safety properties only.

TLC's deadlock check is on: a state in which the orchestrator could not go on would be reported. The
states where nothing more can happen, `Rest` (no command is running and the bound on commands is
reached) and `Over` (the process has ended), stutter. Only `RegistryFile_calls` and
`PodCalls_answers` turn the check off, because they end when their calls and commands are used up.

## 4. What TLAPS proves

All theorems hold for every number of jobs, every acyclic dependency relation, every set of pods and
all bounds, and so for runs of any length. They state every safety property of the passing runs.
Five of them leave something out by a hypothesis on `Hazards` or `KeepAlive`, the third column (all
but `NoPodForgottenInKills` what the run of the property leaves out): with it TLC finds the property
violated (section 3), so the hypothesis is a statement about the code and not about the prover.

| Theorem | Says | Without |
|---|---|---|
| `LifecycleTypes!TypeCorrect` | `Spec => []TypeOK` | |
| `LifecycleTypes!StepsHavePods` | a function that works on the pod of its job finds one: no call is made for the pod id None | |
| `LifecycleSafety!OwnPods` | `OwnPodsOnly` | |
| `LifecycleSafety!CompletedSynced` | `CompletedMeansSynced` | |
| `LifecycleSafety!ReleaseInvariance`, `StoppedReleased`, `TerminatedTried` | `ReleaseInv`, and with it `StoppedMeansReleased` and `TerminatedMeansTried` | |
| `LifecycleSafety!TrackedReleased` | `TrackedUntilReleased` | |
| `LifecycleSafety!StatusInvariance`, `BlockedSkipped`, `FinishedStays` | `StatusInv`, and with it `BlockedJobsAreSkipped` and `FinishedStaysFinished` | |
| `LifecycleSafety!ReconcileSpares` | `ReconcileSparesTracked` | `--jobs` |
| `LifecycleSafety!NoPodForgotten` | `NoForgottenPod` | kills |
| `LifecycleSafety!NoPodForgottenInKills` | `NoForgottenPod` | `keep_pod_alive`, retry flags |
| `LifecycleSafety!LaunchedAfterSetup` | `SetupBeforeLaunch` | kills |
| `LifecycleSafety!DependenciesCompleteFirst` | `DependenciesFirst` | kills, retry flags |
| `RegistryFileProofs!RegistryIsAtomic` | `RegistryFile` implements `PodRegistry` | |
| `RegistryFileProofs!RegistryTypeCorrect`, `ReconciliationIsTrue` | `TypeOK` of `RegistryFile`, and `TerminatedOnlyWhenGone` | |
| `StateFileProofs!StateFileTypeCorrect`, `FileNeverGoesBack`, `FinalFile` | `TypeOK`, `LatestSaveWins` and `FinalFileIsTrue` of `StateFile` | |
| `OwnershipProofs!OwnershipTypeCorrect`, `RunningMeansLive`, `OneAtATime` | `TypeOK`, `OwnerReadsAsLive` and `OneCommandAtATime` of `Ownership` | |
| `SupervisionProofs!SupervisionTypeCorrect`, `NothingCountedTwice`, `TicksEnforceTheBudget` | `TypeOK`, `NeverCountsTwice` and `PodStaysInBudget` of `Supervision` | |
| `SupervisionProofs!BalanceInvariant`, `TotalsAreTrue`, `VerdictsAreEarned` | `Exact`, and with it `TotalIsTruth`; `VerdictIsEarned` | |
| `RunnerProofs!RunnerTypeCorrect`, `OneCopyRuns`, `VerdictsAreTrue` | `TypeOK`, `OneCopy` and `VerdictIsTrue` of `Runner` | |
| `PodCallsProofs!PodCallsTypeCorrect`, `ConfirmationIsTrue`, `PodsAreAccounted` | `TypeOK`, `ConfirmedIsGone` and `EveryPodIsAccounted` of `PodCalls` | |

Assumptions: the named `ASSUME`s of the modules on their constants, which TLC evaluates in the runs.
The one with content is `OwnershipAssumption`: `Interval * (MaxFails + 1) < LiveWindow`, which the
defaults (15 s, 60 s) satisfy for two lost beats. A `poll_interval` of 7 s would not satisfy it
without lost beats.

*Types and steps.* `TypeOK` is not inductive: after an adoption a pipeline would write the pod id
None into the registry if it could stand at "adopt" for a job without a pod. `TypeInv` adds
`PodSteps` (at the steps in `HoldsPod` the job references a pod; at "created" there is a new id) and
`QuietPhases` (no function runs for a job while the main thread reconciles, leaves or is down),
which is why the steps that change the table at large cannot pull a pod from under a pipeline.

*Own pods.* The invariant is `OwnPodsOnly` with `TypeInv`. Every step moves pod ids only from the
job's own places (memory, file, the id just created), or gives it a pod whose owner the step has
just established: a fresh pod created under its name, or a listed instance matched by it. The lemmas
of `LifecycleTypes` about the table operations (`Touches` and the pods they leave in place) carry
this through failure propagation, retries and the scan.

*Completed means synced.* `CompletedMeansSynced` alone says nothing about the steps of
`_finish_job`. `SyncInv` adds `FinishSynced` (a finish with goal "completed" is never forced, starts
with a pod, and has synced when it reaches the teardown) and `CompletedAtRest` (no function runs for
a completed job, so nothing can reset `synced` for it; and memory is never behind the file about a
completed job, so a save does not bring back an old outcome).

*Release.* `StoppedMeansReleased` and `TerminatedMeansTried` are not inductive: what is logged at
"record" was decided at "teardown". `ReleasesFirst` says what each later step may rely on (at
"backoff" and at a new creation the old pod was given up; at "record" `fin.torn` is true only of a
pod given up, and a pod that was not belongs to a `KeepAlive` job). `fin` is one variable for all
jobs, so `OneFinishes` has to say that `_finish_job` runs for one job at a time. `OnlyCreatedPods`
says that an id is in use nowhere before it is created: without it a new pod could have a stop event
from the start. `TrackedUntilReleased` is about a step; it follows because each step that changes
`mem[j].pod` starts where `ReleasesFirst` holds or takes the pod away on the provider's word.

*Statuses.* `FinishedStaysFinished` needs that memory agrees with the file about a finished job and
that no function runs for one (`FinalAtRest`); the exception are the steps "abort", "abort_tick" and
"except" of a failed pipeline, which clean up. `BlockedJobsAreSkipped` is only true between ticks
and must be carried through them: a failed job's dependents are pending only while its pipeline is
at one of those steps (`FailuresPropagate`), and with several pipelines at once a propagation
reaches no pipeline that is about to begin, because the job of one depends on completed jobs only
(`ReadyAtStart`). `FinalAtRest` alone is inductive and carries the other two.

*Without kills.* Every other way a process ends saves the table (`SavedAtEnd`), so the next command
starts from what the last one knew. Then a job that is live, has a function running for it or owns a
pod has all its dependencies completed (`StartedAfterDeps`), which gives `DependenciesFirst`; the
adoption of a pod, which looks at no dependency, is covered by the ownership of the pod. `Recorded`
says that each persisted pod is in the registry from the step after its persisting on, and
`Launchable` that a running job has a pid except before its pipeline has passed "provision", so the
launch that a tick makes for a running job without one is never made, and that "launch" is only
reached with code and setup on the pod the job references. All three break after a kill, in the
histories of section 3.

*Through kills.* `SavedAtEnd` survives a kill, which leaves the file as the table. If no job keeps
its pods and none is retried, so does `Traceable`: a persisted pod that is not registered is
referenced by the file and by the memory at once, so that neither a save nor a kill can lose it. A
pod enters this state saved (`_persist_created`), and by the lemmas behind `TrackedReleased` its job
lets it go only when it is gone or terminated. TLC has checked `Traceable` with the two jobs and the
three faults of `Lifecycle_faults`, less "retry" (about 450 000 states).

*Registry.* `IInv` says that only the holder of the lock is in the locked region, that its copy is
the current file with its own change, that a reconciliation's copy has the same records as the file,
and which of its statuses are already true (`TruthfulCopy`). A pod with a record was created before
(`Recorded`), so a pod that comes to exist during a reconciliation is not one it has looked at.

*State file.* The conjuncts of `IInv` say that one thread at a time takes or writes a snapshot
(`Exclusive`), that the part of a snapshot read so far lies between the file and the memory
(`Between`), and that the memory only moves up: the last needs that a job whose pipeline is about to
begin cannot be skipped by another thread, because everything it depends on completed and no thread
skips the dependents of a completed job (`Startable`), and that the main thread waits while
pipelines run (`OneSide`). For the final file, `LastSave` says that under a save of the main thread
only the heartbeat assigns, and not after it was told to stop. A heartbeat that outlives the join
still holds the lock or waits for it, so its late save comes first or never.

*Ownership.* `OwnerReadsAsLive` needs the age of the file tied to the heartbeat thread: for an owner
that saved last it is at most `Interval * fails + due` (`Heard`, which rests on `Beating` about the
copy in memory), and `due` never passes the interval (`Punctual`), so the assumption keeps it below
the window. As long as nothing raced, an owner is the last writer (`Alone`), so its file refuses
everyone else (`Single`).

*Supervision.* `NeverCountsTwice` is not inductive: the next accrual depends on `started`,
`finished` and `cost`. `Covered` says that the total with what could still be charged is within
`paid`, `LetGo` that a live job without its pod is between two pods and gets a new start, and
`Consistent` which fields of the record are set at which place. `TotalIsTruth` is an equality and
needs one in every state: `Exact` says that the total and what the pod in use has cost since the
last charge (`Due`) are what was paid, as long as nothing odd happened, with the facts that make a
charge add exactly `Due` (a pod in use has a start, the cost recorded on it is no more than its
time, and a stop logged for a job that is not over comes after its pod was let go). For
`VerdictIsEarned`, `Timed` says that without a replacement both timers were started on the pod in
use, and that a verdict is open only while the job is being finished.

*Runner.* `IInv` adds that a job that runs has no exit file and is the process the pid file names,
except while the script that started it has not written that file yet, when the script knows its pid
(`OneJob`, `TheJob`, `ExitFile`, `ScriptKnows`). So a script that comes to its test finds a running
copy. `VerdictIsTrue` adds what the probe has read so far: while the latest process runs, the pid
file names it or its script is about to (`Named`) and there is no exit code to read (`LatestRuns`),
once it has ended its code is on the way into the file (`CodeInFile`), and an idle timer runs out
only after it has ended (`IdleAfterEnd`).

*Pod calls.* `CallsSound` ties the step of a call to the pod's state (a call at "released" with `ok`
has a pod that is gone, and gone pods stay gone), `Born` says that pods with a record exist, and the
accounting is then inductive by itself.

Each of these invariants was checked by TLC on the run of its module before it was proved.

Only model-checked: the liveness properties `RunEndsUnlessWaiting`, `LockIsReleased`,
`DeadRunIsNoticed`, `OwnerIsSeenAgain`, `EndIsNoticed` and `CallsReturn` (fairness and ENABLED are
beyond the prover), and the two violations.

## 5. What is left out

* Text: messages, notifications and reports have no state here.
* `Lifecycle` has no clock: a timeout or a budget is a choice of the step that reads it, and
  `Supervision` shows when the code makes that choice. It saves the whole table at once; `StateFile`
  shows what that hides. It takes launch, probe, creation and termination as single steps; `Runner`
  and `PodCalls` open them up. The modules are linked by these statements and not by a refinement:
  their states overlap in a field or two only.
* `StateFile` lets the heartbeat thread look at its stop event and assign the timestamp in one step:
  a thread that loses the processor in between for longer than the 30 s that `Heartbeat.stop` waits
  (`monitor.py:52-57`, `monitor.py:70`) could save the heartbeat of a run that was given up.
* The job numbers of `JobTable` are the order of the configuration, also for a job that is merged
  into an existing file and so visited last.
* The lock a batch of pipelines shares around its saves is left out of `StateFile`: it only excludes
  interleavings.
* `Runner` assumes that a launch script has ended when the next attempt begins (it does not wait for
  anything), and that an exit code is written in less time than passes between two ticks. The files
  survive between launches, as they do with images and `pod exec`; `Lifecycle` has the `rsync` that
  deletes them. `pod stop` (`cli.py:1163`, a kill by pid without its start time) and a second `pod
  exec --detach` overwriting the run script of the first (`runner.py:108`) are not modelled.
* `Supervision` charges no unreachable pods, failed pipelines or pipelines on kept pods, like the
  code. What a pod costs (`paid`) runs until the orchestrator lets it go, not only until the
  provider reclaims it: it is what the code may charge. A pod adopted by its name into a job that
  never had one has no price (`monitor.py:774`), and is not modelled; a torn heartbeat snapshot of
  the total followed by a kill, which counts a tick twice, would need `StateFile`'s threads with it.
* Every job is assumed to have `sync_paths`. The image-based deploy and an unreadable exit file are
  not distinguished from the cases modelled.
* Ctrl-C raises `Interrupted` only inside a pipeline, as in the code; the second Ctrl-C is a kill.
* A `--jobs` run whose unselected jobs are unfinished never ends by itself; no document promises
  that it does, and `Lifecycle_ends` runs without `--jobs`.
* Not modelled: the depth-first search of the validator (the relation is assumed acyclic), the lines
  of the cost log (two processes can both find no stop event and append one, `state.py:229`), the
  pricing cache, configuration, notifications, the classification of errors, reporting and
  interactive commands. They hold no state of a run, or only read it.

## 6. Plan

What the plan had first is done: `JobTable`, `Lifecycle`, the registry, `StateFile`, and then
`Ownership`, `Supervision`, `Runner` and `PodCalls`. Left are

1. the lines of the cost log with two writers, and `DepGraph`, the search of the validator against
   the definition of a cycle;
2. an abstract specification of the life of a job, which `Lifecycle` implements, and its step
   simulation.

The runs stay few and distinct: a new component's run takes the place of the less telling ones of
the disagreements, whose history then moves to the list in section 3.
