---------------------------- MODULE MCLifecycle ----------------------------
(***************************************************************************)
(* Instances of Lifecycle for TLC.                                         *)
(***************************************************************************)
EXTENDS Lifecycle, TLC

\* Two jobs: the second depends on the first.
ChainDeps == <<{}, {1}>>

\* Three jobs: the first two are provisioned in parallel, the third depends on
\* the first.
ForkDeps == <<{}, {}, {1}>>

\* Two independent jobs.
ParallelDeps == <<{}, {}>>

NoJobs == {}
AllJobs == Jobs
SecondJob == {2}

AllHazards == {"retry", "subset", "list", "terminate", "check", "budget", "job_budget",
               "stall", "ssh", "auth", "sync", "catalog", "lost", "capacity", "error",
               "deploy", "launch", "sigint", "kill", "crash", "manual", "spot", "exit",
               "vanish"}

PodSymmetry == Permutations(Pods)
=============================================================================
