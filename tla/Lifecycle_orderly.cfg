\* Two jobs in parallel and one that waits: no kill, no retry flag, no --jobs. What the
\* documentation promises of a run and its resumption.
SPECIFICATION Spec
CONSTANTS
  NJobs = 3
  Deps <- ForkDeps
  KeepAlive <- NoJobs
  KeepOnFailure <- NoJobs
  TeardownOnCrash <- AllJobs
  Pods = {p1, p2, p3, p4}
  NoPod = NoPod
  MaxAttempts = 2
  Passes = 2
  Confirmations = 2
  Hazards = {"list", "terminate", "check", "budget", "job_budget", "stall", "ssh", "auth", "sync", "catalog", "lost", "capacity", "error", "deploy", "launch", "sigint", "crash", "manual", "spot", "exit", "vanish"}
  MaxHazards = 2
  MaxRuns = 2
SYMMETRY PodSymmetry
INVARIANTS
  DependenciesFirst
  SetupBeforeLaunch
PROPERTIES
  ReconcileSparesTracked
