\* Liveness under the fairness of FairSpec.
SPECIFICATION FairSpec
CONSTANTS
  NJobs = 2
  Deps <- ChainDeps
  KeepAlive <- NoJobs
  KeepOnFailure <- NoJobs
  TeardownOnCrash <- AllJobs
  Pods = {p1, p2, p3}
  NoPod = NoPod
  MaxAttempts = 2
  Passes = 1
  Confirmations = 2
  Hazards = {"list", "terminate", "check", "budget", "job_budget", "stall", "ssh", "auth", "sync", "catalog", "lost", "capacity", "error", "deploy", "launch", "sigint", "crash", "spot", "exit", "vanish"}
  MaxHazards = 2
  MaxRuns = 1
PROPERTIES
  RunEndsUnlessWaiting
