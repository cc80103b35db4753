\* keep_pod_alive with retries, over three commands.
SPECIFICATION Spec
CONSTANTS
  NJobs = 2
  Deps <- ChainDeps
  KeepAlive <- AllJobs
  KeepOnFailure <- NoJobs
  TeardownOnCrash <- AllJobs
  Pods = {p1, p2, p3}
  NoPod = NoPod
  MaxAttempts = 2
  Passes = 1
  Confirmations = 2
  Hazards = {"list", "terminate", "check", "budget", "job_budget", "stall", "ssh", "auth", "sync", "catalog", "lost", "capacity", "error", "deploy", "launch", "sigint", "crash", "manual", "spot", "exit", "vanish", "retry"}
  MaxHazards = 3
  MaxRuns = 3
SYMMETRY PodSymmetry
INVARIANTS
  NoForgottenPod
