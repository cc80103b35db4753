\* conductor run --jobs while another job's pod runs.
SPECIFICATION Spec
CONSTANTS
  NJobs = 2
  Deps <- ParallelDeps
  KeepAlive <- NoJobs
  KeepOnFailure <- NoJobs
  TeardownOnCrash <- AllJobs
  Pods = {p1, p2, p3}
  NoPod = NoPod
  MaxAttempts = 2
  Passes = 1
  Confirmations = 2
  Hazards = {"subset", "sigint"}
  MaxHazards = 2
  MaxRuns = 2
SYMMETRY PodSymmetry
PROPERTIES
  ReconcileSparesTracked
