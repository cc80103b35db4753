\* Everything may go wrong, three times per behaviour.
SPECIFICATION Spec
CONSTANTS
  NJobs = 2
  Deps <- ChainDeps
  KeepAlive <- NoJobs
  KeepOnFailure <- SecondJob
  TeardownOnCrash <- SecondJob
  Pods = {p1, p2, p3}
  NoPod = NoPod
  MaxAttempts = 2
  Passes = 1
  Confirmations = 2
  Hazards <- AllHazards
  MaxHazards = 3
  MaxRuns = 2
SYMMETRY PodSymmetry
INVARIANTS
  TypeOK
  OwnPodsOnly
  CompletedMeansSynced
  StoppedMeansReleased
  TerminatedMeansTried
  BlockedJobsAreSkipped
PROPERTIES
  FinishedStaysFinished
  TrackedUntilReleased
