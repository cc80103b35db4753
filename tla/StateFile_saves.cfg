\* Three jobs, two of them started in parallel, two beats, one failed save.
SPECIFICATION Spec
CONSTANTS
  NJobs = 3
  Deps <- ForkDeps
  NoThread = NoThread
  MaxBeats = 2
  MaxErrors = 1
INVARIANTS
  TypeOK
  FinalFileIsTrue
PROPERTIES
  LatestSaveWins
