\* Three launches of one job, two attempts each, on a pod with two pids.
SPECIFICATION FairSpec
CONSTANTS
  Pids = {1, 2}
  Attempts = 2
  MaxLaunches = 3
  MaxStarts = 4
INVARIANTS
  TypeOK
  OneCopy
  VerdictIsTrue
PROPERTIES
  EndIsNoticed
