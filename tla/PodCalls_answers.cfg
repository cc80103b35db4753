\* A run with two candidates and another process with one command.
SPECIFICATION FairSpec
CONSTANTS
  Pods = {p1, p2}
  None = None
  Candidates = 2
  Attempts = 2
  Rounds = 2
  Polls = 2
  Rejections = 2
  MaxCommands = 1
CHECK_DEADLOCK FALSE
INVARIANTS
  TypeOK
  ConfirmedIsGone
  EveryPodIsAccounted
PROPERTIES
  CallsReturn
