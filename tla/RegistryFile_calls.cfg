\* Two processes, two pods, any three calls in any interleaving.
SPECIFICATION Spec
CONSTANTS
  Procs = {i1, i2}
  Pods = {p1, p2}
  NoProc = NoProc
  MaxCalls = 3
CHECK_DEADLOCK FALSE
INVARIANTS TypeOK
PROPERTIES
  NoLostUpdate
  TerminatedOnlyWhenGone
  LockIsReleased
