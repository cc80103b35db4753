\* One job over several commands, recoveries and retries.
SPECIFICATION Spec
CONSTANTS
  KeepOnFailure = TRUE
  JobBudget = 3
  Budget = 4
  IdleTimeout = 2
  StallTimeout = 2
  Confirmations = 2
  MaxAttempts = 2
  MaxTime = 4
INVARIANTS
  TypeOK
  NeverCountsTwice
  TotalIsTruth
  VerdictIsEarned
PROPERTIES
  PodStaysInBudget
