\* Two terminals; beats every 15 s, stale after 60 s, two beats in a row may fail.
SPECIFICATION FairSpec
CONSTANTS
  Terminals = {t1, t2}
  Interval = 2
  LiveWindow = 7
  MaxFails = 2
  Nobody = Nobody
INVARIANTS
  TypeOK
  OwnerReadsAsLive
  OneCommandAtATime
PROPERTIES
  DeadRunIsNoticed
  OwnerIsSeenAgain
