CONSTANTS
  Activity = {a1, a2, a3}
  NoActivity = NoActivity
  MaxWaits = 2
  Errors = FALSE
  Late = FALSE
SPECIFICATION FairSpec
INVARIANTS
  TypeOK
  MutualExclusion
  StatusIsTrue
  NormalEnd
  FinishTogether
PROPERTIES
  Termination
  EveryThreadEnds
CHECK_DEADLOCK FALSE
