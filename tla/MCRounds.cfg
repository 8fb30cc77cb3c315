CONSTANTS
  PID = {1, 2, 3}
  LastRound = 3
  Size <- Sizes
SPECIFICATION FairSpec
INVARIANTS
  BatchesAreWhole
  BatchesAgree
  Lockstep
PROPERTIES
  CrashIsFinal
  EveryRoundStarts
CHECK_DEADLOCK FALSE
