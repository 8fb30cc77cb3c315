CONSTANTS
  PID = {1, 2, 3}
  LastRound = 3
  Size <- Sizes
SPECIFICATION FairSpec
INVARIANT PreviousRound
CHECK_DEADLOCK FALSE
