CONSTANTS
  Activity = {a1, a2}
  NoActivity = NoActivity
  MaxWaits = 1
  Errors = FALSE
  Late = FALSE
SPECIFICATION FairSpec
INVARIANT JoinAfterDrain
CHECK_DEADLOCK FALSE
