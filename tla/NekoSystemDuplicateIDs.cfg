CONSTANTS
  Activity = {a1, a2}
  NoActivity = NoActivity
  NoTask = NoTask
  MaxWaits = 8
  MaxID = 3
  MaxTime = 5
  RacyIDs = TRUE
  Delay = {0, 2}
  Timeout = {0, 2}
  MaxCalls = 2
SPECIFICATION Spec
INVARIANT AbnormalOnlyIfStuck
CHECK_DEADLOCK FALSE
