CONSTANTS
  Activity = {a1, a2}
  NoActivity = NoActivity
  NoTask = NoTask
  MaxWaits = 8
  MaxID = 3
  MaxTime = 5
  RacyIDs = FALSE
  Delay = {0, 2}
  Timeout = {1}
  MaxCalls = 2
SPECIFICATION FairSpec
INVARIANTS
  ExactWakeup
  AbnormalOnlyIfStuck
  TimeoutIsTrue
  MessagesConserved
PROPERTIES
  EveryMessageArrives
  Termination
CHECK_DEADLOCK FALSE
