CONSTANTS
  Thread = {c1, c2}
  NoThread = NoThread
  NoTask = NoTask
  DueTime = {1}
  Delay <- PastAndFuture
  Period = {2}
  Daemon = {FALSE}
  Action = {act}
  MaxID = 3
  MaxTime = 5
  RacyIDs = FALSE
SPECIFICATION FairSpec
INVARIANTS
  TypeOK
  Causality
  NoOvertaking
  NoTaskForgotten
  AtMostOnce
  PeriodKept
PROPERTIES
  CancelIsFinal
  EveryTaskLeaves
CHECK_DEADLOCK FALSE
