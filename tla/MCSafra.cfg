CONSTANTS
  N = 4
  MaxSent = 3
SPECIFICATION FairSpec
INVARIANTS
  OneToken
  TokenAccountsForMessages
PROPERTIES
  ImplementsDetection
  EverybodyIsTold
CHECK_DEADLOCK FALSE
