CONSTANTS
  None = None
  Query = {"node", "send", "{2}"}
  Malformed = {"{2}"}
  Matches <- MCMatches
  PACKAGES <- MCPackages
  Member = {"own", "old", "any"}
  Owner <- MCOwner
  Private = {"old"}
  Ancestor = {"Self", "Base", "Any"}
  Self = "Self"
  Hidden = {"Any"}
  MemberQuery = {"o"}
  MemberMatches <- MCMemberMatches
  HasGroups = TRUE
  MaxGestures = 3
SPECIFICATION FairSpec
INVARIANTS
  ResultsOfOneQuery
  MembersFollowControls
PROPERTIES
  EverySearchCompletes
CHECK_DEADLOCK FALSE
