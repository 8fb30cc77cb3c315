CONSTANTS
  Process = {p1, p2, p3}
  Neighbors <- Clique
  MaxEvents = 1
SYMMETRY Symmetry
SPECIFICATION ActiveSpec
INVARIANTS
  ClocksAreCausal
  ConsistentCut
  RecordIsExact
  NoOrphans
CHECK_DEADLOCK FALSE
