CONSTANTS
  Process = {p1, p2, p3}
  Neighbors <- Clique
  MaxEvents = 1
SYMMETRY Symmetry
SPECIFICATION ActiveSpec
INVARIANT DoneAfterAllMarkers
CHECK_DEADLOCK FALSE
