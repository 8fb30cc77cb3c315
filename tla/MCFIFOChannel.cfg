CONSTANTS
  p1 = p1
  p2 = p2
  Process = {p1, p2}
  Link <- OneWay
  Msg = {m1, m2}
  MaxSent = 5
SPECIFICATION FairSpec
INVARIANT NothingHeldBack
PROPERTIES
  ImplementsFIFO
  EveryMessageDelivered
CHECK_DEADLOCK FALSE
