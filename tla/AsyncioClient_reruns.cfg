SPECIFICATION Spec
CONSTANTS
  p1 = p1
  p2 = p2
  Processes = {p1, p2}
  MaxRuns = 3
INVARIANTS
  TypeOK
  OwnPair
  DiscoverySocketClosed
  NoSessionLeft
CHECK_DEADLOCK FALSE
