SPECIFICATION RoutingSpec
CONSTANTS
  p1 = p1  p2 = p2  p3 = p3
  n1 = n1  n2 = n2
  NoName = NoName
  Procs = {p1, p2, p3}
  Names <- TwoNames
  Name <- WithSecond
  MaxLogins = 1
  MaxNodeFaults = 2
  MaxScans = 1
INVARIANTS
  CountExact
  ChosenIsLeast
CHECK_DEADLOCK FALSE
