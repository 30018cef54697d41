SPECIFICATION RoutingSpec
CONSTANTS
  p1 = p1  p2 = p2  p3 = p3
  n1 = n1  n2 = n2
  NoName = NoName
  Procs = {p1, p2}
  Names <- OneName
  Name <- Replaced
  MaxLogins = 1
  MaxNodeFaults = 0
  MaxScans = 0
INVARIANTS
  StoppedIsUnregistered
CHECK_DEADLOCK FALSE
