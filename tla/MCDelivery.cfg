SPECIFICATION Spec
CONSTANTS
  s1 = s1
  s2 = s2
  s3 = s3
  n1 = n1
  n2 = n2
  Nodes = {n1, n2}
  Rpcs = {g}
  Sessions = {s1, s2, s3}
  Home <- MCHome
  Token <- MCToken
  Texts = {text}
  Applies = {1, 2}
  Pending0 = {1}
  MaxList = 1
  None = None
  MaxToken = 2
  MaxFaults = 1
VIEW MCView
SYMMETRY MCSymmetry
INVARIANTS
  Informed
  FreshOnly
CHECK_DEADLOCK FALSE
