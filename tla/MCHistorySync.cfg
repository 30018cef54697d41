SPECIFICATION SyncSpec
CONSTANTS
  u1 = u1
  u2 = u2
  u3 = u3
  i1 = i1
  i2 = i2
  ta = ta
  Users <- MCUsers
  Friends <- MCFriends
  Blocks = {}
  Ids = {i1, i2}
  Texts = {ta}
  Requests <- MCRequests
  NoRequest = NoRequest
  Workers = {w1, w2}
  MaxThread = 3
  MaxSeq = 3
  MaxCalls = 3
  MaxFaults = 0
  Reader = u1
  PageRows = 2
  MaxRounds = 2
SYMMETRY MCSymmetry
INVARIANTS
  HistoryComplete
  ScanComplete
CHECK_DEADLOCK FALSE
