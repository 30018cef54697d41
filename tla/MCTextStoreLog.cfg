SPECIFICATION FairSpec
CONSTANTS
  u1 = u1
  u2 = u2
  u3 = u3
  i1 = i1
  ta = ta
  Users <- MCUsers
  Friends <- MCFriends
  Blocks <- MCBlocks
  Ids = {i1}
  Texts = {ta}
  Requests <- MCRequests
  NoRequest = NoRequest
  Workers = {w1, w2}
  MaxThread = 2
  MaxSeq = 2
  MaxCalls = 3
  MaxFaults = 1
INVARIANTS
  SeqContiguous
  AckHonoured
  SettledStaysAccepted
PROPERTIES
  EveryCallReturns
  ImplementsLog
CHECK_DEADLOCK FALSE
