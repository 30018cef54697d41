SPECIFICATION Spec
CONSTANTS
  a = a  b = b  c = c  d = d
  ia = ia  ib = ib  ic = ic  ix = ix
  w1 = w1  w2 = w2
  x = x  y = y
  NoIdentity = NoIdentity  NoRequest = NoRequest  NoRow = NoRow
  NoUser = NoUser  NoClaim = NoClaim
  Users = {a, b, c, d}
  Identities = {ia, ib, ic, ix}
  Friends <- MCFriends
  Devices0 <- MCDevices
  Prekeys0 <- MCPrekeys
  MayBlock <- MCBlocks
  Requests <- MCRequests
  Workers = {w1, w2}
  MaxPrekeys = 2
  MaxInbox = 1
  MaxCalls = 3
  MaxFaults = 1
  MaxBlocks = 1
SYMMETRY MCSymmetry
INVARIANTS
  OneTimeKeys
  SentOnce
  WithinQuota
  NoRedelivery
CHECK_DEADLOCK FALSE
