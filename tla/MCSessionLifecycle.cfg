SPECIFICATION Spec
CONSTANTS
  s1 = s1
  s2 = s2
  s3 = s3
  Sessions = {s1, s2, s3}
  NoSession = NoSession
  Uids = {1}
  Callers = {c}
  MaxSessions = 2
  MaxRecv = 1
  MaxToken = 2
  MaxSends = 3
  MaxFaults = 1
SYMMETRY Interchangeable
INVARIANTS
  NoZombie
  SupersededIsClosed
PROPERTIES
  SuccessorSurvives
  OnlyOwnLogout
  LogoutRevokes
CHECK_DEADLOCK FALSE
