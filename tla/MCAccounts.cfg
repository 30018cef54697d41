SPECIFICATION Spec
CONSTANTS
  e1 = e1  e2 = e2  up = up
  n1 = n1  n2 = n2
  p = p  q = q
  c1 = c1  c2 = c2
  Emails = {e1, e2, up}
  Names = {n1, n2}
  Passwords = {p, q}
  Codes = {c1, c2}
  Lower <- MCLower
  Requests <- MCRequests
  Registered <- MCRegistered
  Workers = {w1, w2}
  NoCode = NoCode  NoRequest = NoRequest
  MaxAttempts = 2
  CodeTTL = 2  CooldownTTL = 1  AttemptsTTL = 2
  FirstUid = 1000
  LastUid = 1003
  MaxCodes = 2
  MaxTokens = 2
  MaxCalls = 3
  MaxFaults = 1
  MaxTicks = 2
SYMMETRY Symmetry
INVARIANTS
  AttemptsExact
  CodeSpentOnce
  RegisterHonest
  ResetEndsSessions
CHECK_DEADLOCK FALSE
