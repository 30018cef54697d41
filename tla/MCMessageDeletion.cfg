SPECIFICATION FairSpec
CONSTANTS
  Users = {1, 2}
  Messages = {1, 2}
  Sender <- MCSender
  Receiver <- MCReceiver
  ExpiresAt <- MCExpiresAt
  Jobs <- MCJobs
  Reports <- MCReports
  NoJob = NoJob
  Logic = {n1, n2}
  Expirers = {e1}
  ScanRows = 1
  PageRows = 2
  MaxEvent = 2
  MaxTime = 1
  MaxCalls = 2
  MaxSettings = 1
  MaxFaults = 1
INVARIANTS
  DeletionCursorComplete
  ErasedForBoth
  AnswersHonoured
PROPERTIES
  ReadConsented
  ExpiredIsErased
CHECK_DEADLOCK FALSE
