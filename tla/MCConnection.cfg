SPECIFICATION ConnSpec
CONSTANTS
  t1 = t1
  t2 = t2
  t3 = t3
  Conns = {s}
  Threads = {t1, t2, t3}
  Packets = {p1, p2, big}
  Large = {big}
  MaxSend = 2
  MaxPosts = 4
  MaxReads = 2
  MaxErrors = 1
  Closing = Closing
  NoCall = NoCall
SYMMETRY Interchangeable
INVARIANTS
  InOrder
  WithinLimits
PROPERTIES
  DeadlineIsCurrent
CHECK_DEADLOCK FALSE
