SPECIFICATION FairSpec
CONSTANTS
  u1 = u1
  u2 = u2
  u3 = u3
  Users = {u1, u2, u3}
  Refused <- MCRefused
  Ops <- MCOps
  NoOp = NoOp
  Workers = {w1, w2}
  MaxCalls = 5
  MaxFaults = 1
INVARIANTS
  FriendMutual
  FriendsWilled
  AnsweredOnce
  AgreeHonoured
PROPERTY
  EveryCallReturns
CHECK_DEADLOCK FALSE
