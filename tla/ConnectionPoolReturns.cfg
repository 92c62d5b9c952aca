SPECIFICATION FairSpec
CONSTANTS
  u1 = u1
  u2 = u2
  u3 = u3
  User = {u1, u2, u3}
  NoUser = NoUser
  NumCon = 2
  IndexLimit = 3
  MaxDrops = 0
  MaxCalls = 1
PROPERTY CallReturns
CHECK_DEADLOCK FALSE
