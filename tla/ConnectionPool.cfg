SPECIFICATION Spec
CONSTANTS
  u1 = u1
  u2 = u2
  u3 = u3
  User = {u1, u2, u3}
  NoUser = NoUser
  NumCon = 2
  IndexLimit = 3
  MaxDrops = 2
  MaxCalls = 1
INVARIANTS TypeOK OwnedWhileUsed CleanAtHandout ReturnsTell
PROPERTY ImplementsConnections
CHECK_DEADLOCK FALSE
