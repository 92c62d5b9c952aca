SPECIFICATION Spec
CONSTANTS
  Db = Db
  Test = Test
  NoDb = NoDb
  other = other
  Database <- MCDatabase
  Offered <- MCOffered
  Port = {3306, 3307}
  DefaultPort = 3306
  ConnectionCount = 2
  MaxFailures = 1
  MaxHandles = 5
INVARIANTS TypeOK HandedOutLive OnConfiguredServer ClosedOnce
PROPERTIES LeaksAccounted
CHECK_DEADLOCK FALSE
