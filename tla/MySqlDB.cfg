SPECIFICATION Spec
CONSTANTS
  Server = {s1, s2}
  Database = {d1, d2}
  DefaultServer = localhost
  NULL = NULL
INVARIANTS TypeOK OnAskedDatabase RunTwiceOnlyAfterLoss FlagTellsConnection
PROPERTIES QueryKeepsReading
CHECK_DEADLOCK FALSE
