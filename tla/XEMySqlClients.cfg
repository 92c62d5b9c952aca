SPECIFICATION FairSpec
CONSTANTS
  c1 = c1
  c2 = c2
  con = con
  long = long
  short = short
  sentLong = sentLong
  sentShort = sentShort
  Client = {c1, c2}
  Thread <- MCOneThread
  NoJob = NoJob
  EXIT = EXIT
  ProcessNum = 1
  StaleHandles = {}
  MaxStarts = 1
  MaxQueue = 3
  Text <- MCText
  Length <- MCLength
  Empty = Empty
  Mixed = Mixed
  JobCount = 1
  MaxStep = 1
  MaxTasks = 1
  NoUser = NoUser
  Con = {con}
  NullQuery = NullQuery
  Formatted <- MCFormatted
INVARIANTS TypeOK TaskHasOneHolder FreeTasksClean OnlySubmitted
PROPERTIES ImplementsAsyncQuery TasksComeBack
CHECK_DEADLOCK FALSE
