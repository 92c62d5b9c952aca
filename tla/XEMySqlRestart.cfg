SPECIFICATION Spec
CONSTANTS
  c1 = c1
  c2 = c2
  con = con
  long = long
  short = short
  sentLong = sentLong
  sentShort = sentShort
  Client = {c1}
  Thread <- MCTwoThreads
  NoJob = NoJob
  EXIT = EXIT
  ProcessNum = 1
  StaleHandles = {}
  MaxStarts = 2
  MaxQueue = 3
  Text <- MCText
  Length <- MCLength
  Empty = Empty
  Mixed = Mixed
  JobCount = 1
  MaxStep = 1
  MaxTasks = 2
  NoUser = NoUser
  Con = {con}
  NullQuery = NullQuery
  Formatted <- MCFormatted
INVARIANT TaskHasOneHolder
PROPERTIES ImplementsTaskPool LostOnlyAtClosedPort
CHECK_DEADLOCK FALSE
