SPECIFICATION Spec
CONSTANTS
  short = short
  long = long
  Text <- MCText
  Length <- MCLength
  Empty = Empty
  Mixed = Mixed
  JobCount = 1
  MaxStep = 3
  MaxTasks = 4
INVARIANTS TypeOK FreeListExact FilledReadsBack
