SPECIFICATION Spec
CONSTANTS
  MonthLength = 2
  MaxDays = 3
  TickLimit = 8
  Interval = 3
  MaxSilence = 4
INVARIANTS TypeOK LineInItsDay FlushedInTime NoUseAfterClose
CHECK_DEADLOCK FALSE
