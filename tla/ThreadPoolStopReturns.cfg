SPECIFICATION FairSpec
CONSTANTS
  j1 = j1
  j2 = j2
  Thread <- MCThread
  Job <- MCJob
  NoJob = NoJob
  EXIT = EXIT
  ProcessNum = 2
  StaleHandles <- MCThread
  MaxStarts = 1
  MaxQueue = 1
PROPERTY StopReturns
CHECK_DEADLOCK FALSE
