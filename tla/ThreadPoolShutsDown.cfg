SPECIFICATION Spec
CONSTANTS
  j1 = j1
  j2 = j2
  Thread <- MCThread
  Job <- MCJob
  NoJob = NoJob
  EXIT = EXIT
  ProcessNum = 2
  StaleHandles = {}
  MaxStarts = 2
  MaxQueue = 1
PROPERTY StopShutsDown
