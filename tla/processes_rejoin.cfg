CONSTANTS
  Threads = {main, p1, p2}
  Sems = {}
  Devices = {}
  MainThread = main
  NULL = NULL
  MaxValue = 1
  TimerOn = TRUE
  InitialValue <- MCInitialValue
  DeviceSem <- MCDeviceSem
  MaxID = 2
SPECIFICATION ProcSpec
PROPERTIES JoinedOnce
