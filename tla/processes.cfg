CONSTANTS
  Threads = {main, p1, p2, p3}
  Sems = {}
  Devices = {}
  MainThread = main
  NULL = NULL
  MaxValue = 1
  TimerOn = TRUE
  InitialValue <- MCInitialValue
  DeviceSem <- MCDeviceSem
  MaxID = 3
SPECIFICATION ProcFairSpec
INVARIANTS SchedulerOK ActiveIsAlive JoinersAreParents
PROPERTIES JoinWaits JoinerRuns
