CONSTANTS
  Threads = {main, t1, t2, t3}
  Sems = {s1}
  Devices = {disk}
  MainThread = main
  NULL = NULL
  MaxValue = 2
  TimerOn = TRUE
  InitialUnits = 0
  IOSem = s1
  InitialValue <- MCInitialValue
  DeviceSem <- MCDeviceSem
SPECIFICATION FairSpec
INVARIANTS KernelInv NoLostWakeup
PROPERTIES ReadyRuns
