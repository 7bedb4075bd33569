CONSTANTS
  Threads = {main, p1}
  Sems = {0, 1}
  Devices = {}
  MainThread = main
  NULL = NULL
  MaxValue = 2
  TimerOn = TRUE
  InitialValue <- MCInitialValue
  DeviceSem <- MCDeviceSem
  NumPhysPages = 2
  NumPages = 2
  SwapChoices = {1}
  InitialSwapped = {{}}
  Overruns = {}
  MaxExecs = 1
SPECIFICATION VMSpec
INVARIANTS VictimFound
