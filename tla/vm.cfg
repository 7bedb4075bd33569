CONSTANTS
  Threads = {main, p1}
  Sems = {0, 1}
  Devices = {}
  MainThread = main
  NULL = NULL
  MaxValue = 2
  TimerOn = TRUE
  InitialValue <- MCInitialValue
  DeviceSem <- MCDeviceSem
  NumPhysPages = 2
  NumPages = 2
  SwapChoices = {0, 1, 2}
  InitialSwapped = {{}, {0}}
  Overruns = {}
  MaxExecs = 2
SPECIFICATION VMSpec
INVARIANTS FramesAgree Isolation DemandCoherent VictimFoundUnlessPreempted LockNeverWaits
PROPERTIES ValidPagesKept
