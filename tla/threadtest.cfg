SPECIFICATION TTSpec
CONSTANTS
  Threads <- MCThreads
  Sems = {g}
  Devices = {}
  MainThread = 3
  NULL = NULL
  MaxValue = 2
  TimerOn = TRUE
  InitialValue <- MCInitialValue
  DeviceSem <- MCDeviceSem
  MaxLoops = 2
  NumMeals = 2
  NumIns = 2
  NumSongs = 2
  getInstrument = g
  NumShouts = 2
  Checked = 2
  MaxBorn = 3
INVARIANTS ChopsticksHeld InstrumentsHeld SongsCounted
PROPERTIES ShowEnds
