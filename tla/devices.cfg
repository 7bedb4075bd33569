SPECIFICATION DevSpec
CONSTANTS
  NIL = NIL
  UserTick = 1
  SystemTick = 2
  MaxPending = 3
  MaxTime = 40
  TimerTicks = 2
  ConsoleTime = 3
  RotationTime = 4
  SeekTime = 3
  SectorsPerTrack = 3
  NumTracks = 2
  Chars = {a, EOF, QUIT}
  EOF = EOF
  QUIT = QUIT
  MaxTyped = 3
INVARIANTS ListsOK HaltMeansDone EchoInOrder SectorPassed
PROPERTIES InterruptsInTime
