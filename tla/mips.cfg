SPECIFICATION LoadSpec
CONSTANTS
  B = 1
  TargetBits = 1
  PageSize = 4
  PageTableSize = 3
  GPR <- MCGPR
  Program <- MCProgram
  ProgramValues = {0, 4, 8}
  MaxInstrs = 4
  MaxFaults = 2
  NONE = NONE
  Addresses = {2, 6, 9, 11}
  MaxSize = 2
  MaxText = 3
  Objects <- MCObjects
  NoffHeaderSize = 2
  StackSize = 2
  MemSize = 24
INVARIANTS   PagesAsLinked LoadersAgree
PROPERTIES ArithmeticExact
