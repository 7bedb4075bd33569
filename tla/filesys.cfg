SPECIFICATION FSSpec
CONSTANTS
  NumSectors = 8
  SectorSize = 3
  NumDirEntries = 2
  Names = {A, B, T}
  Clients = {c1, c2}
  Main = c1
  Sizes = {1, 4}
  MaxCalls = 4
  MaxCommands = 3
  MaxCrashes = 1
  TransferSize = 2
  TestFile = T
INVARIANTS DirectorySound FailsOnlyAfterHarm CommandsFaithful
PROPERTIES NothingLeaks ImplementsStore CallsReturn
