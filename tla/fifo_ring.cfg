SPECIFICATION FairSpec
CONSTANTS
  FIFO_ENTRIES = 5
  OnCommands = 2
  MaxBatch = 2
  MaxCommands = 8
INVARIANTS
  TypeOK
  CacheBehind
  FlushDrains
  FreedIdle
PROPERTIES
  ImplementsQueue
