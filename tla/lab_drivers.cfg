SPECIFICATION FairSpec
CONSTANTS
  FIFO_ENTRIES = 5
  OnCommands = 2
  Labs = {"lab1", "lab2", "lab4", "5lab"}
  MaxPerOpen = 4
  MaxCommands = 6
INVARIANTS
  TypeOK
  HeldWhileUsed
  NothingDropped
PROPERTIES
  ImplementsQueue
