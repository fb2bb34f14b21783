SPECIFICATION ProgramSpec
CONSTANTS
  Commands <- MCCommands
  Programs = {"main.c", "lab4", "5lab"}
  MaxRuns = 2
INVARIANTS
  ProgramTypeOK
  TriangleShown
PROPERTIES
  DrawsWhole
CHECK_DEADLOCK FALSE
