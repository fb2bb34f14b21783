SPECIFICATION Spec
CONSTANTS
  FIFO_ENTRIES = 7
  DMA_NUM_BUFFS = 3
  U_NUM_BUFFS = 2
  U_NUM_TRIANGLES = 1000
  CountRange = 1024
  Windows = {}
  MaxDraws = 60
INVARIANTS
  DrawsAllTriangles
CHECK_DEADLOCK FALSE
