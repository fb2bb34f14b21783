SPECIFICATION Spec
CONSTANTS
  FIFO_ENTRIES = 7
  DMA_NUM_BUFFS = 3
  U_NUM_BUFFS = 4
  U_NUM_TRIANGLES = 2
  CountRange = 8
  Windows = {"command", "value", "head", "wrap", "flush"}
  MaxDraws = 60
INVARIANTS
  DrawnInOrder
CHECK_DEADLOCK FALSE
