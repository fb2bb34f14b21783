SPECIFICATION Spec
CONSTANTS
  DMA_NUM_BUFFS = 2
  DMA_BUFF_SIZE = 2
  Word <- MCWord
  Counts <- MCValidCounts
  MaxRequests = 4
  Signals = {"handled", "fatal"}
  AfterBroken = TRUE
PROPERTIES
  WaitsHold
