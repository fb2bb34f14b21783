SPECIFICATION Spec
CONSTANTS
  DMA_NUM_BUFFS = 2
  MaxLive = 2
INVARIANTS
  TypeOK
  Balanced
  AllOrNothing
  HandlerServed
  MappingsAlive
