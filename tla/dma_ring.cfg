SPECIFICATION FairSpec
CONSTANTS
  DMA_NUM_BUFFS = 3
  DMA_BUFF_SIZE = 2
  Word <- MCWord
  Counts <- MCCounts
  MaxRequests = 5
  Signals = {"handled", "fatal"}
  AfterBroken = FALSE
INVARIANTS
  TypeOK
  UserOwnsFree
  CardMatchesQueue
  NoUseAfterFree
  CountsFit
PROPERTIES
  CallReturns
  ImplementsQueue
CHECK_DEADLOCK FALSE
