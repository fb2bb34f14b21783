SPECIFICATION FairSpec
CONSTANTS
  MaxSector = 4
  Word = 16
  Ids = {1, 2, 3}
INVARIANTS
  TypeOK
PROPERTIES
  DrainEnds
  StaysArranged
  ImplementsSSTF
