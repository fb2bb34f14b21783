SPECIFICATION FairSpec
CONSTANTS
  Signals = {1, 2, 9, 15}
  Handled = {2, 15}
  Tracing = {1, 17}
INVARIANTS
  TypeOK
  PendingFlagged
PROPERTIES
  KillsSleeper
