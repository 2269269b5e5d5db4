CONSTANTS
  Size = 4
  Chunks = 2
  MaxWrites = 9
SPECIFICATION FairSpec
INVARIANTS
  TypeOK
  RingExclusive
  NoLostWakeup
  NeverBothAsleep
PROPERTIES
  IsFifo
  FlushedIsRead
CHECK_DEADLOCK FALSE
