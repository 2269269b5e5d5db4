CONSTANTS
  t1 = t1
  t2 = t2
  Threads = {t1, t2}
  PipeSize = 5
  MaxCalls = 3
SPECIFICATION FairSpec
INVARIANTS
  CallsNotMixed
  NeverNotEnough
  ArgumentsFollow
PROPERTIES
  CallsInOrder
  EveryCallIsMade
CHECK_DEADLOCK FALSE
