CONSTANTS
  x = x
  y = y
  Names <- MCNames
  Paths <- MCPaths
  InitialDisk <- MCDisk
  Locks = {l1, l2}
  l1 = l1
  l2 = l2
  k1 = k1
  KeySlots = {k1}
  MaxChanges = 1
  MaxShared = 1
  MaxHolders = 2
  Failures = {"mkdir"}
  EXKEYS = 1
  MAX_AINO_HASH = 1
  CacheLimit = 0
  ReapBatch = 1
SPECIFICATION Spec
SYMMETRY Symmetry
INVARIANTS
  TypeOK
  CacheExact
  HeldIsCounted
  ExNextComplete
  NamesFollowTree
  ReapEnds
CHECK_DEADLOCK FALSE
