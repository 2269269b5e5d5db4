CONSTANTS
  Byte = 2
  Edges = 2
  Div = 5
  DataCycle = 2
  PreWait = 2
  PostWait = 1
  Wrap = 47
  MaxWrites = 3
SPECIFICATION Spec
INVARIANT DataDuringHigh
