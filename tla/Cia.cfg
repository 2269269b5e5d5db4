CONSTANTS
  Byte = 2
  Edges = 2
  Div = 2
  DataCycle = 1
  PreWait = 1
  PostWait = 0
  Wrap = 9
  MaxWrites = 3
SPECIFICATION Spec
INVARIANTS
  TimersNotOverrun
  RaisedIsRequested
PROPERTIES
  IsChip
