CONSTANTS
  a = a
  b = b
  c1 = c1
  c2 = c2
  c3 = c3
  Tasks = {a, b}
  Contexts = {c1, c2, c3}
  NoContext = NoContext
SPECIFICATION FairSpec
INVARIANTS
  RightContext
  OneAtATime
  StacksNest
  MutexFreeOnReturn
PROPERTIES
  EmulationGoesOn
  TrapsAreFreed
