CONSTANTS
  r1 = r1
  r2 = r2
  r3 = r3
  Requests = {r1, r2}
  NoRequest = NoRequest
  NumUnits = 1
  MaxAsync = 2
  PipeSize = 5
  ReplyRoom = 1
  MaxOpens = 2
  MaxResets = 1
SPECIFICATION FairSpec
INVARIANTS
  RepliedOnce
  OpenIsServed
  UnitsTakeTurns
PROPERTIES
  RequestsAreAnswered
  MainComesBack
CHECK_DEADLOCK FALSE
