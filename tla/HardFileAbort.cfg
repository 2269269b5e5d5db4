CONSTANTS
  r1 = r1
  r2 = r2
  r3 = r3
  Requests = {r1, r2}
  NoRequest = NoRequest
  NumUnits = 1
  MaxAsync = 2
  PipeSize = 4
  ReplyRoom = 2
  MaxOpens = 1
  MaxResets = 0
SPECIFICATION Spec
INVARIANT AbortWaitsForProcessing
