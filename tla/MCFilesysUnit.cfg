CONSTANTS
  p1 = p1
  p2 = p2
  p3 = p3
  Packets = {p1, p2, p3}
  Dummy = Dummy
  Death = Death
  Limit = 2
  UnitPipeSize = 10
  BackPipeSize = 6
  CmdWrap = 8
  NoteRoom = 1
  MaxNotes = 1
  MaxResets = 0
SPECIFICATION Spec
SYMMETRY Symmetry
INVARIANTS
  DummyQueuedOnce
  NoEarlyReply
  StartedCounted
  PipesHaveRoom
CHECK_DEADLOCK FALSE
