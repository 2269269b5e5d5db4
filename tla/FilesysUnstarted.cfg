CONSTANTS
  p1 = p1
  p2 = p2
  p3 = p3
  Packets = {p1, p2}
  Dummy = Dummy
  Death = Death
  Limit = 1
  UnitPipeSize = 10
  BackPipeSize = 4
  CmdWrap = 5
  NoteRoom = 1
  MaxNotes = 0
  MaxResets = 0
SPECIFICATION FairSpec
PROPERTIES
  UnstartedIsStarted
CHECK_DEADLOCK FALSE
