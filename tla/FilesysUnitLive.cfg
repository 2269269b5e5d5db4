CONSTANTS
  p1 = p1
  p2 = p2
  p3 = p3
  Packets = {p1, p2}
  Dummy = Dummy
  Death = Death
  Limit = 1
  UnitPipeSize = 7
  BackPipeSize = 4
  CmdWrap = 5
  NoteRoom = 1
  MaxNotes = 2
  MaxResets = 1
SPECIFICATION FairSpec
PROPERTIES
  ResetEnds
  HandedIsReplied
CHECK_DEADLOCK FALSE
