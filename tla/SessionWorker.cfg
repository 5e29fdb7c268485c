SPECIFICATION FairLoop
CONSTANTS
  None = None
  Pad = {pad1, pad2}
  AnchorKey = {tab}
  NoPad = NoPad
  MaxKeys = 3
  Settle = 3
INVARIANTS LoopTypeOK NoOverlap ExitIsClean ChordIsHeld
PROPERTIES BusyEnds RunEnds EvidenceComplete
CHECK_DEADLOCK FALSE
