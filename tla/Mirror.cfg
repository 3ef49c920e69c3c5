SPECIFICATION Spec
CONSTANTS
  Budget = 2
  MaxSeq = 2
  MaxInc = 2
  MaxEpoch = 2
  MaxJoins = 2
  MaxCrashes = 1
  MaxFaults = 1
  MaxEvents = 3
  MaxFrames = 2
INVARIANTS
  MirrorIsKept
  LastCloseIsAccepted
PROPERTY ClosesAreOfItsIncarnation
CHECK_DEADLOCK FALSE
