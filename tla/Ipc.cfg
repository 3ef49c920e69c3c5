SPECIFICATION FairSpec
CONSTANTS
  Scripts <- MCScripts
  OutCap = 1
  WireCap = 1
  QueueCap = 1
  RingCap = 1
INVARIANTS
  ConnectionIsConsistent
PROPERTIES
  RequestsReturn
  TeardownCompletes
  ClosureIsSeen
CHECK_DEADLOCK FALSE
