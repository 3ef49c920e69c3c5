SPECIFICATION Spec
CONSTANTS
  Host = h
  h = h
  p = p
  Peers = {h, p}
  Kinds = {k}
  Nothing = Nothing
  Corrupt = Corrupt
  MaxLives = 2
  MaxSeq = 1
  MaxLedgers = 2
  MaxPuts = 1
  MaxFaults = 1
INVARIANTS
  StoreLeadsMemory
  AttachmentsAreOwned
PROPERTY ImplementsSessionStore
CHECK_DEADLOCK FALSE
