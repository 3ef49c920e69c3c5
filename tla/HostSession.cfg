CONSTANTS
  Host = h
  Peers = {p1}
  Tickets = {1, 2, 3}
  TicketCap <- MCTicketCap
  CapActions <- MCCapActions
  Scenarios <- MCScenarios
  MaxLog = 4
  MaxEpoch = 1
  MaxCrashes = 1
SPECIFICATION Spec
INVARIANTS
  LedgerIsExact
  EveryEntryAuthorized
  EpochAboveEveryClose
  ReloadRebuildsMemory
CHECK_DEADLOCK FALSE
