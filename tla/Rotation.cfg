SPECIFICATION Spec
CONSTANTS
  p1 = p1
  p2 = p2
  Peers = {p1, p2}
  Past <- PastBoth
  Scenarios <- MCScenarios
  MaxLog = 5
  MaxCrashes = 1
  MaxFaults = 2
  MaxAttaches = 1
INVARIANTS
  NamespaceIsSafe
PROPERTIES
  ReplayDoesNotRotate
  SurvivorsFollowTheHost
  RevokedPeersAreCutOff
CHECK_DEADLOCK FALSE
