SPECIFICATION FairSpec
CONSTANTS
  Tasks = {a, b}
  MaxRequests = 3
  MaxCrashes = 1
  MaxCloses = 1
  MaxAppends = 3
INVARIANTS
  ForwardersAreRight
  SendsAreExact
PROPERTY RequestsReturn
CHECK_DEADLOCK FALSE
