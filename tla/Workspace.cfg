SPECIFICATION FairSpec
CONSTANTS
    MaxAttempts = 2
    c1 = c1
    c2 = c2
    Callers = {c1, c2}
    Scenarios <- MCScenarios
INVARIANTS
  AttemptsAreUndone
  SessionsAreKept
  ShutdownIsHonest
PROPERTIES
  NobodyWaitsForEver
CHECK_DEADLOCK FALSE
