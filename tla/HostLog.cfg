CONSTANTS
  c1 = c1
  c2 = c2
  c3 = c3
  c4 = c4
  Calls = {c1, c2, c3, c4}
  IoFaults = {"none", "part", "frame", "meta"}
  MaxCrashes = 2
SPECIFICATION Spec
INVARIANTS
  CrashSafety
  AckedSeqsDistinct
PROPERTY ImplementsDurableLog
CHECK_DEADLOCK FALSE
