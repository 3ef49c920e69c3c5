SPECIFICATION Spec
CONSTANTS
  f1 = f1
  e0 = e0
  c1 = c1
  c2 = c2
  c3 = c3
  Paths = {f1}
  Contents = {e0, c1, c2, c3}
  Absent = Absent
  Unset = Unset
  InitialFiles = {Absent, c1}
  UserFiles = {e0, c3}
  PeerFiles = {Absent, c2}
  Length <- MCLength
  Hardcoded = {}
  Configs <- MCConfigs
INVARIANTS
  ApplierSettles
  RestAgrees
PROPERTIES
  LocalFilesAreSpared
CHECK_DEADLOCK FALSE
