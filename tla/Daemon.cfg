SPECIFICATION FairSpec
CONSTANTS
  c1 = c1
  c2 = c2
  q1 = q1
  q2 = q2
  k1 = k1
  k2 = k2
  Nobody = Nobody
  Pids = {1, 2, 3}
  Clients = {c1, c2}
  Peers = {q1, q2}
  Keys = {k1, k2}
  Dirs = {"private", "shared", "missing"}
  MaxEntries = 1
  Budgets <- MCBudgets
INVARIANTS
  OwnerServes
  RestartKeepsState
PROPERTIES
  CallsReturn
CHECK_DEADLOCK FALSE
