SPECIFICATION FairSpec
CONSTANTS
  Peers = {p}
  Retries = 2
  MaxAccepts = 1
  MaxPublishes = 2
  MaxTasks = 2
  MaxResets = 1
INVARIANTS
  NothingIsForgotten
PROPERTIES
  NoStaleTicket
  DeliveriesEnd
CHECK_DEADLOCK FALSE
