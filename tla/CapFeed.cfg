CONSTANTS
  Host = h
  Peers = {p1}
  Actions <- PeerActions
  Senders = 2
  RingCap = 1
  WireCap = 1
  QueueCap = 1
  MaxAttempts = 2
  MaxLog = 3
  MaxDrops = 1
SPECIFICATION Spec
INVARIANTS
  ListenerIsComplete
PROPERTIES
  KeysFollowTheLog
  EventuallyCaughtUp
CHECK_DEADLOCK FALSE
