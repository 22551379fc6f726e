SPECIFICATION MCFairSpec
CONSTANTS
  c1 = c1
  a1 = a1
  a2 = a2
  Servers = {1, 2}
  Clients = {c1}
  Addresses = {a1, a2}
  Deadline = 3
  ConnectTimeout = 2
  Chunks = 1
INVARIANTS
  AnsweredInTime
  OrderlyTransfer
  ClosedMeansDown
  NothingStuck
PROPERTIES
  ListenerReleased
  OwnerStops
  HandlerEnds
CHECK_DEADLOCK FALSE
