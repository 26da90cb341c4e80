SPECIFICATION FairSpec
CONSTANTS
  c1 = c1
  c2 = c2
  c3 = c3
  h1 = h1
  h2 = h2
  Client <- ThreeClients
  Handler <- TwoHandlers
  MaxPending = 0
  Threads = 2
  None = None
INVARIANTS
  QueueServed
  AuthAlive
  ClientsAccounted
PROPERTIES
  ClientAnswered
  AuthFreed
  ServiceKept
CHECK_DEADLOCK FALSE
