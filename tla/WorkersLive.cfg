SPECIFICATION FairSpec
CONSTANTS
  w1 = w1
  w2 = w2
  c1 = c1
  c2 = c2
  Normal <- OneNormal
  Incoming = Incoming
  Client <- OneClient
  Accept = Accept
  Slave = Slave
  None = None
PROPERTIES
  PendingAdopted
  StoppedWorkerExits
CHECK_DEADLOCK FALSE
