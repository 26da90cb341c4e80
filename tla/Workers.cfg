SPECIFICATION Spec
CONSTANTS
  w1 = w1
  w2 = w2
  c1 = c1
  c2 = c2
  Normal <- TwoNormal
  Incoming = Incoming
  Client <- OneClient
  Accept = Accept
  Slave = Slave
  None = None
SYMMETRY Symmetry
INVARIANTS
  OwnerMatches
  CountsMatch
  NoLostWakeup
  OneOwner
  NothingToRelocate
  TargetAlive
CHECK_DEADLOCK FALSE
