SPECIFICATION FairSpec
CONSTANTS
  l1 = l1
  l2 = l2
  s1 = s1
  s2 = s2
  Listener <- TwoListeners
  SrcClient <- TwoSources
  None = None
INVARIANTS
  ListenersMatch
  FreedUnattached
  SourcesCounted
PROPERTIES
  SyncGrace
  MountReleased
CHECK_DEADLOCK FALSE
