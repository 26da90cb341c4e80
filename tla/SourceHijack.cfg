SPECIFICATION SpecHijack
CONSTANTS
  l1 = l1
  l2 = l2
  s1 = s1
  s2 = s2
  Listener <- TwoListeners
  SrcClient <- TwoSources
  None = None
SYMMETRY Symmetry
INVARIANTS
  FreedUnattached
CHECK_DEADLOCK FALSE
