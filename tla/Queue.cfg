SPECIFICATION FairSpec
CONSTANTS
  l1 = l1
  Listener <- OneListener
  Lens <- TwoLens
  Bursts <- TwoBursts
  Sizes <- SmallSizes
  Rate = 1
  Slack = 1
  TrimLoop = 2
  ShrinkEvery = 2
  MaxBlocks = 5
INVARIANTS
  QueueAccounted
  PositionsAgree
  SendsFromQueue
  NoTrap
PROPERTIES
  MinimumKept
  BehindLetGo
CHECK_DEADLOCK FALSE
