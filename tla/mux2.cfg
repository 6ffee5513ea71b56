SPECIFICATION FairSpec
CONSTANTS
  NumWork = 2
  Users = {1, 2}
  Chains <- Sizes
  Doors <- AnyDoor
  Mtu = 3
  FragMod = 2
  InpDepth = 1
  OutDepth = 2
  LinkDepth = 1
  Plans <- SharedOrLossy
CHECK_DEADLOCK FALSE
INVARIANTS
  FramesWhole
  FewLeft
  Unclogged
PROPERTY
  Flows
