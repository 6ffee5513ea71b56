SPECIFICATION Spec
CONSTANTS
  NumWork = 1
  Users = {1}
  Chains <- Sizes
  Doors <- AnyDoor
  Mtu = 3
  FragMod = 8
  InpDepth = 1
  OutDepth = 1
  LinkDepth = 1
  Plans <- OneBreak
CHECK_DEADLOCK FALSE
INVARIANT
  NeverJoined
