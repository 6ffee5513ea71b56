SPECIFICATION FairSpec
CONSTANTS
  FrameMod = 16
  FragMax = 7
  FrameWin = 4
  FragWin = 2
  Mtu = 4
  Hdr = 1
  Chains <- Sizes
  First <- Firsts
  MaxFrames = 7
  MaxRestarts = 1
  Late = 2
  Burst = 2
CHECK_DEADLOCK FALSE
INVARIANTS
  NeverInconsistent
  WindowInOrder
  FramesIntact
PROPERTY
  CompleteDelivered
