SPECIFICATION Spec
CONSTANTS
  FrameMod = 8
  FragMax = 7
  FrameWin = 2
  FragWin = 2
  Mtu = 4
  Hdr = 1
  Chains <- Sizes
  First <- Firsts
  MaxFrames = 6
  MaxRestarts = 0
  Late = 2
  Burst = 3
CHECK_DEADLOCK FALSE
INVARIANTS
  NeverInconsistent
