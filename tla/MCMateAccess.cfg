SPECIFICATION FairSpec
CONSTANTS
  MaxGen = 8
  MaxFaults = 3
  SlowWrites = FALSE
INVARIANTS
  HeldIsLive
  NoPile
PROPERTIES
  LeftForGrace
  MateServed
  OneGeneration
CHECK_DEADLOCK FALSE
