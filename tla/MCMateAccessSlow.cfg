SPECIFICATION Spec
CONSTANTS
  MaxGen = 8
  MaxFaults = 3
  SlowWrites = TRUE
INVARIANTS
  HeldIsLive
CHECK_DEADLOCK FALSE
