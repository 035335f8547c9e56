SPECIFICATION Spec
CONSTANTS
  Ids = {i1, i2}
  NoId = none
  Pass = pass
  Workers = {pass, w1}
  StopAfter = 2
  MaxPushes = 1
  MaxFaults = 2
INVARIANT OnlyRegistered
CHECK_DEADLOCK FALSE
