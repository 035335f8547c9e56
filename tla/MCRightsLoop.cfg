SPECIFICATION LoopSpec
CONSTANTS
  TagLists <- TwoLists
  Slugs = {"acme"}
  MaxMates = 1
  NudgeDelay = 1
  WatchInterval = 2
  ChaseInterval = 3
  Interval = 4
  ChaseFor = 5
  MaxEvents = 3
INVARIANTS
  NudgeSoon
  RegistrySoon
  ChaseEnds
CHECK_DEADLOCK FALSE
