SPECIFICATION Spec
CONSTANTS
  Ids = {"u-1"}
  TokenIds = {}
  Rows <- SomeRows
  OverrideMaps <- SomeOverrides
  TagLists <- SomeLists
  Slugs = {"acme"}
  Projects = {"nova", "prod"}
  Cap = 2
  MaxEvents = 3
INVARIANT
  DepartedHoldNothing
CHECK_DEADLOCK FALSE
