SPECIFICATION Spec
CONSTANTS
  Ids = {"u-1", "u-2", "t-1"}
  TokenIds = {"t-1"}
  Rows <- SomeRows
  OverrideMaps <- SomeOverrides
  TagLists <- SomeLists
  Slugs = {"acme"}
  Projects = {"nova", "prod"}
  Cap = 2
  MaxEvents = 2
PROPERTY
  OnlyAdditionsLand
CHECK_DEADLOCK FALSE
