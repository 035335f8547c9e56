SPECIFICATION SpecSeen
CONSTANTS
  Mains <- SomeMains
  FirstMain <- Old
  Projects = {"p1", "p2", "p3"}
  AtFirst <- SomeServices
  Passes = {w1, w2}
  HeadOf <- SomeHeads
  Released = {"app"}
  MaxMoves = 2
  MaxEvents = 0
SYMMETRY Same
INVARIANTS
  NextPassImports
CHECK_DEADLOCK FALSE
