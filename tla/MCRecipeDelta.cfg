SPECIFICATION Spec
CONSTANTS
  Mains <- SomeMains
  FirstMain <- Old
  Projects = {"p1", "p2", "p3"}
  AtFirst <- SomeServices
  Passes = {w1, w2}
  HeadOf <- SomeHeads
  Released = {"app"}
  MaxMoves = 2
  MaxEvents = 1
SYMMETRY Same
INVARIANTS
  NothingBeforeAChange
  ImportedFirst
CHECK_DEADLOCK FALSE
