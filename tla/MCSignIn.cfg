SPECIFICATION Spec
CONSTANTS
  People = {"eva", "jan"}
  Rids = {"r1"}
  Calls = {c1, c2, c3}
  Throwaway <- SomeThrowaways
  RequestTTL = 1
  CodeTTL = 2
  AccessTTL = 1
  Window = 1
  Retries = 1
  MaxEvents = 2
SYMMETRY Same
INVARIANTS
  OneSignIn
  NotLongGone
  PlacedFirst
CHECK_DEADLOCK FALSE
