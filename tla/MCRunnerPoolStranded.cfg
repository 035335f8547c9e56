SPECIFICATION Spec
CONSTANTS
  Jobs = {j1, j2}
  NoTimer = NoTimer
  Quiet = 2
  MaxEvents = 0
INVARIANT
  QueuedWakes
CHECK_DEADLOCK FALSE
