SPECIFICATION Spec
CONSTANTS
  MaxCommit = 2
  Runs = {r1, r2}
  Callers = {pass}
  Pass = pass
  MaxGrants = 1
  MaxFaults = 0
  SlowJobs = TRUE
INVARIANTS
  NotStuckOnOlder
