SPECIFICATION FairSpec
CONSTANTS
  MaxCommit = 1
  Runs = {r1, r2}
  Callers = {pass}
  Pass = pass
  MaxGrants = 1
  MaxFaults = 0
  SlowJobs = TRUE
PROPERTIES
  OneJobPerCommit
