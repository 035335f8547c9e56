SPECIFICATION FairSpec
CONSTANTS
  MaxCommit = 1
  Runs = {r1}
  Callers = {pass}
  Pass = pass
  MaxGrants = 1
  MaxFaults = 1
  SlowJobs = TRUE
PROPERTIES
  FailedIsFinal
