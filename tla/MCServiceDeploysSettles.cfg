SPECIFICATION SpecInTurn
CONSTANTS
  MaxCommit = 2
  Runs = {r1}
  Callers = {pass, hook}
  Pass = pass
  MaxGrants = 2
  MaxFaults = 1
  SlowJobs = TRUE
INVARIANTS
  LiveHasRun
PROPERTIES
  SupersededStaysDown
  SettlesAgain
  LiveStays
