SPECIFICATION FairSpec
CONSTANTS
  MaxTag = 2
  Commits = {c1, c2}
  NoCommit = none
  Garbled = garbled
  MaxFaults = 1
INVARIANTS
  RunsApproved
PROPERTIES
  RefusalStands
  ReleaseCatchesUp
