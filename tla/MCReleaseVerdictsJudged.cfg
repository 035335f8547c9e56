SPECIFICATION FairSpec
CONSTANTS
  MaxTag = 1
  Commits = {c1}
  NoCommit = none
  Garbled = garbled
  MaxFaults = 1
PROPERTIES
  TagJudged
