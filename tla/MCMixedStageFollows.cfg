SPECIFICATION FairStage
CONSTANTS
  Sources = {main, feature}
  MaxHead = 1
  Pass = pass
  Grants = {g1}
  MaxTime = 7
  MaxJobs = 1
PROPERTIES
  StageFollows
