SPECIFICATION FairSpec
CONSTANTS
  Envs = {e1}
  Services = {s1}
  MaxCommit = 2
  Submitters = {u1, u2}
  Loops = {l1, l2}
PROPERTIES
  NeverOlderAfterNewer
