SPECIFICATION Spec
CONSTANTS
  MaxTag = 1
  Commits = {c1}
  NoCommit = none
  Garbled = garbled
  MaxFaults = 1
INVARIANTS
  UnparseableRefused
PROPERTIES
  RefusedForEver
