SPECIFICATION MCSpec
CONSTANTS
  Artifacts = {1, 2}
  Sermons = {s1}
  Workers = {w1, w2}
  BatchSize = 1
  None = None
  MaxVersions = 2
  MaxFaults = 1
INVARIANTS TypeOK IndexedIsFaithful
PROPERTY Converges
CHECK_DEADLOCK FALSE
