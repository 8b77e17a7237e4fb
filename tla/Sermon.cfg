SPECIFICATION FairSpec
CONSTANTS
  Derived = {"SUMMARIZE"}
  Creator = c0
  Calls = {c0, c1}
  Workers = {w1, w2}
  BatchSize = 2
  MaxAttempts = 2
  None = None
  MaxVersions = 2
  MaxFaults = 1
INVARIANTS TypeOK DerivedIsCurrent
PROPERTIES StatusStays ProcessingEnds
CHECK_DEADLOCK FALSE
