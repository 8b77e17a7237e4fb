SPECIFICATION FairSpec
CONSTANTS
  Stages = {"METADATA", "EXTRACT"}
  Lacking = {"EXTRACT"}
  Calls = {c1, c2}
  Workers = {w1, w2}
  BatchSize = 2
  MaxAttempts = 1
  None = None
  MaxFaults = 1
INVARIANTS TypeOK HeldOnce ProcessingIsOwed
PROPERTIES JobsSettle
CHECK_DEADLOCK FALSE
