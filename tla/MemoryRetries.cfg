SPECIFICATION ScheduledSpec
CONSTANTS
  Stages = {"METADATA", "EXTRACT"}
  Lacking = {"EXTRACT"}
  Calls = {c1, c2}
  Workers = {w1, w2}
  BatchSize = 2
  MaxAttempts = 1
  None = None
  MaxFaults = 1
PROPERTY RetriesEnd
CHECK_DEADLOCK FALSE
