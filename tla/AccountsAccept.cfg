SPECIFICATION Spec
CONSTANTS
  Requests = {r1, r2}
  Initial = Initial
  Factors = {f1}
  None = None
  MaxChallenges = 1
  MaxAttempts = 1
  MaxFaults = 0
SYMMETRY Symmetry
INVARIANT SecondFactorAsked
CHECK_DEADLOCK FALSE
