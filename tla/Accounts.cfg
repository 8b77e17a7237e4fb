SPECIFICATION Spec
CONSTANTS
  Requests = {r1, r2, r3}
  Initial = Initial
  Factors = {f1}
  None = None
  MaxChallenges = 2
  MaxAttempts = 1
  MaxFaults = 1
SYMMETRY Symmetry
INVARIANTS TypeOK SpentOnce SessionsEndWithPassword SecondFactor
CHECK_DEADLOCK FALSE
