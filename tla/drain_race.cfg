CONSTANTS
  j1 = j1
  w1 = w1
  None = None
  Jobs = {j1}
  Workers = {w1}
  Capacity = 2
  MaxClaims = 2
  MaxDrains = 0
  MaxFaults = 0
SPECIFICATION Spec
INVARIANTS
  RunningJobsAreRenewed
CHECK_DEADLOCK FALSE
