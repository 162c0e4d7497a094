SPECIFICATION Spec
CONSTANTS
  Sessions = {s1, s2}
  Requests = {r1}
  None = None
  MaxCrashes = 0
  Serial = FALSE
  DbMayFail = FALSE
INVARIANT FailureMeansAllAttempts
CHECK_DEADLOCK FALSE
