SPECIFICATION Spec
CONSTANTS
  Sessions = {s1, s2}
  Requests = {r1}
  None = None
  MaxCrashes = 1
  Serial = TRUE
  DbMayFail = TRUE
INVARIANTS
  RegisteredIsDriven
  OrphanOnlyByRetry
  KillReachesSession
  RegisteredUntilStopped
PROPERTIES
  StartDecides
  StopTakesEffect
  LoggedOutEndsSession
CHECK_DEADLOCK FALSE
