SPECIFICATION DeliverySpec
CONSTANTS
  Events = {e1, e2}
  Hooks = {"user", "global"}
  RetryEnabled = TRUE
  RetryCount = 2
  Endings = {"kill", "qrTimeout", "giveUp"}
INVARIANTS
  OutcomeTruthful
  DuplicateOnlyAfterLoss
PROPERTY CallsEnd
CHECK_DEADLOCK FALSE
