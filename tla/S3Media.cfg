SPECIFICATION Spec
CONSTANTS
  Confs = {c1, c2}
  Msgs = {m1, m2}
  Requests = {r1, r2}
  None = None
SYMMETRY Symmetry
INVARIANTS
  LinkOnlyIfStored
  StoredIsLinked
  WebhookStillSent
CHECK_DEADLOCK FALSE
