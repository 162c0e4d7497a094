SPECIFICATION Spec
CONSTANTS
  Tokens = {t1, t2}
  Requests = {r1}
  Objs = {o1, o2, o3}
  None = None
INVARIANT WebhooksSigned
CHECK_DEADLOCK FALSE
