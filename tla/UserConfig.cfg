SPECIFICATION Spec
CONSTANTS
  Tokens = {t1, t2}
  Requests = {r1, r2}
  Objs = {o1, o2, o3}
  None = None
SYMMETRY Symmetry
VIEW ConfigView
INVARIANTS
  TypeOK
  CacheCoherent
  OldTokenForgotten
  TokensDoNotShare
CHECK_DEADLOCK FALSE
