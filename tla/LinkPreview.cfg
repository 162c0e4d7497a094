SPECIFICATION Spec
CONSTANTS
    Callers = {c1, c2, c3}
    Users = {i1, i2}
    Urls = {u1, u2}
    Limit = 1
    None = None
INVARIANTS
    SlotsHeld
    StarvationNotCached
PROPERTY CallsAnswered
CHECK_DEADLOCK FALSE
