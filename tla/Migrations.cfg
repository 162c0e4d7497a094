SPECIFICATION Spec
CONSTANTS
    Replicas = {p1, p2, p3}
    N = 2
    Crashes = 1
INVARIANTS
    RecordedIffApplied
PROPERTIES
    AllServe
    OneUpgrade
CHECK_DEADLOCK FALSE
