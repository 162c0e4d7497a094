SPECIFICATION Spec
CONSTANTS
    Ids = {m1, m2, m3}
    None = none
    Ops <- RunOps
    Requests = {r1, r2}
    Events = events
    Limits = {1, 2}
    Sessions = 2
    Arrivals = 1
SYMMETRY Symmetry
INVARIANTS
    TypeOK
    RowKeepsSecret
    HistoryBounded
    FailureMeansUnsent
    VoteResolved
CHECK_DEADLOCK FALSE
