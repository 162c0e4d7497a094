SPECIFICATION Spec
CONSTANTS
    UserIds = {u1, u2}
    Tokens = {t1, t2}
    Requests = {r1, r2}
    Sessions = {s1}
    None = none
    DbMayFail = TRUE
SYMMETRY Symmetry
VIEW View
INVARIANTS
    CachedHolder
    CleanDeletionStays
    RowStaysDeleted
CHECK_DEADLOCK FALSE
