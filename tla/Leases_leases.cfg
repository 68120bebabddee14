SPECIFICATION Spec
CONSTANTS
    Works = {w1, w2}
    Sessions = {a, b}
    LeaseIds = {l1}
    Files = {f}
    NoWork = NoWork
    NoSession = NoSession
    NoLease = NoLease
    MaxDeaths = 2
    Deletes = TRUE
INVARIANTS TypeOK HeldHasTree OrphansWereShown
PROPERTIES DirtyTreeStays SharersKeepTheTree
SYMMETRY Symmetry
CHECK_DEADLOCK FALSE
