SPECIFICATION Spec
CONSTANTS
    e1 = e1
    e2 = e2
    e3 = e3
    e4 = e4
    None = None
    NoActor = NoActor
INVARIANTS
    TypesOK
    RestorePointsSafe
    RetentionExact
    ServicesSafe
PROPERTIES
    NothingLost
    ReportsTrue
CHECK_DEADLOCK FALSE
