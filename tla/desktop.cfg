SPECIFICATION Spec
CONSTANTS
    e1 = e1
    e2 = e2
    e3 = e3
    e4 = e4
    None = None
    Error = Error
INVARIANTS
    TypesOK
    PagesTruthful
    FilesSafe
    KeysSafe
    GuessSafe
PROPERTIES
    ChangesWhole
CHECK_DEADLOCK FALSE
