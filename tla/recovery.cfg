SPECIFICATION Spec
CONSTANTS
    Paths = {p1, p2}
    Contents = {a, b}
    MaxRecords = 1
    MaxOperations = 2
    MaxWrites = 2
    MaxFailures = 2
    MaxCrashes = 2
INVARIANTS NothingLost
PROPERTIES ImplementsAtomicFiles
CHECK_DEADLOCK FALSE
SYMMETRY Symmetry
