SPECIFICATION Spec
CONSTANTS
    Paths = {p1, p2}
    Contents = {empty, x, bin}
    Empty = empty
    Undecodable = {bin}
    Worlds <- MCWorlds
    MaxCommands = 3
SYMMETRY Symmetry
INVARIANTS ConflictsAreSound DivergenceIsKnown SaveEndsConflict
PROPERTIES UnsavedTextSurvives
CHECK_DEADLOCK FALSE
