SPECIFICATION Spec
CONSTANTS
    Paths = {p1, p2}
    Contents = {empty, x, y}
    Empty = empty
    Commands = {"Edit", "New", "Open", "Save", "SaveAll", "SaveAs", "Reload", "Rename", "Delete", "Activate", "Move", "Close", "CloseOthers", "CloseAll", "Reopen", "OpenDirectory"}
    MaxRecords = 2
    MaxClosed = 2
    MaxOperations = 4
    MaxChanges = 1
    MaxFailures = 1
    MaxExits = 2
SYMMETRY Symmetry
INVARIANTS TabsMirrorWorkspace EditsBranchFromDisk
PROPERTIES UnsavedTabsReturnUnlessAbandoned
CHECK_DEADLOCK FALSE
