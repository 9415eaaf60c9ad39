SPECIFICATION Spec
CONSTANTS
    x = x
    nl = nl
    Letters = {x, nl}
    Newline = nl
    InitialTexts <- Opened
    Commands = {"Insert", "DeleteBackward", "DeleteForward", "DeleteWordBackward", "DeleteWordForward", "Copy", "Cut", "Paste", "ReplaceAll"}
    ByteBudget = 40
    SelectionBytes = 8
    MaxRevision = 7
    MaxLength = 3
    MaxEdits = 3
    MaxMoves = 1
PROPERTIES ImplementsEditHistory
CHECK_DEADLOCK FALSE
