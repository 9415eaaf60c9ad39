SPECIFICATION Spec
CONSTANTS
    Documents = {1, 2}
    Languages = {cpp, text}
    PlainText = PlainText
    Sizes = {FALSE, TRUE}
    CanStop = TRUE
    MaxOperations = 3
    MaxBackground = 1
INVARIANTS SupersededIsCancelled ViewDescribesRequestedUnlessNeglected
PROPERTIES EveryRequestIsServed ImplementsHandOff
