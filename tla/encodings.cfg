SPECIFICATION Spec
CONSTANTS
    Files <- MCFiles
    Rewrites <- MCRewrites
    Insertions <- MCInsertions
    MaxText = 4
    MaxEdits = 2
    MaxChanges = 1
    MaxDrafts = 1
INVARIANTS
    EncodingsReturnTheirBytes
    CleanSavesKeepTheFile
    SavesReadBack
    UniformEndingsStay
CHECK_DEADLOCK FALSE
