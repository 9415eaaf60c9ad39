SPECIFICATION Spec
CONSTANTS
  Keys <- MCKeys
  CommandLabels <- MCCommandLabels
  FileLists <- MCFileLists
  MaxActivation = 4
  MaxQuery = 1
CHECK_DEADLOCK FALSE
INVARIANTS FocusHoldersAreThere KeysGoWhereFocusIsShown
PROPERTIES EachOpeningRunsOneCandidate
