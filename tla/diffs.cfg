SPECIFICATION Spec
CONSTANTS
  FileCount = 2
  Absent = Absent
  CodePoints <- MCCodePoints
  Contents <- MCContents
  Events <- MCEvents
  Heads <- MCHeads
  Difference <- computedDifference
  IsDifference <- SaysWhatChanged
  TooLong <- tooManyLines
  Limits <- MCLimits
  Compared <- MCCompared
  QueueCapacity = 1
  MaxWrites = 2
  MaxScans = 3
  MaxCommands = 3
  MaxEvents = 1
INVARIANTS DifferencesAreExact DiffIsOneScan LiveDiffsShowTheDiff QueueNamesHunks
PROPERTIES ScansMoveToNewHunks
CHECK_DEADLOCK FALSE
