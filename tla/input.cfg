SPECIFICATION Spec
CONSTANTS
  Keys <- MCKeys
  Replies <- MCReplies
  Forced = "unset"
  MaxSequence = 12
  MaxPaste = 16
  MaxSplits = 2
  MaxKeys = 2
INVARIANTS KeysArriveAsPressed SplitReadsAgree
PROPERTIES EveryKeyIsDelivered
CHECK_DEADLOCK FALSE
