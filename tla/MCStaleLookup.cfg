SPECIFICATION FlowSpec
CONSTANTS
  NoState = NoState
  NoSeq = NoSeq
  NoId = ""
  Orders <- Shifted
  States <- MCStates
  MismatchThreshold = 2
  PendingCap = 1
  MaxQueueSize = 2
  DropOldest = TRUE
  MaxStops = 0
  MaxUplink = 1
  MaxLosses = 1
INVARIANT DrivesInSequence
CHECK_DEADLOCK FALSE
