SPECIFICATION FlowSpec
CONSTANTS
  NoState = NoState
  NoSeq = NoSeq
  NoId = ""
  Orders <- MCOrders
  States <- MCStates
  MismatchThreshold = 2
  PendingCap = 1
  MaxQueueSize = 1
  DropOldest = TRUE
  MaxStops = 0
  MaxUplink = 1
  MaxLosses = 1
INVARIANTS BaseAgrees
PROPERTIES UpdateFindsItsBase DisagreementEnds HeldOrderCompletes
CHECK_DEADLOCK FALSE
