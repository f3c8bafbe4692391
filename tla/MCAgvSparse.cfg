SPECIFICATION Spec
CONSTANTS
  NoState = NoState
  NoId = ""
  Orders <- MCOrders
  States <- MCStates
  MismatchThreshold = 3
  PendingCap = 1
  MaxQueueSize = 2
  DropOldest = FALSE
  MaxStops = 0
PROPERTY UpdatesAreValid
