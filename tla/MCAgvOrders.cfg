SPECIFICATION MCSpec
CONSTANTS
  NoState = NoState
  NoId = ""
  Orders <- MCOrders
  States <- MCStates
  MismatchThreshold = 2
  PendingCap = 1
  MaxQueueSize = 2
  DropOldest = TRUE
  MaxStops = 1
INVARIANTS TypeOK NoOrderTwice TrackerMatchesWire DispatchOrderKept NoOrderNoFlags
PROPERTIES NoConcurrentOrders UpdateIdAdvances ExtensionKeepsAnchor KeepsSession
