SPECIFICATION Spec
CONSTANTS
  Calls <- MCPauses
  Interval = 1
  MaxAway = 0
  MaxStates = 1
  MaxQueueSize = 1
PROPERTY PausedQueueKept
