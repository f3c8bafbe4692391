SPECIFICATION Spec
CONSTANTS
  Calls <- MCCalls
  Interval = 1
  MaxAway = 0
  MaxStates = 1
  MaxQueueSize = 1
PROPERTY TimeoutIsResumed
