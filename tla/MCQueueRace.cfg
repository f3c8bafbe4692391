SPECIFICATION Spec
CONSTANTS
  Callers <- MCCallers
  Threads <- MCThreads
  NoThread = NoThread
  MaxQueueSize = 1
PROPERTY StopReturns
