SPECIFICATION Spec
CONSTANTS
  Calls <- MCCalls
  Interval = 1
  MaxAway = 0
  MaxStates = 2
  MaxQueueSize = 1
INVARIANTS TypeOK RunningIsWatched
PROPERTIES PublishWhileConnected LossNotMasked SilenceNoticed
