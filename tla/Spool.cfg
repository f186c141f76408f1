SPECIFICATION FairSpec
CONSTANTS
  MaxEvents = 4
  BatchSize = 2
  QueueSize = 3
  Attempts = 2
  MaxFaults = 1
INVARIANT LossNeedsFault
PROPERTIES OutboxKept LeavesMemory
CHECK_DEADLOCK FALSE
