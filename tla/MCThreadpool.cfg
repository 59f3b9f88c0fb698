SPECIFICATION FairSpec
CONSTANTS
  Tasks = {t1, t2}
  Workers = {w1}
  NoTask = NoTask
  MaxQueueDepth = 1
  SyncTries = 1
INVARIANTS TypeOK Placement QueueDepthExact
PROPERTIES SyncEnds QueuedTaskStarts TasksAreReaped DestroyReturns
