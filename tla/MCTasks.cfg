CONSTANTS
  MaxId = 3
  QueueSize = 4
  MaxDepth = 2
  Boot = Boot
  ShallowStart = TRUE

SPECIFICATION FairSpec

INVARIANTS QueueFits BitmapExact OnePlace IdsNameThreads StackIntact
PROPERTIES RingSpec EveryTaskRuns

CHECK_DEADLOCK FALSE
