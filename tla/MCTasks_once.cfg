CONSTANTS
  MaxId = 3
  QueueSize = 4
  MaxDepth = 2
  Boot = Boot
  ShallowStart = TRUE

SPECIFICATION FairSpec

PROPERTY JumpsAtOnce

CHECK_DEADLOCK FALSE
