CONSTANTS
  Runtime = "rust"
  ProgramOps <- MCProgramOps
  HandlerOps <- MCHandlerOps
  MaxRequests = 3
  MaxNesting = 3

SPECIFICATION FairSpec

INVARIANTS FlagRestored EndsOnlyByHalt
PROPERTIES WakesUp WindowFollows

CHECK_DEADLOCK FALSE
