CONSTANTS
  Runtime = "core"
  ProgramOps <- MCNeverHalts
  HandlerOps <- MCReturns
  MaxRequests = 2
  MaxNesting = 1

SPECIFICATION Spec

INVARIANT EndsOnlyByHalt

CHECK_DEADLOCK FALSE
