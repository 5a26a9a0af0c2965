CONSTANTS
  key = key
  click = click
  menu = menu
  none = none
  Empty = Empty
  Word <- MCWord
  Words = 2
  Slots = 3
  HandlerEvents <- MCHandlerEvents
  Burst = 2
  ProgramEvents <- MCProgramEvents
  Blank <- MCBlank

SPECIFICATION LoopSpec

INVARIANTS NeverRunsAway EventsWhole
PROPERTIES NoneDropped FifoSpec CallsReturn WaitReturns AllDelivered

CHECK_DEADLOCK FALSE
