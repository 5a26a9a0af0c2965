SPECIFICATION Spec
CONSTANTS
  ByteBits = 4
  Regs <- MCRegs
  RamSize = 16
  RomStart = 32
  RomSize = 4
  Start <- MCStart
  Program <- MCProgram
  Sequel <- MCSequel
  Vectors = {0, 1}
  Answers = {0, 777}
  MaxSteps = 4
INVARIANT Agree
PROPERTIES
  FollowsOn
  NarrowWrites
  ReturnsToInterrupted
CHECK_DEADLOCK FALSE
