CONSTANTS
  ByteBits = 4
  Regs <- MCRegs
  RamSize = 170
  RomStart = 200
  RomSize = 0
  Programs <- MCPrograms
  Files <- MCFiles
  MaxIncludes = 3
  Payload = 24
  SectorSize = 30
  NameLength = 2
  KernelBase = 8
  StartupBase = 72
  SystemName <- MCSystemName
  ConfigName <- MCConfigName
  FatJumps <- MCFatJumps
  RyfsMagic <- MCRyfsMagic
  ProgramName <- MCProgramName
  System <- MCSystem
  Layout <- MCLayout
  Requests <- MCRequests
  KernelBottom = 34
  MemoryTop = 70
  Words = 65536
  MaxBlocks = 3

SPECIFICATION FairSpec

CHECK_DEADLOCK FALSE

INVARIANTS FetchesWhatWasWritten KernelStays ReadsWhatWasAsked BlocksApart
PROPERTIES Starts
