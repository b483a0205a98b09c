\* Every program of up to three of 12 lines that jump and copy; the loop ends.
CONSTANTS
  ByteMod = 64
  NReg = 8
  InstTable <- ControlTable
  PageSize = 8
  RomBase = 16
  RomSize = 20
  RamBase = 4096
  RamSize = 7
  BlockOps = {"memcpy", "memset", "memchrf", "chtree", "strncpy"}
  Operands = {}
  InitialMemories = {}
  MaxRuns = 8
  Programs <- ControlPrograms
  InitialRegs <- SmallRegs
  MaxTicks = 6
  RA = 7
  FloatWords <- MCFloatWords
  FloatResult <- MCFloat
  CcTests <- MCTests
SPECIFICATION FairSpec
INVARIANTS
  CpuTypeOK
PROPERTY
  RunEnds
CHECK_DEADLOCK FALSE
