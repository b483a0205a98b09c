\* Every program of up to three of 11 lines that compute and access memory.
CONSTANTS
  ByteMod = 64
  NReg = 8
  InstTable <- DataTable
  PageSize = 8
  RomBase = 16
  RomSize = 20
  RamBase = 4096
  RamSize = 7
  BlockOps = {}
  Operands = {}
  InitialMemories = {}
  MaxRuns = 8
  Programs <- DataPrograms
  InitialRegs <- MCRegs
  MaxTicks = 6
  RA = 7
  FloatWords <- MCFloatWords
  FloatResult <- MCFloat
  CcTests <- MCTests
SPECIFICATION Spec
INVARIANTS
  FlagsDescribe
  LoadSwaps
  StraightHalts
CHECK_DEADLOCK FALSE
