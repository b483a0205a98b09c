\* memmov, against its description in isa/README.md.
CONSTANTS
  ByteMod = 2
  PageSize = 4
  RomBase = 3
  RomSize = 3
  RamBase = 9
  RamSize = 4
  BlockOps = {"memmov"}
  Operands = {0, 3, 5, 10, 12, 15}
  InitialMemories <- MCMemories
  MaxRuns = 1
SPECIFICATION BlockSpec
INVARIANT
  MoveCopies
CHECK_DEADLOCK FALSE
