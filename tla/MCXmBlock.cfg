\* Every instruction, on 7 values at the regions' edges.
CONSTANTS
  ByteMod = 2
  PageSize = 4
  RomBase = 3
  RomSize = 3
  RamBase = 9
  RamSize = 4
  BlockOps = {"memcpy", "memmov", "memset", "memchr", "memchrf", "strcpy", "strncpy", "chtree", "chtreeunchk"}
  Operands = {0, 1, 3, 5, 10, 12, 15}
  InitialMemories <- MCMemories
  MaxRuns = 1
SPECIFICATION FairBlockSpec
INVARIANTS
  BlockTypeOK
  WritesStayInTarget
  SearchStopsAtFirst
PROPERTIES
  KeepsPromise
  CountedEnds
  StringCopyEnds
CHECK_DEADLOCK FALSE
