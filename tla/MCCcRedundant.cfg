\* Expressions that share an operand and differ in the other one.
CONSTANTS
  BinOps = {"MUL", "SUB"}
  CondOps = {}
  Level <- MCLevel
  Syntax = {}
  NParams = 2
  MaxArgs = 3
  IdMod = 16
  LenMod = 16
  FirstTemporal = 4
  MaxFuncs = 1
  MaxNodes = 8
SPECIFICATION OptimiseSpec
INVARIANT RemovesOnlyRedundant
CHECK_DEADLOCK FALSE
