\* Two functions of up to 8 nodes with two parameters: windows side by side,
\* ids restarted, equal and half-equal products merged, and the register table
\* cleared between them; what they are compiled to is assembled and run.
CONSTANTS
  BinOps = {"MUL", "SUB"}
  CondOps = {"LT"}
  Level <- MCLevel
  Syntax = {"VOID", "UNKNOWN", "OBJECT"}
  NParams = 2
  MaxArgs = 3
  IdMod = 17
  LenMod = 16
  FirstTemporal = 5
  MaxFuncs = 2
  MaxNodes = 8
  NF = 2
  NT = 3
  NA = 2
  ByteMod = 64
  NReg = 8
  InstTable <- MCTable
  NoLabel = NoLabel
  PageSize = 8
  RomBase = 16
  RomSize = 36
  RamBase = 4096
  RamSize = 7
  MaxTicks = 10
  Arguments <- TwoArguments
SPECIFICATION Spec
INVARIANTS
  EmitTypeOK
  WindowsTile
  LowerTypeOK
  RegistersHoldValues
  CompiledComputes
PROPERTY
  PassStaysInWindow
CHECK_DEADLOCK FALSE
