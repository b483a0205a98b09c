\* One function of up to 9 nodes, literals, blocks and conditionals among them,
\* with two usable T registers and a second parameter beyond the A register.
CONSTANTS
  BinOps = {"MUL", "SUB"}
  CondOps = {}
  Level <- MCLevel
  Syntax = {"LITERAL", "IF", "BLOCK"}
  NParams = 2
  MaxArgs = 3
  IdMod = 19
  LenMod = 16
  FirstTemporal = 5
  MaxFuncs = 1
  MaxNodes = 9
  NF = 2
  NT = 3
  NA = 1
SPECIFICATION FairLowerSpec
INVARIANTS
  SingleAssignment
  DefinedBeforeUse
  EmitTranslates
  NoDanglingOperand
  IdentityPassTranslates
  NoIdentityLeft
  NoDuplicateLeft
  RegistersHoldValues
  OneRegisterPerId
PROPERTIES
  AbortsForWantOnly
  CompilerReturns
CHECK_DEADLOCK FALSE
