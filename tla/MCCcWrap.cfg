\* A function of as many tokens as its length field can count, and more.
CONSTANTS
  BinOps = {"MUL", "SUB"}
  CondOps = {}
  Level <- MCLevel
  Syntax = {"BLOCK"}
  NParams = 1
  MaxArgs = 3
  IdMod = 20
  LenMod = 8
  FirstTemporal = 5
  MaxFuncs = 1
  MaxNodes = 13
  NF = 2
  NT = 8
  NA = 2
SPECIFICATION LowerSpec
INVARIANT TokenFollows
CHECK_DEADLOCK FALSE
