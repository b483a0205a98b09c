\* Every line of the real table, on its own.
CONSTANTS
  ByteMod = 256
  NReg = 16
  InstTable <- RealTable
  NoLabel = NoLabel
  NextLines <- OneLine
SPECIFICATION ListingSpec
INVARIANT
  FloatsRun
CHECK_DEADLOCK FALSE
