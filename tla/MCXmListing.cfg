\* Two lines of the real table, five lines with labels, and far labels.
CONSTANTS
  ByteMod = 256
  NReg = 16
  InstTable <- RealTable
  NoLabel = NoLabel
  NextLines <- ToolChainLines
SPECIFICATION FairListingSpec
INVARIANTS
  ListingTypeOK
  RunsWhatIsWritten
  ListsWhatIsWritten
  BranchesLand
PROPERTY
  ListingEnds
CHECK_DEADLOCK FALSE
