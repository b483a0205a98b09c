\* Texts of up to four pieces, and sources of up to eleven tokens.
CONSTANTS
  Ops <- MCOps
  Specifiers <- MCSpecifiers
  NextTokens <- LikelyTokens
  MaxTokens = 11
  Keywords <- MCKeywords
  Texts <- MCTexts
SPECIFICATION FrontSpec
INVARIANTS
  FrontTypeOK
  TokensAreText
  TreeIsSource
  ShapesForEmitter
  AssertsOnlyInDeclarations
PROPERTIES
  FailureLeavesNoTrace
  FrontEnds
CHECK_DEADLOCK FALSE
