\* Sources of up to five tokens.
CONSTANTS
  Ops <- MCOps
  Specifiers <- MCSpecifiers
  NextTokens <- LikelyTokens
  MaxTokens = 5
  Keywords <- MCKeywords
  Texts <- NoTexts
SPECIFICATION FrontSpec
INVARIANTS
  PoppedInOrder
CHECK_DEADLOCK FALSE
