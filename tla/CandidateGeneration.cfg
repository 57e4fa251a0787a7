SPECIFICATION Spec
CONSTANTS
  Weight <- MCWeight
  MaxOcrReplacements = 2
  MaxPhraseWindow = 4
  MaxEditDistance = 1
  MinEditLength = 3
  MaxEditLength = 20
  Domain = "none"
  Within <- MCWithin
  MaxSize = 2
  Lexicons <- MCLexicons
  Words <- MCWords
  Documents <- MCDocuments
  SourcesEnabled <- MCSources
  MaxCandidates = 3
  KeepOriginalFirst = TRUE
  IdentityTypes <- MCIdentityTypes
  MaxCalls = 3
CHECK_DEADLOCK FALSE
INVARIANTS
  OriginalFirst
  CacheTransparent
  OtherSourcesHeard
  ProtectedAlone
  EvidenceOrderIrrelevant
