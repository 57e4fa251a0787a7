SPECIFICATION TokenizerSpec
CONSTANTS
  Symbols <- MCSymbols
  Class <- MCClass
  Vietnamese = {"a^"}
  Texts <- ShortTexts
  Protected <- DisjointSpans
CHECK_DEADLOCK FALSE
INVARIANTS
  TokensAreRuns
  AlignedSpansProtected
