SPECIFICATION Spec
CONSTANTS
  a = a
  b = b
  Keys = {a, b}
  MaxTokens = 4
  MaxPhrases = 2
  Documents <- MCDocuments
  Lexicons <- MCLexicons
  MinLen = 2
  MaxLen = 8
  AcceptMargin = 20000
  RiskThreshold = 50
INVARIANTS
  AllOrNothing
  StaysBetweenBreaks
  OnlyAddsAccents
  AppliedPassesGate
CHECK_DEADLOCK FALSE
