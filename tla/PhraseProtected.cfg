SPECIFICATION Spec
CONSTANTS
  a = a
  b = b
  Keys = {a, b}
  MaxTokens = 3
  MaxPhrases = 2
  Documents <- MCDocuments
  Lexicons <- MCLexicons
  MinLen = 2
  MaxLen = 8
  AcceptMargin = 20000
  RiskThreshold = 50
INVARIANT
  ProtectedUntouched
CHECK_DEADLOCK FALSE
