SPECIFICATION Spec
CONSTANTS
  Symbols <- MCSymbols
  Types <- MCTypes
  Numerals <- MCNumerals
  Matchers <- MCMatchers
  Find <- MCFind
  Left = "<<"
  Right = ">>"
  Underscore = "_"
  Texts <- PlainTexts
CHECK_DEADLOCK FALSE
INVARIANTS
  GivenUpByRule
  BestOfItsStart
  PlainRoundTrip
