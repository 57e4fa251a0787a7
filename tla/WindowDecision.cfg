SPECIFICATION Spec
CONSTANTS
  o = o
  x = x
  y = y
  sp = sp
  Texts = {o, x, y, sp}
  Blank = sp
  MaxTokens = 5
  MaxAmbiguous = 2
  Documents <- MCDocuments
  Bigrams <- MCBigrams
  Scores <- MCScores
  MaxWindow = 2
  BeamSize = 2
  PerToken = 2
  ReplaceThreshold = 720
  AmbiguousMargin = 4
  MinMargin = 8
INVARIANTS
  OneVerdictPerToken
  AmbiguousIsPlaced
  OriginalCarried
  FavouriteSurvives
  AcceptedIsClear
  DepartureIsReported
CHECK_DEADLOCK FALSE
