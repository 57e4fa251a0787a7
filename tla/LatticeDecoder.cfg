SPECIFICATION FairSpec
CONSTANTS
  Scores = {0, 1, 2}
  Risks = {0, 1}
  MaxWords = 3
  MaxExtra = 3
  Lattices <- MCLattices
INVARIANTS
  TotalsMatch
PROPERTIES
  AnswersBest
  Terminates
CHECK_DEADLOCK FALSE
