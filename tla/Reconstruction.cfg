SPECIFICATION Spec
CONSTANTS
  TextLen = 4
  Confidences = {1, 2}
  MaxChanges = 3
  ChangeLists <- MCChangeLists
INVARIANTS
  RejectedIsDominated
  LogMatchesText
PROPERTIES
  CommitsAtOnce
CHECK_DEADLOCK FALSE
