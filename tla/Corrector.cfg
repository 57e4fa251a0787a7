SPECIFICATION Spec
CONSTANTS
  Datasets <- MCDatasets
  Configs <- MCConfigs
  DefaultConfig <- On
  Replacements <- MCReplacements
  Detected <- MCDetected
  MaxInputChars = 8
CHECK_DEADLOCK FALSE
INVARIANTS
  OffsetsHold
  ProtectedSurvives
  CaseKept
  MeasuresAgree
