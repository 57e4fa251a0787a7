CONSTANTS
  MaxLength = 4
  TornAt = 1
  MaxCommits = 2
  FileVersions <- MCFileVersions
  ResourceVersions <- MCResourceVersions
SPECIFICATION Spec
INVARIANTS
  AllOrNothing
  BuiltInFirst
  StoreAgrees
  MergeLosesNothing
PROPERTIES
  BuildKeepsAndAdds
