CONSTANTS
  PhraseFiles <- MCPhraseFiles
  Lexicon <- MCLexicon
  Windows <- MCWindows
  Domains <- MCDomains
SPECIFICATION ScorerSpec
INVARIANTS
  RestoredUnknownWins
  KnownWordKept
  SpacesDontMatter
PROPERTIES
  PhraseKeepsItsScore
