SPECIFICATION Spec
CONSTANTS
  IntBits = 4
  LargestBits = 6
  Settings <- MCSettings
  FirstLexemes <- MCFirstLexemes
  Lexemes <- MCLexemes
  MaxDoc = 6
  MaxAfterError = 1
  MaxPushed = 1
INVARIANTS
  AcceptsItsGrammar
  ReaderInv
PROPERTY
  ParseEnds
