SPECIFICATION DocSpec
CONSTANTS
  IntBits = 4
  LargestBits = 5
  Settings <- MCSettings
  FirstLexemes <- MCLexemes
  Lexemes <- MCLexemes
  MaxDoc = 2
  MaxAfterError = 1
  MaxPushed = 1
  RightMargin = 16
  Paths <- MCPaths
  Leaves <- MCLeaves
  RootLeaves <- MCRootLeaves
  Indices <- MCIndices
  Names <- MCNames
  Writers <- MCWriters
  MaxNodes = 4
INVARIANTS
  WriteInv
  ConversionsAgree
PROPERTIES
  
  EditsOrdered
