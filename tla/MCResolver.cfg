SPECIFICATION Spec
CONSTANTS
  a = a
  b = b
  NoSymbol = NoSymbol
  Names <- MCNames
  Stmts <- MCStmts
  DeclLists <- MCDeclLists
  Lists <- MCLists
  MaxDepth = 2
INVARIANTS TypeOK FirstDeclared ReferencesLexical
PROPERTIES DuplicateReported UsesHoisted
CHECK_DEADLOCK FALSE
