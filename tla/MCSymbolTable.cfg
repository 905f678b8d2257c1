SPECIFICATION TableSpec
CONSTANTS
  a = a
  b = b
  c = c
  Names <- MCNames
  x = x
  y = y
  Symbols <- MCSymbols
  NoSymbol = NoSymbol
  INITIAL_CAPACITY = 2
  HashOf <- MCHash
  MaxScopes = 2
INVARIANTS
  TableTypeOK
PROPERTY ImplementsScopes
