CONSTANTS
  a = a
  b = b
  c = c
  Names = {a, b, c}
  NoSymbol = NoSymbol
  Programs <- MCPrograms
  Length = 6
SPECIFICATION CollectSpec
INVARIANTS
  DeclaredKnown
SYMMETRY Permuted
CHECK_DEADLOCK FALSE
