CONSTANTS
  n1 = n1
  Names = {n1}
  NoSymbol = NoSymbol
  TypeExprs <- MCTypeExprs
  RetTypes <- MCRetTypes
  Literals <- MCLiterals
  Magnitudes <- MCMagnitudes
  Nodes = 2
SPECIFICATION Spec
INVARIANTS
  TypeOK
  PoisonReported
  NoCascade
  RulesConsistent
  InitFits
CHECK_DEADLOCK FALSE
