SPECIFICATION Spec
CONSTANTS
  Declared = {"STACK", "ARENA", "GC", "FLEX"}
  Types = {"void", "int", "str"}
  MaxDepth = 4
INVARIANT CheckWalkInv
PROPERTIES
  PromoteInStack
  ReturnBlamed
CHECK_DEADLOCK FALSE
