SPECIFICATION Spec
CONSTANTS
  Declared = {"STACK"}
  Types = {"void", "int"}
  MaxDepth = 5
PROPERTIES
  ReturnChecked
CHECK_DEADLOCK FALSE
