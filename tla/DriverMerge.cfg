SPECIFICATION Spec
CONSTANTS
  MaxFiles = 3
  MaxDecls = 2
INVARIANTS DriverInv Merged LeavesInOrder
PROPERTY Termination
CHECK_DEADLOCK FALSE
