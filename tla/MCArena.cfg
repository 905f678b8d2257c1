SPECIFICATION Spec
CONSTANTS
  BLOCK_SIZE = 3
  HEADER_SIZE = 3
  ARENA_ALIGN = 1
  Sizes <- MCSizes
  Aligns <- MCAligns
  MaxBlocks = 3
  MaxSnaps = 2
INVARIANT ArenaInv
PROPERTY ReplayStable
CHECK_DEADLOCK FALSE
