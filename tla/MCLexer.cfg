CONSTANTS
  Alphabets <- MCAlphabets
  Keywords <- MCKeywords
SPECIFICATION Spec
INVARIANTS
  TypeOK
  LongestMatch
  GapsBlank
  Located
  LostAtEnd
PROPERTIES
  Termination
CHECK_DEADLOCK FALSE
