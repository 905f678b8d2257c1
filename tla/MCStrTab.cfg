SPECIFICATION FairSpec
CONSTANTS
  a = a
  b = b
  c = c
  d = d
  e = e
  Str <- MCStr
  NoStr = NoStr
  Hash <- MCHash
  STRTAB_INIT_BUCKETS = 2
INVARIANTS
  StrTabInv
PROPERTIES
  ImplementsInterner
  InternReturns
CHECK_DEADLOCK FALSE
