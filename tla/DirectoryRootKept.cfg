SPECIFICATION Spec
CONSTANTS
  full = full
  long = long
  Name <- Names
  Exact = {full}
  TooLong = {long}
  Lines <- Typed
  LastIno = 3
  NR_BLOCK = 5
  LongAgo = {{}}
  HeadBlocks = {3}
  DIR_ENTRIES = 4
CONSTRAINT OnlyRm
INVARIANTS
  RootKept
