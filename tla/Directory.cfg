SPECIFICATION Spec
CONSTANTS
  full = full
  long = long
  Name <- Names
  Exact = {full}
  TooLong = {long}
  Lines <- Typed
  LastIno = 3
  NR_BLOCK = 4
  LongAgo = {{}, {2}}
  HeadBlocks = {3}
  DIR_ENTRIES = 4
CONSTRAINT WhileSound
INVARIANTS
  TypeOK
  TreeSound
  CwdInStep
  Accounted
  NamesFound
PROPERTIES
  TreeSpec
  CommandsEnd
