SPECIFICATION Spec
CONSTANTS
  BLKS_PER_GROUP = 3
  TOTAL_GROUP = 3
  JunkWords <- AnyJunk
  FileData <- PlausibleData
INVARIANTS
  TypeOK
  ListSound
  MemoryMirrorsDisk
  GivesUpOnlyWhenEmpty
PROPERTIES
  SparesOwned
  PoolSpec
CONSTRAINT WhileOpen
VIEW LiveView
