SPECIFICATION Spec
CONSTANTS
  INODE_BLKS = 2
  TOTAL_GROUP = 3
  SETUP = 3
INVARIANTS
  TypeOK
  SoundWhenUp
PROPERTIES
  KeepsFiles
  BootEnds
