SPECIFICATION Spec
CONSTANTS
  NR_OPEN = 2
  NR_FILE = 3
  MAX_ACTIVE_INODE = 3
  LastIno = 2
  jane = jane
  a = a
  b = b
  Name <- Names
  Texts <- OneText
SYMMETRY Symmetry
CONSTRAINT Few
INVARIANTS
  TypeOK
  Lockstep
  SlotsMirrorDisk
  NamesSound
PROPERTIES
  DerailsOnlyWhenFull
