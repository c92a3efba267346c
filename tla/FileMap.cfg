\* Two inodes, five blocks, one direct zone and index blocks of two numbers.
SPECIFICATION Spec
CONSTANTS
  LastBlk = 5
  LastIno = 2
  Direct = 1
  Fanout = 2
  HeadWord = 1
  Lens <- OneLevel
  HandsOut <- Lowest
INVARIANTS
  TypeOK
  OneHand
  ReadsBack
  NothingLost
  NamesInUse
CONSTRAINT WhileSound
