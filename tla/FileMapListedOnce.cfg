\* Two levels of index blocks.
SPECIFICATION Spec
CONSTANTS
  LastBlk = 12
  LastIno = 1
  Direct = 1
  Fanout = 2
  HeadWord = 1
  Lens <- TwoLevels
  HandsOut <- Lowest
INVARIANTS
  ListedOnce
CONSTRAINT WhileSoundOrTwice
