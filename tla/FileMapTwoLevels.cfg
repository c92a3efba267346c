\* A file of up to eleven sectors, with two levels of index blocks, and a small one.
SPECIFICATION Spec
CONSTANTS
  LastBlk = 11
  LastIno = 2
  Direct = 1
  Fanout = 2
  HeadWord = 1
  Lens <- TwoLevels
  HandsOut <- Lowest
PROPERTIES
  StoreSpec
CONSTRAINT OneLongFile
