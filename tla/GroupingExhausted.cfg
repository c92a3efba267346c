SPECIFICATION Spec
CONSTANTS
  BLKS_PER_GROUP = 3
  TOTAL_GROUP = 1
  JunkWords <- AnyJunk
  FileData <- OversizedData
PROPERTIES
  FullStaysFull
