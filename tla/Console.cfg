SPECIFICATION Spec
CONSTANTS
  Key = {"k", " ", ""}
  BUFFER = 3
  WIDTH = 2
  HEIGHT = 1
  MaxPrinted = 1
  MaxDepth = 2
CONSTRAINT WithinBuffer
INVARIANTS
  TypeOK
  BufferIsTyped
  OutputStaysOut
PROPERTIES
  HandlersReturn
