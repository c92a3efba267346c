\* Nine addresses and a table of three records: it fills up with two lent
\* blocks between free pieces, and blocks are lost beyond that.
SPECIFICATION Spec
CONSTANTS
  HeapStart = 1
  HeapEnd = 10
  MAX_MEM_RECORDS = 3
  Sizes <- OneToThree
INVARIANTS
  TypeOK
  TableSound
  Conserved
PROPERTIES
  PromiseSpec
\* A panic halts the processor.
CHECK_DEADLOCK FALSE
