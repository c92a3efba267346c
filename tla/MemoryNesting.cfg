\* Nine addresses: up to nine nested commands, and the heap runs out.
SPECIFICATION NestedSpec
CONSTANTS
  HeapStart = 1
  HeapEnd = 10
  MAX_MEM_RECORDS = 2
  Sizes <- OneToThree
INVARIANTS
  Stacked
  NeverFragmented
  AllReturned
\* A panic halts the processor.
CHECK_DEADLOCK FALSE
