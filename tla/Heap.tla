-------------------------------- MODULE Heap --------------------------------
(***************************************************************************)
(* What the memory allocator of RiOS (src/src/mm/memory.cc) promises to    *)
(* the commands that call kmalloc and Ri_free, whatever records it keeps:  *)
(* a request gets the lowest run of free addresses that is long enough,    *)
(* the processor halts only when there is no such run, and a block that    *)
(* comes back is free again, unless the free memory is in so many pieces   *)
(* that the allocator cannot note one more.                                *)
(***************************************************************************)
EXTENDS Naturals, FiniteSets

CONSTANTS
  InitFree,   \* the addresses that the allocator starts from
  Sizes,      \* the sizes that callers ask for
  MaxRuns     \* how many pieces the allocator can note

VARIABLES
  free,       \* the free addresses
  lent,       \* the blocks in the hands of callers
  running     \* FALSE once the processor has halted

vars == <<free, lent, running>>

Run(a, n) == a .. (a + n - 1)
Fits(n) == {a \in free : Run(a, n) \subseteq free}

(* The first addresses of the pieces. *)
Starts == {a \in free : \A p \in free : p + 1 # a}

Init ==
  /\ free = InitFree
  /\ lent = {}
  /\ running = TRUE

Alloc(n) ==
  /\ running
  /\ \E a \in Fits(n) :
       /\ \A other \in Fits(n) : a <= other
       /\ free' = free \ Run(a, n)
       /\ lent' = lent \union {[mem_addr |-> a, mem_size |-> n]}
  /\ UNCHANGED running

Halt(n) ==
  /\ running
  /\ Fits(n) = {}
  /\ running' = FALSE
  /\ UNCHANGED <<free, lent>>

Free(b) ==
  /\ running
  /\ lent' = lent \ {b}
  /\ free' = free \union Run(b.mem_addr, b.mem_size)
  /\ UNCHANGED running

(* The block touches no piece, and there are too many pieces already. *)
Drop(b) ==
  /\ running
  /\ Cardinality(Starts) >= MaxRuns
  /\ \A p \in free : p + 1 # b.mem_addr /\ p # b.mem_addr + b.mem_size
  /\ lent' = lent \ {b}
  /\ UNCHANGED <<free, running>>

Next ==
  \/ \E n \in Sizes : Alloc(n) \/ Halt(n)
  \/ \E b \in lent : Free(b) \/ Drop(b)

Spec == Init /\ [][Next]_vars
=============================================================================
