------------------------------- MODULE Memory -------------------------------
(***************************************************************************)
(* The memory allocator, src/src/mm/memory.cc: a table of the free pieces  *)
(* of memory, in the order of their addresses.  Ri_malloc cuts a block off *)
(* the front of the first piece that is long enough, Ri_free puts a block  *)
(* back and joins it with the pieces before and behind it.                 *)
(*                                                                         *)
(* An action is a whole call; neither function prints or touches the disk. *)
(* A caller frees what it was lent, once and with the size it asked for,   *)
(* as cat, slow_cat and setup_fs do, but in any order: MemoryNesting adds  *)
(* the order in which those callers come.  Addresses fit in 32 bits, so    *)
(* the sum of an address and a size of the table does not wrap.            *)
(***************************************************************************)
EXTENDS Naturals, FiniteSets, SequencesExt

CONSTANTS
  HeapStart,          \* first address of the heap, 0x400000 in the code
  HeapEnd,            \* first address behind the heap, 0xffffffff
  MAX_MEM_RECORDS,    \* records of the table, 4090
  Sizes               \* the sizes that callers ask for

ASSUME MemoryAssumption ==
  /\ HeapStart \in Nat /\ HeapEnd \in Nat /\ HeapStart < HeapEnd
  /\ MAX_MEM_RECORDS \in Nat /\ MAX_MEM_RECORDS >= 1
  /\ Sizes \subseteq Nat \ {0}

VARIABLES
  mem_record,   \* the records in use: mem_record_total of them
  lent,         \* history: the blocks in the hands of callers
  lost,         \* history: addresses that a full table could not take back
  running       \* FALSE once _panic has halted the processor

vars == <<mem_record, lent, lost, running>>

HeapAddr == HeapStart .. (HeapEnd - 1)

(* A record of the table, and a block that a caller holds: never empty. *)
Mem_record == [mem_addr : HeapAddr, mem_size : 1 .. (HeapEnd - HeapStart)]
EndOf(r) == r.mem_addr + r.mem_size
Span(r) == r.mem_addr .. (r.mem_addr + r.mem_size - 1)

TypeOK ==
  /\ mem_record \in Seq(Mem_record)
  /\ Len(mem_record) <= MAX_MEM_RECORDS
  /\ lent \subseteq Mem_record
  /\ lost \subseteq HeapAddr
  /\ running \in BOOLEAN

-----------------------------------------------------------------------------
(* Each definition named ...Mutant is a plausible bug in the definition    *)
(* that follows it; no specification uses it.                              *)

(* init_mem_table: the empty table after the free of the whole heap. *)
Init ==
  /\ mem_record = <<[mem_addr |-> HeapStart, mem_size |-> HeapEnd - HeapStart]>>
  /\ lent = {}
  /\ lost = {}
  /\ running = TRUE

(* The search loop of mem_record_free stops at the first record that lies  *)
(* above the address p, or behind the last one.                            *)
StopsAt(i, p) ==
  /\ \A k \in 1 .. (i - 1) : mem_record[k].mem_addr <= p
  /\ i <= Len(mem_record) => mem_record[i].mem_addr > p

JoinsPrev(i, b) == i > 1 /\ EndOf(mem_record[i - 1]) = b.mem_addr

JoinsNextMutant(i, b) == FALSE
JoinsNext(i, b) == i <= Len(mem_record) /\ EndOf(b) = mem_record[i].mem_addr

GrownBy(i, n) == [mem_record EXCEPT ![i].mem_size = mem_record[i].mem_size + n]

MergeBoth(i, b) ==
  /\ JoinsPrev(i, b) /\ JoinsNext(i, b)
  /\ mem_record' =
       RemoveAt(GrownBy(i - 1, b.mem_size + mem_record[i].mem_size), i)
  /\ UNCHANGED lost

MergePrev(i, b) ==
  /\ JoinsPrev(i, b) /\ ~JoinsNext(i, b)
  /\ mem_record' = GrownBy(i - 1, b.mem_size)
  /\ UNCHANGED lost

MergeNext(i, b) ==
  /\ ~JoinsPrev(i, b) /\ JoinsNext(i, b)
  /\ mem_record' =
       [mem_record EXCEPT ![i] =
          [mem_addr |-> b.mem_addr,
           mem_size |-> mem_record[i].mem_size + b.mem_size]]
  /\ UNCHANGED lost

(* The test against MAX_MEM_RECORDS. *)
HasRoomMutant == Len(mem_record) <= MAX_MEM_RECORDS
HasRoom == Len(mem_record) < MAX_MEM_RECORDS

InsertRecordMutant(i, b) ==
  /\ ~JoinsPrev(i, b) /\ ~JoinsNext(i, b)
  /\ HasRoom
  /\ mem_record' = [mem_record EXCEPT ![i] = b]
  /\ UNCHANGED lost

InsertRecord(i, b) ==
  /\ ~JoinsPrev(i, b) /\ ~JoinsNext(i, b)
  /\ HasRoom
  /\ mem_record' = InsertAt(mem_record, i, b)
  /\ UNCHANGED lost

(* mem_record_free returns -1, which no caller looks at. *)
TableFull(i, b) ==
  /\ ~JoinsPrev(i, b) /\ ~JoinsNext(i, b)
  /\ ~HasRoom
  /\ lost' = lost \union Span(b)
  /\ UNCHANGED mem_record

mem_record_free(b) ==
  \E i \in 1 .. (Len(mem_record) + 1) :
    /\ StopsAt(i, b.mem_addr)
    /\ \/ MergeBoth(i, b) \/ MergePrev(i, b) \/ MergeNext(i, b)
       \/ InsertRecord(i, b) \/ TableFull(i, b)

Ri_free(b) ==
  /\ running
  /\ mem_record_free(b)
  /\ lent' = lent \ {b}
  /\ UNCHANGED running

-----------------------------------------------------------------------------
LongEnoughMutant(n) ==
  {i \in 1 .. Len(mem_record) : mem_record[i].mem_size > n}

LongEnough(n) == {i \in 1 .. Len(mem_record) : mem_record[i].mem_size >= n}

(* Cut n addresses off the front of record i; an empty record goes away. *)
CutFrom(i, n) ==
  IF mem_record[i].mem_size = n
  THEN RemoveAt(mem_record, i)
  ELSE [mem_record EXCEPT ![i] =
          [mem_addr |-> mem_record[i].mem_addr + n,
           mem_size |-> mem_record[i].mem_size - n]]

(* The first record that is long enough. *)
FirstFit(n) ==
  \E i \in LongEnough(n) :
    /\ \A k \in LongEnough(n) : i <= k
    /\ mem_record' = CutFrom(i, n)
    /\ lent' = lent \union
                 {[mem_addr |-> mem_record[i].mem_addr, mem_size |-> n]}
    /\ UNCHANGED <<lost, running>>

RunOut(n) ==
  /\ LongEnough(n) = {}
  /\ running' = FALSE
  /\ UNCHANGED <<mem_record, lent, lost>>

Ri_malloc(n) ==
  /\ running
  /\ FirstFit(n) \/ RunOut(n)

Next ==
  \/ \E n \in Sizes : Ri_malloc(n)
  \/ \E b \in lent : Ri_free(b)

Spec == Init /\ [][Next]_vars

-----------------------------------------------------------------------------
FreeAddr == UNION {Span(mem_record[i]) : i \in 1 .. Len(mem_record)}
LentAddr == UNION {Span(b) : b \in lent}

(* The table is in the order of the addresses and no piece touches the     *)
(* next, so every run of free addresses is within one record and the first *)
(* fit is the lowest: every branch of mem_record_free (memory.cc:19-76)    *)
(* has to leave it so.                                                     *)
TableSound ==
  \A i, k \in 1 .. Len(mem_record) :
    i < k => EndOf(mem_record[i]) < mem_record[k].mem_addr

(* Every address of the heap is in exactly one place: free, with one       *)
(* caller, or given up by a full table.  No two callers share memory.      *)
Conserved ==
  /\ FreeAddr \union LentAddr \union lost = HeapAddr
  /\ FreeAddr \intersect LentAddr = {}
  /\ (FreeAddr \union LentAddr) \intersect lost = {}
  /\ \A b, c \in lent : b # c => Span(b) \intersect Span(c) = {}

Inv == TypeOK /\ TableSound /\ Conserved

(* The table implements the heap: lowest fit, a panic only when no run of  *)
(* free addresses is long enough (fragments are always joined), and memory *)
(* is lost only when the table is full and the block touches no piece.     *)
Promise == INSTANCE Heap WITH
  InitFree <- HeapAddr,
  MaxRuns <- MAX_MEM_RECORDS,
  free <- FreeAddr
PromiseSpec == Promise!Spec
=============================================================================
