------------------------ MODULE MemoryNestingProofs ------------------------
(***************************************************************************)
(* Proofs about the callers of the memory allocator: with commands that    *)
(* nest, the heap is never fragmented and always comes back whole.         *)
(***************************************************************************)
EXTENDS MemoryNesting, MemoryProofs

(* The first address behind the buffers of the commands in progress. *)
Top == IF Len(commands) = 0 THEN HeapStart ELSE EndOf(commands[Len(commands)])

(* One record, if any, holds what is behind them. *)
Rest(top) ==
  IF top = HeapEnd
  THEN <<>>
  ELSE <<[mem_addr |-> top, mem_size |-> HeapEnd - top]>>

RestFree ==
  /\ HeapStart <= Top /\ Top <= HeapEnd
  /\ mem_record = Rest(Top)
  /\ lost = {}

NestedInv == Inv /\ Stacked /\ RestFree

LEMMA CommandFacts ==
  ASSUME NestedInv
  PROVE  /\ Len(commands) \in Nat
         /\ Top \in Nat
         /\ \A k \in 1 .. Len(commands) :
              /\ commands[k] \in Mem_record
              /\ commands[k].mem_addr \in Nat
              /\ EndOf(commands[k]) \in Nat
              /\ commands[k].mem_addr < EndOf(commands[k])
              /\ EndOf(commands[k]) <= Top
<1>1. commands \in Seq(Mem_record)
  BY DEF NestedInv, Stacked
<1>2. /\ Len(commands) \in Nat
      /\ \A k \in 1 .. Len(commands) :
           /\ commands[k] \in Mem_record
           /\ commands[k].mem_addr \in Nat
           /\ EndOf(commands[k]) \in Nat
           /\ commands[k].mem_addr < EndOf(commands[k])
  BY <1>1, TableFacts
<1>3. Top \in Nat
  BY <1>2, MemoryAssumption DEF Top
<1>4. ASSUME NEW k \in 1 .. Len(commands)
      PROVE  EndOf(commands[k]) <= Top
  <2> DEFINE l == Len(commands)
  <2>1. l \in 1 .. Len(commands) /\ l \in Nat /\ Top = EndOf(commands[l])
    BY <1>2 DEF Top
  <2>2. CASE k = l
    BY <2>1, <2>2, <1>2
  <2>3. CASE k < l
    <3>1. EndOf(commands[k]) <= commands[l].mem_addr
      BY <2>1, <2>3 DEF NestedInv, Stacked
    <3> QED
      BY <2>1, <3>1, <1>2
  <2> HIDE DEF l
  <2> QED
    BY <2>1, <2>2, <2>3, <1>2 DEF l
<1> QED
  BY <1>2, <1>3, <1>4

LEMMA NestedInitially == NestedInit => NestedInv
<1> SUFFICES ASSUME NestedInit
             PROVE  NestedInv
  OBVIOUS
<1>1. Inv
  BY InvInit DEF NestedInit
<1>2. /\ mem_record = <<[mem_addr |-> HeapStart, mem_size |-> HeapEnd - HeapStart]>>
      /\ lent = {} /\ lost = {} /\ commands = <<>>
  BY DEF NestedInit, Init
<1>3. commands \in Seq(Mem_record) /\ Len(commands) = 0 /\ 1 .. Len(commands) = {}
  BY <1>2
<1>4. Stacked
  BY <1>2, <1>3 DEF Stacked
<1>5. Top = HeapStart
  BY <1>3 DEF Top
<1>6. RestFree
  BY <1>2, <1>5, MemoryAssumption DEF RestFree, Rest
<1> QED
  BY <1>1, <1>4, <1>6 DEF NestedInv

-----------------------------------------------------------------------------
(* A command begins: its buffer is the next one on the stack.              *)
LEMMA BeginStep ==
  ASSUME NestedInv, NEW n \in Sizes, Begin(n)
  PROVE  NestedInv'
<1>1. Inv'
  BY MallocStep DEF NestedInv, Begin
<1>2. CASE RunOut(n)
  <2>1. /\ mem_record' = mem_record /\ lent' = lent /\ lost' = lost
        /\ commands' = commands
    BY <1>2 DEF RunOut, Begin
  <2>2. Stacked' /\ Top' = Top
    BY <2>1 DEF NestedInv, Stacked, Top
  <2>3. RestFree'
    BY <2>1, <2>2 DEF NestedInv, RestFree
  <2> QED
    BY <1>1, <2>2, <2>3 DEF NestedInv
<1>3. CASE FirstFit(n)
  <2> DEFINE top == Top
             r == [mem_addr |-> top, mem_size |-> HeapEnd - top]
             c == [mem_addr |-> top, mem_size |-> n]
             l == Len(commands)
  <2>1. PICK i \in LongEnough(n) :
          /\ mem_record' = CutFrom(i, n)
          /\ lent' = lent \union {Cut(i, n)}
          /\ lost' = lost
          /\ running'
    BY <1>3 DEF FirstFit, Cut, Begin, Ri_malloc
  <2>2. /\ n \in Nat /\ n >= 1 /\ HeapStart \in Nat /\ HeapEnd \in Nat
        /\ top \in Nat /\ HeapStart <= top /\ top <= HeapEnd
        /\ l \in Nat
    BY MemoryAssumption, CommandFacts DEF NestedInv, RestFree
  <2>3. i \in 1 .. Len(mem_record) /\ mem_record[i].mem_size >= n
    BY DEF LongEnough
  <2>4. top # HeapEnd /\ mem_record = <<r>> /\ i = 1
    <3>1. top # HeapEnd
      <4>1. CASE top = HeapEnd
        <5>1. mem_record = <<>>
          BY <4>1 DEF NestedInv, RestFree, Rest
        <5> QED
          BY <5>1, <2>3
      <4> QED
        BY <4>1
    <3>2. mem_record = <<r>>
      BY <3>1 DEF NestedInv, RestFree, Rest
    <3>3. Len(mem_record) = 1
      BY <3>2
    <3> QED
      BY <3>1, <3>2, <3>3, <2>3
  <2>5. mem_record[i] = r /\ n <= HeapEnd - top
    <3>1. mem_record[i] = r
      BY <2>4
    <3>2. r.mem_size = HeapEnd - top
      OBVIOUS
    <3> HIDE DEF r
    <3> QED
      BY <3>1, <3>2, <2>2, <2>3
  <2>6. Cut(i, n) = c
    BY <2>5 DEF Cut
  <2>7. c \in Mem_record /\ Cut(i, n) \in Mem_record
    BY <2>1, <2>6, AllocEffect DEF NestedInv
  <2>8. mem_record' = Rest(top + n)
    <3> DEFINE q == [mem_addr |-> top + n, mem_size |-> HeapEnd - top - n]
    <3>1. CASE n = HeapEnd - top
      <4>1. mem_record' = RemoveAt(<<r>>, 1)
        BY <3>1, <2>1, <2>4, <2>5 DEF CutFrom
      <4>2. <<r>> \in Seq({r}) /\ Len(<<r>>) = 1 /\ 1 \in 1 .. Len(<<r>>)
        OBVIOUS
      <4>3. RemoveAt(<<r>>, 1) \in Seq({r}) /\ Len(RemoveAt(<<r>>, 1)) = 0
        <5>1. /\ RemoveAt(<<r>>, 1) \in Seq({r})
              /\ Len(RemoveAt(<<r>>, 1)) = Len(<<r>>) - 1
          <6> HIDE DEF r
          <6> QED
            BY <4>2, RemoveAtProperties
        <5> QED
          BY <4>2, <5>1
      <4>4. mem_record' = <<>>
        BY <4>1, <4>3, EmptySeq
      <4>5. top + n = HeapEnd
        <5> HIDE DEF top
        <5> QED
          BY <3>1, <2>2
      <4> QED
        BY <4>4, <4>5 DEF Rest
    <3>2. CASE n # HeapEnd - top
      <4>1. mem_record' = [mem_record EXCEPT ![i] = q]
        BY <3>2, <2>1, <2>5 DEF CutFrom
      <4>2. mem_record' = [<<r>> EXCEPT ![1] = q]
        BY <4>1, <2>4
      <4>3. mem_record' = <<q>>
        <5> HIDE DEF r, q
        <5> QED
          BY <4>2
      <4>4. top + n # HeapEnd /\ HeapEnd - top - n = HeapEnd - (top + n)
        <5> HIDE DEF top
        <5> QED
          BY <3>2, <2>2
      <4> QED
        BY <4>3, <4>4 DEF Rest
    <3> QED
      BY <3>1, <3>2
  <2>9. commands' = Append(commands, c)
    <3>1. PICK b \in lent' \ lent : commands' = Append(commands, b)
      BY <2>1 DEF Begin
    <3>2. b = c
      BY <2>1, <2>6
    <3> QED
      BY <3>1, <3>2
  <2>10. c.mem_addr = top /\ EndOf(c) = top + n
    BY DEF EndOf
  <2> HIDE DEF c
  <2>11. commands \in Seq(Mem_record)
    BY DEF NestedInv, Stacked
  <2>12. /\ commands' \in Seq(Mem_record)
         /\ Len(commands') = l + 1
         /\ \A k \in 1 .. l : commands'[k] = commands[k]
         /\ commands'[l + 1] = c
    BY <2>7, <2>9, <2>11, AppendProperties
  <2>13. 1 .. Len(commands') = (1 .. l) \union {l + 1}
    BY <2>2, <2>12
  <2>14. lent' = {commands'[k] : k \in 1 .. Len(commands')}
    <3>1. lent = {commands[k] : k \in 1 .. l}
      BY DEF NestedInv, Stacked
    <3> QED
      BY <3>1, <2>1, <2>6, <2>12, <2>13
  <2>15. commands'[1].mem_addr = HeapStart
    <3>1. CASE l = 0
      BY <3>1, <2>10, <2>12 DEF Top
    <3>2. CASE l # 0
      BY <3>2, <2>2, <2>12 DEF NestedInv, Stacked
    <3> QED
      BY <3>1, <3>2
  <2>16. \A k \in 1 .. Len(commands') :
           k > 1 => commands'[k].mem_addr = EndOf(commands'[k - 1])
    <3> SUFFICES ASSUME NEW k \in 1 .. Len(commands'), k > 1
                 PROVE  commands'[k].mem_addr = EndOf(commands'[k - 1])
      OBVIOUS
    <3>1. CASE k = l + 1
      <4>1. l \in 1 .. l /\ k - 1 = l
        BY <3>1, <2>2
      <4>2. EndOf(commands[l]) = top
        BY <4>1 DEF Top
      <4> QED
        BY <3>1, <4>1, <4>2, <2>10, <2>12
    <3>2. CASE k # l + 1
      <4>1. k \in 1 .. l /\ k - 1 \in 1 .. l
        BY <3>2, <2>2, <2>12
      <4> QED
        BY <4>1, <2>12 DEF NestedInv, Stacked
    <3> QED
      BY <3>1, <3>2
  <2>17. \A k, m \in 1 .. Len(commands') :
           k < m => EndOf(commands'[k]) <= commands'[m].mem_addr
    <3> SUFFICES ASSUME NEW k \in 1 .. Len(commands'), NEW m \in 1 .. Len(commands'),
                        k < m
                 PROVE  EndOf(commands'[k]) <= commands'[m].mem_addr
      OBVIOUS
    <3>1. k \in 1 .. l
      BY <2>2, <2>12
    <3>2. CASE m = l + 1
      BY <3>1, <3>2, <2>10, <2>12, CommandFacts
    <3>3. CASE m # l + 1
      <4>1. m \in 1 .. l
        BY <3>3, <2>13
      <4> QED
        BY <3>1, <4>1, <2>12 DEF NestedInv, Stacked
    <3> QED
      BY <3>2, <3>3
  <2>18. Top' = top + n
    BY <2>2, <2>10, <2>12 DEF Top
  <2>19. Stacked'
    BY <2>12, <2>14, <2>15, <2>16, <2>17 DEF Stacked
  <2>20. RestFree'
    <3>1. HeapStart <= top + n /\ top + n <= HeapEnd
      <4> HIDE DEF top
      <4> QED
        BY <2>2, <2>5
    <3> QED
      BY <3>1, <2>1, <2>8, <2>18 DEF NestedInv, RestFree
  <2> QED
    BY <1>1, <2>19, <2>20 DEF NestedInv
<1> QED
  BY <1>2, <1>3 DEF Begin, Ri_malloc

-----------------------------------------------------------------------------
(* The innermost command returns: its buffer joins the rest behind it.     *)
LEMMA FinishStep ==
  ASSUME NestedInv, Finish
  PROVE  NestedInv'
<1> DEFINE l == Len(commands)
<1>1. commands \in Seq(Mem_record) /\ l \in Nat /\ l >= 1 /\ l \in 1 .. l
  <2>1. commands \in Seq(Mem_record) /\ commands # <<>>
    BY DEF Finish, NestedInv, Stacked
  <2>2. l \in Nat \ {0}
    BY <2>1, EmptySeq
  <2> HIDE DEF l
  <2> QED
    BY <2>1, <2>2
<1>2. PICK b \in lent :
        /\ b = commands[l]
        /\ Ri_free(b)
        /\ commands' = Front(commands)
  BY <1>1 DEF Finish, Last, NestedInv, Stacked
<1>3. Inv'
  BY <1>2, FreeStep DEF NestedInv
<1>4. /\ \A k \in 1 .. l :
           /\ commands[k] \in Mem_record
           /\ commands[k].mem_addr \in Nat /\ EndOf(commands[k]) \in Nat
           /\ commands[k].mem_addr < EndOf(commands[k])
      /\ Top = EndOf(b)
  BY <1>1, <1>2, CommandFacts DEF Top
<1> DEFINE low == b.mem_addr
<1>5. /\ b \in Mem_record /\ low \in Nat /\ b.mem_size \in Nat /\ b.mem_size >= 1
      /\ EndOf(b) \in Nat /\ EndOf(b) = low + b.mem_size /\ low < EndOf(b)
      /\ b = [mem_addr |-> low, mem_size |-> b.mem_size]
  <2>1. b \in Mem_record
    BY <1>1, <1>2, <1>4
  <2> QED
    BY <2>1, RecordFacts DEF Mem_record
<1>6. /\ HeapStart \in Nat /\ HeapEnd \in Nat /\ HeapStart < HeapEnd
      /\ MAX_MEM_RECORDS \in Nat /\ MAX_MEM_RECORDS >= 1
      /\ EndOf(b) <= HeapEnd
      /\ mem_record = Rest(EndOf(b))
      /\ lost = {}
  BY <1>4, MemoryAssumption DEF NestedInv, RestFree
<1>7. mem_record' = <<[mem_addr |-> low, mem_size |-> HeapEnd - low]>> /\ lost' = {}
  <2>1. PICK i \in 1 .. (Len(mem_record) + 1) :
          /\ StopsAt(i, low)
          /\ \/ MergeBoth(i, b) \/ MergePrev(i, b) \/ MergeNext(i, b)
             \/ InsertRecord(i, b) \/ TableFull(i, b)
    BY <1>2 DEF Ri_free, mem_record_free
  <2>2. CASE EndOf(b) = HeapEnd
    <3>1. mem_record = <<>> /\ Len(mem_record) = 0
      BY <2>2, <1>6 DEF Rest
    <3>2. i = 1
      BY <2>1, <3>1
    <3>3. ~JoinsPrev(i, b) /\ ~JoinsNext(i, b) /\ HasRoom
      BY <3>1, <3>2, <1>6 DEF JoinsPrev, JoinsNext, HasRoom
    <3> DEFINE u == InsertAt(mem_record, i, b)
    <3>4. mem_record' = u /\ lost' = lost
      BY <2>1, <3>3
         DEF MergeBoth, MergePrev, MergeNext, InsertRecord, TableFull
    <3>5. /\ u \in Seq(Mem_record)
          /\ Len(u) = Len(mem_record) + 1
          /\ \A k \in 1 .. (Len(mem_record) + 1) :
               u[k] = IF k < i THEN mem_record[k]
                      ELSE IF k = i THEN b ELSE mem_record[k - 1]
      <4>1. mem_record \in Seq(Mem_record)
        BY DEF NestedInv, Inv, TypeOK
      <4>2. b \in Mem_record
        BY <1>5
      <4>3. /\ InsertAt(mem_record, i, b) \in Seq(Mem_record)
            /\ IsInsertion(InsertAt(mem_record, i, b), mem_record, i, b)
        BY <4>1, <4>2, InsertAtProperties, Zenon
      <4> QED
        BY <4>3 DEF IsInsertion
    <3> HIDE DEF u
    <3>6. u = <<b>>
      <4>1. Len(u) = 1 /\ u[1] = b
        BY <3>1, <3>2, <3>5
      <4> DEFINE v == <<b>>
      <4>2. v \in Seq(Mem_record) /\ Len(v) = 1 /\ v[1] = b
        BY <1>5
      <4> HIDE DEF v
      <4>3. Len(u) = Len(v) /\ \A k \in 1 .. Len(u) : u[k] = v[k]
        BY <4>1, <4>2
      <4>4. u \in Seq(Mem_record) /\ v \in Seq(Mem_record)
        BY <3>5, <4>2
      <4>5. u = v
        BY <4>3, <4>4, SeqEqual
      <4> QED
        BY <4>5 DEF v
    <3>7. HeapEnd - low = b.mem_size
      <4> HIDE DEF low
      <4> QED
        BY <2>2, <1>5, <1>6
    <3> QED
      BY <3>4, <3>6, <3>7, <1>5, <1>6
  <2>3. CASE EndOf(b) # HeapEnd
    <3> DEFINE r == [mem_addr |-> EndOf(b), mem_size |-> HeapEnd - EndOf(b)]
               q == [mem_addr |-> low, mem_size |-> (HeapEnd - EndOf(b)) + b.mem_size]
    <3>1. mem_record = <<r>> /\ Len(mem_record) = 1 /\ mem_record[1] = r
      BY <2>3, <1>6 DEF Rest
    <3>2. i = 1
      <4>1. CASE i = 2
        <5>1. mem_record[1].mem_addr <= low
          BY <2>1, <4>1 DEF StopsAt
        <5>2. mem_record[1].mem_addr = EndOf(b)
          BY <3>1
        <5> QED
          BY <5>1, <5>2, <1>5
      <4> QED
        BY <2>1, <3>1, <4>1
    <3>3. ~JoinsPrev(i, b) /\ JoinsNext(i, b)
      BY <3>1, <3>2 DEF JoinsPrev, JoinsNext
    <3>4. mem_record' = [mem_record EXCEPT ![1] = q] /\ lost' = lost
      <4>1. MergeNext(i, b)
        BY <2>1, <3>3
           DEF MergeBoth, MergePrev, InsertRecord, TableFull
      <4>2. mem_record[1].mem_size = HeapEnd - EndOf(b)
        BY <3>1
      <4> QED
        BY <4>1, <4>2, <3>2 DEF MergeNext
    <3>5. mem_record' = <<q>>
      <4> HIDE DEF r, q
      <4> QED
        BY <3>1, <3>4
    <3>6. (HeapEnd - EndOf(b)) + b.mem_size = HeapEnd - low
      <4> HIDE DEF low
      <4> QED
        BY <1>5, <1>6
    <3> QED
      BY <3>4, <3>5, <3>6, <1>6
  <2> QED
    BY <2>2, <2>3
<1>8. /\ commands' \in Seq(Mem_record)
      /\ Len(commands') = l - 1
      /\ \A k \in 1 .. (l - 1) : commands'[k] = commands[k]
  <2>1. \A k \in 1 .. (l - 1) : commands[k] \in Mem_record
    BY <1>1, <1>4
  <2>2. /\ SubSeq(commands, 1, l - 1) \in Seq(Mem_record)
        /\ Len(SubSeq(commands, 1, l - 1)) = l - 1
        /\ \A k \in 1 .. (l - 1) : SubSeq(commands, 1, l - 1)[k] = commands[k]
    <3> HIDE DEF l
    <3> QED
      BY <1>1, <2>1, SubSeqProperties
  <2> QED
    BY <1>2, <2>2 DEF Front
<1>9. 1 .. l = (1 .. (l - 1)) \union {l}
  <2> HIDE DEF l
  <2> QED
    BY <1>1
<1>10. lent' = {commands'[k] : k \in 1 .. Len(commands')}
  <2>1. lent = {commands[k] : k \in 1 .. l}
    BY DEF NestedInv, Stacked
  <2>2. \A k \in 1 .. (l - 1) : commands[k] # b
    <3> SUFFICES ASSUME NEW k \in 1 .. (l - 1)
                 PROVE  commands[k] # b
      OBVIOUS
    <3>1. k \in 1 .. l /\ k < l
      <4> HIDE DEF l
      <4> QED
        BY <1>1
    <3>2. EndOf(commands[k]) <= low
      BY <3>1, <1>1, <1>2 DEF NestedInv, Stacked
    <3>3. commands[k].mem_addr < EndOf(commands[k])
          /\ commands[k].mem_addr \in Nat /\ EndOf(commands[k]) \in Nat
      BY <3>1, <1>4
    <3> QED
      BY <3>2, <3>3, <1>5
  <2>3. lent' = {commands[k] : k \in 1 .. (l - 1)}
    BY <2>1, <2>2, <1>2, <1>9 DEF Ri_free
  <2> QED
    BY <2>3, <1>8
<1>11. Stacked'
  <2>1. Len(commands') > 0 => commands'[1].mem_addr = HeapStart
    BY <1>1, <1>8 DEF NestedInv, Stacked
  <2>2. \A k \in 1 .. Len(commands') :
          k > 1 => commands'[k].mem_addr = EndOf(commands'[k - 1])
    <3> SUFFICES ASSUME NEW k \in 1 .. Len(commands'), k > 1
                 PROVE  commands'[k].mem_addr = EndOf(commands'[k - 1])
      OBVIOUS
    <3>1. k \in 1 .. (l - 1) /\ k - 1 \in 1 .. (l - 1) /\ k \in 1 .. l
      <4> HIDE DEF l
      <4> QED
        BY <1>1, <1>8
    <3> QED
      BY <3>1, <1>8 DEF NestedInv, Stacked
  <2>3. \A k, m \in 1 .. Len(commands') :
          k < m => EndOf(commands'[k]) <= commands'[m].mem_addr
    BY <1>8, <1>9 DEF NestedInv, Stacked
  <2> QED
    BY <2>1, <2>2, <2>3, <1>8, <1>10 DEF Stacked
<1>12. Top' = low
  <2>1. CASE l = 1
    <3>1. b.mem_addr = HeapStart
      BY <2>1, <1>1, <1>2 DEF NestedInv, Stacked
    <3> QED
      BY <2>1, <3>1, <1>8 DEF Top
  <2>2. CASE l # 1
    <3>1. l > 1 /\ l - 1 \in 1 .. (l - 1) /\ l - 1 # 0
      <4> HIDE DEF l
      <4> QED
        BY <2>2, <1>1
    <3>2. low = EndOf(commands[l - 1])
      BY <3>1, <1>1, <1>2 DEF NestedInv, Stacked
    <3> QED
      BY <3>1, <3>2, <1>8 DEF Top
  <2> QED
    BY <2>1, <2>2
<1>13. HeapStart <= low
  <2>1. low \in HeapAddr
    BY <1>5 DEF Mem_record
  <2> QED
    BY <2>1, <1>6 DEF HeapAddr
<1>14. RestFree'
  <2>1. low <= HeapEnd /\ low # HeapEnd
    <3> HIDE DEF low
    <3> QED
      BY <1>5, <1>6
  <2> QED
    BY <2>1, <1>7, <1>12, <1>13 DEF RestFree, Rest
<1> QED
  BY <1>3, <1>11, <1>14 DEF NestedInv

(* In every reachable state the buffers fill the front of the heap and one *)
(* record holds the rest.                                                  *)
THEOREM NestedInvariance == NestedSpec => []NestedInv
<1>1. NestedInv /\ [NestedNext]_nestedVars => NestedInv'
  <2> SUFFICES ASSUME NestedInv, [NestedNext]_nestedVars
               PROVE  NestedInv'
    OBVIOUS
  <2>1. CASE UNCHANGED nestedVars
    <3>1. /\ mem_record' = mem_record /\ lent' = lent /\ lost' = lost
          /\ running' = running /\ commands' = commands
      BY <2>1 DEF nestedVars
    <3>2. Inv'
      BY <3>1 DEF NestedInv, Inv, TypeOK, TableSound, Conserved, FreeAddr, LentAddr
    <3>3. Stacked' /\ Top' = Top
      BY <3>1 DEF NestedInv, Stacked, Top
    <3>4. RestFree'
      BY <3>1, <3>3 DEF NestedInv, RestFree
    <3> QED
      BY <3>2, <3>3, <3>4 DEF NestedInv
  <2>2. ASSUME NEW n \in Sizes, Begin(n)
        PROVE  NestedInv'
    BY <2>2, BeginStep
  <2>3. CASE Finish
    BY <2>3, FinishStep
  <2> QED
    BY <2>1, <2>2, <2>3 DEF NestedNext
<1> QED
  BY <1>1, NestedInitially, PTL DEF NestedSpec

(* No command works in a buffer that another command has given back.       *)
THEOREM NestedStacked == NestedSpec => []Stacked
<1>1. NestedInv => Stacked
  BY DEF NestedInv
<1> QED
  BY <1>1, NestedInvariance, PTL

(* However deep cat and slow_cat nest, the heap is never fragmented, so    *)
(* the Ri_free whose result they ignore never fails.                       *)
THEOREM NestedNeverFragmented == NestedSpec => []NeverFragmented
<1>1. NestedInv => NeverFragmented
  BY DEF NestedInv, RestFree, Rest, NeverFragmented
<1> QED
  BY <1>1, NestedInvariance, PTL

(* When the last command has returned the whole heap is free again.        *)
THEOREM NestedAllReturned == NestedSpec => []AllReturned
<1>1. NestedInv => AllReturned
  <2> SUFFICES ASSUME NestedInv, commands = <<>>
               PROVE  mem_record = <<[mem_addr |-> HeapStart,
                                      mem_size |-> HeapEnd - HeapStart]>>
    BY DEF AllReturned
  <2>1. Top = HeapStart /\ HeapStart # HeapEnd
    BY MemoryAssumption DEF Top
  <2> QED
    BY <2>1 DEF NestedInv, RestFree, Rest
<1> QED
  BY <1>1, NestedInvariance, PTL
=============================================================================
