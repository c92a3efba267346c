---------------------------- MODULE MemoryProofs ----------------------------
(***************************************************************************)
(* Proofs about the memory allocator, for every heap, every size of the    *)
(* record table and every set of sizes.                                    *)
(***************************************************************************)
EXTENDS Memory, SequenceTheorems, FiniteSetTheorems, TLAPS

-----------------------------------------------------------------------------
(* Sequences with one element more and one element less.                   *)

IsInsertion(u, s, i, e) ==
  /\ Len(u) = Len(s) + 1
  /\ \A k \in 1 .. (Len(s) + 1) :
       u[k] = IF k < i THEN s[k] ELSE IF k = i THEN e ELSE s[k - 1]

LEMMA InsertAtProperties ==
  ASSUME NEW S, NEW s \in Seq(S), NEW i \in 1 .. (Len(s) + 1), NEW e \in S
  PROVE  /\ InsertAt(s, i, e) \in Seq(S)
         /\ IsInsertion(InsertAt(s, i, e), s, i, e)
<1> DEFINE front == SubSeq(s, 1, i - 1)
           back == SubSeq(s, i, Len(s))
<1>1. Len(s) \in Nat /\ \A k \in 1 .. Len(s) : s[k] \in S
  BY LenProperties, ElementOfSeq
<1>2. /\ front \in Seq(S)
      /\ Len(front) = i - 1
      /\ \A k \in 1 .. (i - 1) : front[k] = s[k]
  <2>1. \A k \in 1 .. (i - 1) : s[k] \in S
    BY <1>1
  <2> QED
    BY <1>1, <2>1, SubSeqProperties
<1>3. /\ back \in Seq(S)
      /\ Len(back) = Len(s) - i + 1
      /\ \A k \in 1 .. (Len(s) - i + 1) : back[k] = s[i + k - 1]
  <2>1. \A k \in i .. Len(s) : s[k] \in S
    BY <1>1
  <2> QED
    BY <1>1, <2>1, SubSeqProperties
<1>4. /\ <<e>> \in Seq(S)
      /\ Len(<<e>>) = 1
      /\ <<e>>[1] = e
  OBVIOUS
<1> HIDE DEF front, back
<1>5. /\ front \o <<e>> \in Seq(S)
      /\ Len(front \o <<e>>) = i
      /\ \A k \in 1 .. i : (front \o <<e>>)[k] = IF k <= i - 1 THEN front[k] ELSE e
  BY <1>1, <1>2, <1>4, ConcatProperties
<1>6. /\ (front \o <<e>>) \o back \in Seq(S)
      /\ Len((front \o <<e>>) \o back) = Len(s) + 1
      /\ \A k \in 1 .. (Len(s) + 1) :
           ((front \o <<e>>) \o back)[k] =
             IF k <= i THEN (front \o <<e>>)[k] ELSE back[k - i]
  BY <1>1, <1>3, <1>5, ConcatProperties
<1>7. \A k \in 1 .. (Len(s) + 1) :
        ((front \o <<e>>) \o back)[k] =
          IF k < i THEN s[k] ELSE IF k = i THEN e ELSE s[k - 1]
  <2> TAKE k \in 1 .. (Len(s) + 1)
  <2>1. CASE k <= i
    BY <2>1, <1>1, <1>2, <1>5, <1>6
  <2>2. CASE k > i
    <3>1. k - i \in 1 .. (Len(s) - i + 1) /\ i + (k - i) - 1 = k - 1
      BY <2>2, <1>1
    <3>2. back[k - i] = s[k - 1]
      BY <3>1, <1>3
    <3> QED
      BY <2>2, <3>2, <1>1, <1>6
  <2>3. k <= i \/ k > i
    BY <1>1
  <2> QED
    BY <2>1, <2>2, <2>3
<1>8. InsertAt(s, i, e) = (front \o <<e>>) \o back
  BY DEF InsertAt, front, back
<1> QED
  BY <1>6, <1>7, <1>8 DEF IsInsertion

LEMMA RemoveAtProperties ==
  ASSUME NEW S, NEW s \in Seq(S), NEW i \in 1 .. Len(s)
  PROVE  /\ RemoveAt(s, i) \in Seq(S)
         /\ Len(RemoveAt(s, i)) = Len(s) - 1
         /\ \A k \in 1 .. (Len(s) - 1) :
              RemoveAt(s, i)[k] = IF k < i THEN s[k] ELSE s[k + 1]
<1> DEFINE front == SubSeq(s, 1, i - 1)
           back == SubSeq(s, i + 1, Len(s))
<1>1. Len(s) \in Nat /\ \A k \in 1 .. Len(s) : s[k] \in S
  BY LenProperties, ElementOfSeq
<1>2. /\ front \in Seq(S)
      /\ Len(front) = i - 1
      /\ \A k \in 1 .. (i - 1) : front[k] = s[k]
  <2>1. \A k \in 1 .. (i - 1) : s[k] \in S
    BY <1>1
  <2> QED
    BY <1>1, <2>1, SubSeqProperties
<1>3. /\ back \in Seq(S)
      /\ Len(back) = Len(s) - i
      /\ \A k \in 1 .. (Len(s) - i) : back[k] = s[i + k]
  <2>1. \A k \in (i + 1) .. Len(s) : s[k] \in S
    BY <1>1
  <2>2. /\ back \in Seq(S)
        /\ Len(back) = Len(s) - i
        /\ \A k \in 1 .. (Len(s) - (i + 1) + 1) : back[k] = s[(i + 1) + k - 1]
    BY <1>1, <2>1, SubSeqProperties
  <2> QED
    BY <1>1, <2>2
<1> HIDE DEF front, back
<1>4. /\ front \o back \in Seq(S)
      /\ Len(front \o back) = Len(s) - 1
      /\ \A k \in 1 .. (Len(s) - 1) :
           (front \o back)[k] = IF k <= i - 1 THEN front[k] ELSE back[k - (i - 1)]
  <2>1. Len(front) + Len(back) = Len(s) - 1
    BY <1>1, <1>2, <1>3
  <2>2. /\ front \o back \in Seq(S)
        /\ Len(front \o back) = Len(front) + Len(back)
        /\ \A k \in 1 .. (Len(front) + Len(back)) :
             (front \o back)[k] =
               IF k <= Len(front) THEN front[k] ELSE back[k - Len(front)]
    BY <1>2, <1>3, ConcatProperties
  <2> QED
    BY <2>1, <2>2, <1>2
<1>5. \A k \in 1 .. (Len(s) - 1) :
        (front \o back)[k] = IF k < i THEN s[k] ELSE s[k + 1]
  <2> TAKE k \in 1 .. (Len(s) - 1)
  <2>1. CASE k < i
    BY <2>1, <1>1, <1>2, <1>4
  <2>2. CASE k >= i
    <3>1. k - (i - 1) \in 1 .. (Len(s) - i) /\ i + (k - (i - 1)) = k + 1
      BY <2>2, <1>1
    <3>2. back[k - (i - 1)] = s[k + 1]
      BY <3>1, <1>3
    <3> QED
      BY <2>2, <3>2, <1>1, <1>4
  <2>3. k < i \/ k >= i
    BY <1>1
  <2> QED
    BY <2>1, <2>2, <2>3
<1>6. RemoveAt(s, i) = front \o back
  BY DEF RemoveAt, front, back
<1> QED
  BY <1>4, <1>5, <1>6

-----------------------------------------------------------------------------
(* Records, and the addresses that a table of records covers.              *)

SpanOf(t) == UNION {Span(t[k]) : k \in 1 .. Len(t)}
Sorted(t) ==
  \A i, k \in 1 .. Len(t) : i < k => EndOf(t[i]) < t[k].mem_addr

LEMMA RecordFacts ==
  ASSUME NEW r \in Mem_record
  PROVE  /\ r.mem_addr \in Nat /\ r.mem_size \in Nat /\ r.mem_size >= 1
         /\ EndOf(r) = r.mem_addr + r.mem_size
         /\ EndOf(r) \in Nat
         /\ r.mem_addr < EndOf(r)
         /\ \A x : x \in Span(r) <=>
                    x \in Int /\ r.mem_addr <= x /\ x < EndOf(r)
<1>1. r.mem_addr \in HeapAddr /\ r.mem_size \in 1 .. (HeapEnd - HeapStart)
  BY DEF Mem_record
<1>2. r.mem_addr \in Nat /\ r.mem_size \in Nat /\ r.mem_size >= 1
  BY <1>1, MemoryAssumption DEF HeapAddr
<1> QED
  BY <1>2 DEF EndOf, Span

LEMMA NewRecord ==
  ASSUME NEW a \in Nat, NEW n \in Nat, n >= 1, a >= HeapStart, a + n <= HeapEnd
  PROVE  [mem_addr |-> a, mem_size |-> n] \in Mem_record
<1>1. a \in HeapAddr /\ n \in 1 .. (HeapEnd - HeapStart)
  BY MemoryAssumption DEF HeapAddr
<1> QED
  BY <1>1 DEF Mem_record

LEMMA InHeap ==
  ASSUME NEW r \in Mem_record, Span(r) \subseteq HeapAddr
  PROVE  HeapStart <= r.mem_addr /\ EndOf(r) <= HeapEnd
<1>1. r.mem_addr \in Span(r) /\ EndOf(r) - 1 \in Span(r)
  BY RecordFacts
<1>2. r.mem_addr \in HeapAddr /\ EndOf(r) - 1 \in HeapAddr
  BY <1>1
<1> QED
  BY <1>2, RecordFacts, MemoryAssumption DEF HeapAddr

LEMMA SpanOfMember ==
  ASSUME NEW t \in Seq(Mem_record), NEW x
  PROVE  x \in SpanOf(t) <=>
           \E k \in 1 .. Len(t) :
             x \in Int /\ t[k].mem_addr <= x /\ x < EndOf(t[k])
<1>1. \A k \in 1 .. Len(t) : t[k] \in Mem_record
  BY ElementOfSeq
<1>2. x \in SpanOf(t) <=> \E k \in 1 .. Len(t) : x \in Span(t[k])
  BY DEF SpanOf
<1>3. \A k \in 1 .. Len(t) :
        x \in Span(t[k]) <=> x \in Int /\ t[k].mem_addr <= x /\ x < EndOf(t[k])
  BY <1>1, RecordFacts
<1> QED
  BY <1>2, <1>3

(* Records are non-empty intervals of addresses. *)
LEMMA TableFacts ==
  ASSUME NEW t \in Seq(Mem_record)
  PROVE  /\ Len(t) \in Nat
         /\ \A k \in 1 .. Len(t) :
              /\ t[k] \in Mem_record
              /\ t[k].mem_addr \in Nat /\ t[k].mem_size \in Nat
              /\ EndOf(t[k]) \in Nat
              /\ t[k].mem_addr < EndOf(t[k])
              /\ EndOf(t[k]) = t[k].mem_addr + t[k].mem_size
<1>1. Len(t) \in Nat
  BY LenProperties
<1>2. \A k \in 1 .. Len(t) : t[k] \in Mem_record
  BY ElementOfSeq
<1> QED
  BY <1>1, <1>2, RecordFacts

-----------------------------------------------------------------------------
(* mem_record_free on a sound table.                                       *)

(* Where the search loop stops, the freed block lies between its neighbours. *)
LEMMA Position ==
  ASSUME mem_record \in Seq(Mem_record), Sorted(mem_record),
         NEW b \in Mem_record, Span(b) \intersect SpanOf(mem_record) = {},
         NEW i \in 1 .. (Len(mem_record) + 1), StopsAt(i, b.mem_addr)
  PROVE  /\ \A k \in 1 .. Len(mem_record) :
              k < i => EndOf(mem_record[k]) <= b.mem_addr
         /\ \A k \in 1 .. Len(mem_record) :
              k >= i => EndOf(b) <= mem_record[k].mem_addr
<1> DEFINE t == mem_record
<1>1. /\ Len(t) \in Nat
      /\ \A k \in 1 .. Len(t) :
           /\ t[k].mem_addr \in Nat /\ EndOf(t[k]) \in Nat
           /\ t[k].mem_addr < EndOf(t[k])
  BY TableFacts
<1>2. b.mem_addr \in Nat /\ EndOf(b) \in Nat /\ b.mem_addr < EndOf(b)
  BY RecordFacts
<1>3. \A x \in Int : b.mem_addr <= x /\ x < EndOf(b) => x \notin SpanOf(t)
  BY RecordFacts
<1>4. \A x \in Int, k \in 1 .. Len(t) :
        ~(/\ b.mem_addr <= x /\ x < EndOf(b)
          /\ t[k].mem_addr <= x /\ x < EndOf(t[k]))
  BY <1>3, SpanOfMember
<1>5. ASSUME NEW k \in 1 .. Len(t), k < i
      PROVE  EndOf(t[k]) <= b.mem_addr
  <2>1. t[k].mem_addr <= b.mem_addr
    BY <1>1, <1>5 DEF StopsAt
  <2> QED
    BY <2>1, <1>1, <1>2, <1>4
<1>6. i <= Len(t) => EndOf(b) <= t[i].mem_addr
  <2> HAVE i <= Len(t)
  <2>1. t[i].mem_addr > b.mem_addr
    BY DEF StopsAt
  <2>2. /\ t[i].mem_addr \in Int /\ i \in 1 .. Len(t)
        /\ t[i].mem_addr < EndOf(t[i])
    BY <1>1
  <2>3. ~(t[i].mem_addr < EndOf(b))
    BY <2>1, <2>2, <1>2, <1>4
  <2> QED
    BY <2>2, <2>3, <1>2
<1>7. ASSUME NEW k \in 1 .. Len(t), k >= i
      PROVE  EndOf(b) <= t[k].mem_addr
  <2>1. CASE k = i
    BY <2>1, <1>6, <1>1
  <2>2. CASE k > i
    <3>1. i \in 1 .. Len(t)
      BY <2>2, <1>1
    <3>2. EndOf(t[i]) < t[k].mem_addr
      BY <2>2, <3>1 DEF Sorted
    <3> QED
      BY <3>1, <3>2, <1>1, <1>2, <1>6
  <2> QED
    BY <1>7, <2>1, <2>2, <1>1
<1> QED
  BY <1>5, <1>7

(* The block b lies between the records i - 1 and i of the table t. *)
Between(t, i, b) ==
  /\ \A k \in 1 .. Len(t) : k < i => EndOf(t[k]) <= b.mem_addr
  /\ \A k \in 1 .. Len(t) : k >= i => EndOf(b) <= t[k].mem_addr

(* Each way to put b back is described by where the records of the new     *)
(* table u begin and end.                                                  *)
LEMMA BothJoined ==
  ASSUME NEW t \in Seq(Mem_record), NEW u \in Seq(Mem_record),
         NEW b \in Mem_record, NEW i \in 2 .. Len(t),
         Sorted(t), Between(t, i, b),
         EndOf(t[i - 1]) = b.mem_addr, EndOf(b) = t[i].mem_addr,
         Len(u) = Len(t) - 1,
         \A k \in 1 .. Len(u) :
           /\ u[k].mem_addr = IF k < i THEN t[k].mem_addr ELSE t[k + 1].mem_addr
           /\ EndOf(u[k]) = IF k < i - 1 THEN EndOf(t[k]) ELSE EndOf(t[k + 1])
  PROVE  Sorted(u) /\ SpanOf(u) = SpanOf(t) \union Span(b)
<1>1. /\ Len(t) \in Nat /\ i \in Nat
      /\ \A k \in 1 .. Len(t) :
           /\ t[k].mem_addr \in Nat /\ EndOf(t[k]) \in Nat
           /\ t[k].mem_addr < EndOf(t[k])
  BY TableFacts
<1>2. b.mem_addr \in Nat /\ EndOf(b) \in Nat /\ b.mem_addr < EndOf(b)
  BY RecordFacts
<1>3. /\ \A k \in 1 .. Len(u) : k < i - 1 =>
           /\ k \in 1 .. Len(t)
           /\ u[k].mem_addr = t[k].mem_addr /\ EndOf(u[k]) = EndOf(t[k])
      /\ i - 1 \in 1 .. Len(u) /\ i - 1 \in 1 .. Len(t) /\ i \in 1 .. Len(t)
      /\ u[i - 1].mem_addr = t[i - 1].mem_addr
      /\ EndOf(u[i - 1]) = EndOf(t[i])
      /\ \A k \in 1 .. Len(u) : k >= i =>
           /\ k + 1 \in 1 .. Len(t)
           /\ u[k].mem_addr = t[k + 1].mem_addr /\ EndOf(u[k]) = EndOf(t[k + 1])
  <2>1. i - 1 \in 1 .. Len(u) /\ i - 1 \in 1 .. Len(t) /\ i \in 1 .. Len(t)
    BY <1>1
  <2>2. /\ u[i - 1].mem_addr = t[i - 1].mem_addr
        /\ EndOf(u[i - 1]) = EndOf(t[(i - 1) + 1])
    BY <2>1, <1>1, SMTT(30)
  <2>3. (i - 1) + 1 = i
    BY <1>1
  <2>4. EndOf(u[i - 1]) = EndOf(t[i])
    BY <2>2, <2>3
  <2>5. \A k \in 1 .. Len(u) : k < i - 1 =>
           /\ k \in 1 .. Len(t)
           /\ u[k].mem_addr = t[k].mem_addr /\ EndOf(u[k]) = EndOf(t[k])
    BY <1>1
  <2>6. \A k \in 1 .. Len(u) : k >= i =>
           /\ k + 1 \in 1 .. Len(t)
           /\ u[k].mem_addr = t[k + 1].mem_addr /\ EndOf(u[k]) = EndOf(t[k + 1])
    BY <1>1
  <2> QED
    BY <2>1, <2>2, <2>4, <2>5, <2>6
<1>6. Sorted(u)
  <2> SUFFICES ASSUME NEW k \in 1 .. Len(u), NEW m \in 1 .. Len(u), k < m
               PROVE  EndOf(u[k]) < u[m].mem_addr
    BY DEF Sorted
  <2>1. CASE m < i - 1
    <3>1. k < i - 1
      BY <2>1, <1>1
    <3> QED
      BY <2>1, <3>1, <1>3 DEF Sorted
  <2>2. CASE m = i - 1
    <3>1. k < i - 1
      BY <2>2, <1>1
    <3> QED
      BY <2>2, <3>1, <1>3 DEF Sorted
  <2>3. CASE k < i - 1 /\ m >= i
    <3>1. k < m + 1
      BY <2>3, <1>1
    <3> QED
      BY <2>3, <3>1, <1>3 DEF Sorted
  <2>4. CASE k = i - 1 /\ m >= i
    <3>1. i < m + 1
      BY <2>4, <1>1
    <3>2. EndOf(t[i]) < t[m + 1].mem_addr
      BY <2>4, <3>1, <1>3 DEF Sorted
    <3> QED
      BY <2>4, <3>2, <1>3
  <2>5. CASE k >= i
    <3>1. k + 1 < m + 1 /\ m >= i
      BY <2>5, <1>1
    <3>2. EndOf(t[k + 1]) < t[m + 1].mem_addr
      BY <2>5, <3>1, <1>3 DEF Sorted
    <3> QED
      BY <2>5, <3>1, <3>2, <1>3
  <2>6. m < i - 1 \/ m = i - 1 \/ (k < i - 1 /\ m >= i)
          \/ (k = i - 1 /\ m >= i) \/ k >= i
    BY <1>1
  <2> QED
    BY <2>1, <2>2, <2>3, <2>4, <2>5, <2>6
<1>4. ASSUME NEW x, x \in SpanOf(u)
      PROVE  x \in SpanOf(t) \union Span(b)
  <2>1. PICK k \in 1 .. Len(u) :
          x \in Int /\ u[k].mem_addr <= x /\ x < EndOf(u[k])
    BY <1>4, SpanOfMember
  <2>2. CASE k < i - 1
    <3>1. k \in 1 .. Len(t) /\ t[k].mem_addr <= x /\ x < EndOf(t[k])
      BY <2>1, <2>2, <1>1, SMTT(30)
    <3> QED
      BY <2>1, <3>1, SpanOfMember
  <2>3. CASE k = i - 1
    <3>1. t[i - 1].mem_addr <= x /\ x < EndOf(t[i])
      BY <2>1, <2>3, <1>1, SMTT(30)
    <3>2. i - 1 \in 1 .. Len(t) /\ i \in 1 .. Len(t)
      BY <1>1
    <3>3. x < EndOf(t[i - 1]) \/ (b.mem_addr <= x /\ x < EndOf(b))
            \/ t[i].mem_addr <= x
      BY <2>1, <1>1, <1>2, <3>2, SMTT(30)
    <3> QED
      BY <2>1, <3>1, <3>2, <3>3, SpanOfMember, RecordFacts
  <2>4. CASE k >= i
    <3>1. /\ k + 1 \in 1 .. Len(t)
          /\ t[k + 1].mem_addr <= x /\ x < EndOf(t[k + 1])
      BY <2>1, <2>4, <1>1
    <3> QED
      BY <2>1, <3>1, SpanOfMember
  <2>5. k < i - 1 \/ k = i - 1 \/ k >= i
    BY <1>1
  <2> QED
    BY <2>2, <2>3, <2>4, <2>5
<1>5. ASSUME NEW x, x \in SpanOf(t) \union Span(b)
      PROVE  x \in SpanOf(u)
  <2>1. i - 1 \in 1 .. Len(u)
    BY <1>1
  <2>2. CASE x \in Span(b)
    <3>1. x \in Int /\ b.mem_addr <= x /\ x < EndOf(b)
      BY <2>2, RecordFacts
    <3>2. u[i - 1].mem_addr <= x /\ x < EndOf(u[i - 1])
      BY <3>1, <1>1, <1>2, <1>3, SMTT(30)
    <3> QED
      BY <3>1, <3>2, <2>1, SpanOfMember
  <2>3. CASE x \in SpanOf(t)
    <3>1. PICK k \in 1 .. Len(t) :
            x \in Int /\ t[k].mem_addr <= x /\ x < EndOf(t[k])
      BY <2>3, SpanOfMember
    <3>2. CASE k < i - 1
      <4>1. k \in 1 .. Len(u) /\ u[k].mem_addr <= x /\ x < EndOf(u[k])
        BY <3>1, <3>2, <1>1
      <4> QED
        BY <3>1, <4>1, SpanOfMember
    <3>3. CASE k = i - 1 \/ k = i
      <4>1. EndOf(t[i - 1]) <= EndOf(t[i]) /\ t[i - 1].mem_addr <= t[i].mem_addr
        <5>1. /\ t[i - 1].mem_addr \in Nat /\ EndOf(t[i - 1]) \in Nat
              /\ t[i - 1].mem_addr < EndOf(t[i - 1])
          BY <1>1, <1>3
        <5>2. /\ t[i].mem_addr \in Nat /\ EndOf(t[i]) \in Nat
              /\ t[i].mem_addr < EndOf(t[i])
          BY <1>1, <1>3
        <5> QED
          BY <5>1, <5>2, <1>2, SMTT(30)
      <4>2. t[i - 1].mem_addr <= x /\ x < EndOf(t[i])
        BY <3>1, <3>3, <4>1, <1>1, <1>3, SMTT(30)
      <4> QED
        BY <3>1, <4>2, <1>3, SpanOfMember
    <3>4. CASE k > i
      <4>1. k - 1 \in 1 .. Len(u) /\ k - 1 >= i /\ (k - 1) + 1 = k
        BY <3>4, <1>1
      <4>2. u[k - 1].mem_addr = t[k].mem_addr /\ EndOf(u[k - 1]) = EndOf(t[k])
        BY <4>1, <1>1, SMTT(30)
      <4> QED
        BY <3>1, <4>1, <4>2, SpanOfMember
    <3>5. k < i - 1 \/ (k = i - 1 \/ k = i) \/ k > i
      BY <1>1
    <3> QED
      BY <3>2, <3>3, <3>4, <3>5
  <2> QED
    BY <1>5, <2>2, <2>3
<1> QED
  BY <1>6, <1>4, <1>5

(* One record grows by b: t[i] at its end, or at its front. *)
LEMMA OneJoined ==
  ASSUME NEW t \in Seq(Mem_record), NEW u \in Seq(Mem_record),
         NEW b \in Mem_record, NEW i \in 1 .. Len(t), Sorted(t),
         Len(u) = Len(t),
         \A k \in 1 .. Len(t) : k # i => u[k] = t[k],
         \A k \in 1 .. Len(t) : k < i => EndOf(t[k]) < b.mem_addr,
         \A k \in 1 .. Len(t) : k > i => EndOf(b) < t[k].mem_addr,
         \/ /\ EndOf(t[i]) = b.mem_addr
            /\ u[i].mem_addr = t[i].mem_addr
            /\ EndOf(u[i]) = EndOf(b)
         \/ /\ EndOf(b) = t[i].mem_addr
            /\ u[i].mem_addr = b.mem_addr
            /\ EndOf(u[i]) = EndOf(t[i])
  PROVE  Sorted(u) /\ SpanOf(u) = SpanOf(t) \union Span(b)
<1>1. /\ Len(t) \in Nat /\ i \in Nat
      /\ \A k \in 1 .. Len(t) :
           /\ t[k].mem_addr \in Nat /\ EndOf(t[k]) \in Nat
           /\ t[k].mem_addr < EndOf(t[k])
  BY TableFacts
<1>2. b.mem_addr \in Nat /\ EndOf(b) \in Nat /\ b.mem_addr < EndOf(b)
  BY RecordFacts
<1>3. Sorted(u)
  <2> SUFFICES ASSUME NEW k \in 1 .. Len(t), NEW m \in 1 .. Len(t), k < m
               PROVE  EndOf(u[k]) < u[m].mem_addr
    BY DEF Sorted
  <2>1. CASE k # i /\ m # i
    BY <2>1 DEF Sorted
  <2>2. CASE k = i
    BY <2>2, <1>1, <1>2 DEF Sorted
  <2>3. CASE m = i
    BY <2>3, <1>1, <1>2 DEF Sorted
  <2> QED
    BY <2>1, <2>2, <2>3
<1>4. \A x \in Int :
        u[i].mem_addr <= x /\ x < EndOf(u[i]) <=>
          \/ t[i].mem_addr <= x /\ x < EndOf(t[i])
          \/ b.mem_addr <= x /\ x < EndOf(b)
  BY <1>1, <1>2
<1>5. \A x : x \in Span(b) <=> x \in Int /\ b.mem_addr <= x /\ x < EndOf(b)
  BY RecordFacts
<1>6. ASSUME NEW x, x \in SpanOf(u)
      PROVE  x \in SpanOf(t) \union Span(b)
  <2>1. PICK k \in 1 .. Len(t) :
          x \in Int /\ u[k].mem_addr <= x /\ x < EndOf(u[k])
    BY <1>6, SpanOfMember
  <2>2. CASE k # i
    BY <2>1, <2>2, SpanOfMember
  <2>3. CASE k = i
    BY <2>1, <2>3, <1>4, <1>5, SpanOfMember
  <2> QED
    BY <2>2, <2>3
<1>7. ASSUME NEW x, x \in SpanOf(t) \union Span(b)
      PROVE  x \in SpanOf(u)
  <2>1. CASE x \in Span(b)
    BY <2>1, <1>4, <1>5, SpanOfMember
  <2>2. CASE x \in SpanOf(t)
    <3>1. PICK k \in 1 .. Len(t) :
            x \in Int /\ t[k].mem_addr <= x /\ x < EndOf(t[k])
      BY <2>2, SpanOfMember
    <3>2. CASE k # i
      BY <3>1, <3>2, SpanOfMember
    <3>3. CASE k = i
      BY <3>1, <3>3, <1>4, SpanOfMember
    <3> QED
      BY <3>2, <3>3
  <2> QED
    BY <1>7, <2>1, <2>2
<1> QED
  BY <1>3, <1>6, <1>7

(* A new record i holds b. *)
LEMMA Inserted ==
  ASSUME NEW t \in Seq(Mem_record), NEW u \in Seq(Mem_record),
         NEW b \in Mem_record, NEW i \in 1 .. (Len(t) + 1), Sorted(t),
         \A k \in 1 .. Len(t) : k < i => EndOf(t[k]) < b.mem_addr,
         \A k \in 1 .. Len(t) : k >= i => EndOf(b) < t[k].mem_addr,
         Len(u) = Len(t) + 1,
         \A k \in 1 .. (Len(t) + 1) :
           u[k] = IF k < i THEN t[k] ELSE IF k = i THEN b ELSE t[k - 1]
  PROVE  Sorted(u) /\ SpanOf(u) = SpanOf(t) \union Span(b)
<1>1. /\ Len(t) \in Nat /\ i \in Nat
      /\ \A k \in 1 .. Len(t) :
           /\ t[k].mem_addr \in Nat /\ EndOf(t[k]) \in Nat
           /\ t[k].mem_addr < EndOf(t[k])
  BY TableFacts
<1>2. b.mem_addr \in Nat /\ EndOf(b) \in Nat /\ b.mem_addr < EndOf(b)
  BY RecordFacts
<1>3. /\ \A k \in 1 .. Len(t) : k < i => k \in 1 .. Len(u) /\ u[k] = t[k]
      /\ i \in 1 .. Len(u) /\ u[i] = b
      /\ \A k \in 1 .. Len(t) : k >= i => k + 1 \in 1 .. Len(u) /\ u[k + 1] = t[k]
  <2>1. ASSUME NEW k \in 1 .. Len(t), k >= i
        PROVE  k + 1 \in 1 .. Len(u) /\ u[k + 1] = t[k]
    <3>1. k + 1 \in 1 .. (Len(t) + 1) /\ (k + 1) - 1 = k /\ k + 1 > i
      BY <2>1, <1>1
    <3> QED
      BY <3>1, <1>1
  <2> QED
    BY <2>1, <1>1
<1>4. Sorted(u)
  <2> SUFFICES ASSUME NEW k \in 1 .. Len(u), NEW m \in 1 .. Len(u), k < m
               PROVE  EndOf(u[k]) < u[m].mem_addr
    BY DEF Sorted
  <2>1. CASE m < i
    BY <2>1, <1>1, SMTT(30) DEF Sorted
  <2>2. CASE m = i
    <3>1. k \in 1 .. Len(t) /\ k < i
      BY <2>2, <1>1
    <3>2. EndOf(t[k]) < b.mem_addr
      BY <3>1
    <3> QED
      BY <2>2, <3>1, <3>2, <1>3
  <2>3. CASE m > i /\ k < i
    <3>1. k \in 1 .. Len(t) /\ m - 1 \in 1 .. Len(t) /\ m - 1 >= i
      BY <2>3, <1>1
    <3>2. EndOf(t[k]) < t[m - 1].mem_addr
      BY <3>1, <2>3, <1>1 DEF Sorted
    <3> QED
      BY <3>1, <3>2, <2>3, <1>1
  <2>4. CASE m > i /\ k = i
    <3>1. m - 1 \in 1 .. Len(t) /\ m - 1 >= i
      BY <2>4, <1>1
    <3>2. u[m] = t[m - 1]
      BY <2>4, <1>1
    <3> QED
      BY <3>1, <3>2, <2>4, <1>3
  <2>5. CASE m > i /\ k > i
    <3>1. k - 1 \in 1 .. Len(t) /\ m - 1 \in 1 .. Len(t) /\ k - 1 < m - 1
      BY <2>5, <1>1
    <3>2. EndOf(t[k - 1]) < t[m - 1].mem_addr
      BY <3>1 DEF Sorted
    <3> QED
      BY <3>2, <2>5, <1>1
  <2>6. m < i \/ m = i \/ (m > i /\ k < i) \/ (m > i /\ k = i) \/ (m > i /\ k > i)
    BY <1>1
  <2> QED
    BY <2>1, <2>2, <2>3, <2>4, <2>5, <2>6
<1>5. \A x : x \in Span(b) <=> x \in Int /\ b.mem_addr <= x /\ x < EndOf(b)
  BY RecordFacts
<1>6. ASSUME NEW x, x \in SpanOf(u)
      PROVE  x \in SpanOf(t) \union Span(b)
  <2>1. PICK k \in 1 .. Len(u) :
          x \in Int /\ u[k].mem_addr <= x /\ x < EndOf(u[k])
    BY <1>6, SpanOfMember
  <2>2. u[k] = b \/ \E m \in 1 .. Len(t) : u[k] = t[m]
    <3>1. CASE k < i
      BY <3>1, <1>1
    <3>2. CASE k = i
      BY <3>2, <1>3
    <3>3. CASE k > i
      <4>1. k - 1 \in 1 .. Len(t) /\ u[k] = t[k - 1]
        BY <3>3, <1>1
      <4> QED
        BY <4>1
    <3> QED
      BY <3>1, <3>2, <3>3, <1>1
  <2> QED
    BY <2>1, <2>2, <1>5, SpanOfMember
<1>7. ASSUME NEW x, x \in SpanOf(t) \union Span(b)
      PROVE  x \in SpanOf(u)
  <2>1. CASE x \in Span(b)
    BY <2>1, <1>3, <1>5, SpanOfMember
  <2>2. CASE x \in SpanOf(t)
    <3>1. PICK k \in 1 .. Len(t) :
            x \in Int /\ t[k].mem_addr <= x /\ x < EndOf(t[k])
      BY <2>2, SpanOfMember
    <3>2. \E m \in 1 .. Len(u) : u[m] = t[k]
      <4>1. CASE k < i
        BY <4>1, <1>3
      <4>2. CASE k >= i
        BY <4>2, <1>3
      <4> QED
        BY <4>1, <4>2, <1>1
    <3> QED
      BY <3>1, <3>2, SpanOfMember
  <2> QED
    BY <1>7, <2>1, <2>2
<1> QED
  BY <1>4, <1>6, <1>7

(* Whatever branch is taken, the table stays sound and takes the block     *)
(* back, unless it is full and the block touches no record.                *)
LEMMA FreeEffect ==
  ASSUME Inv, NEW b \in lent, mem_record_free(b)
  PROVE  /\ mem_record' \in Seq(Mem_record)
         /\ Len(mem_record') <= MAX_MEM_RECORDS
         /\ Sorted(mem_record')
         /\ \/ /\ lost' = lost
               /\ SpanOf(mem_record') = SpanOf(mem_record) \union Span(b)
            \/ /\ lost' = lost \union Span(b)
               /\ mem_record' = mem_record
               /\ Len(mem_record) >= MAX_MEM_RECORDS
               /\ \A p \in SpanOf(mem_record) : p + 1 # b.mem_addr /\ p # EndOf(b)
<1> DEFINE t == mem_record
<1>1. /\ t \in Seq(Mem_record) /\ Len(t) <= MAX_MEM_RECORDS
      /\ lent \subseteq Mem_record /\ b \in Mem_record
  BY DEF Inv, TypeOK
<1>2. Sorted(t)
  BY DEF Inv, TableSound, Sorted
<1>3. /\ Span(b) \intersect SpanOf(t) = {}
      /\ Span(b) \subseteq HeapAddr
      /\ SpanOf(t) \subseteq HeapAddr
  BY DEF Inv, Conserved, FreeAddr, LentAddr, SpanOf
<1>4. PICK i \in 1 .. (Len(t) + 1) :
        /\ StopsAt(i, b.mem_addr)
        /\ \/ MergeBoth(i, b) \/ MergePrev(i, b) \/ MergeNext(i, b)
           \/ InsertRecord(i, b) \/ TableFull(i, b)
  BY DEF mem_record_free
<1>5. Between(t, i, b)
  BY <1>1, <1>2, <1>3, <1>4, Position DEF Between
<1>6. /\ Len(t) \in Nat
      /\ \A k \in 1 .. Len(t) :
           /\ t[k] \in Mem_record
           /\ t[k].mem_addr \in Nat /\ t[k].mem_size \in Nat
           /\ EndOf(t[k]) \in Nat
           /\ t[k].mem_addr < EndOf(t[k])
           /\ EndOf(t[k]) = t[k].mem_addr + t[k].mem_size
  BY <1>1, TableFacts
<1>7. /\ b.mem_addr \in Nat /\ b.mem_size \in Nat /\ b.mem_size >= 1
      /\ EndOf(b) \in Nat /\ b.mem_addr < EndOf(b)
      /\ EndOf(b) = b.mem_addr + b.mem_size
  BY <1>1, RecordFacts
<1>8. /\ HeapStart <= b.mem_addr /\ EndOf(b) <= HeapEnd
      /\ \A k \in 1 .. Len(t) : HeapStart <= t[k].mem_addr /\ EndOf(t[k]) <= HeapEnd
  <2>1. \A k \in 1 .. Len(t) : Span(t[k]) \subseteq HeapAddr
    BY <1>3 DEF SpanOf
  <2> QED
    BY <2>1, <1>1, <1>3, <1>6, InHeap
<1>9. HeapStart \in Nat /\ HeapEnd \in Nat /\ MAX_MEM_RECORDS \in Nat
  BY MemoryAssumption
<1> DEFINE joinsPrev == i > 1 /\ EndOf(t[i - 1]) = b.mem_addr
           joinsNext == i <= Len(t) /\ EndOf(b) = t[i].mem_addr
<1>10. /\ JoinsPrev(i, b) <=> joinsPrev
       /\ JoinsNext(i, b) <=> joinsNext
  BY DEF JoinsPrev, JoinsNext
(* A neighbour that does not touch b is apart from it. *)
<1>11. ~joinsPrev => \A k \in 1 .. Len(t) : k < i => EndOf(t[k]) < b.mem_addr
  <2> SUFFICES ASSUME ~joinsPrev, NEW k \in 1 .. Len(t), k < i
               PROVE  EndOf(t[k]) < b.mem_addr
    OBVIOUS
  <2>1. i > 1 /\ i - 1 \in 1 .. Len(t)
    BY <1>6
  <2>2. EndOf(t[i - 1]) < b.mem_addr
    <3>1. EndOf(t[i - 1]) <= b.mem_addr
      BY <2>1, <1>5 DEF Between
    <3> QED
      BY <2>1, <3>1, <1>6, <1>7, SMTT(30)
  <2>3. CASE k = i - 1
    BY <2>2, <2>3
  <2>4. CASE k < i - 1
    <3>1. EndOf(t[k]) < t[i - 1].mem_addr
      BY <2>1, <2>4, <1>2 DEF Sorted
    <3> QED
      BY <2>1, <2>2, <3>1, <1>6, <1>7, SMTT(30)
  <2> QED
    BY <2>3, <2>4, <1>6
<1>12. ~joinsNext => \A k \in 1 .. Len(t) : k >= i => EndOf(b) < t[k].mem_addr
  <2> SUFFICES ASSUME ~joinsNext, NEW k \in 1 .. Len(t), k >= i
               PROVE  EndOf(b) < t[k].mem_addr
    OBVIOUS
  <2>1. i \in 1 .. Len(t)
    BY <1>6
  <2>2. EndOf(b) < t[i].mem_addr
    <3>1. EndOf(b) <= t[i].mem_addr
      BY <2>1, <1>5 DEF Between
    <3> QED
      BY <2>1, <3>1, <1>6, <1>7
  <2>3. CASE k = i
    BY <2>2, <2>3
  <2>4. CASE k > i
    <3>1. EndOf(t[i]) < t[k].mem_addr
      BY <2>1, <2>4, <1>2 DEF Sorted
    <3> QED
      BY <2>1, <2>2, <3>1, <1>6, <1>7, SMTT(30)
  <2> QED
    BY <2>3, <2>4, <1>6
<1> HIDE DEF joinsPrev, joinsNext
<1>13. CASE MergeBoth(i, b)
  <2>1. joinsPrev /\ joinsNext
    BY <1>13, <1>10 DEF MergeBoth
  <2>2. /\ i \in 2 .. Len(t) /\ i - 1 \in 1 .. Len(t) /\ i \in 1 .. Len(t)
        /\ EndOf(t[i - 1]) = b.mem_addr /\ EndOf(b) = t[i].mem_addr
    BY <2>1, <1>6 DEF joinsPrev, joinsNext
  <2> DEFINE r == [mem_addr |-> t[i - 1].mem_addr,
                   mem_size |-> t[i - 1].mem_size + (b.mem_size + t[i].mem_size)]
             g == [t EXCEPT ![i - 1] = r]
             u == RemoveAt(g, i)
  <2>3. /\ t[i - 1].mem_addr \in Nat /\ t[i - 1].mem_size \in Nat
        /\ t[i].mem_size \in Nat /\ t[i].mem_addr \in Nat
        /\ EndOf(t[i - 1]) = t[i - 1].mem_addr + t[i - 1].mem_size
        /\ EndOf(t[i]) = t[i].mem_addr + t[i].mem_size
        /\ HeapStart <= t[i - 1].mem_addr /\ EndOf(t[i]) <= HeapEnd
    BY <2>2, <1>6, <1>8
  <2>4. r.mem_addr + r.mem_size = EndOf(t[i])
    <3> DEFINE A == t[i - 1].mem_addr
               X == t[i - 1].mem_size
               Z == t[i].mem_size
    <3>1. r.mem_addr = A /\ r.mem_size = X + (b.mem_size + Z)
      OBVIOUS
    <3>2. /\ A \in Nat /\ X \in Nat /\ Z \in Nat
          /\ A + X = b.mem_addr
          /\ EndOf(t[i]) = EndOf(b) + Z
      BY <2>2, <2>3
    <3> HIDE DEF r, A, X, Z
    <3> QED
      BY <3>1, <3>2, <1>7
  <2>5. r \in Mem_record
    <3>1. r.mem_addr \in Nat /\ r.mem_size \in Nat /\ r.mem_size >= 1
      <4> DEFINE A == t[i - 1].mem_addr
                 X == t[i - 1].mem_size
                 Z == t[i].mem_size
      <4>1. r.mem_addr = A /\ r.mem_size = X + (b.mem_size + Z)
        OBVIOUS
      <4>2. A \in Nat /\ X \in Nat /\ Z \in Nat
        BY <2>3
      <4> HIDE DEF r, A, X, Z
      <4> QED
        BY <4>1, <4>2, <1>7
    <3>2. r.mem_addr >= HeapStart /\ r.mem_addr + r.mem_size <= HeapEnd
      BY <2>3, <2>4
    <3> QED
      BY <3>1, <3>2, NewRecord
  <2>6. EndOf(r) = EndOf(t[i]) /\ r.mem_addr = t[i - 1].mem_addr
    BY <2>4 DEF EndOf
  <2>7. mem_record' = u /\ lost' = lost
    <3>1. GrownBy(i - 1, b.mem_size + t[i].mem_size) = g
      <4>1. t[i - 1] \in Mem_record
        BY <2>2, <1>6
      <4>2. [t[i - 1] EXCEPT !.mem_size = t[i - 1].mem_size + (b.mem_size + t[i].mem_size)] = r
        BY <4>1 DEF Mem_record
      <4> QED
        BY <4>2 DEF GrownBy
    <3> QED
      BY <1>13, <3>1 DEF MergeBoth
  <2> HIDE DEF r
  <2>8. /\ g \in Seq(Mem_record) /\ Len(g) = Len(t)
        /\ \A k \in 1 .. Len(t) : g[k] = IF k = i - 1 THEN r ELSE t[k]
    BY <2>2, <2>5, <1>1, ExceptSeq
  <2> HIDE DEF g
  <2>9. /\ u \in Seq(Mem_record) /\ Len(u) = Len(t) - 1
        /\ \A k \in 1 .. (Len(t) - 1) : u[k] = IF k < i THEN g[k] ELSE g[k + 1]
    BY <2>2, <2>8, RemoveAtProperties
  <2> HIDE DEF u
  <2>10. \A k \in 1 .. Len(u) :
           /\ u[k].mem_addr = IF k < i THEN t[k].mem_addr ELSE t[k + 1].mem_addr
           /\ EndOf(u[k]) = IF k < i - 1 THEN EndOf(t[k]) ELSE EndOf(t[k + 1])
    <3> TAKE k \in 1 .. Len(u)
    <3>1. CASE k < i - 1
      <4>1. u[k] = t[k]
        BY <3>1, <2>2, <2>8, <2>9, <1>6
      <4> QED
        BY <3>1, <4>1, <2>2, <1>6
    <3>2. CASE k = i - 1
      <4>1. u[k] = r /\ k + 1 = i /\ k < i /\ ~(k < i - 1)
        BY <3>2, <2>2, <2>8, <2>9, <1>6
      <4> QED
        BY <3>2, <4>1, <2>6
    <3>3. CASE k >= i
      <4>1. k + 1 \in 1 .. Len(t) /\ k + 1 # i - 1 /\ ~(k < i) /\ ~(k < i - 1)
        BY <3>3, <2>2, <2>9, <1>6
      <4>2. u[k] = t[k + 1]
        BY <3>3, <4>1, <2>8, <2>9
      <4> QED
        BY <4>1, <4>2
    <3>4. k < i - 1 \/ k = i - 1 \/ k >= i
      BY <2>2, <1>6
    <3> QED
      BY <3>1, <3>2, <3>3, <3>4
  <2>11. Sorted(u) /\ SpanOf(u) = SpanOf(t) \union Span(b)
    BY <2>2, <2>9, <2>10, <1>1, <1>2, <1>5, BothJoined
  <2>12. Len(u) <= MAX_MEM_RECORDS
    BY <2>9, <1>1, <1>6, <1>9
  <2> QED
    BY <2>7, <2>9, <2>11, <2>12
<1>14. CASE MergePrev(i, b)
  <2>1. joinsPrev /\ ~joinsNext
    BY <1>14, <1>10 DEF MergePrev
  <2>2. /\ i \in Nat /\ i - 1 \in 1 .. Len(t)
        /\ EndOf(t[i - 1]) = b.mem_addr
    BY <2>1, <1>6 DEF joinsPrev
  <2> DEFINE r == [mem_addr |-> t[i - 1].mem_addr,
                   mem_size |-> t[i - 1].mem_size + b.mem_size]
             u == [t EXCEPT ![i - 1] = r]
  <2>3. /\ t[i - 1].mem_addr \in Nat /\ t[i - 1].mem_size \in Nat
        /\ EndOf(t[i - 1]) = t[i - 1].mem_addr + t[i - 1].mem_size
        /\ HeapStart <= t[i - 1].mem_addr
    BY <2>2, <1>6, <1>8
  <2>4. r.mem_addr + r.mem_size = EndOf(b)
    <3> DEFINE A == t[i - 1].mem_addr
               X == t[i - 1].mem_size
    <3>1. r.mem_addr = A /\ r.mem_size = X + b.mem_size
      OBVIOUS
    <3>2. A \in Nat /\ X \in Nat /\ A + X = b.mem_addr
      BY <2>2, <2>3
    <3> HIDE DEF r, A, X
    <3> QED
      BY <3>1, <3>2, <1>7
  <2>5. r \in Mem_record
    <3>1. r.mem_addr \in Nat /\ r.mem_size \in Nat /\ r.mem_size >= 1
      <4>1. r.mem_addr = t[i - 1].mem_addr
        OBVIOUS
      <4>2. r.mem_size = t[i - 1].mem_size + b.mem_size
        OBVIOUS
      <4> HIDE DEF r
      <4> QED
        BY <4>1, <4>2, <2>3, <1>7
    <3>2. r.mem_addr >= HeapStart /\ r.mem_addr + r.mem_size <= HeapEnd
      BY <2>3, <2>4, <1>8
    <3> QED
      BY <3>1, <3>2, NewRecord
  <2>6. EndOf(r) = EndOf(b) /\ r.mem_addr = t[i - 1].mem_addr
    BY <2>4 DEF EndOf
  <2>7. mem_record' = u /\ lost' = lost
    <3>1. GrownBy(i - 1, b.mem_size) = u
      <4>1. t[i - 1] \in Mem_record
        BY <2>2, <1>6
      <4>2. [t[i - 1] EXCEPT !.mem_size = t[i - 1].mem_size + b.mem_size] = r
        BY <4>1 DEF Mem_record
      <4> QED
        BY <4>2 DEF GrownBy
    <3> QED
      BY <1>14, <3>1 DEF MergePrev
  <2> HIDE DEF r
  <2>8. /\ u \in Seq(Mem_record) /\ Len(u) = Len(t)
        /\ \A k \in 1 .. Len(t) : u[k] = IF k = i - 1 THEN r ELSE t[k]
    BY <2>2, <2>5, <1>1, ExceptSeq
  <2> HIDE DEF u
  <2>9. /\ \A k \in 1 .. Len(t) : k < i - 1 => EndOf(t[k]) < b.mem_addr
        /\ \A k \in 1 .. Len(t) : k > i - 1 => EndOf(b) < t[k].mem_addr
    <3>1. ASSUME NEW k \in 1 .. Len(t), k < i - 1
          PROVE  EndOf(t[k]) < b.mem_addr
      <4>1. EndOf(t[k]) < t[i - 1].mem_addr
        BY <3>1, <2>2, <1>2 DEF Sorted
      <4> QED
        BY <4>1, <2>2, <2>3, <1>6, <1>7, SMTT(30)
    <3>2. ASSUME NEW k \in 1 .. Len(t), k > i - 1
          PROVE  EndOf(b) < t[k].mem_addr
      <4>1. k >= i
        BY <3>2, <2>2, <1>6
      <4> QED
        BY <4>1, <2>1, <1>12
    <3> QED
      BY <3>1, <3>2
  <2>10. u[i - 1] = r /\ \A k \in 1 .. Len(t) : k # i - 1 => u[k] = t[k]
    BY <2>2, <2>8
  <2>11. Sorted(u) /\ SpanOf(u) = SpanOf(t) \union Span(b)
    BY <2>2, <2>6, <2>8, <2>9, <2>10, <1>1, <1>2, OneJoined
  <2> QED
    BY <2>7, <2>8, <2>11, <1>1
<1>15. CASE MergeNext(i, b)
  <2>1. ~joinsPrev /\ joinsNext
    BY <1>15, <1>10 DEF MergeNext
  <2>2. i \in Nat /\ i \in 1 .. Len(t) /\ EndOf(b) = t[i].mem_addr
    BY <2>1, <1>6 DEF joinsNext
  <2> DEFINE r == [mem_addr |-> b.mem_addr,
                   mem_size |-> t[i].mem_size + b.mem_size]
             u == [t EXCEPT ![i] = r]
  <2>3. /\ t[i].mem_addr \in Nat /\ t[i].mem_size \in Nat
        /\ EndOf(t[i]) \in Nat
        /\ t[i].mem_addr < EndOf(t[i])
        /\ EndOf(t[i]) = t[i].mem_addr + t[i].mem_size
        /\ EndOf(t[i]) <= HeapEnd
    BY <2>2, <1>6, <1>8
  <2>4. r.mem_addr + r.mem_size = EndOf(t[i])
    <3>1. /\ r.mem_addr = b.mem_addr
          /\ r.mem_size = t[i].mem_size + b.mem_size
      OBVIOUS
    <3> HIDE DEF r
    <3> QED
      BY <3>1, <2>2, <2>3, <1>7
  <2>5. r \in Mem_record
    <3>1. r.mem_addr \in Nat /\ r.mem_size \in Nat /\ r.mem_size >= 1
      <4>1. r.mem_addr = b.mem_addr
        OBVIOUS
      <4>2. r.mem_size = t[i].mem_size + b.mem_size
        OBVIOUS
      <4> HIDE DEF r
      <4> QED
        BY <4>1, <4>2, <2>3, <1>7, SMTT(30)
    <3>2. r.mem_addr >= HeapStart /\ r.mem_addr + r.mem_size <= HeapEnd
      BY <2>3, <2>4, <1>8
    <3> QED
      BY <3>1, <3>2, NewRecord
  <2>6. EndOf(r) = EndOf(t[i]) /\ r.mem_addr = b.mem_addr
    BY <2>4 DEF EndOf
  <2>7. mem_record' = u /\ lost' = lost
    BY <1>15 DEF MergeNext
  <2> HIDE DEF r
  <2>8. /\ u \in Seq(Mem_record) /\ Len(u) = Len(t)
        /\ \A k \in 1 .. Len(t) : u[k] = IF k = i THEN r ELSE t[k]
    BY <2>2, <2>5, <1>1, ExceptSeq
  <2> HIDE DEF u
  <2>9. /\ \A k \in 1 .. Len(t) : k < i => EndOf(t[k]) < b.mem_addr
        /\ \A k \in 1 .. Len(t) : k > i => EndOf(b) < t[k].mem_addr
    <3>1. ASSUME NEW k \in 1 .. Len(t), k > i
          PROVE  EndOf(b) < t[k].mem_addr
      <4>1. EndOf(t[i]) < t[k].mem_addr
        BY <3>1, <2>2, <1>2 DEF Sorted
      <4> QED
        BY <4>1, <2>2, <2>3, <1>6, <1>7, SMTT(30)
    <3> QED
      BY <3>1, <2>1, <1>11
  <2>10. u[i] = r /\ \A k \in 1 .. Len(t) : k # i => u[k] = t[k]
    BY <2>2, <2>8
  <2>11. Sorted(u) /\ SpanOf(u) = SpanOf(t) \union Span(b)
    BY <2>2, <2>6, <2>8, <2>9, <2>10, <1>1, <1>2, OneJoined
  <2> QED
    BY <2>7, <2>8, <2>11, <1>1
<1>16. CASE InsertRecord(i, b)
  <2>1. ~joinsPrev /\ ~joinsNext
    BY <1>16, <1>10 DEF InsertRecord
  <2> DEFINE u == InsertAt(t, i, b)
  <2>2. mem_record' = u /\ lost' = lost /\ Len(t) < MAX_MEM_RECORDS
    BY <1>16 DEF InsertRecord, HasRoom
  <2>3. /\ u \in Seq(Mem_record) /\ Len(u) = Len(t) + 1
        /\ \A k \in 1 .. (Len(t) + 1) :
             u[k] = IF k < i THEN t[k] ELSE IF k = i THEN b ELSE t[k - 1]
    <3>1. t \in Seq(Mem_record) /\ b \in Mem_record /\ i \in 1 .. (Len(t) + 1)
      BY <1>1
    <3> HIDE DEF t
    <3>2. InsertAt(t, i, b) \in Seq(Mem_record) /\ IsInsertion(InsertAt(t, i, b), t, i, b)
      BY <3>1, InsertAtProperties, Zenon
    <3> QED
      BY <3>2 DEF IsInsertion
  <2> HIDE DEF u
  <2>4. Sorted(u) /\ SpanOf(u) = SpanOf(t) \union Span(b)
    BY <2>1, <2>3, <1>1, <1>2, <1>11, <1>12, Inserted
  <2>5. Len(u) <= MAX_MEM_RECORDS
    BY <2>2, <2>3, <1>6, <1>9
  <2> QED
    BY <2>2, <2>3, <2>4, <2>5
<1>17. CASE TableFull(i, b)
  <2>1. ~joinsPrev /\ ~joinsNext
    BY <1>17, <1>10 DEF TableFull
  <2>2. /\ lost' = lost \union Span(b) /\ mem_record' = t
        /\ Len(t) >= MAX_MEM_RECORDS
    BY <1>17, <1>6, <1>9 DEF TableFull, HasRoom
  <2>3. ASSUME NEW p \in SpanOf(t)
        PROVE  p + 1 # b.mem_addr /\ p # EndOf(b)
    <3>1. PICK k \in 1 .. Len(t) :
            p \in Int /\ t[k].mem_addr <= p /\ p < EndOf(t[k])
      BY <2>3, <1>1, SpanOfMember
    <3>2. EndOf(t[k]) < b.mem_addr \/ EndOf(b) < t[k].mem_addr
      BY <2>1, <1>11, <1>12, <1>6
    <3> QED
      BY <3>1, <3>2, <1>6, <1>7, SMTT(30)
  <2> QED
    BY <2>2, <2>3, <1>1, <1>2
<1> QED
  BY <1>4, <1>13, <1>14, <1>15, <1>16, <1>17

-----------------------------------------------------------------------------
(* mem_record_alloc on a sound table.                                      *)

(* The block that a request for n takes from record i. *)
Cut(i, n) == [mem_addr |-> mem_record[i].mem_addr, mem_size |-> n]

LEMMA AllocEffect ==
  ASSUME Inv, NEW n \in Sizes, NEW i \in LongEnough(n), mem_record' = CutFrom(i, n)
  PROVE  /\ mem_record' \in Seq(Mem_record)
         /\ Len(mem_record') <= MAX_MEM_RECORDS
         /\ Sorted(mem_record')
         /\ Cut(i, n) \in Mem_record
         /\ Span(Cut(i, n)) \subseteq SpanOf(mem_record)
         /\ SpanOf(mem_record') = SpanOf(mem_record) \ Span(Cut(i, n))
<1> DEFINE t == mem_record
           c == Cut(i, n)
<1>1. t \in Seq(Mem_record) /\ Len(t) <= MAX_MEM_RECORDS
  BY DEF Inv, TypeOK
<1>2. Sorted(t)
  BY DEF Inv, TableSound, Sorted
<1>3. SpanOf(t) \subseteq HeapAddr
  BY DEF Inv, Conserved, FreeAddr, SpanOf
<1>4. /\ Len(t) \in Nat
      /\ \A k \in 1 .. Len(t) :
           /\ t[k] \in Mem_record
           /\ t[k].mem_addr \in Nat /\ t[k].mem_size \in Nat
           /\ EndOf(t[k]) \in Nat
           /\ t[k].mem_addr < EndOf(t[k])
           /\ EndOf(t[k]) = t[k].mem_addr + t[k].mem_size
  BY <1>1, TableFacts
<1>5. i \in 1 .. Len(t) /\ t[i].mem_size >= n /\ n \in Nat /\ n >= 1
  BY MemoryAssumption DEF LongEnough
<1>6. HeapStart <= t[i].mem_addr /\ EndOf(t[i]) <= HeapEnd
  <2>1. Span(t[i]) \subseteq HeapAddr
    BY <1>3, <1>5 DEF SpanOf
  <2> QED
    BY <2>1, <1>4, <1>5, InHeap
<1>7. HeapStart \in Nat /\ HeapEnd \in Nat /\ MAX_MEM_RECORDS \in Nat
  BY MemoryAssumption
<1> DEFINE A == t[i].mem_addr
           Z == t[i].mem_size
<1>8. /\ A \in Nat /\ Z \in Nat /\ Z >= n
      /\ EndOf(t[i]) = A + Z
      /\ HeapStart <= A /\ A + Z <= HeapEnd
  BY <1>4, <1>5, <1>6
<1>9. c = [mem_addr |-> A, mem_size |-> n]
  BY DEF Cut
<1>10. c.mem_addr = A /\ EndOf(c) = A + n
  BY <1>9 DEF EndOf
<1>11. c \in Mem_record
  <2>1. A + n <= HeapEnd
    <3> HIDE DEF A, Z
    <3> QED
      BY <1>5, <1>7, <1>8
  <2>2. [mem_addr |-> A, mem_size |-> n] \in Mem_record
    <3> HIDE DEF A, Z
    <3> QED
      BY <2>1, <1>5, <1>8, NewRecord
  <2> QED
    BY <2>2, <1>9
<1> HIDE DEF c
<1>12. \A x : x \in Span(c) <=> x \in Int /\ A <= x /\ x < A + n
  BY <1>10, <1>11, RecordFacts
<1>13. Span(c) \subseteq SpanOf(t)
  <2> SUFFICES ASSUME NEW x \in Span(c)
               PROVE  x \in SpanOf(t)
    OBVIOUS
  <2>1. x \in Int /\ A <= x /\ x < A + n
    BY <1>12
  <2>2. x < A + Z
    <3> HIDE DEF A, Z
    <3> QED
      BY <2>1, <1>5, <1>8
  <2> QED
    BY <2>1, <2>2, <1>1, <1>5, <1>8, SpanOfMember
<1>14. CASE Z = n
  <2> DEFINE u == RemoveAt(t, i)
  <2>1. mem_record' = u
    BY <1>14 DEF CutFrom
  <2>2. /\ u \in Seq(Mem_record) /\ Len(u) = Len(t) - 1
        /\ \A k \in 1 .. (Len(t) - 1) : u[k] = IF k < i THEN t[k] ELSE t[k + 1]
    BY <1>1, <1>5, RemoveAtProperties
  <2> HIDE DEF u
  <2>3. /\ \A k \in 1 .. Len(u) : k < i => k \in 1 .. Len(t) /\ u[k] = t[k]
        /\ \A k \in 1 .. Len(u) : k >= i =>
             k + 1 \in 1 .. Len(t) /\ u[k] = t[k + 1]
        /\ \A k \in 1 .. Len(t) : k < i => k \in 1 .. Len(u)
        /\ \A k \in 1 .. Len(t) : k > i =>
             k - 1 \in 1 .. Len(u) /\ k - 1 >= i /\ (k - 1) + 1 = k
    <3>1. \A k \in 1 .. Len(u) : k < i => k \in 1 .. Len(t) /\ u[k] = t[k]
      BY <2>2, <1>4, <1>5
    <3>2. \A k \in 1 .. Len(u) : k >= i => k + 1 \in 1 .. Len(t) /\ u[k] = t[k + 1]
      BY <2>2, <1>4, <1>5
    <3>3. \A k \in 1 .. Len(t) : k < i => k \in 1 .. Len(u)
      BY <2>2, <1>4, <1>5
    <3>4. \A k \in 1 .. Len(t) : k > i =>
             k - 1 \in 1 .. Len(u) /\ k - 1 >= i /\ (k - 1) + 1 = k
      BY <2>2, <1>4, <1>5
    <3> QED
      BY <3>1, <3>2, <3>3, <3>4
  <2>4. Sorted(u)
    <3> SUFFICES ASSUME NEW k \in 1 .. Len(u), NEW m \in 1 .. Len(u), k < m
                 PROVE  EndOf(u[k]) < u[m].mem_addr
      BY DEF Sorted
    <3>0. k \in Nat /\ m \in Nat /\ i \in Nat
      BY <2>2, <1>4, <1>5
    <3>1. CASE m < i
      BY <3>1, <3>0, <2>3, <1>2 DEF Sorted
    <3>2. CASE k < i /\ m >= i
      <4>1. k < m + 1
        BY <3>0
      <4> QED
        BY <4>1, <3>2, <2>3, <1>2 DEF Sorted
    <3>3. CASE k >= i
      <4>1. k + 1 < m + 1 /\ m >= i
        BY <3>0, <3>3
      <4> QED
        BY <4>1, <3>3, <2>3, <1>2 DEF Sorted
    <3> QED
      BY <3>0, <3>1, <3>2, <3>3
  <2>5. \A k \in 1 .. Len(t) : k # i =>
          EndOf(t[k]) < t[i].mem_addr \/ EndOf(t[i]) < t[k].mem_addr
    BY <1>2, <1>4, <1>5 DEF Sorted
  <2>6. ASSUME NEW x, x \in SpanOf(u)
        PROVE  x \in SpanOf(t) \ Span(c)
    <3>1. PICK k \in 1 .. Len(u) :
            x \in Int /\ u[k].mem_addr <= x /\ x < EndOf(u[k])
      BY <2>6, <2>2, SpanOfMember
    <3>2. \E m \in 1 .. Len(t) : m # i /\ u[k] = t[m]
      <4>1. CASE k < i
        BY <4>1, <2>3
      <4>2. CASE k >= i
        <5>1. k + 1 # i
          BY <4>2, <2>2, <1>4, <1>5
        <5> QED
          BY <4>2, <5>1, <2>3
      <4> QED
        BY <4>1, <4>2, <2>2, <1>4, <1>5
    <3>3. PICK m \in 1 .. Len(t) : m # i /\ u[k] = t[m]
      BY <3>2
    <3>4. x \in SpanOf(t)
      BY <3>1, <3>3, <1>1, SpanOfMember
    <3>5. ~(A <= x /\ x < A + Z)
      BY <3>1, <3>3, <2>5, <1>4, <1>5, <1>8, SMTT(30)
    <3> QED
      BY <3>4, <3>5, <1>12, <1>14
  <2>7. ASSUME NEW x, x \in SpanOf(t), x \notin Span(c)
        PROVE  x \in SpanOf(u)
    <3>1. PICK k \in 1 .. Len(t) :
            x \in Int /\ t[k].mem_addr <= x /\ x < EndOf(t[k])
      BY <2>7, <1>1, SpanOfMember
    <3>2. k # i
      BY <3>1, <2>7, <1>8, <1>12, <1>14
    <3>3. \E m \in 1 .. Len(u) : u[m] = t[k]
      <4>1. CASE k < i
        BY <4>1, <2>3
      <4>2. CASE k > i
        BY <4>2, <2>3
      <4> QED
        BY <3>2, <4>1, <4>2, <1>4, <1>5
    <3> QED
      BY <3>1, <3>3, <2>2, SpanOfMember
  <2>8. Len(u) <= MAX_MEM_RECORDS
    BY <2>2, <1>1, <1>4, <1>7
  <2> QED
    BY <2>1, <2>2, <2>4, <2>6, <2>7, <2>8, <1>11, <1>13 DEF c
<1>15. CASE Z # n
  <2> DEFINE r == [mem_addr |-> A + n, mem_size |-> Z - n]
             u == [t EXCEPT ![i] = r]
  <2>1. mem_record' = u
    BY <1>15 DEF CutFrom
  <2>2. r \in Mem_record /\ EndOf(r) = EndOf(t[i]) /\ r.mem_addr = A + n
    <3>1. /\ A + n \in Nat /\ Z - n \in Nat /\ Z - n >= 1
          /\ A + n >= HeapStart /\ (A + n) + (Z - n) <= HeapEnd
          /\ (A + n) + (Z - n) = A + Z
      <4> HIDE DEF A, Z
      <4> QED
        BY <1>5, <1>7, <1>8, <1>15, SMTT(30)
    <3>2. r \in Mem_record
      <4> HIDE DEF A, Z
      <4> QED
        BY <3>1, NewRecord
    <3>3. r.mem_addr = A + n /\ EndOf(r) = (A + n) + (Z - n)
      BY DEF EndOf
    <3> QED
      BY <3>1, <3>2, <3>3, <1>8
  <2> HIDE DEF r
  <2>3. /\ u \in Seq(Mem_record) /\ Len(u) = Len(t)
        /\ \A k \in 1 .. Len(t) : u[k] = IF k = i THEN r ELSE t[k]
    BY <2>2, <1>1, <1>5, ExceptSeq
  <2> HIDE DEF u
  <2>4. u[i] = r /\ \A k \in 1 .. Len(t) : k # i => u[k] = t[k]
    BY <2>3, <1>5
  <2>5. Sorted(u)
    <3> SUFFICES ASSUME NEW k \in 1 .. Len(t), NEW m \in 1 .. Len(t), k < m
                 PROVE  EndOf(u[k]) < u[m].mem_addr
      BY <2>3 DEF Sorted
    <3>1. EndOf(t[k]) < t[m].mem_addr
      BY <1>2 DEF Sorted
    <3>2. EndOf(u[k]) = EndOf(t[k])
      BY <2>2, <2>4
    <3>3. u[m].mem_addr >= t[m].mem_addr
      <4>1. CASE m = i
        BY <4>1, <2>2, <2>4, <1>5, <1>8
      <4>2. CASE m # i
        BY <4>2, <2>4, <1>4
      <4> QED
        BY <4>1, <4>2
    <3>4. u[m].mem_addr \in Nat /\ t[m].mem_addr \in Nat /\ EndOf(t[k]) \in Nat
      BY <2>3, <1>4, TableFacts
    <3> QED
      BY <3>1, <3>2, <3>3, <3>4
  <2>6. \A k \in 1 .. Len(t) : k # i =>
          EndOf(t[k]) < t[i].mem_addr \/ EndOf(t[i]) < t[k].mem_addr
    BY <1>2, <1>4, <1>5 DEF Sorted
  <2>7. \A x \in Int :
          u[i].mem_addr <= x /\ x < EndOf(u[i]) <=>
            A <= x /\ x < EndOf(t[i]) /\ ~(A <= x /\ x < A + n)
    <3>1. u[i].mem_addr = A + n /\ EndOf(u[i]) = EndOf(t[i])
      BY <2>2, <2>4
    <3>2. EndOf(t[i]) \in Nat
      BY <1>4, <1>5
    <3> HIDE DEF A, Z
    <3> QED
      BY <3>1, <3>2, <1>5, <1>8
  <2>8. ASSUME NEW x, x \in SpanOf(u)
        PROVE  x \in SpanOf(t) \ Span(c)
    <3>1. PICK k \in 1 .. Len(t) :
            x \in Int /\ u[k].mem_addr <= x /\ x < EndOf(u[k])
      BY <2>8, <2>3, SpanOfMember
    <3>2. CASE k = i
      BY <3>1, <3>2, <2>7, <1>1, <1>5, <1>12, SpanOfMember
    <3>3. CASE k # i
      <4>1. t[k].mem_addr <= x /\ x < EndOf(t[k])
        BY <3>1, <3>3, <2>4
      <4>2. ~(A <= x /\ x < EndOf(t[i]))
        BY <3>1, <3>3, <4>1, <2>6, <1>4, <1>5, SMTT(30)
      <4>3. ~(A <= x /\ x < A + n)
        <5> HIDE DEF A, Z
        <5> QED
          BY <3>1, <4>2, <1>5, <1>8
      <4> QED
        BY <3>1, <4>1, <4>3, <1>1, <1>12, SpanOfMember
    <3> QED
      BY <3>2, <3>3
  <2>9. ASSUME NEW x, x \in SpanOf(t), x \notin Span(c)
        PROVE  x \in SpanOf(u)
    <3>1. PICK k \in 1 .. Len(t) :
            x \in Int /\ t[k].mem_addr <= x /\ x < EndOf(t[k])
      BY <2>9, <1>1, SpanOfMember
    <3>2. CASE k = i
      <4>1. u[i].mem_addr <= x /\ x < EndOf(u[i])
        BY <3>1, <3>2, <2>7, <2>9, <1>12
      <4> QED
        BY <3>1, <4>1, <2>3, <1>5, SpanOfMember
    <3>3. CASE k # i
      BY <3>1, <3>3, <2>3, <2>4, SpanOfMember
    <3> QED
      BY <3>2, <3>3
  <2> QED
    BY <2>1, <2>3, <2>5, <2>8, <2>9, <1>1, <1>11, <1>13 DEF c
<1> QED
  BY <1>14, <1>15

-----------------------------------------------------------------------------
(* The inductive invariant is the conjunction of the invariants themselves. *)

LEMMA FreeAddrIsSpan == FreeAddr = SpanOf(mem_record) /\ FreeAddr' = SpanOf(mem_record')
  BY DEF FreeAddr, SpanOf

LEMMA InvInit == Init => Inv
<1> SUFFICES ASSUME Init
             PROVE  Inv
  OBVIOUS
<1> DEFINE r == [mem_addr |-> HeapStart, mem_size |-> HeapEnd - HeapStart]
<1>1. /\ HeapStart \in Nat /\ HeapEnd \in Nat /\ HeapStart < HeapEnd
      /\ MAX_MEM_RECORDS \in Nat /\ MAX_MEM_RECORDS >= 1
  BY MemoryAssumption
<1>2. r \in Mem_record
  <2>1. /\ HeapEnd - HeapStart \in Nat /\ HeapEnd - HeapStart >= 1
        /\ HeapStart >= HeapStart /\ HeapStart + (HeapEnd - HeapStart) <= HeapEnd
    BY <1>1
  <2> QED
    BY <2>1, <1>1, NewRecord
<1>3. Span(r) = HeapAddr
  <2>1. r.mem_addr = HeapStart /\ r.mem_addr + r.mem_size - 1 = HeapEnd - 1
    BY <1>1
  <2> QED
    BY <2>1 DEF Span, HeapAddr
<1>4. mem_record = <<r>> /\ lent = {} /\ lost = {} /\ running = TRUE
  BY DEF Init
<1> HIDE DEF r
<1>5. /\ mem_record \in Seq(Mem_record) /\ Len(mem_record) = 1
      /\ mem_record[1] = r /\ 1 .. Len(mem_record) = {1}
  BY <1>2, <1>4
<1>6. TypeOK
  BY <1>1, <1>4, <1>5 DEF TypeOK
<1>7. TableSound
  BY <1>5 DEF TableSound
<1>8. FreeAddr = HeapAddr
  BY <1>3, <1>5 DEF FreeAddr
<1>9. Conserved
  BY <1>4, <1>8 DEF Conserved, LentAddr
<1> QED
  BY <1>6, <1>7, <1>9 DEF Inv

LEMMA FreeStep ==
  ASSUME Inv, NEW b \in lent, Ri_free(b)
  PROVE  Inv'
<1>1. /\ mem_record' \in Seq(Mem_record)
      /\ Len(mem_record') <= MAX_MEM_RECORDS
      /\ Sorted(mem_record')
      /\ \/ lost' = lost /\ FreeAddr' = FreeAddr \union Span(b)
         \/ lost' = lost \union Span(b) /\ FreeAddr' = FreeAddr
  BY FreeEffect, FreeAddrIsSpan DEF Ri_free
<1>2. lent' = lent \ {b} /\ running' = running
  BY DEF Ri_free
<1>3. TypeOK /\ Conserved
  BY DEF Inv
<1>4. Span(b) \subseteq HeapAddr
  BY <1>3 DEF Conserved, LentAddr
<1>5. TypeOK'
  BY <1>1, <1>2, <1>3, <1>4 DEF TypeOK
<1>6. TableSound'
  BY <1>1 DEF TableSound, Sorted
<1>7. LentAddr' = LentAddr \ Span(b)
  BY <1>2, <1>3 DEF LentAddr, Conserved
<1>8. Span(b) \subseteq LentAddr
  BY DEF LentAddr
<1>9. Conserved'
  <2>1. \A c, d \in lent' : c # d => Span(c) \intersect Span(d) = {}
    BY <1>2, <1>3 DEF Conserved
  <2>2. /\ FreeAddr' \union LentAddr' \union lost' = HeapAddr
        /\ FreeAddr' \intersect LentAddr' = {}
        /\ (FreeAddr' \union LentAddr') \intersect lost' = {}
    BY <1>1, <1>3, <1>7, <1>8 DEF Conserved
  <2> QED
    BY <2>1, <2>2 DEF Conserved
<1> QED
  BY <1>5, <1>6, <1>9 DEF Inv

LEMMA MallocStep ==
  ASSUME Inv, NEW n \in Sizes, Ri_malloc(n)
  PROVE  Inv'
<1>1. CASE RunOut(n)
  <2>1. mem_record' = mem_record /\ lent' = lent /\ lost' = lost /\ running' = FALSE
    BY <1>1 DEF RunOut
  <2>2. FreeAddr' = FreeAddr /\ LentAddr' = LentAddr
    BY <2>1 DEF FreeAddr, LentAddr
  <2>3. TypeOK' /\ TableSound'
    BY <2>1 DEF Inv, TypeOK, TableSound
  <2>4. Conserved'
    BY <2>1, <2>2 DEF Inv, Conserved
  <2> QED
    BY <2>3, <2>4 DEF Inv
<1>2. CASE FirstFit(n)
  <2>1. PICK i \in LongEnough(n) :
          /\ mem_record' = CutFrom(i, n)
          /\ lent' = lent \union {Cut(i, n)}
          /\ lost' = lost /\ running' = running
    BY <1>2 DEF FirstFit, Cut
  <2> DEFINE c == Cut(i, n)
  <2>2. /\ mem_record' \in Seq(Mem_record)
        /\ Len(mem_record') <= MAX_MEM_RECORDS
        /\ Sorted(mem_record')
        /\ c \in Mem_record
        /\ Span(c) \subseteq FreeAddr
        /\ FreeAddr' = FreeAddr \ Span(c)
    BY <2>1, AllocEffect, FreeAddrIsSpan
  <2> HIDE DEF c
  <2>3. TypeOK /\ Conserved
    BY DEF Inv
  <2>4. TypeOK'
    BY <2>1, <2>2, <2>3 DEF TypeOK, c
  <2>5. TableSound'
    BY <2>2 DEF TableSound, Sorted
  <2>6. LentAddr' = LentAddr \union Span(c)
    BY <2>1 DEF LentAddr, c
  <2>7. \A d \in lent : Span(d) \intersect Span(c) = {}
    BY <2>2, <2>3 DEF Conserved, LentAddr
  <2>8. \A d, e \in lent' : d # e => Span(d) \intersect Span(e) = {}
    BY <2>1, <2>3, <2>7 DEF Conserved, c
  <2>9. /\ FreeAddr' \union LentAddr' \union lost' = HeapAddr
        /\ FreeAddr' \intersect LentAddr' = {}
        /\ (FreeAddr' \union LentAddr') \intersect lost' = {}
    BY <2>1, <2>2, <2>3, <2>6 DEF Conserved
  <2> QED
    BY <2>4, <2>5, <2>8, <2>9 DEF Inv, Conserved
<1> QED
  BY <1>1, <1>2 DEF Ri_malloc

(* Types, order and conservation of memory hold together in every          *)
(* reachable state of the allocator (memory.cc:19-140).                    *)
THEOREM MemoryInvariance == Spec => []Inv
<1>1. Inv /\ [Next]_vars => Inv'
  <2> SUFFICES ASSUME Inv, [Next]_vars
               PROVE  Inv'
    OBVIOUS
  <2>1. CASE UNCHANGED vars
    BY <2>1 DEF vars, Inv, TypeOK, TableSound, Conserved, FreeAddr, LentAddr
  <2>2. ASSUME NEW n \in Sizes, Ri_malloc(n)
        PROVE  Inv'
    BY <2>2, MallocStep
  <2>3. ASSUME NEW b \in lent, Ri_free(b)
        PROVE  Inv'
    BY <2>3, FreeStep
  <2> QED
    BY <2>1, <2>2, <2>3 DEF Next
<1> QED
  BY <1>1, InvInit, PTL DEF Spec

(* The record table, its length and the blocks lent out keep their types,  *)
(* whatever is asked for and given back.                                   *)
THEOREM MemoryTypeCorrect == Spec => []TypeOK
<1>1. Inv => TypeOK
  BY DEF Inv
<1> QED
  BY <1>1, MemoryInvariance, PTL

(* The records stay in order, and neighbours are always joined.            *)
THEOREM TableCorrect == Spec => []TableSound
<1>1. Inv => TableSound
  BY DEF Inv
<1> QED
  BY <1>1, MemoryInvariance, PTL

(* Every address is free, with one caller, or lost to a full table: no     *)
(* memory is handed out twice and none disappears otherwise.               *)
THEOREM MemoryConserved == Spec => []Conserved
<1>1. Inv => Conserved
  BY DEF Inv
<1> QED
  BY <1>1, MemoryInvariance, PTL

-----------------------------------------------------------------------------
(* The table implements the heap.                                          *)

(* A run of free addresses lies within one record, for records never touch. *)
LEMMA RunInRecord ==
  ASSUME Inv, NEW n \in Nat, n >= 1, NEW a \in FreeAddr,
         Promise!Run(a, n) \subseteq FreeAddr
  PROVE  \E k \in 1 .. Len(mem_record) :
           mem_record[k].mem_addr <= a /\ a + n <= EndOf(mem_record[k])
<1> DEFINE t == mem_record
<1>1. t \in Seq(Mem_record) /\ Sorted(t) /\ FreeAddr = SpanOf(t)
  BY FreeAddrIsSpan DEF Inv, TypeOK, TableSound, Sorted
<1>2. /\ Len(t) \in Nat
      /\ \A k \in 1 .. Len(t) :
           /\ t[k].mem_addr \in Nat /\ EndOf(t[k]) \in Nat
           /\ t[k].mem_addr < EndOf(t[k])
  BY <1>1, TableFacts
<1>3. PICK k \in 1 .. Len(t) : a \in Int /\ t[k].mem_addr <= a /\ a < EndOf(t[k])
  BY <1>1, SpanOfMember
<1>4. ASSUME a + n > EndOf(t[k])
      PROVE  FALSE
  <2>1. EndOf(t[k]) \in Promise!Run(a, n)
    BY <1>2, <1>3, <1>4 DEF Promise!Run
  <2>2. EndOf(t[k]) \in SpanOf(t)
    BY <2>1, <1>1
  <2>3. PICK m \in 1 .. Len(t) :
          t[m].mem_addr <= EndOf(t[k]) /\ EndOf(t[k]) < EndOf(t[m])
    BY <2>2, <1>1, SpanOfMember
  <2>4. CASE m < k
    <3>1. EndOf(t[m]) < t[k].mem_addr
      BY <2>4, <1>1 DEF Sorted
    <3> QED
      BY <2>3, <3>1, <1>2
  <2>5. CASE k < m
    <3>1. EndOf(t[k]) < t[m].mem_addr
      BY <2>5, <1>1 DEF Sorted
    <3> QED
      BY <2>3, <3>1, <1>2
  <2>6. CASE m = k
    BY <2>3, <2>6, <1>2
  <2> QED
    BY <2>4, <2>5, <2>6, <1>2
<1> QED
  BY <1>2, <1>3, <1>4

(* The pieces of free memory are the records.                              *)
LEMMA PiecesAreRecords ==
  ASSUME Inv
  PROVE  Cardinality(Promise!Starts) = Len(mem_record)
<1> DEFINE t == mem_record
           f == [k \in 1 .. Len(t) |-> t[k].mem_addr]
<1>1. t \in Seq(Mem_record) /\ Sorted(t) /\ FreeAddr = SpanOf(t)
  BY FreeAddrIsSpan DEF Inv, TypeOK, TableSound, Sorted
<1>2. /\ Len(t) \in Nat
      /\ \A k \in 1 .. Len(t) :
           /\ t[k].mem_addr \in Nat /\ EndOf(t[k]) \in Nat
           /\ t[k].mem_addr < EndOf(t[k])
  BY <1>1, TableFacts
<1>3. ASSUME NEW k \in 1 .. Len(t)
      PROVE  t[k].mem_addr \in Promise!Starts
  <2>1. t[k].mem_addr \in FreeAddr
    BY <1>1, <1>2, SpanOfMember
  <2>2. ASSUME NEW p \in FreeAddr
        PROVE  p + 1 # t[k].mem_addr
    <3>1. PICK m \in 1 .. Len(t) :
            p \in Int /\ t[m].mem_addr <= p /\ p < EndOf(t[m])
      BY <1>1, SpanOfMember
    <3>2. m < k => EndOf(t[m]) < t[k].mem_addr
      BY <1>1 DEF Sorted
    <3>3. k < m => EndOf(t[k]) < t[m].mem_addr
      BY <1>1 DEF Sorted
    <3> QED
      BY <3>1, <3>2, <3>3, <1>2
  <2> QED
    BY <2>1, <2>2 DEF Promise!Starts
<1>4. ASSUME NEW a \in Promise!Starts
      PROVE  \E k \in 1 .. Len(t) : t[k].mem_addr = a
  <2>1. a \in FreeAddr /\ \A p \in FreeAddr : p + 1 # a
    BY DEF Promise!Starts
  <2>2. PICK k \in 1 .. Len(t) : a \in Int /\ t[k].mem_addr <= a /\ a < EndOf(t[k])
    BY <2>1, <1>1, SpanOfMember
  <2>3. ASSUME t[k].mem_addr < a
        PROVE  FALSE
    <3>1. a - 1 \in Int /\ t[k].mem_addr <= a - 1 /\ a - 1 < EndOf(t[k])
      BY <2>2, <2>3, <1>2
    <3>2. a - 1 \in FreeAddr
      BY <3>1, <1>1, SpanOfMember
    <3>3. (a - 1) + 1 = a
      BY <2>2
    <3> QED
      BY <2>1, <3>2, <3>3
  <2> QED
    BY <2>2, <2>3, <1>2
<1>5. \A k, m \in 1 .. Len(t) : t[k].mem_addr = t[m].mem_addr => k = m
  BY <1>1, <1>2 DEF Sorted
<1>6. f \in Bijection(1 .. Len(t), Promise!Starts)
  <2>1. f \in [1 .. Len(t) -> Promise!Starts]
    BY <1>3
  <2>2. \A k, m \in 1 .. Len(t) : f[k] = f[m] => k = m
    BY <1>5
  <2>3. \A a \in Promise!Starts : \E k \in 1 .. Len(t) : f[k] = a
    BY <1>4
  <2> HIDE DEF f
  <2> QED
    BY <2>1, <2>2, <2>3 DEF Bijection, Injection, Surjection, IsInjective
<1> HIDE DEF f
<1>7. ExistsBijection(1 .. Len(t), Promise!Starts)
  BY <1>6 DEF ExistsBijection
<1> QED
  BY <1>2, <1>7, FS_CountingElements

LEMMA PromiseInit == Init => Promise!Init
<1> SUFFICES ASSUME Init
             PROVE  Promise!Init
  OBVIOUS
<1>1. Inv /\ lent = {} /\ lost = {} /\ running = TRUE
  BY InvInit DEF Init
<1>2. FreeAddr = HeapAddr
  BY <1>1 DEF Inv, Conserved, LentAddr
<1> QED
  BY <1>1, <1>2 DEF Promise!Init

LEMMA PromiseMalloc ==
  ASSUME Inv, NEW n \in Sizes, Ri_malloc(n)
  PROVE  Promise!Alloc(n) \/ Promise!Halt(n)
<1> DEFINE t == mem_record
<1>1. t \in Seq(Mem_record) /\ Sorted(t) /\ FreeAddr = SpanOf(t)
  BY FreeAddrIsSpan DEF Inv, TypeOK, TableSound, Sorted
<1>2. /\ Len(t) \in Nat
      /\ \A k \in 1 .. Len(t) :
           /\ t[k].mem_addr \in Nat /\ t[k].mem_size \in Nat
           /\ EndOf(t[k]) \in Nat
           /\ t[k].mem_addr < EndOf(t[k])
           /\ EndOf(t[k]) = t[k].mem_addr + t[k].mem_size
  BY <1>1, TableFacts
<1>3. n \in Nat /\ n >= 1
  BY MemoryAssumption
(* Wherever the heap has a fit, a record is long enough, and not behind it. *)
<1>4. ASSUME NEW a \in Promise!Fits(n)
      PROVE  \E k \in LongEnough(n) : t[k].mem_addr <= a
  <2>1. a \in FreeAddr /\ Promise!Run(a, n) \subseteq FreeAddr
    BY DEF Promise!Fits
  <2>2. PICK k \in 1 .. Len(t) : t[k].mem_addr <= a /\ a + n <= EndOf(t[k])
    BY <2>1, <1>3, RunInRecord
  <2>3. a \in Int
    BY <2>1, <1>1, SpanOfMember
  <2>4. t[k].mem_size >= n
    BY <2>2, <2>3, <1>2, <1>3
  <2> QED
    BY <2>2, <2>4 DEF LongEnough
<1>5. CASE RunOut(n)
  <2>1. LongEnough(n) = {} /\ running' = FALSE
        /\ UNCHANGED <<mem_record, lent, lost>>
    BY <1>5 DEF RunOut
  <2>2. Promise!Fits(n) = {}
    BY <2>1, <1>4
  <2>3. FreeAddr' = FreeAddr
    BY <2>1 DEF FreeAddr
  <2> QED
    BY <2>1, <2>2, <2>3 DEF Promise!Halt, Ri_malloc
<1>6. CASE FirstFit(n)
  <2>1. PICK i \in LongEnough(n) :
          /\ \A k \in LongEnough(n) : i <= k
          /\ mem_record' = CutFrom(i, n)
          /\ lent' = lent \union {Cut(i, n)}
          /\ running' = running
    BY <1>6 DEF FirstFit, Cut
  <2> DEFINE A == t[i].mem_addr
  <2>2. i \in 1 .. Len(t) /\ t[i].mem_size >= n
    BY DEF LongEnough
  <2>3. A \in Nat
    BY <2>2, <1>2
  <2>4. /\ Span(Cut(i, n)) \subseteq FreeAddr
        /\ FreeAddr' = FreeAddr \ Span(Cut(i, n))
    BY <2>1, <1>1, AllocEffect, FreeAddrIsSpan
  <2>5. Cut(i, n) = [mem_addr |-> A, mem_size |-> n]
        /\ Span(Cut(i, n)) = Promise!Run(A, n)
    BY DEF Cut, Span, Promise!Run
  <2>6. A \in Promise!Fits(n)
    <3>1. A \in Promise!Run(A, n)
      BY <2>3, <1>3 DEF Promise!Run
    <3> QED
      BY <3>1, <2>4, <2>5 DEF Promise!Fits
  <2>7. ASSUME NEW other \in Promise!Fits(n)
        PROVE  A <= other
    <3>1. PICK k \in LongEnough(n) : t[k].mem_addr <= other
      BY <1>4
    <3>2. i <= k /\ k \in 1 .. Len(t)
      BY <2>1 DEF LongEnough
    <3>3. A <= t[k].mem_addr
      <4>1. CASE i = k
        BY <4>1, <2>3
      <4>2. CASE i < k
        <5>1. EndOf(t[i]) < t[k].mem_addr
          BY <4>2, <3>2, <2>2, <1>1 DEF Sorted
        <5> QED
          BY <5>1, <2>2, <3>2, <1>2
      <4> QED
        BY <3>2, <4>1, <4>2, <2>2
    <3>4. other \in Int
      BY <1>1, SpanOfMember DEF Promise!Fits
    <3> QED
      BY <3>1, <3>2, <3>3, <3>4, <2>3, <1>2
  <2> HIDE DEF A
  <2>8. Promise!Alloc(n)
    BY <2>1, <2>4, <2>5, <2>6, <2>7 DEF Promise!Alloc, Ri_malloc
  <2> QED
    BY <2>8
<1> QED
  BY <1>5, <1>6 DEF Ri_malloc

LEMMA PromiseFree ==
  ASSUME Inv, NEW b \in lent, Ri_free(b)
  PROVE  Promise!Free(b) \/ Promise!Drop(b)
<1>1. mem_record_free(b) /\ lent' = lent \ {b} /\ running /\ running' = running
  BY DEF Ri_free
<1>2. Span(b) = Promise!Run(b.mem_addr, b.mem_size)
  BY DEF Span, Promise!Run
<1>3. CASE SpanOf(mem_record') = SpanOf(mem_record) \union Span(b)
  BY <1>1, <1>2, <1>3, FreeAddrIsSpan DEF Promise!Free
<1>4. CASE /\ mem_record' = mem_record
           /\ Len(mem_record) >= MAX_MEM_RECORDS
           /\ \A p \in SpanOf(mem_record) : p + 1 # b.mem_addr /\ p # EndOf(b)
  <2>1. FreeAddr' = FreeAddr /\ FreeAddr = SpanOf(mem_record)
    BY <1>4, FreeAddrIsSpan
  <2>2. Cardinality(Promise!Starts) >= MAX_MEM_RECORDS
    BY <1>4, PiecesAreRecords
  <2>5. Promise!Cardinality(Promise!Starts) = Cardinality(Promise!Starts)
    BY Zenon DEF Promise!Cardinality, Cardinality
  <2>3. \A p \in FreeAddr : p + 1 # b.mem_addr /\ p # b.mem_addr + b.mem_size
    BY <1>4, <2>1 DEF EndOf
  <2>4. UNCHANGED <<FreeAddr, running>>
    BY <1>1, <2>1
  <2> QED
    BY <1>1, <2>2, <2>3, <2>4, <2>5, Zenon DEF Promise!Drop
<1> QED
  BY <1>1, <1>3, <1>4, FreeEffect

(* Ri_malloc and Ri_free implement the heap: the lowest fit, a panic only  *)
(* when nothing fits, and memory lost only at a full table.                *)
THEOREM PromiseKept == Spec => PromiseSpec
<1>1. Init => Promise!Init
  BY PromiseInit
<1>2. Inv /\ [Next]_vars => [Promise!Next]_(Promise!vars)
  <2> SUFFICES ASSUME Inv, [Next]_vars
               PROVE  [Promise!Next]_(Promise!vars)
    OBVIOUS
  <2>1. CASE UNCHANGED vars
    BY <2>1 DEF vars, Promise!vars, FreeAddr
  <2>2. ASSUME NEW n \in Sizes, Ri_malloc(n)
        PROVE  Promise!Next
    BY <2>2, PromiseMalloc DEF Promise!Next
  <2>3. ASSUME NEW b \in lent, Ri_free(b)
        PROVE  Promise!Next
    BY <2>3, PromiseFree DEF Promise!Next
  <2> QED
    BY <2>1, <2>2, <2>3 DEF Next
<1> QED
  BY <1>1, <1>2, MemoryInvariance, PTL DEF Spec, PromiseSpec, Promise!Spec
=============================================================================
