---------------------------- MODULE FileMapProofs ----------------------------
(***************************************************************************)
(* Theorems about the blocks of files, for any number of blocks, inodes,   *)
(* direct zones and numbers in an index block.                             *)
(***************************************************************************)
EXTENDS FileMap, FiniteSetTheorems, SequenceTheorems, TLAPS

(***************************************************************************)
(* The inductive invariant.  Where a command stands in its file, and, as   *)
(* long as nothing irreparable has happened: every number on a way to a    *)
(* sector is 0 or a block, a zone beyond the length is 0, no block has two *)
(* places, a listed block is free, and what rm has freed is listed.        *)
(***************************************************************************)
InRm == call.step \in {"rm", "free", "singles", "tail", "clear"}

CallOK ==
  /\ call.step = "write" => call.i <= i_size[call.ino]
  /\ call.step \in {"rm", "free", "singles"} => call.i < i_size[call.ino]
  /\ call.step = "free" => IsSecondHalf(call.i)
  /\ call.step \in {"tail", "clear"} => call.i = i_size[call.ino]
  /\ InRm => call.ino \notin complete

RmWithinSingles ==
  /\ InRm => call.i <= SingleEnd
  /\ call.step \in {"rm", "free"} => call.i < SingleEnd

NumbersOK == \A f \in Ino : \A q \in Slots(f) : NrAt(f, q) \in {0} \union Block

ZonesOK ==
  \A f \in Ino : \A z \in 0 .. (Direct + 1) : i_zone[f][z] # 0 => <<z>> \in Slots(f)

Distinct ==
  \A f, g \in Ino : \A q \in Slots(f), r \in Slots(g) :
    (<<f, q>> # <<g, r>> /\ NrAt(f, q) # 0) => NrAt(f, q) # NrAt(g, r)

ListedFree ==
  \A b \in Block :
    /\ listed[b] <= 1
    /\ (listed[b] = 1 /\ b \notin Released) => \A f \in Ino : b \notin Held(f)

ReleasedListed == \A b \in Released \cap Block : listed[b] = 1

HandsOK == /\ NumbersOK /\ ZonesOK /\ Distinct /\ ListedFree /\ ReleasedListed
           /\ RmWithinSingles

(* The first n sectors of file f are on disk as they were written.         *)
Written(f, n) ==
  \A i \in 0 .. (n - 1) :
    LET b == NrAt(f, Path(i))
    IN  b \in Block /\ disk[b] = WithSector(disk[b], i % 2, TextWord(f, i))

WrittenOK ==
  /\ \A f \in complete : Written(f, i_size[f])
  /\ call.step = "write" => Written(call.ino, call.i)

Safe == HandsOK /\ NamesInUse /\ WrittenOK /\ NothingLost

IInv == TypeOK /\ CallOK /\ (Sound => Safe)

-----------------------------------------------------------------------------
(* Sectors, and the ways to them.                                          *)

LEMMA Ends ==
  /\ Direct \in Nat /\ Direct >= 1 /\ Fanout \in Nat /\ Fanout >= 2
  /\ DirectEnd \in Nat /\ SingleEnd \in Nat /\ DoubleEnd \in Nat
  /\ DirectEnd = 2 * Direct
  /\ SingleEnd = 2 * Direct + 2 * Fanout
  /\ DoubleEnd = 2 * Direct + 2 * Fanout + 2 * (Fanout * Fanout)
  /\ 2 <= DirectEnd /\ DirectEnd <= SingleEnd /\ SingleEnd <= DoubleEnd
<1>1. Direct \in Nat /\ Direct >= 1 /\ Fanout \in Nat /\ Fanout >= 2
  BY FileMapAssumption
<1>2. Fanout * Fanout \in Nat
  BY <1>1
<1>3. Fanout * Fanout * 2 = 2 * (Fanout * Fanout)
  BY <1>2
<1> QED
  BY <1>1, <1>2, <1>3 DEF DirectEnd, SingleEnd, DoubleEnd, SECTOR_PER_BLOCK

LEMMA BlockOfSector ==
  ASSUME NEW i \in Nat
  PROVE  /\ get_zone_blks(i + 1) - 1 = i \div 2
         /\ i \div 2 \in Nat
         /\ i = 2 * (i \div 2) + (i % 2)
         /\ i % 2 \in {0, 1}
<1>1. /\ i \div 2 \in Nat /\ i % 2 \in {0, 1}
      /\ i = 2 * (i \div 2) + (i % 2)
  OBVIOUS
<1>2. CASE i % 2 = 0
  <2>1. (i + 1) \div 2 = i \div 2 /\ i + 1 # ((i + 1) \div 2) * 2
    BY <1>1, <1>2
  <2> QED
    BY <1>1, <1>2, <2>1 DEF get_zone_blks, SECTOR_PER_BLOCK
<1>3. CASE i % 2 = 1
  <2>1. (i + 1) \div 2 = (i \div 2) + 1 /\ i + 1 = ((i + 1) \div 2) * 2
    BY <1>1, <1>3
  <2> QED
    BY <1>1, <1>3, <2>1 DEF get_zone_blks, SECTOR_PER_BLOCK
<1> QED
  BY <1>1, <1>2, <1>3

LEMMA Divided ==
  ASSUME NEW n \in Nat, NEW d \in Nat, d >= 1
  PROVE  /\ n \div d \in Nat /\ n % d \in 0 .. (d - 1)
         /\ n = d * (n \div d) + (n % d)
         /\ n < d * d => n \div d < d
<1>1. /\ n \div d \in Nat /\ n % d \in 0 .. (d - 1)
      /\ n = d * (n \div d) + (n % d)
  OBVIOUS
<1>2. ASSUME n < d * d, n \div d >= d PROVE FALSE
  <2> DEFINE k == n \div d
  <2>1. k \in Nat /\ k >= d /\ d * k <= n
    BY <1>1, <1>2
  <2> HIDE DEF k
  <2>2. d * k >= d * d
    BY <2>1
  <2> QED
    BY <1>2, <2>1, <2>2
<1> QED
  BY <1>1, <1>2

(* The blocks of a file are those of its zones, of the entries of zone     *)
(* Direct, and of the entries of the entries of zone Direct + 1.           *)
LEMMA PathShape ==
  ASSUME NEW i \in 0 .. (DoubleEnd - 1)
  PROVE  LET k == i \div 2
             behind == k - Direct - Fanout
         IN  /\ i < DirectEnd => /\ Path(i) = <<k>>
                                 /\ k \in 0 .. (Direct - 1)
             /\ (DirectEnd <= i /\ i < SingleEnd) =>
                  /\ Path(i) = <<Direct, k - Direct>>
                  /\ k - Direct \in Entry
             /\ SingleEnd <= i =>
                  /\ Path(i) = <<Direct + 1, behind \div Fanout, behind % Fanout>>
                  /\ behind \div Fanout \in Entry /\ behind % Fanout \in Entry
                  /\ behind = Fanout * (behind \div Fanout) + (behind % Fanout)
<1> DEFINE k == i \div 2
           behind == k - Direct - Fanout
<1>1. i \in Nat /\ i < DoubleEnd
  BY Ends
<1>2. /\ get_zone_blks(i + 1) - 1 = k
      /\ k \in Nat /\ i = 2 * k + (i % 2) /\ i % 2 \in {0, 1}
  BY <1>1, BlockOfSector
<1>3. Path(i) = IF i < DirectEnd THEN <<k>>
                ELSE IF i < SingleEnd THEN <<Direct, k - Direct>>
                ELSE <<Direct + 1, behind \div Fanout, behind % Fanout>>
  BY <1>2, Zenon DEF Path
<1> HIDE DEF k
<1>4. CASE i < DirectEnd
  <2>1. k \in 0 .. (Direct - 1)
    BY <1>2, <1>4, Ends
  <2> QED
    BY <1>1, <1>3, <1>4, <2>1, Ends DEF k
<1>5. CASE DirectEnd <= i /\ i < SingleEnd
  <2>1. k - Direct \in 0 .. (Fanout - 1)
    BY <1>2, <1>5, Ends
  <2> QED
    BY <1>1, <1>3, <1>5, <2>1, Ends DEF k, Entry
<1>6. CASE SingleEnd <= i
  <2>1. Fanout * Fanout \in Nat
    BY Ends
  <2>2. behind \in Nat /\ behind < Fanout * Fanout
    BY <1>1, <1>2, <1>6, <2>1, Ends
  <2>3. /\ behind \div Fanout \in Nat /\ behind % Fanout \in 0 .. (Fanout - 1)
        /\ behind = Fanout * (behind \div Fanout) + (behind % Fanout)
        /\ behind \div Fanout < Fanout
    <3> HIDE DEF behind
    <3> QED
      BY <2>2, Divided, Ends
  <2>4. behind \div Fanout \in Entry /\ behind % Fanout \in Entry
    <3> HIDE DEF behind
    <3> QED
      BY <2>3, Ends DEF Entry
  <2>5. ~(i < DirectEnd) /\ ~(i < SingleEnd)
    BY <1>1, <1>6, Ends
  <2> QED
    BY <1>1, <1>3, <2>3, <2>4, <2>5, Zenon DEF k
<1> QED
  BY <1>1, <1>4, <1>5, <1>6, Ends

LEMMA PathInjective ==
  ASSUME NEW i \in 0 .. (DoubleEnd - 1), NEW j \in 0 .. (DoubleEnd - 1),
         Path(i) = Path(j)
  PROVE  i \div 2 = j \div 2
<1> DEFINE k == i \div 2
           l == j \div 2
           kb == k - Direct - Fanout
           lb == l - Direct - Fanout
<1>1. i \in Nat /\ j \in Nat /\ k \in Nat /\ l \in Nat
  BY Ends, BlockOfSector
<1>2. ASSUME i < DirectEnd PROVE k = l
  <2>1. Path(i) = <<k>>
    BY <1>2, PathShape
  <2>2. j < DirectEnd
    <3>1. Len(Path(j)) = 1
      BY <2>1
    <3>2. CASE DirectEnd <= j /\ j < SingleEnd
      BY <3>1, <3>2, PathShape
    <3>3. CASE SingleEnd <= j
      BY <3>1, <3>3, PathShape
    <3> QED
      BY <1>1, <3>2, <3>3, Ends
  <2>3. Path(j) = <<l>>
    BY <2>2, PathShape
  <2> HIDE DEF k, l
  <2>4. <<k>> = <<l>>
    BY <2>1, <2>3, Zenon
  <2> QED
    BY <2>4
<1>3. ASSUME DirectEnd <= i, i < SingleEnd PROVE k = l
  <2>1. Path(i) = <<Direct, k - Direct>>
    BY <1>3, PathShape
  <2>2. DirectEnd <= j /\ j < SingleEnd
    <3>1. Len(Path(j)) = 2
      BY <2>1
    <3>2. CASE j < DirectEnd
      BY <3>1, <3>2, PathShape
    <3>3. CASE SingleEnd <= j
      BY <3>1, <3>3, PathShape
    <3> QED
      BY <1>1, <3>2, <3>3, Ends
  <2>3. Path(j) = <<Direct, l - Direct>>
    BY <2>2, PathShape
  <2>4. <<Direct, k - Direct>> = <<Direct, l - Direct>>
    BY <2>1, <2>3, Zenon
  <2> HIDE DEF k, l
  <2>5. k = l
    BY <1>1, <2>4, Ends
  <2> QED
    BY <2>5
<1>4. ASSUME SingleEnd <= i PROVE k = l
  <2>1. /\ Path(i) = <<Direct + 1, kb \div Fanout, kb % Fanout>>
        /\ kb = Fanout * (kb \div Fanout) + (kb % Fanout)
    BY <1>4, PathShape
  <2>2. SingleEnd <= j
    <3>1. Len(Path(j)) = 3
      BY <2>1
    <3>2. CASE j < DirectEnd
      BY <3>1, <3>2, PathShape
    <3>3. CASE DirectEnd <= j /\ j < SingleEnd
      BY <3>1, <3>3, PathShape
    <3> QED
      BY <1>1, <3>2, <3>3, Ends
  <2>3. /\ Path(j) = <<Direct + 1, lb \div Fanout, lb % Fanout>>
        /\ lb = Fanout * (lb \div Fanout) + (lb % Fanout)
    BY <2>2, PathShape
  <2> HIDE DEF kb, lb
  <2>4. <<Direct + 1, kb \div Fanout, kb % Fanout>>
          = <<Direct + 1, lb \div Fanout, lb % Fanout>>
    BY <2>1, <2>3, Zenon
  <2> HIDE DEF k, l
  <2>5. k = l
    BY <1>1, <2>1, <2>3, <2>4, Ends DEF kb, lb
  <2> QED
    BY <2>5
<1> HIDE DEF k, l
<1>5. k = l
  BY <1>1, <1>2, <1>3, <1>4, Ends
<1> QED
  BY <1>5 DEF k, l

LEMMA TupleOfElements ==
  ASSUME NEW S, NEW s \in Seq(S)
  PROVE  /\ Len(s) = 1 => s = <<s[1]>>
         /\ Len(s) = 2 => s = <<s[1], s[2]>>
         /\ Len(s) = 3 => s = <<s[1], s[2], s[3]>>
<1>1. Len(s) = 1 => s = <<s[1]>>
  OBVIOUS
<1>2. Len(s) = 2 => s = <<s[1], s[2]>>
  OBVIOUS
<1>3. Len(s) = 3 => s = <<s[1], s[2], s[3]>>
  OBVIOUS
<1> QED
  BY <1>1, <1>2, <1>3

LEMMA Prefixes ==
  ASSUME NEW a, NEW b, NEW c
  PROVE  /\ SubSeq(<<a>>, 1, 1) = <<a>>
         /\ SubSeq(<<a, b>>, 1, 1) = <<a>>
         /\ SubSeq(<<a, b>>, 1, 2) = <<a, b>>
         /\ SubSeq(<<a, b, c>>, 1, 1) = <<a>>
         /\ SubSeq(<<a, b, c>>, 1, 2) = <<a, b>>
         /\ SubSeq(<<a, b, c>>, 1, 3) = <<a, b, c>>
<1> DEFINE S == {a, b, c}
<1>1. <<a>> \in Seq(S) /\ <<a, b>> \in Seq(S) /\ <<a, b, c>> \in Seq(S)
  OBVIOUS
<1>2. \A s \in Seq(S) : \A n \in 1 .. Len(s) :
        /\ SubSeq(s, 1, n) \in Seq(S)
        /\ Len(SubSeq(s, 1, n)) = n
        /\ \A i \in 1 .. n : SubSeq(s, 1, n)[i] = s[i]
  <2> HIDE DEF S
  <2> TAKE s \in Seq(S)
  <2> TAKE n \in 1 .. Len(s)
  <2>1. \A i \in 1 .. n : s[i] \in S
    OBVIOUS
  <2> QED
    BY <2>1, SubSeqProperties
<1> HIDE DEF S
<1>3. SubSeq(<<a>>, 1, 1) = <<a>>
  <2> DEFINE front == SubSeq(<<a>>, 1, 1)
  <2>1. front \in Seq(S) /\ Len(front) = 1
    BY <1>1, <1>2
  <2>2. front[1] = a
    BY <1>1, <1>2
  <2>3. front = <<front[1]>>
    <3> HIDE DEF front
    <3> QED
      BY <2>1, TupleOfElements
  <2> QED
    BY <2>2, <2>3, Zenon
<1>4. SubSeq(<<a, b>>, 1, 1) = <<a>>
  <2> DEFINE front == SubSeq(<<a, b>>, 1, 1)
  <2>1. front \in Seq(S) /\ Len(front) = 1
    BY <1>1, <1>2
  <2>2. front[1] = a
    BY <1>1, <1>2
  <2>3. front = <<front[1]>>
    <3> HIDE DEF front
    <3> QED
      BY <2>1, TupleOfElements
  <2> QED
    BY <2>2, <2>3, Zenon
<1>5. SubSeq(<<a, b>>, 1, 2) = <<a, b>>
  <2> DEFINE front == SubSeq(<<a, b>>, 1, 2)
  <2>1. front \in Seq(S) /\ Len(front) = 2
    BY <1>1, <1>2
  <2>2. front[1] = a /\ front[2] = b
    BY <1>1, <1>2
  <2>3. front = <<front[1], front[2]>>
    <3> HIDE DEF front
    <3> QED
      BY <2>1, TupleOfElements
  <2> QED
    BY <2>2, <2>3, Zenon
<1>6. SubSeq(<<a, b, c>>, 1, 1) = <<a>>
  <2> DEFINE front == SubSeq(<<a, b, c>>, 1, 1)
  <2>1. front \in Seq(S) /\ Len(front) = 1
    BY <1>1, <1>2
  <2>2. front[1] = a
    BY <1>1, <1>2
  <2>3. front = <<front[1]>>
    <3> HIDE DEF front
    <3> QED
      BY <2>1, TupleOfElements
  <2> QED
    BY <2>2, <2>3, Zenon
<1>7. SubSeq(<<a, b, c>>, 1, 2) = <<a, b>>
  <2> DEFINE front == SubSeq(<<a, b, c>>, 1, 2)
  <2>1. front \in Seq(S) /\ Len(front) = 2
    BY <1>1, <1>2
  <2>2. front[1] = a /\ front[2] = b
    BY <1>1, <1>2
  <2>3. front = <<front[1], front[2]>>
    <3> HIDE DEF front
    <3> QED
      BY <2>1, TupleOfElements
  <2> QED
    BY <2>2, <2>3, Zenon
<1>8. SubSeq(<<a, b, c>>, 1, 3) = <<a, b, c>>
  <2> DEFINE front == SubSeq(<<a, b, c>>, 1, 3)
  <2>1. front \in Seq(S) /\ Len(front) = 3
    BY <1>1, <1>2
  <2>2. front[1] = a /\ front[2] = b /\ front[3] = c
    BY <1>1, <1>2
  <2>3. front = <<front[1], front[2], front[3]>>
    <3> HIDE DEF front
    <3> QED
      BY <2>1, TupleOfElements
  <2> QED
    BY <2>2, <2>3, Zenon
<1> QED
  BY <1>3, <1>4, <1>5, <1>6, <1>7, <1>8

(* The parts of the way to a sector.                                       *)
LEMMA PartsShape ==
  ASSUME NEW i \in 0 .. (DoubleEnd - 1)
  PROVE  \/ \E z \in 0 .. (Direct - 1) :
              Path(i) = <<z>> /\ Parts(i) = {<<z>>} /\ i < DirectEnd
         \/ \E k \in Entry :
              /\ Path(i) = <<Direct, k>>
              /\ Parts(i) = {<<Direct>>, <<Direct, k>>}
              /\ DirectEnd <= i /\ i < SingleEnd
         \/ \E k \in Entry, m \in Entry :
              /\ Path(i) = <<Direct + 1, k, m>>
              /\ Parts(i) = {<<Direct + 1>>, <<Direct + 1, k>>, <<Direct + 1, k, m>>}
              /\ SingleEnd <= i
<1>1. CASE i < DirectEnd
  <2>1. PICK z \in 0 .. (Direct - 1) : Path(i) = <<z>>
    BY <1>1, PathShape
  <2>2. Parts(i) = {SubSeq(<<z>>, 1, n) : n \in 1 .. Len(<<z>>)}
    BY <2>1, Zenon DEF Parts
  <2>3. 1 .. Len(<<z>>) = {1}
    OBVIOUS
  <2>4. Parts(i) = {SubSeq(<<z>>, 1, 1)}
    BY <2>2, <2>3, Zenon
  <2> QED
    BY <1>1, <2>1, <2>4, Prefixes, Zenon
<1>2. CASE DirectEnd <= i /\ i < SingleEnd
  <2>1. PICK k \in Entry : Path(i) = <<Direct, k>>
    BY <1>2, PathShape
  <2>2. Parts(i) = {SubSeq(<<Direct, k>>, 1, n) : n \in 1 .. Len(<<Direct, k>>)}
    BY <2>1, Zenon DEF Parts
  <2>3. 1 .. Len(<<Direct, k>>) = {1, 2}
    OBVIOUS
  <2>4. Parts(i) = {SubSeq(<<Direct, k>>, 1, 1), SubSeq(<<Direct, k>>, 1, 2)}
    BY <2>2, <2>3, Zenon
  <2> QED
    BY <1>2, <2>1, <2>4, Prefixes, Zenon
<1>3. CASE SingleEnd <= i
  <2>1. PICK k \in Entry, m \in Entry : Path(i) = <<Direct + 1, k, m>>
    BY <1>3, PathShape
  <2> DEFINE p == <<Direct + 1, k, m>>
  <2>2. Parts(i) = {SubSeq(p, 1, n) : n \in 1 .. Len(p)}
    BY <2>1, Zenon DEF Parts
  <2>3. 1 .. Len(p) = {1, 2, 3}
    OBVIOUS
  <2>4. Parts(i) = {SubSeq(p, 1, 1), SubSeq(p, 1, 2), SubSeq(p, 1, 3)}
    BY <2>2, <2>3, Zenon
  <2>5. Parts(i) = {<<Direct + 1>>, <<Direct + 1, k>>, <<Direct + 1, k, m>>}
    BY <2>4, Prefixes, Zenon
  <2> QED
    BY <1>3, <2>1, <2>5, Zenon
<1> QED
  BY <1>1, <1>2, <1>3, Ends

-----------------------------------------------------------------------------
(* The places of a file of n sectors, and the numbers in them, of any      *)
(* zones and blocks.                                                       *)

Places(n) == UNION {Parts(i) : i \in 0 .. (n - 1)}
WordIn(blocks, b, k) == IF b \in Block THEN blocks[b][k] ELSE 0
NrIn(zones, blocks, q) ==
  LET z == zones[q[1]]
  IN  IF Len(q) = 1 THEN z
      ELSE IF Len(q) = 2 THEN WordIn(blocks, z, q[2])
      ELSE WordIn(blocks, WordIn(blocks, z, q[2]), q[3])

Zone == 0 .. (Direct + 1)

(* The places of index blocks. *)
Inner == {<<Direct>>, <<Direct + 1>>} \union {<<Direct + 1, k>> : k \in Entry}

LEMMA PlacesOfFile ==
  ASSUME NEW f
  PROVE  /\ Slots(f) = Places(i_size[f])
         /\ \A q : NrAt(f, q) = NrIn(i_zone[f], disk, q)
BY Zenon DEF Slots, Places, NrAt, NrIn, WordOf, WordIn

LEMMA DifferentPlaces ==
  ASSUME NEW z, NEW k, NEW m, NEW y, NEW l, NEW o
  PROVE  /\ <<z>> # <<y, l>> /\ <<z>> # <<y, l, o>> /\ <<z, k>> # <<y, l, o>>
         /\ <<z>> = <<y>> => z = y
         /\ <<z, k>> = <<y, l>> => z = y /\ k = l
         /\ <<z, k, m>> = <<y, l, o>> => z = y /\ k = l /\ m = o
OBVIOUS

(* Each place is one of five kinds, and comes with those in front of it.   *)
LEMMA PlaceKinds ==
  ASSUME NEW n \in 0 .. DoubleEnd, NEW q \in Places(n)
  PROVE  \/ \E z \in 0 .. (Direct - 1) : q = <<z>>
         \/ q = <<Direct>>
         \/ q = <<Direct + 1>>
         \/ \E k \in Entry : q = <<Direct, k>> /\ <<Direct>> \in Places(n)
         \/ \E k \in Entry : q = <<Direct + 1, k>> /\ <<Direct + 1>> \in Places(n)
         \/ \E k \in Entry, m \in Entry :
              /\ q = <<Direct + 1, k, m>>
              /\ <<Direct + 1>> \in Places(n) /\ <<Direct + 1, k>> \in Places(n)
<1>1. PICK i \in 0 .. (n - 1) : q \in Parts(i)
  BY DEF Places
<1>2. i \in 0 .. (DoubleEnd - 1)
  BY Ends
<1>3. Parts(i) \subseteq Places(n)
  BY DEF Places
<1>4. \/ \E z \in 0 .. (Direct - 1) : Parts(i) = {<<z>>}
      \/ \E k \in Entry : Parts(i) = {<<Direct>>, <<Direct, k>>}
      \/ \E k \in Entry, m \in Entry :
           Parts(i) = {<<Direct + 1>>, <<Direct + 1, k>>, <<Direct + 1, k, m>>}
  BY <1>2, PartsShape, Zenon
<1> QED
  BY <1>1, <1>3, <1>4, Zenon

LEMMA PlaceForms ==
  ASSUME NEW n \in 0 .. DoubleEnd, NEW q \in Places(n)
  PROVE  \/ \E z : q = <<z>>
         \/ \E z : \E k \in Entry : q = <<z, k>> /\ <<z>> \in Places(n)
         \/ \E k \in Entry, m \in Entry :
              /\ q = <<Direct + 1, k, m>>
              /\ <<Direct + 1>> \in Places(n) /\ <<Direct + 1, k>> \in Places(n)
<1>1. CASE \E z \in 0 .. (Direct - 1) : q = <<z>>
  BY <1>1, Zenon
<1>2. CASE q = <<Direct>> \/ q = <<Direct + 1>>
  BY <1>2, Zenon
<1>3. CASE \E k \in Entry : q = <<Direct, k>> /\ <<Direct>> \in Places(n)
  BY <1>3, Zenon
<1>4. CASE \E k \in Entry : q = <<Direct + 1, k>> /\ <<Direct + 1>> \in Places(n)
  BY <1>4, Zenon
<1>5. CASE \E k \in Entry, m \in Entry :
             /\ q = <<Direct + 1, k, m>>
             /\ <<Direct + 1>> \in Places(n) /\ <<Direct + 1, k>> \in Places(n)
  BY <1>5, Zenon
<1> QED
  BY <1>1, <1>2, <1>3, <1>4, <1>5, PlaceKinds, Zenon

LEMMA PathPlace ==
  ASSUME NEW n \in 0 .. DoubleEnd, NEW i \in 0 .. (n - 1)
  PROVE  /\ Path(i) \in Places(n) /\ Path(i) \notin Inner
         /\ Parts(i) \subseteq Places(n)
<1>1. i \in 0 .. (DoubleEnd - 1)
  BY Ends
<1>2. Parts(i) \subseteq Places(n)
  BY DEF Places
<1>3. Path(i) \in Parts(i)
  BY <1>1, PartsShape, Zenon
<1>4. \/ \E z \in 0 .. (Direct - 1) : Path(i) = <<z>>
      \/ \E k \in Entry : Path(i) = <<Direct, k>>
      \/ \E k \in Entry, m \in Entry : Path(i) = <<Direct + 1, k, m>>
  BY <1>1, PartsShape, Zenon
<1>5. ASSUME NEW z \in 0 .. (Direct - 1) PROVE <<z>> \notin Inner
  <2>1. z # Direct /\ z # Direct + 1
    BY Ends
  <2>2. \A q \in Inner : \/ q = <<Direct>> \/ q = <<Direct + 1>>
                         \/ \E k \in Entry : q = <<Direct + 1, k>>
    BY Zenon DEF Inner
  <2> QED
    BY <2>1, <2>2, DifferentPlaces, Zenon
<1>6. ASSUME NEW k \in Entry PROVE <<Direct, k>> \notin Inner
  <2>1. Direct # Direct + 1
    BY Ends
  <2>2. \A q \in Inner : \/ q = <<Direct>> \/ q = <<Direct + 1>>
                         \/ \E l \in Entry : q = <<Direct + 1, l>>
    BY Zenon DEF Inner
  <2> QED
    BY <2>1, <2>2, DifferentPlaces, Zenon
<1>7. ASSUME NEW k \in Entry, NEW m \in Entry PROVE <<Direct + 1, k, m>> \notin Inner
  <2>1. \A q \in Inner : \/ q = <<Direct>> \/ q = <<Direct + 1>>
                         \/ \E l \in Entry : q = <<Direct + 1, l>>
    BY Zenon DEF Inner
  <2> QED
    BY <2>1, DifferentPlaces, Zenon
<1> QED
  BY <1>2, <1>3, <1>4, <1>5, <1>6, <1>7, Zenon

(* The numbers of a file depend on its zones and on its index blocks.      *)
LEMMA NumbersFrame ==
  ASSUME NEW n \in 0 .. DoubleEnd, NEW zones, NEW blocks, NEW blocks2,
         \A q \in Places(n) \cap Inner :
           NrIn(zones, blocks, q) \in Block =>
             blocks2[NrIn(zones, blocks, q)] = blocks[NrIn(zones, blocks, q)]
  PROVE  \A q \in Places(n) : NrIn(zones, blocks2, q) = NrIn(zones, blocks, q)
<1> DEFINE Nr(q) == NrIn(zones, blocks, q)
           Nr2(q) == NrIn(zones, blocks2, q)
<1>1. \A b \in Block : \A k :
        blocks2[b] = blocks[b] => WordIn(blocks2, b, k) = WordIn(blocks, b, k)
  BY Zenon DEF WordIn
<1>2. \A b, k : b \notin Block => WordIn(blocks2, b, k) = WordIn(blocks, b, k)
  BY Zenon DEF WordIn
<1>3. ASSUME NEW q \in Places(n) \cap Inner, NEW k, Nr2(q) = Nr(q)
      PROVE  WordIn(blocks2, Nr2(q), k) = WordIn(blocks, Nr(q), k)
  BY <1>1, <1>2, <1>3, Zenon
<1>4. /\ \A z : Nr(<<z>>) = zones[z]
      /\ \A z, k : Nr(<<z, k>>) = WordIn(blocks, Nr(<<z>>), k)
      /\ \A z, k, m : Nr(<<z, k, m>>) = WordIn(blocks, Nr(<<z, k>>), m)
  BY DEF NrIn
<1>5. /\ \A z : Nr2(<<z>>) = zones[z]
      /\ \A z, k : Nr2(<<z, k>>) = WordIn(blocks2, Nr2(<<z>>), k)
      /\ \A z, k, m : Nr2(<<z, k, m>>) = WordIn(blocks2, Nr2(<<z, k>>), m)
  BY DEF NrIn
<1> HIDE DEF Nr, Nr2
<1>6. ASSUME NEW z PROVE Nr2(<<z>>) = Nr(<<z>>)
  BY <1>4, <1>5, Zenon
<1>7. ASSUME NEW z, NEW k, <<z>> \in Places(n) \cap Inner
      PROVE  Nr2(<<z, k>>) = Nr(<<z, k>>)
  <2>1. Nr2(<<z, k>>) = WordIn(blocks2, Nr2(<<z>>), k)
    BY <1>5, Zenon
  <2>2. Nr(<<z, k>>) = WordIn(blocks, Nr(<<z>>), k)
    BY <1>4, Zenon
  <2> QED
    BY <1>3, <1>6, <1>7, <2>1, <2>2, Zenon
<1>8. ASSUME NEW z, NEW k, NEW m, <<z>> \in Places(n) \cap Inner,
             <<z, k>> \in Places(n) \cap Inner
      PROVE  Nr2(<<z, k, m>>) = Nr(<<z, k, m>>)
  <2>1. Nr2(<<z, k, m>>) = WordIn(blocks2, Nr2(<<z, k>>), m)
    BY <1>5
  <2>2. Nr(<<z, k, m>>) = WordIn(blocks, Nr(<<z, k>>), m)
    BY <1>4
  <2> QED
    BY <1>3, <1>7, <1>8, <2>1, <2>2, Zenon
<1>9. <<Direct>> \in Inner /\ <<Direct + 1>> \in Inner
      /\ \A k \in Entry : <<Direct + 1, k>> \in Inner
  BY Zenon DEF Inner
<1>10. ASSUME NEW q \in Places(n) PROVE Nr2(q) = Nr(q)
  <2>1. CASE \E z : q = <<z>>
    BY <1>6, <2>1, Zenon
  <2>2. CASE \E k \in Entry : q = <<Direct, k>> /\ <<Direct>> \in Places(n)
    BY <1>7, <1>9, <2>2, Zenon
  <2>3. CASE \E k \in Entry : q = <<Direct + 1, k>> /\ <<Direct + 1>> \in Places(n)
    BY <1>7, <1>9, <2>3, Zenon
  <2>4. CASE \E k \in Entry, m \in Entry :
               /\ q = <<Direct + 1, k, m>>
               /\ <<Direct + 1>> \in Places(n) /\ <<Direct + 1, k>> \in Places(n)
    BY <1>8, <1>9, <2>4, Zenon
  <2> QED
    BY <2>1, <2>2, <2>3, <2>4, PlaceKinds, Zenon
<1> QED
  BY <1>10 DEF Nr, Nr2

-----------------------------------------------------------------------------
(* Types.                                                                  *)

LEMMA Words ==
  /\ Block \subseteq Word /\ 0 \in Word /\ 0 \notin Block
  /\ \A ino \in Ino : \A i \in 0 .. DoubleEnd : TextWord(ino, i) \in Word
<1>1. LastBlk \in Nat /\ Beyond \in Nat /\ DoubleEnd \in Nat
  BY FileMapAssumption, Ends DEF Beyond
<1>2. (Beyond + 1) * DoubleEnd \in Nat
  BY <1>1
<1>3. Block \subseteq Word /\ 0 \in Word /\ 0 \notin Block
  BY <1>1, <1>2 DEF Block, Word
<1>4. ASSUME NEW ino \in Ino, NEW i \in 0 .. DoubleEnd
      PROVE  TextWord(ino, i) \in Word
  <2>1. ino \in Nat /\ ino <= Beyond /\ i \in Nat /\ i <= DoubleEnd
    BY <1>1 DEF Ino
  <2>2. ino * DoubleEnd \in Nat /\ Beyond * DoubleEnd \in Nat
        /\ ino * DoubleEnd <= Beyond * DoubleEnd
    BY <1>1, <2>1
  <2>3. (Beyond + 1) * DoubleEnd = Beyond * DoubleEnd + DoubleEnd
    BY <1>1
  <2>4. ino * DoubleEnd + i \in Nat
        /\ ino * DoubleEnd + i <= (Beyond + 1) * DoubleEnd
    BY <1>1, <2>1, <2>2, <2>3
  <2> DEFINE k == ino * DoubleEnd
             end == (Beyond + 1) * DoubleEnd
  <2>5. TextWord(ino, i) = LastBlk + 1 + k + i /\ Word = 0 .. (LastBlk + 1 + end)
    BY Zenon DEF TextWord, Word
  <2>6. k \in Nat /\ end \in Nat /\ i \in Nat /\ k + i <= end
    BY <1>2, <2>1, <2>2, <2>4
  <2> HIDE DEF k, end
  <2> QED
    BY <1>1, <2>5, <2>6
<1> QED
  BY <1>3, <1>4

LEMMA BlockContents ==
  /\ ZeroBlock \in [Entry -> Word] /\ HeadBlock \in [Entry -> Word]
  /\ \A blocks \in [Block -> [Entry -> Word]], w \in Word : \A b, k :
       /\ PutSectorIn(blocks, b, k, w) \in [Block -> [Entry -> Word]]
       /\ [blocks EXCEPT ![b][k] = w] \in [Block -> [Entry -> Word]]
<1>1. HeadWord \in Word /\ 0 \in Entry
  BY Words, FileMapAssumption, Ends DEF Entry
<1>2. ZeroBlock \in [Entry -> Word] /\ HeadBlock \in [Entry -> Word]
  BY <1>1, Words DEF ZeroBlock, HeadBlock
<1>3. ASSUME NEW blocks \in [Block -> [Entry -> Word]], NEW b, NEW k, NEW w \in Word
      PROVE  PutSectorIn(blocks, b, k, w) \in [Block -> [Entry -> Word]]
  <2>1. b \in Block => WithSector(blocks[b], k, w) \in [Entry -> Word]
    BY <1>3 DEF WithSector
  <2> QED
    BY <1>3, <2>1 DEF PutSectorIn
<1>4. ASSUME NEW blocks \in [Block -> [Entry -> Word]], NEW b, NEW k, NEW w \in Word
      PROVE  [blocks EXCEPT ![b][k] = w] \in [Block -> [Entry -> Word]]
  OBVIOUS
<1> QED
  BY <1>2, <1>3, <1>4

LEMMA NewBlock ==
  ASSUME TypeOK, NEW b, NEW blocks, new_block(b, blocks)
  PROVE  /\ b \in Block /\ listed[b] \in Nat /\ listed[b] > 0
         /\ blocks \in [Block -> [Entry -> Word]]
         /\ \A d \in Block : d # b => blocks[d] = disk[d]
         /\ blocks[b] \in {disk[b], HeadBlock}
         /\ listed' \in [Block -> Nat]
         /\ listed'[b] = listed[b] - 1
         /\ \A d \in Block : d # b => listed'[d] = listed[d]
<1> DEFINE L == {d \in Block : listed[d] > 0}
<1>1. L \in SUBSET Block
  OBVIOUS
<1>2. b \in HandsOut(L)
  BY DEF new_block, Candidates
<1>3. b \in L
  BY <1>1, <1>2, FileMapAssumption, Zenon
<1>4. blocks \in {disk, [disk EXCEPT ![b] = HeadBlock]}
  BY Zenon DEF new_block, Contents
<1>5. disk \in [Block -> [Entry -> Word]] /\ listed \in [Block -> Nat]
  BY DEF TypeOK
<1>6. listed' = [listed EXCEPT ![b] = listed[b] - 1]
  BY DEF new_block
<1>7. /\ blocks \in [Block -> [Entry -> Word]]
      /\ \A d \in Block : d # b => blocks[d] = disk[d]
      /\ blocks[b] \in {disk[b], HeadBlock}
  BY <1>3, <1>4, <1>5, BlockContents
<1>8. b \in Block /\ listed[b] \in Nat /\ listed[b] > 0
  BY <1>3, <1>5
<1>9. /\ listed' \in [Block -> Nat]
      /\ listed'[b] = listed[b] - 1
      /\ \A d \in Block : d # b => listed'[d] = listed[d]
  BY <1>5, <1>6, <1>8
<1> QED
  BY <1>7, <1>8, <1>9

LEMMA FreedBlocks ==
  ASSUME TypeOK, NEW n \in Nat, NEW nrs, DOMAIN nrs = 1 .. n
  PROVE  FreeBlocks(nrs) \in [Block -> Nat]
<1>1. ASSUME NEW b \in Block
      PROVE  listed[b] + Cardinality({k \in DOMAIN nrs : nrs[k] = b}) \in Nat
  <2>1. IsFiniteSet(DOMAIN nrs)
    BY FS_Interval
  <2>2. IsFiniteSet({k \in DOMAIN nrs : nrs[k] = b})
    BY <2>1, FS_Subset
  <2>3. Cardinality({k \in DOMAIN nrs : nrs[k] = b}) \in Nat
    BY <2>2, FS_CardinalityType
  <2>4. listed[b] \in Nat
    BY DEF TypeOK
  <2> QED
    BY <2>3, <2>4
<1> QED
  BY <1>1, Zenon DEF FreeBlocks

Typed == TypeOK /\ CallOK

LEMMA Calls ==
  ASSUME TypeOK
  PROVE  /\ call.step \in Steps /\ call.ino \in Ino /\ call.i \in 0 .. DoubleEnd
         /\ call.i \in Nat /\ i_size[call.ino] \in 0 .. DoubleEnd
         /\ \A step \in Steps :
              /\ [call EXCEPT !.step = step] \in [step : Steps, ino : Ino, i : 0 .. DoubleEnd]
              /\ [call EXCEPT !.step = step].step = step
              /\ [call EXCEPT !.step = step].ino = call.ino
              /\ [call EXCEPT !.step = step].i = call.i
<1>1. call \in [step : Steps, ino : Ino, i : 0 .. DoubleEnd] /\ i_size \in [Ino -> 0 .. DoubleEnd]
  BY DEF TypeOK
<1>2. /\ call.step \in Steps /\ call.ino \in Ino /\ call.i \in 0 .. DoubleEnd
      /\ i_size[call.ino] \in 0 .. DoubleEnd
  BY <1>1
<1>3. call.i \in Nat
  BY <1>2, Ends
<1>4. ASSUME NEW step \in Steps
      PROVE  /\ [call EXCEPT !.step = step] \in [step : Steps, ino : Ino, i : 0 .. DoubleEnd]
             /\ [call EXCEPT !.step = step].step = step
             /\ [call EXCEPT !.step = step].ino = call.ino
             /\ [call EXCEPT !.step = step].i = call.i
  BY <1>1
<1> QED
  BY <1>2, <1>3, <1>4

LEMMA InitTyped == Init => Typed
<1> SUFFICES ASSUME Init PROVE Typed
  OBVIOUS
<1>1. disk \in [Block -> [Entry -> Word]]
  BY BlockContents DEF Init
<1>2. listed \in [Block -> Nat] /\ inode_map \subseteq Ino \ {Beyond} /\ named \subseteq Ino
      /\ running \in BOOLEAN /\ complete \subseteq Ino /\ harm \subseteq Harms
  BY DEF Init
<1>3. i_size \in [Ino -> 0 .. DoubleEnd]
  BY Ends DEF Init
<1>4. i_zone \in [Ino -> [0 .. (Direct + 1) -> Word]]
  BY Words DEF Init
<1>5. call = [step |-> "none", ino |-> 1, i |-> 0] /\ 1 \in Ino
  BY FileMapAssumption DEF Init, Ino, Beyond
<1>6. call \in [step : Steps, ino : Ino, i : 0 .. DoubleEnd] /\ call.step = "none"
  BY <1>5, Ends DEF Steps
<1> QED
  BY <1>1, <1>2, <1>3, <1>4, <1>6 DEF Typed, TypeOK, CallOK, InRm

LEMMA MakesTyped ==
  ASSUME TypeOK, NEW ino \in Ino, MakesInode(ino)
  PROVE  /\ disk' \in [Block -> [Entry -> Word]] /\ listed' \in [Block -> Nat]
         /\ i_size' \in [Ino -> 0 .. DoubleEnd]
         /\ i_zone' \in [Ino -> [0 .. (Direct + 1) -> Word]]
         /\ inode_map' \subseteq Ino \ {Beyond} /\ complete' \subseteq Ino
<1>1. PICK b \in Candidates : \E blocks \in Contents(b) :
        /\ new_block(b, blocks)
        /\ disk' = Recorded(ino, blocks, b)
        /\ inode_map' = inode_map \union ({ino} \ {Beyond})
        /\ i_size' = [i_size EXCEPT ![ino] = SECTOR_PER_BLOCK]
        /\ i_zone' = [i_zone EXCEPT ![ino] =
                        [z \in 0 .. (Direct + 1) |-> IF z = 0 THEN b ELSE 0]]
        /\ complete' = complete \ {ino}
  BY DEF MakesInode
<1>2. PICK blocks : new_block(b, blocks) /\ disk' = Recorded(ino, blocks, b)
  BY <1>1
<1>3. b \in Word /\ blocks \in [Block -> [Entry -> Word]] /\ listed' \in [Block -> Nat]
  BY <1>2, NewBlock, Words
<1>4. disk' \in [Block -> [Entry -> Word]]
  BY <1>2, <1>3, BlockContents DEF Recorded
<1>5. SECTOR_PER_BLOCK \in 0 .. DoubleEnd
  BY Ends DEF SECTOR_PER_BLOCK
<1>6. i_size' \in [Ino -> 0 .. DoubleEnd]
  BY <1>1, <1>5 DEF TypeOK
<1>7. [z \in 0 .. (Direct + 1) |-> IF z = 0 THEN b ELSE 0] \in [0 .. (Direct + 1) -> Word]
  BY <1>3, Words
<1>8. i_zone' \in [Ino -> [0 .. (Direct + 1) -> Word]]
  BY <1>1, <1>7 DEF TypeOK
<1>9. inode_map' \subseteq Ino \ {Beyond} /\ complete' \subseteq Ino
  BY <1>1 DEF TypeOK
<1> QED
  BY <1>3, <1>4, <1>6, <1>8, <1>9

LEMMA CreatTyped ==
  ASSUME Typed, Creat PROVE Typed'
<1> USE DEF Typed, CallOK, InRm
<1>1. PICK ino \in NewInode :
        /\ MakesInode(ino)
        /\ named' = named \union {ino}
        /\ harm' = harm \union NoNumber(ino)
                        \union (IF i_size[ino] > 0 THEN {"leak"} ELSE {})
  BY Zenon DEF Creat
<1>2. ino \in Ino
  BY DEF NewInode
<1>3. named' \subseteq Ino /\ harm' \subseteq Harms
  BY <1>1, <1>2 DEF TypeOK, Harms, NoNumber
<1>4. UNCHANGED <<call, running>> /\ call.step = "none"
  BY DEF Creat, Idle
<1> QED
  BY <1>1, <1>2, <1>3, <1>4, MakesTyped DEF TypeOK

LEMMA CreatCutTyped ==
  ASSUME Typed, CreatCut PROVE Typed'
<1> USE DEF Typed, CallOK, InRm
<1>1. UNCHANGED <<named, call, running>> /\ call.step = "none"
  BY DEF CreatCut, Idle
<1>2. PICK ino \in NewInode :
        \/ /\ inode_map' = inode_map \union ({ino} \ {Beyond})
           /\ \/ UNCHANGED <<disk, listed>>
              \/ \E b \in Candidates : \E blocks \in Contents(b) :
                   new_block(b, blocks) /\ disk' = blocks
           /\ harm' = harm \union {"leak"}
           /\ UNCHANGED <<i_size, i_zone, complete>>
        \/ /\ MakesInode(ino)
           /\ harm' = harm \union {"leak"} \union NoNumber(ino)
  BY Zenon DEF CreatCut
<1>3. ino \in Ino
  BY DEF NewInode
<1>4. CASE /\ inode_map' = inode_map \union ({ino} \ {Beyond})
           /\ \/ UNCHANGED <<disk, listed>>
              \/ \E b \in Candidates : \E blocks \in Contents(b) :
                   new_block(b, blocks) /\ disk' = blocks
           /\ harm' = harm \union {"leak"}
           /\ UNCHANGED <<i_size, i_zone, complete>>
  <2>1. disk' \in [Block -> [Entry -> Word]] /\ listed' \in [Block -> Nat]
    <3>1. CASE UNCHANGED <<disk, listed>>
      BY <3>1 DEF TypeOK
    <3>2. CASE \E b \in Candidates : \E blocks \in Contents(b) :
                 new_block(b, blocks) /\ disk' = blocks
      BY <3>2, NewBlock
    <3> QED
      BY <1>4, <3>1, <3>2
  <2>2. inode_map' \subseteq Ino \ {Beyond} /\ harm' \subseteq Harms
    BY <1>3, <1>4 DEF TypeOK, Harms
  <2> QED
    BY <1>1, <1>4, <2>1, <2>2 DEF TypeOK
<1>5. CASE MakesInode(ino) /\ harm' = harm \union {"leak"} \union NoNumber(ino)
  <2>1. harm' \subseteq Harms
    BY <1>5 DEF TypeOK, Harms, NoNumber
  <2> QED
    BY <1>1, <1>3, <1>5, <2>1, MakesTyped DEF TypeOK
<1> QED
  BY <1>2, <1>4, <1>5

LEMMA WriteAllocTyped ==
  ASSUME Typed, WriteAlloc PROVE Typed'
<1> USE DEF Typed, CallOK, InRm
<1>1. PICK n \in 1 .. 3, b \in Candidates : \E blocks \in Contents(b) :
        /\ new_block(b, blocks)
        /\ IF n = 1
           THEN /\ i_zone' = [i_zone EXCEPT ![call.ino][Path(call.i)[1]] = b]
                /\ disk' = blocks
           ELSE /\ disk' = RecordedIn(blocks, n, b)
                /\ UNCHANGED i_zone
        /\ harm' \in {harm \union {"stale"}, harm}
  BY Zenon DEF WriteAlloc
<1>2. PICK blocks \in Contents(b) :
        /\ new_block(b, blocks)
        /\ IF n = 1
           THEN /\ i_zone' = [i_zone EXCEPT ![call.ino][Path(call.i)[1]] = b]
                /\ disk' = blocks
           ELSE /\ disk' = RecordedIn(blocks, n, b)
                /\ UNCHANGED i_zone
        /\ harm' \in {harm \union {"stale"}, harm}
  BY <1>1
<1>3. b \in Word /\ blocks \in [Block -> [Entry -> Word]] /\ listed' \in [Block -> Nat]
  BY <1>2, NewBlock, Words
<1>4. RecordedIn(blocks, n, b) \in [Block -> [Entry -> Word]]
  BY <1>3, BlockContents DEF RecordedIn
<1>5. disk' \in [Block -> [Entry -> Word]]
  BY <1>2, <1>3, <1>4
<1>6. i_zone' \in [Ino -> [0 .. (Direct + 1) -> Word]]
  <2> DEFINE z == Path(call.i)[1]
  <2>1. i_zone \in [Ino -> [0 .. (Direct + 1) -> Word]]
    BY DEF TypeOK
  <2>2. i_zone' \in {i_zone, [i_zone EXCEPT ![call.ino][z] = b]}
    BY <1>2, Zenon
  <2> HIDE DEF z
  <2>3. [i_zone EXCEPT ![call.ino][z] = b] \in [Ino -> [0 .. (Direct + 1) -> Word]]
    BY <1>3, <2>1
  <2> QED
    BY <2>1, <2>2, <2>3
<1>7. harm' \subseteq Harms
  BY <1>2 DEF TypeOK, Harms
<1>8. UNCHANGED <<inode_map, i_size, named, call, running, complete>>
  BY DEF WriteAlloc
<1> QED
  BY <1>3, <1>5, <1>6, <1>7, <1>8 DEF TypeOK

LEMMA WriteTyped ==
  ASSUME Typed,
         \/ \E ino \in Ino, len \in Lens : WriteBegin(ino, len)
         \/ WriteAllocCut \/ WriteNoBlock \/ WriteSector \/ WriteEnd
  PROVE  Typed'
<1> USE DEF Typed, CallOK, InRm
<1>1. CASE \E ino \in Ino, len \in Lens : WriteBegin(ino, len)
  <2>1. PICK ino \in Ino, len \in Lens : WriteBegin(ino, len)
    BY <1>1
  <2>2. len \in 0 .. DoubleEnd
    BY FileMapAssumption, Ends
  <2>3. i_size' \in [Ino -> 0 .. DoubleEnd]
    BY <2>1, <2>2 DEF WriteBegin, TypeOK
  <2>4. call' \in [step : Steps, ino : Ino, i : 0 .. DoubleEnd]
        /\ call'.step = "write" /\ call'.i = 0 /\ call'.ino \in Ino
    BY <2>1, Ends DEF WriteBegin, Steps
  <2>5. call'.i <= i_size'[call'.ino]
    BY <2>3, <2>4, Ends
  <2> QED
    BY <2>1, <2>3, <2>4, <2>5 DEF WriteBegin, TypeOK
<1>2. CASE WriteAllocCut
  <2>1. disk' \in [Block -> [Entry -> Word]] /\ listed' \in [Block -> Nat]
    BY <1>2, NewBlock DEF WriteAllocCut
  <2>2. call' \in [step : Steps, ino : Ino, i : 0 .. DoubleEnd] /\ call'.step = "none"
    BY <1>2, Calls DEF WriteAllocCut, GoTo, Steps
  <2>3. harm' \subseteq Harms
    BY <1>2 DEF WriteAllocCut, TypeOK, Harms
  <2> QED
    BY <1>2, <2>1, <2>2, <2>3 DEF WriteAllocCut, TypeOK
<1>3. CASE WriteNoBlock
  BY <1>3 DEF WriteNoBlock, Panic, TypeOK
<1>4. CASE WriteSector
  <2>1. disk' \in [Block -> [Entry -> Word]]
    BY <1>4, BlockContents, Words, Calls DEF WriteSector, TypeOK
  <2>2. call.step = "write" /\ call.i < i_size[call.ino]
    BY <1>4 DEF WriteSector, Writing, At
  <2>3. /\ call' \in [step : Steps, ino : Ino, i : 0 .. DoubleEnd]
        /\ call'.step = "write" /\ call'.ino = call.ino /\ call'.i = call.i + 1
    <3>1. call.i + 1 \in 0 .. DoubleEnd
      BY <2>2, Calls, Ends
    <3>2. call' = [call EXCEPT !.i = call.i + 1]
      BY <1>4 DEF WriteSector, NextSector
    <3>3. call \in [step : Steps, ino : Ino, i : 0 .. DoubleEnd]
      BY DEF TypeOK
    <3> QED
      BY <2>2, <3>1, <3>2, <3>3
  <2>4. call'.i <= i_size[call.ino]
    BY <2>2, <2>3, Calls, Ends
  <2> QED
    BY <1>4, <2>1, <2>3, <2>4 DEF WriteSector, TypeOK
<1>5. CASE WriteEnd
  <2>1. call' \in [step : Steps, ino : Ino, i : 0 .. DoubleEnd] /\ call'.step = "none"
    BY <1>5, Calls DEF WriteEnd, GoTo, Steps
  <2>2. complete' \subseteq Ino
    BY <1>5, Calls DEF WriteEnd, TypeOK
  <2> QED
    BY <1>5, <2>1, <2>2 DEF WriteEnd, TypeOK
<1> QED
  BY <1>1, <1>2, <1>3, <1>4, <1>5, Zenon

LEMMA NextCall ==
  ASSUME TypeOK, AfterSector, call.i < i_size[call.ino]
  PROVE  /\ call' \in [step : Steps, ino : Ino, i : 0 .. DoubleEnd]
         /\ call'.ino = call.ino /\ call'.i = call.i + 1
         /\ call'.step \in {"rm", "singles", "tail"}
         /\ call'.step = "tail" => call'.i = i_size[call.ino]
         /\ call'.step # "tail" => call'.i < i_size[call.ino]
         /\ call'.step = "rm" => call'.i # SingleEnd
<1> DEFINE next == call.i + 1
           step == IF next = i_size[call.ino] THEN "tail"
                   ELSE IF next = SingleEnd THEN "singles" ELSE "rm"
<1>1. call' = [call EXCEPT !.i = next, !.step = step]
  BY DEF AfterSector
<1>2. next \in 0 .. DoubleEnd /\ step \in Steps /\ next <= i_size[call.ino]
  BY Calls, Ends DEF Steps
<1>3. step = "tail" => next = i_size[call.ino]
  OBVIOUS
<1>4. step # "tail" => next < i_size[call.ino]
  BY <1>2, Calls, Ends
<1>5. step = "rm" => next # SingleEnd
  OBVIOUS
<1>6. step \in {"rm", "singles", "tail"}
  OBVIOUS
<1> HIDE DEF next, step
<1>7. /\ call' \in [step : Steps, ino : Ino, i : 0 .. DoubleEnd]
      /\ call'.step = step /\ call'.ino = call.ino /\ call'.i = next
  BY <1>1, <1>2 DEF TypeOK
<1> QED
  BY <1>3, <1>4, <1>5, <1>6, <1>7 DEF next

LEMMA RmTyped ==
  ASSUME Typed,
         \/ \E ino \in Ino : Read(ino) \/ RmBegin(ino)
         \/ RmSector \/ RmFree \/ RmFreeCut \/ RmPanics \/ RmSingles \/ RmTail \/ RmClear \/ RmFreeInode
         \/ RmUnlink \/ PowerCut
  PROVE  Typed'
<1> USE DEF Typed, CallOK, InRm
<1>1. CASE \E ino \in Ino : Read(ino)
  BY <1>1 DEF Read, Panic, TypeOK
<1>2. CASE \E ino \in Ino : RmBegin(ino)
  <2>1. PICK ino \in Ino : RmBegin(ino)
    BY <1>2
  <2>2. call' \in [step : Steps, ino : Ino, i : 0 .. DoubleEnd]
        /\ call'.step = "rm" /\ call'.i = 0 /\ call'.ino = ino
    BY <2>1, Ends DEF RmBegin, Steps
  <2>3. complete' = complete \ {ino} /\ i_size[ino] > 0
    BY <2>1 DEF RmBegin
  <2> QED
    BY <2>1, <2>2, <2>3 DEF RmBegin, TypeOK
<1>3. CASE RmSector
  <2>1. 0 \in Word
    BY Words
  <2>2. disk' \in [Block -> [Entry -> Word]]
    BY <1>3, <2>1, BlockContents DEF RmSector, TypeOK
  <2>3. call.step = "rm" /\ call.i < i_size[call.ino] /\ call.ino \notin complete
    BY <1>3 DEF RmSector, At
  <2>4. UNCHANGED <<listed, inode_map, i_size, i_zone, named, running, complete, harm>>
    BY <1>3 DEF RmSector
  <2>5. CASE IsSecondHalf(call.i) /\ GoTo("free")
    <3>1. /\ call' \in [step : Steps, ino : Ino, i : 0 .. DoubleEnd]
          /\ call'.step = "free" /\ call'.ino = call.ino /\ call'.i = call.i
      BY <2>5, Calls DEF GoTo, Steps
    <3>2. IsSecondHalf(call'.i)
      BY <2>5, <3>1
    <3> QED
      BY <2>2, <2>3, <2>4, <3>1, <3>2 DEF TypeOK, IsSecondHalf
  <2>6. CASE AfterSector
    BY <2>2, <2>3, <2>4, <2>6, NextCall DEF TypeOK
  <2> QED
    BY <1>3, <2>5, <2>6 DEF RmSector
<1>11. CASE RmFree
  <2>1. disk' \in [Block -> [Entry -> Word]]
    <3>1. PICK b : b = Current
      OBVIOUS
    <3>2. disk' = disk \/ disk' = [disk EXCEPT ![b] = HeadBlock]
      BY <1>11, <3>1 DEF RmFree, Contents
    <3>3. disk \in [Block -> [Entry -> Word]]
      BY DEF TypeOK
    <3> QED
      BY <3>2, <3>3, BlockContents
  <2>2. listed' \in [Block -> Nat]
    <3>1. \A b : DOMAIN <<b>> = 1 .. 1
      OBVIOUS
    <3> QED
      BY <1>11, <3>1, FreedBlocks DEF RmFree
  <2>3. call.step = "free" /\ call.i < i_size[call.ino] /\ call.ino \notin complete
    BY <1>11 DEF RmFree, At
  <2>4. UNCHANGED <<inode_map, i_size, i_zone, named, running, complete, harm>> /\ AfterSector
    BY <1>11 DEF RmFree
  <2> QED
    BY <2>1, <2>2, <2>3, <2>4, NextCall DEF TypeOK
<1>12. CASE RmFreeCut
  <2>1. call' \in [step : Steps, ino : Ino, i : 0 .. DoubleEnd] /\ call'.step = "none"
    BY <1>12, Calls DEF RmFreeCut, GoTo, Steps
  <2>2. disk' \in [Block -> [Entry -> Word]] /\ harm' \subseteq Harms
    BY <1>12, BlockContents DEF RmFreeCut, TypeOK, Harms
  <2> QED
    BY <1>12, <2>1, <2>2 DEF RmFreeCut, TypeOK
<1>4. CASE RmPanics
  BY <1>4 DEF RmPanics, Panic, TypeOK
<1>5. CASE RmSingles
  <2>1. Fanout \in Nat
    BY Ends
  <2>2. \A b : DOMAIN Numbers(b) = 1 .. Fanout
    BY DEF Numbers
  <2>3. listed' \in [Block -> Nat]
    BY <1>5, <2>1, <2>2, FreedBlocks DEF RmSingles
  <2>4. harm' \subseteq Harms /\ inode_map' \subseteq Ino \ {Beyond}
    BY <1>5 DEF RmSingles, TypeOK, Harms
  <2>5. call.step = "singles"
    BY <1>5 DEF RmSingles, At
  <2>6. /\ call' \in [step : Steps, ino : Ino, i : 0 .. DoubleEnd]
        /\ call'.step = "rm" /\ call'.ino = call.ino /\ call'.i = call.i
    BY <1>5, Calls DEF RmSingles, GoTo, Steps
  <2> QED
    BY <1>5, <2>3, <2>4, <2>5, <2>6 DEF RmSingles, TypeOK
<1>6. CASE RmTail
  <2>1. Fanout \in Nat
    BY Ends
  <2>2. \A b : DOMAIN Numbers(b) = 1 .. Fanout
    BY DEF Numbers
  <2>3. listed' \in [Block -> Nat]
    BY <1>6, <2>1, <2>2, FreedBlocks DEF RmTail, TypeOK
  <2>4. harm' \subseteq Harms /\ inode_map' \subseteq Ino \ {Beyond}
    BY <1>6 DEF RmTail, free_inode_of_block, TypeOK, Harms
  <2>5. call.step = "tail"
    BY <1>6 DEF RmTail, At
  <2>6. /\ call' \in [step : Steps, ino : Ino, i : 0 .. DoubleEnd]
        /\ call'.step = "clear" /\ call'.ino = call.ino /\ call'.i = call.i
    BY <1>6, Calls DEF RmTail, GoTo, Steps
  <2>7. UNCHANGED <<disk, i_size, i_zone, named, running, complete>>
    BY <1>6 DEF RmTail
  <2> QED
    BY <2>3, <2>4, <2>5, <2>6, <2>7 DEF TypeOK
<1>7. CASE RmClear
  <2>1. call' \in [step : Steps, ino : Ino, i : 0 .. DoubleEnd] /\ call'.step = "freeino"
    BY <1>7, Calls DEF RmClear, GoTo, Steps
  <2>2. i_size' \in [Ino -> 0 .. DoubleEnd]
    BY <1>7, Ends DEF RmClear, TypeOK
  <2>3. i_zone' \in [Ino -> [0 .. (Direct + 1) -> Word]]
    BY <1>7, Words DEF RmClear, TypeOK
  <2>4. harm' \subseteq Harms
    BY <1>7 DEF RmClear, TypeOK, Harms
  <2> QED
    BY <1>7, <2>1, <2>2, <2>3, <2>4 DEF RmClear, TypeOK
<1>8. CASE RmFreeInode
  <2>1. call' \in [step : Steps, ino : Ino, i : 0 .. DoubleEnd] /\ call'.step = "unlink"
    BY <1>8, Calls DEF RmFreeInode, GoTo, Steps
  <2> QED
    BY <1>8, <2>1 DEF RmFreeInode, TypeOK
<1>9. CASE RmUnlink
  <2>1. call' \in [step : Steps, ino : Ino, i : 0 .. DoubleEnd] /\ call'.step = "none"
    BY <1>9, Calls DEF RmUnlink, GoTo, Steps
  <2> QED
    BY <1>9, <2>1 DEF RmUnlink, TypeOK
<1>10. CASE PowerCut
  <2>1. call' \in [step : Steps, ino : Ino, i : 0 .. DoubleEnd] /\ call'.step = "none"
    BY <1>10, Calls DEF PowerCut, GoTo, Steps
  <2>2. harm' \subseteq Harms
    BY <1>10 DEF PowerCut, TypeOK, Harms
  <2> QED
    BY <1>10, <2>1, <2>2 DEF PowerCut, TypeOK
<1> QED
  BY <1>1, <1>2, <1>3, <1>4, <1>5, <1>6, <1>7, <1>8, <1>9, <1>10,
     <1>11, <1>12

LEMMA NextTyped == Typed /\ [Next]_vars => Typed'
<1> SUFFICES ASSUME Typed, [Next]_vars PROVE Typed'
  OBVIOUS
<1>1. CASE UNCHANGED vars
  BY <1>1 DEF vars, Typed, TypeOK, CallOK, InRm
<1> QED
  BY <1>1, CreatTyped, CreatCutTyped, WriteAllocTyped, WriteTyped, RmTyped DEF Next

-----------------------------------------------------------------------------
(* Small and growing files.                                                *)

LEMMA NoPlaces == Places(0) = {}
<1>1. 0 .. (0 - 1) = {}
  OBVIOUS
<1> QED
  BY <1>1, Zenon DEF Places

LEMMA DirectParts ==
  ASSUME NEW i \in Nat, i < DirectEnd
  PROVE  Path(i) = <<i \div 2>> /\ Parts(i) = {<<i \div 2>>}
<1>1. i \in 0 .. (DoubleEnd - 1)
  BY Ends
<1>2. Path(i) = <<i \div 2>>
  BY <1>1, PathShape
<1>3. PICK z : Path(i) = <<z>> /\ Parts(i) = {<<z>>}
  <2>1. ~(DirectEnd <= i) /\ ~(SingleEnd <= i)
    BY Ends
  <2> QED
    BY <1>1, <2>1, PartsShape, Zenon
<1> QED
  BY <1>2, <1>3, Zenon

LEMMA FirstPlace ==
  /\ Places(2) = {<<0>>}
  /\ \A n \in 1 .. DoubleEnd : <<0>> \in Places(n)
<1>1. Parts(0) = {<<0>>} /\ Parts(1) = {<<0>>}
  <2>1. 0 \div 2 = 0 /\ 1 \div 2 = 0 /\ 0 < DirectEnd /\ 1 < DirectEnd
    BY Ends
  <2> QED
    BY <2>1, DirectParts
<1>2. 0 .. (2 - 1) = {0, 1}
  OBVIOUS
<1>3. Places(2) = {<<0>>}
  BY <1>1, <1>2, Zenon DEF Places
<1>4. ASSUME NEW n \in 1 .. DoubleEnd PROVE <<0>> \in Places(n)
  <2>1. 0 \in 0 .. (n - 1)
    BY Ends
  <2> QED
    BY <1>1, <2>1, Zenon DEF Places
<1> QED
  BY <1>3, <1>4

(* A place behind an index zone that is 0 holds 0.                         *)
LEMMA ZeroBehind ==
  ASSUME NEW n \in 0 .. DoubleEnd, NEW q \in Places(n), NEW zones, NEW blocks,
         NrIn(zones, blocks, q) # 0
  PROVE  \/ \E z \in Zone : q = <<z>> /\ zones[z] # 0
         \/ \E z \in {Direct, Direct + 1} : zones[z] # 0
<1>1. 0 \notin Block
  BY Words
<1>2. \A k : WordIn(blocks, 0, k) = 0
  BY <1>1 DEF WordIn
<1>3. /\ \A z : NrIn(zones, blocks, <<z>>) = zones[z]
      /\ \A z, k : NrIn(zones, blocks, <<z, k>>) = WordIn(blocks, zones[z], k)
      /\ \A z, k, m : NrIn(zones, blocks, <<z, k, m>>)
                        = WordIn(blocks, WordIn(blocks, zones[z], k), m)
  BY DEF NrIn
<1>4. Direct \in Zone /\ Direct + 1 \in Zone /\ 0 .. (Direct - 1) \subseteq Zone
  BY Ends DEF Zone
<1>5. CASE \E z \in Zone : q = <<z>>
  BY <1>3, <1>5, Zenon
<1>6. CASE \E z \in {Direct, Direct + 1}, k \in Entry : q = <<z, k>>
  BY <1>2, <1>3, <1>6
<1>7. CASE \E k \in Entry, m \in Entry : q = <<Direct + 1, k, m>>
  BY <1>2, <1>3, <1>7
<1>8. \/ \E z \in Zone : q = <<z>>
      \/ \E z \in {Direct, Direct + 1}, k \in Entry : q = <<z, k>>
      \/ \E k \in Entry, m \in Entry : q = <<Direct + 1, k, m>>
  <2>1. CASE \E z \in 0 .. (Direct - 1) : q = <<z>>
    BY <1>4, <2>1, Zenon
  <2>2. CASE q = <<Direct>> \/ q = <<Direct + 1>>
    BY <1>4, <2>2, Zenon
  <2>3. CASE \E k \in Entry : q = <<Direct, k>> /\ <<Direct>> \in Places(n)
    BY <2>3
  <2>4. CASE \E k \in Entry : q = <<Direct + 1, k>> /\ <<Direct + 1>> \in Places(n)
    BY <2>4
  <2>5. CASE \E k \in Entry, m \in Entry :
               /\ q = <<Direct + 1, k, m>>
               /\ <<Direct + 1>> \in Places(n) /\ <<Direct + 1, k>> \in Places(n)
    BY <2>5, Zenon
  <2> QED
    BY <2>1, <2>2, <2>3, <2>4, <2>5, PlaceKinds, Zenon
<1> QED
  BY <1>5, <1>6, <1>7, <1>8, Zenon

-----------------------------------------------------------------------------
(* Hands.                                                                  *)

LEMMA PlacesNext ==
  ASSUME NEW f
  PROVE  /\ Slots(f)' = Places(i_size'[f])
         /\ \A q : NrAt(f, q)' = NrIn(i_zone'[f], disk', q)
BY Zenon DEF Slots, Places, NrAt, NrIn, WordOf, WordIn

LEMMA InHand ==
  ASSUME NEW f
  PROVE  /\ \A q \in Slots(f) : NrAt(f, q) # 0 => NrAt(f, q) \in Held(f)
         /\ \A b \in Held(f) : \E q \in Slots(f) : NrAt(f, q) = b /\ b # 0
BY Zenon DEF Held

(* The numbers of all files but one place stay as they are or become 0;    *)
(* the one place may get a block that was in no hand.                      *)
LEMMA HandsStep ==
  ASSUME NumbersOK, Distinct, NEW g, NEW p, NEW b \in {0} \union Block,
         b # 0 => \A f \in Ino : b \notin Held(f),
         \A f \in Ino : \A q \in Slots(f)' :
           \/ NrAt(f, q)' = 0
           \/ q \in Slots(f) /\ NrAt(f, q)' = NrAt(f, q)
           \/ f = g /\ q = p /\ NrAt(f, q)' = b
  PROVE  NumbersOK' /\ Distinct' /\ \A f \in Ino : Held(f)' \subseteq Held(f) \union {b}
<1>1. NumbersOK'
  BY Zenon DEF NumbersOK
<1>2. ASSUME NEW f \in Ino, NEW h \in Ino, NEW q \in Slots(f)', NEW r \in Slots(h)',
             <<f, q>> # <<h, r>>, NrAt(f, q)' # 0, NrAt(f, q)' = NrAt(h, r)'
      PROVE  FALSE
  <2>1. CASE q \in Slots(f) /\ NrAt(f, q)' = NrAt(f, q)
    <3>1. CASE r \in Slots(h) /\ NrAt(h, r)' = NrAt(h, r)
      BY <1>2, <2>1, <3>1, Zenon DEF Distinct
    <3>2. CASE h = g /\ r = p /\ NrAt(h, r)' = b
      BY <1>2, <2>1, <3>2, InHand, Zenon
    <3> QED
      BY <1>2, <3>1, <3>2, Zenon
  <2>2. CASE f = g /\ q = p /\ NrAt(f, q)' = b
    <3>1. CASE r \in Slots(h) /\ NrAt(h, r)' = NrAt(h, r)
      <4>1. NrAt(h, r) = b /\ b # 0
        BY <1>2, <2>2, <3>1, Zenon
      <4>2. b \in Held(h)
        BY <3>1, <4>1, InHand, Zenon
      <4> QED
        BY <4>1, <4>2, Zenon
    <3>2. CASE h = g /\ r = p /\ NrAt(h, r)' = b
      BY <1>2, <2>2, <3>2, Zenon
    <3> QED
      BY <1>2, <3>1, <3>2, Zenon
  <2> QED
    BY <1>2, <2>1, <2>2, Zenon
<1>3. Distinct'
  BY <1>2, Zenon DEF Distinct
<1>4. ASSUME NEW f \in Ino, NEW d \in Held(f)' PROVE d \in Held(f) \union {b}
  <2>1. PICK q \in Slots(f)' : NrAt(f, q)' = d /\ d # 0
    BY Zenon DEF Held
  <2>2. CASE q \in Slots(f) /\ NrAt(f, q)' = NrAt(f, q)
    <3>1. NrAt(f, q) # 0 /\ NrAt(f, q) = d
      BY <2>1, <2>2, Zenon
    <3>2. NrAt(f, q) \in Held(f)
      BY <2>2, <3>1, InHand, Zenon
    <3> QED
      BY <3>1, <3>2, Zenon
  <2>3. CASE NrAt(f, q)' = b
    BY <2>1, <2>3, Zenon
  <2> QED
    BY <2>1, <2>2, <2>3, Zenon
<1> QED
  BY <1>1, <1>3, <1>4, Zenon

(* A file whose index blocks and zones stay keeps its numbers.             *)
LEMMA NumbersKept ==
  ASSUME TypeOK, NEW f \in Ino, i_zone'[f] = i_zone[f],
         \A q \in Slots(f) \cap Inner :
           NrAt(f, q) \in Block => disk'[NrAt(f, q)] = disk[NrAt(f, q)]
  PROVE  \A q \in Slots(f) : NrAt(f, q)' = NrAt(f, q)
<1>1. i_size[f] \in 0 .. DoubleEnd
  BY DEF TypeOK
<1>2. \A q \in Places(i_size[f]) \cap Inner :
        NrIn(i_zone[f], disk, q) \in Block =>
          disk'[NrIn(i_zone[f], disk, q)] = disk[NrIn(i_zone[f], disk, q)]
  BY PlacesOfFile, Zenon
<1>3. \A q \in Places(i_size[f]) : NrIn(i_zone[f], disk', q) = NrIn(i_zone[f], disk, q)
  BY <1>1, <1>2, NumbersFrame
<1>4. ASSUME NEW q \in Slots(f) PROVE NrAt(f, q)' = NrAt(f, q)
  <2>1. NrAt(f, q)' = NrIn(i_zone[f], disk', q)
    BY PlacesNext
  <2>2. NrAt(f, q) = NrIn(i_zone[f], disk, q)
    BY PlacesOfFile
  <2>3. q \in Places(i_size[f])
    BY PlacesOfFile
  <2> QED
    BY <1>3, <2>1, <2>2, <2>3
<1> QED
  BY <1>4

(* The blocks that may be handed out are in no hand.                       *)
LEMMA FreshBlock ==
  ASSUME TypeOK, ListedFree, Released = {}, NEW b, NEW blocks, new_block(b, blocks)
  PROVE  /\ listed[b] = 1 /\ listed'[b] = 0
         /\ \A f \in Ino : b \notin Held(f)
         /\ \A f \in Ino : \A q \in Slots(f) : NrAt(f, q) # b
<1>1. /\ b \in Block /\ listed[b] \in Nat /\ listed[b] > 0
      /\ listed'[b] = listed[b] - 1
  BY NewBlock
<1>2. listed[b] <= 1
  BY <1>1 DEF ListedFree
<1>3. listed[b] = 1 /\ listed'[b] = 0
  BY <1>1, <1>2
<1>4. \A f \in Ino : b \notin Held(f)
  BY <1>1, <1>3, Zenon DEF ListedFree
<1>5. b # 0
  BY <1>1, Words
<1> QED
  BY <1>3, <1>4, <1>5, InHand, Zenon

(* What is listed, when no block is listed that was not.                   *)
LEMMA ListedStep ==
  ASSUME TypeOK, ListedFree, Released = {}, Released' = {}, NEW b \in {0} \union Block,
         \A f \in Ino : Held(f)' \subseteq Held(f) \union {b},
         b # 0 => listed'[b] = 0,
         \A d \in Block : d # b => listed'[d] = listed[d]
  PROVE  ListedFree' /\ ReleasedListed'
<1>1. ASSUME NEW d \in Block
      PROVE  /\ listed'[d] <= 1
             /\ (listed'[d] = 1 /\ d \notin Released') => \A f \in Ino : d \notin Held(f)'
  <2>1. CASE d = b
    <3>1. listed'[d] = 0
      BY <2>1, Words
    <3> QED
      BY <3>1
  <2>2. CASE d # b
    BY <2>2, Zenon DEF ListedFree
  <2> QED
    BY <2>1, <2>2
<1>2. ListedFree'
  BY <1>1, Zenon DEF ListedFree
<1>3. ReleasedListed'
  BY Zenon DEF ReleasedListed
<1> QED
  BY <1>2, <1>3

-----------------------------------------------------------------------------
(* A number that is recorded changes one place of one file.                *)

(* In a zone; an index block that comes with it is cleared.                *)
LEMMA RecordedInZone ==
  ASSUME NEW n \in 0 .. DoubleEnd, NEW zones \in [Zone -> Word], NEW blocks,
         NEW z0 \in Zone, zones[z0] = 0, NEW b \in Block,
         z0 \in {Direct, Direct + 1} => blocks[b] = ZeroBlock,
         NEW q \in Places(n), q # <<z0>>
  PROVE  NrIn([zones EXCEPT ![z0] = b], blocks, q) = NrIn(zones, blocks, q)
<1> DEFINE zones2 == [zones EXCEPT ![z0] = b]
<1>1. /\ \A ws : \A z : NrIn(ws, blocks, <<z>>) = ws[z]
      /\ \A ws : \A z, k : NrIn(ws, blocks, <<z, k>>) = WordIn(blocks, ws[z], k)
      /\ \A ws : \A z, k, m : NrIn(ws, blocks, <<z, k, m>>)
                                = WordIn(blocks, WordIn(blocks, ws[z], k), m)
  BY DEF NrIn
<1>2. zones2[z0] = b /\ \A z \in Zone : z # z0 => zones2[z] = zones[z]
  OBVIOUS
<1>3. Direct \in Zone /\ Direct + 1 \in Zone /\ 0 .. (Direct - 1) \subseteq Zone
  BY Ends DEF Zone
<1>4. \A k : WordIn(blocks, 0, k) = 0
  BY Words DEF WordIn
<1>5. ASSUME NEW k \in Entry, z0 \in {Direct, Direct + 1} PROVE WordIn(blocks, b, k) = 0
  BY <1>5 DEF WordIn, ZeroBlock
<1> HIDE DEF zones2
<1>6. ASSUME NEW z \in Zone, q = <<z>> PROVE NrIn(zones2, blocks, q) = NrIn(zones, blocks, q)
  BY <1>1, <1>2, <1>6
<1>7. ASSUME NEW z \in {Direct, Direct + 1}, NEW k \in Entry
      PROVE  WordIn(blocks, zones2[z], k) = WordIn(blocks, zones[z], k)
  <2>1. CASE z = z0
    BY <1>2, <1>4, <1>5, <2>1
  <2>2. CASE z # z0
    BY <1>2, <1>3, <2>2
  <2> QED
    BY <2>1, <2>2
<1>8. ASSUME NEW z \in {Direct, Direct + 1}, NEW k \in Entry, q = <<z, k>>
      PROVE  NrIn(zones2, blocks, q) = NrIn(zones, blocks, q)
  BY <1>1, <1>7, <1>8
<1>9. ASSUME NEW k \in Entry, NEW m \in Entry, q = <<Direct + 1, k, m>>
      PROVE  NrIn(zones2, blocks, q) = NrIn(zones, blocks, q)
  BY <1>1, <1>7, <1>9
<1>10. NrIn(zones2, blocks, q) = NrIn(zones, blocks, q)
  <2>1. CASE \E z \in 0 .. (Direct - 1) : q = <<z>>
    BY <1>3, <1>6, <2>1, Zenon
  <2>2. CASE q = <<Direct>> \/ q = <<Direct + 1>>
    BY <1>3, <1>6, <2>2, Zenon
  <2>3. CASE \E k \in Entry : q = <<Direct, k>> \/ q = <<Direct + 1, k>>
    BY <1>8, <2>3, Zenon
  <2>4. CASE \E k \in Entry, m \in Entry : q = <<Direct + 1, k, m>>
    BY <1>9, <2>4, Zenon
  <2> QED
    BY <2>1, <2>2, <2>3, <2>4, PlaceKinds, Zenon
<1> QED
  BY <1>10 DEF zones2

(* Of the places of a file only p, with its number b, changes.             *)
Becomes(n, zones, blocks, blocks2, p, b) ==
  /\ NrIn(zones, blocks2, p) = b
  /\ \A q \in Places(n) \ {p} : NrIn(zones, blocks2, q) = NrIn(zones, blocks, q)

(* Place p is entry k0 of the index block at place q0.                     *)
EntryOf(p, q0, k0, blocks2, b) ==
  \/ \E z0 : /\ q0 = <<z0>> /\ p = <<z0, k0>>
             /\ z0 = Direct + 1 => blocks2[b] = ZeroBlock
  \/ \E z0, l0 : q0 = <<z0, l0>> /\ p = <<z0, l0, k0>>

(* Number b, at no place, is recorded in the block of the one place q0.    *)
Records(n, zones, blocks, blocks2, q0, k0, b) ==
  LET parent == NrIn(zones, blocks, q0)
  IN  /\ blocks2 \in [Block -> [Entry -> Word]]
      /\ q0 \in Places(n) /\ b \in Block /\ k0 \in Entry
      /\ parent \in Block /\ parent # b
      /\ \A q \in Places(n) :
           /\ NrIn(zones, blocks, q) \in {0} \union Block
           /\ NrIn(zones, blocks, q) # b
           /\ q # q0 => NrIn(zones, blocks, q) # parent
      /\ blocks2[parent][k0] = b
      /\ \A k \in Entry \ {k0} : blocks2[parent][k] = blocks[parent][k]
      /\ \A d \in Block \ {b, parent} : blocks2[d] = blocks[d]

LEMMA RecordedInEntry ==
  ASSUME NEW n \in 0 .. DoubleEnd, NEW zones, NEW blocks, NEW blocks2,
         NEW q0, NEW k0, NEW b, Records(n, zones, blocks, blocks2, q0, k0, b),
         NEW p, NrIn(zones, blocks, p) = 0, EntryOf(p, q0, k0, blocks2, b)
  PROVE  Becomes(n, zones, blocks, blocks2, p, b)
<1> DEFINE Nr(q) == NrIn(zones, blocks, q)
           Nr2(q) == NrIn(zones, blocks2, q)
           parent == Nr(q0)
<1>1. /\ \A z : Nr(<<z>>) = zones[z]
      /\ \A z, k : Nr(<<z, k>>) = WordIn(blocks, Nr(<<z>>), k)
      /\ \A z, k, m : Nr(<<z, k, m>>) = WordIn(blocks, Nr(<<z, k>>), m)
  BY DEF NrIn
<1>2. /\ \A z : Nr2(<<z>>) = zones[z]
      /\ \A z, k : Nr2(<<z, k>>) = WordIn(blocks2, Nr2(<<z>>), k)
      /\ \A z, k, m : Nr2(<<z, k, m>>) = WordIn(blocks2, Nr2(<<z, k>>), m)
  BY DEF NrIn
<1>3. /\ blocks2 \in [Block -> [Entry -> Word]]
      /\ q0 \in Places(n) /\ b \in Block /\ k0 \in Entry
      /\ parent \in Block /\ parent # b
      /\ blocks2[parent][k0] = b
      /\ \A k \in Entry \ {k0} : blocks2[parent][k] = blocks[parent][k]
      /\ \A d \in Block \ {b, parent} : blocks2[d] = blocks[d]
  BY Zenon DEF Records
<1>4. ASSUME NEW q \in Places(n)
      PROVE  Nr(q) \in {0} \union Block /\ Nr(q) # b /\ (q # q0 => Nr(q) # parent)
  BY Zenon DEF Records
<1> HIDE DEF parent
<1>5. ASSUME NEW d \in {0} \union Block, d # b, d # parent, NEW k
      PROVE  WordIn(blocks2, d, k) = WordIn(blocks, d, k)
  BY <1>3, <1>5 DEF WordIn
<1>6. ASSUME NEW k \in Entry, k # k0
      PROVE  WordIn(blocks2, parent, k) = WordIn(blocks, parent, k)
  BY <1>3, <1>6 DEF WordIn
<1>7. WordIn(blocks2, parent, k0) = b
  BY <1>3 DEF WordIn
<1>8. \A k \in Entry : blocks2[b] = ZeroBlock => WordIn(blocks2, b, k) = 0
  BY <1>3 DEF WordIn, ZeroBlock
<1>9. \A k : WordIn(blocks, 0, k) = 0
  BY Words DEF WordIn
<1> HIDE DEF Nr, Nr2
<1>10. \A z : Nr2(<<z>>) = Nr(<<z>>)
  BY <1>1, <1>2, Zenon
<1>11. ASSUME NEW z, NEW k \in Entry, <<z>> \in Places(n), q0 # <<z>> \/ k # k0
       PROVE  Nr2(<<z, k>>) = Nr(<<z, k>>)
  <2>1. Nr2(<<z, k>>) = WordIn(blocks2, Nr(<<z>>), k)
    BY <1>2, <1>10, Zenon
  <2>2. Nr(<<z, k>>) = WordIn(blocks, Nr(<<z>>), k)
    BY <1>1, Zenon
  <2>3. CASE q0 # <<z>>
    <3>1. WordIn(blocks2, Nr(<<z>>), k) = WordIn(blocks, Nr(<<z>>), k)
      BY <1>4, <1>5, <1>11, <2>3, Zenon
    <3> QED
      BY <2>1, <2>2, <3>1
  <2>4. CASE q0 = <<z>> /\ k # k0
    <3>1. Nr(<<z>>) = parent
      BY <2>4, Zenon DEF parent
    <3> QED
      BY <1>6, <2>1, <2>2, <2>4, <3>1, Zenon
  <2> QED
    BY <1>11, <2>3, <2>4
<1>12. ASSUME NEW z, NEW l \in Entry, NEW k \in Entry, <<z, l>> \in Places(n),
              Nr2(<<z, l>>) = Nr(<<z, l>>), q0 # <<z, l>> \/ k # k0
       PROVE  Nr2(<<z, l, k>>) = Nr(<<z, l, k>>)
  <2>1. Nr2(<<z, l, k>>) = WordIn(blocks2, Nr(<<z, l>>), k)
    BY <1>2, <1>12
  <2>2. Nr(<<z, l, k>>) = WordIn(blocks, Nr(<<z, l>>), k)
    BY <1>1
  <2>3. CASE q0 # <<z, l>>
    <3>1. WordIn(blocks2, Nr(<<z, l>>), k) = WordIn(blocks, Nr(<<z, l>>), k)
      BY <1>4, <1>5, <1>12, <2>3, Zenon
    <3> QED
      BY <2>1, <2>2, <3>1
  <2>4. CASE q0 = <<z, l>> /\ k # k0
    <3>1. Nr(<<z, l>>) = parent
      BY <2>4, Zenon DEF parent
    <3> QED
      BY <1>6, <2>1, <2>2, <2>4, <3>1, Zenon
  <2> QED
    BY <1>12, <2>3, <2>4
<1>13. ASSUME NEW z0, q0 = <<z0>>, Nr(<<z0, k0>>) = 0,
              z0 = Direct + 1 => blocks2[b] = ZeroBlock
       PROVE  /\ Nr2(<<z0, k0>>) = b
              /\ \A q \in Places(n) \ {<<z0, k0>>} : Nr2(q) = Nr(q)
  <2>1. Nr(<<z0>>) = parent
    BY <1>13 DEF parent
  <2>2. Nr2(<<z0, k0>>) = WordIn(blocks2, Nr(<<z0>>), k0)
    BY <1>2, <1>10, Zenon
  <2>3. Nr2(<<z0, k0>>) = b
    BY <1>7, <2>1, <2>2
  <2>4. ASSUME NEW q \in Places(n), q # <<z0, k0>> PROVE Nr2(q) = Nr(q)
    <3>1. CASE \E z : q = <<z>>
      BY <1>10, <3>1, Zenon
    <3>2. ASSUME NEW z, NEW k \in Entry, q = <<z, k>>, <<z>> \in Places(n)
          PROVE  Nr2(q) = Nr(q)
      <4>1. q0 # <<z>> \/ k # k0
        BY <1>13, <2>4, <3>2, DifferentPlaces, Zenon
      <4> QED
        BY <1>11, <3>2, <4>1, Zenon
    <3>3. ASSUME NEW k \in Entry, NEW m \in Entry, q = <<Direct + 1, k, m>>,
                 <<Direct + 1>> \in Places(n), <<Direct + 1, k>> \in Places(n)
          PROVE  Nr2(q) = Nr(q)
      <4>1. CASE z0 = Direct + 1 /\ k = k0
        <5>1. Nr2(<<z0, k0, m>>) = WordIn(blocks2, b, m)
          BY <1>2, <2>3
        <5>2. Nr(<<z0, k0, m>>) = WordIn(blocks, 0, m)
          BY <1>1, <1>13
        <5>3. WordIn(blocks2, b, m) = 0 /\ WordIn(blocks, 0, m) = 0
          BY <1>8, <1>9, <1>13, <4>1
        <5> QED
          BY <3>3, <4>1, <5>1, <5>2, <5>3
      <4>2. CASE z0 # Direct + 1 \/ k # k0
        <5>1. q0 # <<Direct + 1>> \/ k # k0
          BY <1>13, <4>2, DifferentPlaces, Zenon
        <5>2. Nr2(<<Direct + 1, k>>) = Nr(<<Direct + 1, k>>)
          BY <1>11, <3>3, <5>1
        <5>3. q0 # <<Direct + 1, k>>
          BY <1>13, DifferentPlaces, Zenon
        <5> QED
          BY <1>12, <3>3, <5>2, <5>3
      <4> QED
        BY <4>1, <4>2
    <3> QED
      BY <3>1, <3>2, <3>3, PlaceForms, Zenon
  <2> QED
    BY <2>3, <2>4
<1>14. ASSUME NEW z0, NEW l0, q0 = <<z0, l0>>, Nr(<<z0, l0, k0>>) = 0
       PROVE  /\ Nr2(<<z0, l0, k0>>) = b
              /\ \A q \in Places(n) \ {<<z0, l0, k0>>} : Nr2(q) = Nr(q)
  <2>1. Nr(<<z0, l0>>) = parent
    BY <1>14 DEF parent
  <2>2. ASSUME NEW z, NEW k \in Entry, <<z>> \in Places(n)
        PROVE  Nr2(<<z, k>>) = Nr(<<z, k>>)
    <3>1. q0 # <<z>>
      BY <1>14, DifferentPlaces, Zenon
    <3> QED
      BY <1>11, <2>2, <3>1, Zenon
  <2>3. Nr2(<<z0, l0>>) = Nr(<<z0, l0>>)
    <3>1. \/ \E z : <<z0, l0>> = <<z>>
          \/ \E z : \E k \in Entry : <<z0, l0>> = <<z, k>> /\ <<z>> \in Places(n)
          \/ \E k \in Entry, m \in Entry : <<z0, l0>> = <<Direct + 1, k, m>>
      BY <1>3, <1>14, PlaceForms, Zenon
    <3>2. \E z : \E k \in Entry : <<z0, l0>> = <<z, k>> /\ <<z>> \in Places(n)
      BY <3>1, DifferentPlaces, Zenon
    <3> QED
      BY <2>2, <3>2, Zenon
  <2>4. Nr2(<<z0, l0, k0>>) = WordIn(blocks2, Nr2(<<z0, l0>>), k0)
    BY <1>2
  <2>5. Nr2(<<z0, l0, k0>>) = b
    BY <1>7, <2>1, <2>3, <2>4
  <2>6. ASSUME NEW q \in Places(n), q # <<z0, l0, k0>> PROVE Nr2(q) = Nr(q)
    <3>1. CASE \E z : q = <<z>>
      BY <1>10, <3>1, Zenon
    <3>2. ASSUME NEW z, NEW k \in Entry, q = <<z, k>>, <<z>> \in Places(n)
          PROVE  Nr2(q) = Nr(q)
      BY <2>2, <3>2, Zenon
    <3>3. ASSUME NEW k \in Entry, NEW m \in Entry, q = <<Direct + 1, k, m>>,
                 <<Direct + 1>> \in Places(n), <<Direct + 1, k>> \in Places(n)
          PROVE  Nr2(q) = Nr(q)
      <4>1. q0 # <<Direct + 1, k>> \/ m # k0
        BY <1>14, <2>6, <3>3, DifferentPlaces
      <4>2. Nr2(<<Direct + 1, k>>) = Nr(<<Direct + 1, k>>)
        BY <2>2, <3>3, Zenon
      <4> QED
        BY <1>12, <3>3, <4>1, <4>2
    <3> QED
      BY <3>1, <3>2, <3>3, PlaceForms, Zenon
  <2> QED
    BY <2>5, <2>6
<1>15. CASE \E z0 : /\ q0 = <<z0>> /\ p = <<z0, k0>>
                    /\ z0 = Direct + 1 => blocks2[b] = ZeroBlock
  BY <1>13, <1>15 DEF Nr, Nr2, Becomes
<1>16. CASE \E z0, l0 : q0 = <<z0, l0>> /\ p = <<z0, l0, k0>>
  <2>1. PICK z0, l0 : q0 = <<z0, l0>> /\ p = <<z0, l0, k0>>
    BY <1>16
  <2>2. Nr(<<z0, l0, k0>>) = 0
    BY <2>1 DEF Nr
  <2> QED
    BY <1>14, <2>1, <2>2 DEF Nr, Nr2, Becomes
<1> QED
  BY <1>15, <1>16, Zenon DEF EntryOf

(* What the allocation of block b for place p of file g does to hands.     *)
Placed(g, p, b) ==
  /\ p \in Slots(g) /\ NrAt(g, p) = 0 /\ NrAt(g, p)' = b
  /\ \A f \in Ino : \A q \in Slots(f) :
       f # g \/ q # p => NrAt(f, q)' = NrAt(f, q)
  /\ \A f \in Ino : \A q \in Slots(f) \ Inner :
       NrAt(f, q) \in Block => disk'[NrAt(f, q)] = disk[NrAt(f, q)]
  /\ ZonesOK'

LEMMA AllocInZone ==
  ASSUME Typed, HandsOK, Released = {}, NEW g \in Ino, NEW b, NEW blocks, new_block(b, blocks),
         NEW z0 \in Zone, <<z0>> \in Slots(g), NrAt(g, <<z0>>) = 0,
         z0 \in {Direct, Direct + 1} => blocks[b] = ZeroBlock,
         i_zone' = [i_zone EXCEPT ![g][z0] = b], disk' = blocks, i_size' = i_size
  PROVE  Placed(g, <<z0>>, b)
<1>1. i_size[g] \in 0 .. DoubleEnd
  BY DEF Typed, TypeOK
<1>2. b \in Block /\ \A d \in Block : d # b => disk'[d] = disk[d]
  BY NewBlock DEF Typed
<1>3. \A f \in Ino : \A q \in Slots(f) : NrAt(f, q) # b
  BY FreshBlock DEF Typed, HandsOK
<1>4. /\ i_zone \in [Ino -> [Zone -> Word]] /\ i_size \in [Ino -> 0 .. DoubleEnd]
  BY DEF Typed, TypeOK, Zone
<1>5. /\ i_zone'[g] = [i_zone[g] EXCEPT ![z0] = b]
      /\ \A f \in Ino : f # g => i_zone'[f] = i_zone[f]
  BY <1>1, <1>4
<1>6. \A f : Slots(f)' = Slots(f)
  BY PlacesOfFile, PlacesNext
<1>7. ASSUME NEW f \in Ino, NEW q \in Slots(f)
      PROVE  NrIn(i_zone[f], disk', q) = NrAt(f, q)
  <2>1. \A r \in Slots(f) : NrAt(f, r) \in Block => disk'[NrAt(f, r)] = disk[NrAt(f, r)]
    BY <1>2, <1>3
  <2>2. \A r : NrAt(f, r) = NrIn(i_zone[f], disk, r)
    BY PlacesOfFile
  <2>3. Slots(f) = Places(i_size[f])
    BY PlacesOfFile
  <2>4. \A r \in Places(i_size[f]) \cap Inner :
          NrIn(i_zone[f], disk, r) \in Block =>
            disk'[NrIn(i_zone[f], disk, r)] = disk[NrIn(i_zone[f], disk, r)]
    BY <2>1, <2>2, <2>3, Zenon
  <2>5. i_size[f] \in 0 .. DoubleEnd
    BY <1>4
  <2> QED
    BY <2>2, <2>3, <2>4, <2>5, NumbersFrame
<1>8. ASSUME NEW f \in Ino, NEW q \in Slots(f), f # g \/ q # <<z0>>
      PROVE  NrAt(f, q)' = NrAt(f, q)
  <2>1. NrAt(f, q)' = NrIn(i_zone'[f], disk', q)
    BY PlacesNext
  <2>2. CASE f # g
    BY <1>5, <1>7, <2>1, <2>2
  <2>3. CASE f = g /\ q # <<z0>>
    <3>1. i_zone[g] \in [Zone -> Word] /\ i_zone[g][z0] = 0
      <4>1. NrAt(g, <<z0>>) = i_zone[g][z0]
        BY DEF NrAt
      <4> QED
        BY <1>1, <1>4, <4>1
    <3>2. q \in Places(i_size[g])
      BY <2>3, PlacesOfFile, Zenon
    <3>3. NrIn([i_zone[g] EXCEPT ![z0] = b], disk', q) = NrIn(i_zone[g], disk', q)
      BY <1>1, <1>2, <2>3, <3>1, <3>2, RecordedInZone
    <3> QED
      BY <1>5, <1>7, <2>1, <2>3, <3>3
  <2> QED
    BY <1>8, <2>2, <2>3
<1>9. NrAt(g, <<z0>>)' = b
  <2>1. NrAt(g, <<z0>>)' = i_zone'[g][z0]
    BY DEF NrAt
  <2> QED
    BY <1>1, <1>4, <1>5, <2>1
<1>10. ZonesOK'
  <2>1. ASSUME NEW f \in Ino, NEW z \in Zone, i_zone'[f][z] # 0
        PROVE  <<z>> \in Slots(f)'
    <3>1. CASE f = g /\ z = z0
      BY <1>6, <3>1
    <3>2. CASE f # g \/ z # z0
      <4>1. i_zone'[f][z] = i_zone[f][z]
        BY <1>1, <1>4, <1>5, <3>2
      <4> QED
        BY <1>6, <2>1, <4>1 DEF HandsOK, ZonesOK, Zone
    <3> QED
      BY <3>1, <3>2
  <2> QED
    BY <2>1 DEF ZonesOK, Zone
<1> QED
  BY <1>2, <1>3, <1>8, <1>9, <1>10 DEF Placed

Entered(blocks, parent, k, b) == [blocks EXCEPT ![parent][k] = b]

LEMMA AllocInEntry ==
  ASSUME Typed, HandsOK, Released = {}, NEW g \in Ino, NEW b, NEW blocks, new_block(b, blocks),
         NEW q0 \in Slots(g), q0 \in Inner, NEW k0 \in Entry,
         NrAt(g, q0) # 0,
         NEW p \in Slots(g), NrAt(g, p) = 0,
         EntryOf(p, q0, k0, blocks, b),
         disk' = Entered(blocks, NrAt(g, q0), k0, b),
         i_zone' = i_zone, i_size' = i_size
  PROVE  Placed(g, p, b)
<1> DEFINE parent == NrAt(g, q0)
           n == i_size[g]
<1>1. n \in 0 .. DoubleEnd
  BY DEF Typed, TypeOK
<1>2. /\ b \in Block /\ blocks \in [Block -> [Entry -> Word]]
      /\ \A d \in Block : d # b => blocks[d] = disk[d]
  BY NewBlock DEF Typed
<1>3. \A f \in Ino : \A q \in Slots(f) : NrAt(f, q) # b
  BY FreshBlock DEF Typed, HandsOK
<1>4. parent \in Block /\ parent # b
  BY <1>1, <1>3 DEF HandsOK, NumbersOK
<1>5. ASSUME NEW f \in Ino, NEW q \in Slots(f), f # g \/ q # q0 PROVE NrAt(f, q) # parent
  <2>1. <<g, q0>> # <<f, q>>
    BY <1>5
  <2> QED
    BY <1>1, <2>1, Zenon DEF HandsOK, Distinct
<1>6. b \in Word
  BY <1>2, Words
<1>7. /\ disk' \in [Block -> [Entry -> Word]]
      /\ disk'[parent][k0] = b
      /\ \A k \in Entry : k # k0 => disk'[parent][k] = disk[parent][k]
      /\ \A d \in Block : d # parent => disk'[d] = blocks[d]
  <2> HIDE DEF parent
  <2>1. disk' = [blocks EXCEPT ![parent] = [blocks[parent] EXCEPT ![k0] = b]]
    BY Zenon DEF parent, Entered
  <2>2. /\ disk'[parent] = [blocks[parent] EXCEPT ![k0] = b]
        /\ \A d \in Block : d # parent => disk'[d] = blocks[d]
    BY <1>2, <1>4, <2>1
  <2>3. disk' \in [Block -> [Entry -> Word]]
    <3> DEFINE words == [blocks[parent] EXCEPT ![k0] = b]
    <3>1. words \in [Entry -> Word]
      BY <1>2, <1>4, <1>6
    <3> HIDE DEF words
    <3> QED
      BY <1>2, <2>1, <3>1 DEF words
  <2>4. blocks[parent] = disk[parent] /\ disk[parent] \in [Entry -> Word]
    BY <1>2, <1>4 DEF Typed, TypeOK
  <2> QED
    BY <2>2, <2>3, <2>4
<1>8. \A f : Slots(f)' = Slots(f)
  BY PlacesOfFile, PlacesNext
<1>9. ASSUME NEW f \in Ino, f # g, NEW q \in Slots(f) PROVE NrAt(f, q)' = NrAt(f, q)
  <2>1. \A r \in Slots(f) \cap Inner : NrAt(f, r) \in Block => disk'[NrAt(f, r)] = disk[NrAt(f, r)]
    BY <1>2, <1>3, <1>5, <1>7, <1>9
  <2> QED
    BY <2>1, NumbersKept DEF Typed
<1>10. /\ NrAt(g, p)' = b
       /\ \A q \in Slots(g) : q # p => NrAt(g, q)' = NrAt(g, q)
  <2> DEFINE zones == i_zone[g]
  <2>1. \A q : NrAt(g, q) = NrIn(zones, disk, q)
    BY PlacesOfFile
  <2>2. \A q : NrAt(g, q)' = NrIn(zones, disk', q)
    BY PlacesNext
  <2>3. Slots(g) = Places(n)
    BY PlacesOfFile
  <2>4. \A q \in Places(n) : NrIn(zones, disk, q) \in {0} \union Block
    BY <1>1, <2>1, <2>3 DEF HandsOK, NumbersOK
  <2>5. \A q \in Places(n) : /\ NrIn(zones, disk, q) # b
                             /\ q # q0 => NrIn(zones, disk, q) # NrIn(zones, disk, q0)
    BY <1>1, <1>3, <1>5, <2>1, <2>3
  <2>6. NrIn(zones, disk, q0) = parent
    BY <2>1
  <2>7. \A d \in Block \ {b, parent} : disk'[d] = disk[d]
    BY <1>2, <1>7
  <2>8. disk'[b] = blocks[b]
    BY <1>2, <1>4, <1>7
  <2>9. q0 \in Places(n) /\ p \in Places(n) /\ NrIn(zones, disk, p) = 0
    BY <2>1, <2>3
  <2> HIDE DEF zones, parent, n
  <2>10. Records(n, zones, disk, disk', q0, k0, b)
    BY <1>2, <1>4, <1>7, <2>4, <2>5, <2>6, <2>7, <2>9 DEF Records
  <2>11. EntryOf(p, q0, k0, disk', b)
    BY <2>8, Zenon DEF EntryOf
  <2>12. Becomes(n, zones, disk, disk', p, b)
    BY <1>1, <2>9, <2>10, <2>11, RecordedInEntry, Zenon
  <2> QED
    BY <2>1, <2>2, <2>3, <2>12 DEF Becomes
<1>11. ASSUME NEW f \in Ino, NEW q \in Slots(f) \ Inner, NrAt(f, q) \in Block
       PROVE  disk'[NrAt(f, q)] = disk[NrAt(f, q)]
  <2>1. NrAt(f, q) # parent
    BY <1>5, <1>11
  <2>2. NrAt(f, q) # b
    BY <1>3
  <2> QED
    BY <1>2, <1>7, <1>11, <2>1, <2>2
<1>12. ZonesOK'
  BY <1>8 DEF HandsOK, ZonesOK
<1> QED
  BY <1>9, <1>10, <1>11, <1>12 DEF Placed

LEMMA AllocEffect ==
  ASSUME Typed, HandsOK, WriteAlloc, Sound'
  PROVE  \E g \in Ino, b \in Block : \E p :
           /\ g = call.ino /\ Placed(g, p, b)
           /\ listed[b] = 1 /\ listed'[b] = 0
           /\ \A d \in Block : d # b => listed'[d] = listed[d]
           /\ \A f \in Ino : b \notin Held(f)
<1>1. PICK n \in 1 .. 3, b \in Candidates : \E blocks \in Contents(b) :
        /\ Missing(n)
        /\ new_block(b, blocks)
        /\ IF n = 1
           THEN /\ i_zone' = [i_zone EXCEPT ![call.ino][Path(call.i)[1]] = b]
                /\ disk' = blocks
           ELSE /\ disk' = RecordedIn(blocks, n, b)
                /\ UNCHANGED i_zone
        /\ harm' = IF n < Len(Path(call.i)) /\ blocks[b] # ZeroBlock
                   THEN harm \union {"stale"} ELSE harm
  BY Zenon DEF WriteAlloc
<1>2. PICK blocks \in Contents(b) :
        /\ Missing(n)
        /\ new_block(b, blocks)
        /\ IF n = 1
           THEN /\ i_zone' = [i_zone EXCEPT ![call.ino][Path(call.i)[1]] = b]
                /\ disk' = blocks
           ELSE /\ disk' = RecordedIn(blocks, n, b)
                /\ UNCHANGED i_zone
        /\ harm' = IF n < Len(Path(call.i)) /\ blocks[b] # ZeroBlock
                   THEN harm \union {"stale"} ELSE harm
  BY <1>1, Zenon
<1>3. /\ call.step = "write" /\ call.i < i_size[call.ino]
      /\ i_size' = i_size
  BY DEF WriteAlloc, Writing, At
<1>4. call.ino \in Ino /\ call.i \in Nat /\ i_size[call.ino] \in 0 .. DoubleEnd
  BY Calls DEF Typed
<1>5. PICK g \in Ino : g = call.ino
  BY <1>4
<1>6. PICK i : i = call.i
  OBVIOUS
<1>7. i \in 0 .. (i_size[g] - 1) /\ i \in 0 .. (DoubleEnd - 1) /\ i_size[g] \in 0 .. DoubleEnd
  BY <1>3, <1>4, <1>5, <1>6, Ends
<1>8. Released = {}
  BY <1>3 DEF Released
<1>9. Parts(i) \subseteq Slots(g)
  BY <1>7, PathPlace, PlacesOfFile
<1>10. /\ n \in 1 .. Len(Path(i))
       /\ NrAt(g, SubSeq(Path(i), 1, n)) = 0
       /\ \A m \in 1 .. (n - 1) : NrAt(g, SubSeq(Path(i), 1, m)) # 0
  BY <1>2, <1>5, <1>6, Zenon DEF Missing
<1>11. n < Len(Path(i)) => blocks[b] = ZeroBlock
  BY <1>2, <1>6 DEF Sound
<1>12. n = 1 => i_zone' = [i_zone EXCEPT ![g][Path(i)[1]] = b] /\ disk' = blocks
  BY <1>2, <1>5, <1>6, Zenon
<1>13. ASSUME n # 1, NrAt(g, SubSeq(Path(i), 1, n - 1)) \in Block
       PROVE  /\ i_zone' = i_zone
              /\ disk' = Entered(blocks, NrAt(g, SubSeq(Path(i), 1, n - 1)), Path(i)[n], b)
  BY <1>2, <1>5, <1>6, <1>13, Zenon DEF RecordedIn, Entered
<1>14. ASSUME NEW q \in Slots(g), NrAt(g, q) # 0 PROVE NrAt(g, q) \in Block
  BY <1>14 DEF HandsOK, NumbersOK
<1>15. Direct \in Zone /\ Direct + 1 \in Zone /\ 0 .. (Direct - 1) \subseteq Zone
       /\ Direct # Direct + 1 /\ \A z \in 0 .. (Direct - 1) : z # Direct /\ z # Direct + 1
  BY Ends DEF Zone
<1>16. new_block(b, blocks)
  BY <1>2
<1>17. \E p : Placed(g, p, b)
  <2>1. CASE \E z \in 0 .. (Direct - 1) : Path(i) = <<z>> /\ Parts(i) = {<<z>>}
    <3>1. PICK z \in 0 .. (Direct - 1) : Path(i) = <<z>> /\ Parts(i) = {<<z>>}
      BY <2>1
    <3>2. Len(<<z>>) = 1 /\ <<z>>[1] = z
      OBVIOUS
    <3>3. n = 1
      BY <1>10, <3>1, <3>2
    <3>4. NrAt(g, <<z>>) = 0 /\ <<z>> \in Slots(g)
      BY <1>9, <1>10, <3>1, <3>3, Prefixes, Zenon
    <3>5. i_zone' = [i_zone EXCEPT ![g][z] = b] /\ disk' = blocks
      BY <1>12, <3>1, <3>2, <3>3, Zenon
    <3>6. z \in Zone /\ z \notin {Direct, Direct + 1}
      BY <1>15
    <3> QED
      BY <1>3, <1>8, <1>16, <3>4, <3>5, <3>6, AllocInZone
  <2>2. CASE \E k \in Entry : /\ Path(i) = <<Direct, k>>
                              /\ Parts(i) = {<<Direct>>, <<Direct, k>>}
    <3>1. PICK k \in Entry : /\ Path(i) = <<Direct, k>>
                             /\ Parts(i) = {<<Direct>>, <<Direct, k>>}
      BY <2>2
    <3>2. Len(<<Direct, k>>) = 2 /\ <<Direct, k>>[1] = Direct /\ <<Direct, k>>[2] = k
      OBVIOUS
    <3>3. <<Direct>> \in Slots(g) /\ <<Direct, k>> \in Slots(g)
      BY <1>9, <3>1
    <3>4. CASE n = 1
      <4>1. NrAt(g, <<Direct>>) = 0
        BY <1>10, <3>1, <3>4, Prefixes, Zenon
      <4>2. i_zone' = [i_zone EXCEPT ![g][Direct] = b] /\ disk' = blocks
        BY <1>12, <3>1, <3>2, <3>4, Zenon
      <4>3. blocks[b] = ZeroBlock
        BY <1>11, <3>1, <3>2, <3>4
      <4> QED
        BY <1>3, <1>8, <1>15, <1>16, <3>3, <4>1, <4>2, <4>3, AllocInZone
    <3>5. CASE n = 2
      <4>1. n - 1 = 1 /\ 1 \in 1 .. (n - 1) /\ n # 1
        BY <3>5
      <4>2. NrAt(g, <<Direct, k>>) = 0 /\ NrAt(g, <<Direct>>) # 0
        BY <1>10, <3>1, <3>5, <4>1, Prefixes, Zenon
      <4>3. NrAt(g, <<Direct>>) \in Block
        BY <1>14, <3>3, <4>2
      <4>4. /\ i_zone' = i_zone /\ i_size' = i_size
            /\ disk' = Entered(blocks, NrAt(g, <<Direct>>), k, b)
        BY <1>3, <1>13, <3>1, <3>2, <3>5, <4>1, <4>3, Prefixes, Zenon
      <4>5. EntryOf(<<Direct, k>>, <<Direct>>, k, blocks, b) /\ <<Direct>> \in Inner
        BY <1>15, Zenon DEF EntryOf, Inner
      <4> QED
        BY <1>3, <1>8, <1>16, <3>3, <4>2, <4>4, <4>5, AllocInEntry, Zenon
    <3> QED
      BY <1>10, <3>1, <3>2, <3>4, <3>5
  <2>3. CASE \E k \in Entry, m \in Entry :
               /\ Path(i) = <<Direct + 1, k, m>>
               /\ Parts(i) = {<<Direct + 1>>, <<Direct + 1, k>>, <<Direct + 1, k, m>>}
    <3> DEFINE z == Direct + 1
    <3>1. PICK k \in Entry, m \in Entry :
               /\ Path(i) = <<z, k, m>>
               /\ Parts(i) = {<<z>>, <<z, k>>, <<z, k, m>>}
      BY <2>3
    <3>2. Len(<<z, k, m>>) = 3 /\ <<z, k, m>>[1] = z /\ <<z, k, m>>[2] = k
          /\ <<z, k, m>>[3] = m
      OBVIOUS
    <3>3. <<z>> \in Slots(g) /\ <<z, k>> \in Slots(g) /\ <<z, k, m>> \in Slots(g)
      BY <1>9, <3>1
    <3>4. z \in Zone /\ <<z>> \in Inner /\ <<z, k>> \in Inner
      BY <1>15, Zenon DEF Inner
    <3>5. EntryOf(<<z, k, m>>, <<z, k>>, m, blocks, b)
      BY DEF EntryOf
    <3>6. blocks[b] = ZeroBlock => EntryOf(<<z, k>>, <<z>>, k, blocks, b)
      BY Zenon DEF EntryOf
    <3> HIDE DEF z
    <3>7. CASE n = 1
      <4>1. NrAt(g, <<z>>) = 0
        BY <1>10, <3>1, <3>7, Prefixes, Zenon
      <4>2. i_zone' = [i_zone EXCEPT ![g][z] = b] /\ disk' = blocks
        BY <1>12, <3>1, <3>2, <3>7, Zenon
      <4>3. blocks[b] = ZeroBlock
        BY <1>11, <3>1, <3>2, <3>7
      <4> QED
        BY <1>3, <1>8, <1>16, <3>3, <3>4, <4>1, <4>2, <4>3, AllocInZone
    <3>8. CASE n = 2
      <4>1. n - 1 = 1 /\ 1 \in 1 .. (n - 1) /\ n # 1
        BY <3>8
      <4>2. NrAt(g, <<z, k>>) = 0 /\ NrAt(g, <<z>>) # 0
        BY <1>10, <3>1, <3>8, <4>1, Prefixes, Zenon
      <4>3. NrAt(g, <<z>>) \in Block
        BY <1>14, <3>3, <4>2
      <4>4. /\ i_zone' = i_zone /\ i_size' = i_size
            /\ disk' = Entered(blocks, NrAt(g, <<z>>), k, b)
        <5>1. SubSeq(Path(i), 1, n - 1) = <<z>>
          BY <3>1, <4>1, Prefixes, Zenon
        <5>2. Path(i)[n] = k
          BY <3>1, <3>2, <3>8, Zenon
        <5> QED
          BY <1>3, <1>13, <4>1, <4>3, <5>1, <5>2, Zenon
      <4>5. blocks[b] = ZeroBlock
        BY <1>11, <3>1, <3>2, <3>8
      <4>6. EntryOf(<<z, k>>, <<z>>, k, blocks, b)
        BY <3>6, <4>5
      <4> QED
        BY <1>3, <1>8, <1>16, <3>3, <3>4, <4>2, <4>4, <4>6, AllocInEntry, Zenon
    <3>9. CASE n = 3
      <4>1. n - 1 = 2 /\ 2 \in 1 .. (n - 1) /\ n # 1
        BY <3>9
      <4>2. NrAt(g, <<z, k, m>>) = 0 /\ NrAt(g, <<z, k>>) # 0
        BY <1>10, <3>1, <3>9, <4>1, Prefixes, Zenon
      <4>3. NrAt(g, <<z, k>>) \in Block
        BY <1>14, <3>3, <4>2
      <4>4. /\ i_zone' = i_zone /\ i_size' = i_size
            /\ disk' = Entered(blocks, NrAt(g, <<z, k>>), m, b)
        <5>1. SubSeq(Path(i), 1, n - 1) = <<z, k>>
          BY <3>1, <4>1, Prefixes, Zenon
        <5>2. Path(i)[n] = m
          BY <3>1, <3>2, <3>9, Zenon
        <5> QED
          BY <1>3, <1>13, <4>1, <4>3, <5>1, <5>2, Zenon
      <4>5. PICK p, q : p = <<z, k, m>> /\ q = <<z, k>>
        OBVIOUS
      <4>6. /\ EntryOf(p, q, m, blocks, b)
            /\ p \in Slots(g) /\ NrAt(g, p) = 0
            /\ q \in Slots(g) /\ NrAt(g, q) # 0 /\ q \in Inner
            /\ disk' = Entered(blocks, NrAt(g, q), m, b)
        BY <3>3, <3>4, <3>5, <4>2, <4>4, <4>5
      <4> QED
        BY <1>3, <1>8, <1>16, <4>4, <4>6, AllocInEntry, Zenon
    <3> QED
      BY <3>7, <3>8, <3>9
  <2> QED
    BY <1>7, <2>1, <2>2, <2>3, PartsShape, Zenon
<1>18. /\ b \in Block /\ listed[b] = 1 /\ listed'[b] = 0
       /\ \A d \in Block : d # b => listed'[d] = listed[d]
       /\ \A f \in Ino : b \notin Held(f)
  BY <1>8, <1>16, NewBlock, FreshBlock DEF Typed, HandsOK
<1> QED
  BY <1>5, <1>17, <1>18, Zenon

-----------------------------------------------------------------------------
(* What a step keeps.                                                      *)

(* The blocks of data of file f, and what is in them.                      *)
LeavesKept(f) ==
  \A q \in Slots(f) \ Inner : NrAt(f, q) \in Block =>
    NrAt(f, q)' = NrAt(f, q) /\ disk'[NrAt(f, q)] = disk[NrAt(f, q)]

NumbersSame(f) == \A q \in Slots(f) : NrAt(f, q)' = NrAt(f, q)

LEMMA WrittenKept ==
  ASSUME TypeOK, NEW f \in Ino, NEW n \in 0 .. i_size[f], Written(f, n), LeavesKept(f)
  PROVE  Written(f, n)'
<1>1. i_size[f] \in 0 .. DoubleEnd
  BY DEF TypeOK
<1>2. ASSUME NEW i \in 0 .. (n - 1)
      PROVE  /\ NrAt(f, Path(i))' \in Block
             /\ disk'[NrAt(f, Path(i))'] =
                  WithSector(disk'[NrAt(f, Path(i))'], i % 2, TextWord(f, i))
  <2>1. i \in 0 .. (i_size[f] - 1)
    BY <1>1, Ends
  <2>2. Path(i) \in Slots(f) \ Inner
    BY <1>1, <2>1, PathPlace, PlacesOfFile
  <2>3. /\ NrAt(f, Path(i)) \in Block
        /\ disk[NrAt(f, Path(i))] = WithSector(disk[NrAt(f, Path(i))], i % 2, TextWord(f, i))
    BY Zenon DEF Written
  <2> QED
    BY <2>2, <2>3, Zenon DEF LeavesKept
<1> QED
  BY <1>2, Zenon DEF Written

LEMMA WrittenOKKept ==
  ASSUME Typed, WrittenOK, complete' \subseteq complete,
         \A f \in complete' : i_size'[f] = i_size[f] /\ LeavesKept(f),
         call'.step = "write" => call' = call /\ LeavesKept(call.ino)
  PROVE  WrittenOK'
<1>1. ASSUME NEW f \in complete' PROVE Written(f, i_size[f])'
  <2>1. f \in Ino /\ f \in complete
    BY DEF Typed, TypeOK
  <2>2. PICK n : n = i_size[f]
    OBVIOUS
  <2>3. n \in 0 .. i_size[f]
    BY <2>1, <2>2, Ends DEF Typed, TypeOK
  <2>4. Written(f, n)
    BY <2>1, <2>2 DEF WrittenOK
  <2>5. Written(f, n)'
    BY <2>1, <2>3, <2>4, WrittenKept, Zenon DEF Typed
  <2>6. i_size'[f] = n
    BY <2>2
  <2> QED
    BY <2>5, <2>6, Zenon DEF Written
<1>2. ASSUME call'.step = "write" PROVE Written(call.ino, call.i)'
  <2>1. call' = call /\ call.ino \in Ino /\ call.i \in Nat /\ i_size[call.ino] \in 0 .. DoubleEnd
    BY <1>2, Calls DEF Typed
  <2>2. PICK g \in Ino : g = call.ino
    BY <2>1
  <2>3. PICK n : n = call.i
    OBVIOUS
  <2>4. n \in 0 .. i_size[g]
    BY <1>2, <2>1, <2>2, <2>3, Ends DEF Typed, CallOK
  <2>5. Written(g, n) /\ LeavesKept(g)
    BY <1>2, <2>1, <2>2, <2>3 DEF WrittenOK
  <2>6. Written(g, n)'
    BY <2>4, <2>5, WrittenKept, Zenon DEF Typed
  <2>7. call'.ino = g /\ call'.i = n
    BY <2>1, <2>2, <2>3
  <2> QED
    BY <2>6, <2>7, Zenon DEF Written
<1> QED
  BY <1>1, <1>2, Zenon DEF WrittenOK

(* The disk changes at most in a block that is in no hand.                 *)
LEMMA FreshKept ==
  ASSUME TypeOK, NEW f \in Ino, i_zone'[f] = i_zone[f], NEW b,
         \A q \in Slots(f) : NrAt(f, q) # b,
         \A d \in Block : d # b => disk'[d] = disk[d]
  PROVE  NumbersSame(f) /\ LeavesKept(f)
<1>1. \A q \in Slots(f) : NrAt(f, q) \in Block => disk'[NrAt(f, q)] = disk[NrAt(f, q)]
  BY Zenon
<1>2. \A q \in Slots(f) : NrAt(f, q)' = NrAt(f, q)
  BY <1>1, NumbersKept
<1> QED
  BY <1>1, <1>2 DEF NumbersSame, LeavesKept

(* No number of any file changes.                                          *)
LEMMA NumbersStay ==
  ASSUME NumbersOK, Distinct, ZonesOK, i_size' = i_size, i_zone' = i_zone,
         \A f \in Ino : NumbersSame(f)
  PROVE  /\ NumbersOK' /\ Distinct' /\ ZonesOK'
         /\ \A f \in Ino : Slots(f)' = Slots(f) /\ Held(f)' = Held(f)
<1>1. \A f \in Ino : Slots(f)' = Slots(f)
  BY PlacesOfFile, PlacesNext
<1>2. \A f \in Ino : \A q \in Slots(f) : NrAt(f, q)' = NrAt(f, q)
  BY DEF NumbersSame
<1>3. \A f \in Ino : \A q \in Slots(f)' : q \in Slots(f) /\ NrAt(f, q)' = NrAt(f, q)
  BY <1>1, <1>2
<1>4. NumbersOK' /\ Distinct'
  BY <1>3, HandsStep
<1>5. ZonesOK'
  BY <1>1 DEF ZonesOK
<1>6. ASSUME NEW f \in Ino PROVE Held(f)' = Held(f)
  BY <1>1, <1>2, Zenon DEF Held
<1> QED
  BY <1>1, <1>4, <1>5, <1>6

(* Only the command in progress, inodes in use and names change.           *)
LEMMA QuietStep ==
  ASSUME Typed, HandsOK, UNCHANGED <<disk, listed, i_size, i_zone>>,
         Released' = Released, RmWithinSingles'
  PROVE  /\ HandsOK' /\ \A f \in Ino : LeavesKept(f)
         /\ \A f \in Ino : Held(f)' = Held(f)
<1>1. ASSUME NEW f \in Ino PROVE NumbersSame(f) /\ LeavesKept(f)
  <2>1. \A q \in Slots(f) : NrAt(f, q)' = NrAt(f, q)
    BY NumbersKept DEF Typed
  <2> QED
    BY <2>1 DEF NumbersSame, LeavesKept
<1>2. /\ NumbersOK' /\ Distinct' /\ ZonesOK'
      /\ \A f \in Ino : Held(f)' = Held(f)
  BY <1>1, NumbersStay DEF HandsOK
<1>3. ListedFree'
  BY <1>2, Zenon DEF ListedFree, HandsOK
<1>4. ReleasedListed'
  BY DEF ReleasedListed, HandsOK
<1> QED
  BY <1>1, <1>2, <1>3, <1>4 DEF HandsOK

-----------------------------------------------------------------------------
(* Steps that leave blocks, zones and lengths alone.                       *)

LEMMA NoneReleased ==
  /\ ~InRm => Released = {}
  /\ ~InRm' => Released' = {}
  /\ call'.i = 0 => Released' = {}
<1>1. (~InRm => Released = {}) /\ (~InRm' => Released' = {})
  BY Zenon DEF Released, InRm
<1>2. ASSUME call'.i = 0 PROVE Released' = {}
  <2>1. {j \in 0 .. (call'.i - 1) : IsSecondHalf(j)} = {}
    BY <1>2
  <2> QED
    BY <2>1, Zenon DEF Released
<1> QED
  BY <1>1, <1>2

LEMMA ReleasedSame ==
  ASSUME UNCHANGED <<disk, i_zone>>, call'.ino = call.ino, call'.i = call.i, InRm, InRm'
  PROVE  Released' = Released
<1>1. \A q : NrAt(call.ino, q)' = NrAt(call.ino, q)
  BY DEF NrAt, WordOf
<1>2. Released = {NrAt(call.ino, Path(i)) : i \in {j \in 0 .. (call.i - 1) : IsSecondHalf(j)}}
  BY Zenon DEF Released, InRm
<1>3. Released' = {NrAt(call.ino, Path(i))' : i \in {j \in 0 .. (call'.i - 1) : IsSecondHalf(j)}}
  BY Zenon DEF Released, InRm
<1> QED
  BY <1>1, <1>2, <1>3

LEMMA QuietSafe ==
  ASSUME Typed, Safe, harm' = {} => harm = {},
         UNCHANGED <<disk, listed, i_size, i_zone>>,
         Released' = Released, RmWithinSingles', NamesInUse',
         complete' \subseteq complete, call'.step = "write" => call' = call
  PROVE  Safe'
<1>1. /\ HandsOK' /\ \A f \in Ino : LeavesKept(f)
      /\ \A f \in Ino : Held(f)' = Held(f)
  BY QuietStep DEF Safe
<1>2. \A f \in complete' : i_size'[f] = i_size[f] /\ LeavesKept(f)
  BY <1>1 DEF Typed, TypeOK
<1>3. call.ino \in Ino
  BY Calls DEF Typed
<1>4. WrittenOK'
  BY <1>1, <1>2, <1>3, WrittenOKKept DEF Safe
<1>5. NothingLost'
  BY <1>1, Zenon DEF Safe, NothingLost
<1> QED
  BY <1>1, <1>4, <1>5 DEF Safe

LEMMA PanicSafe ==
  ASSUME Typed, Sound => Safe, Sound', Panic PROVE Safe'
<1>1. UNCHANGED <<disk, listed, inode_map, i_size, i_zone, named, call, complete, harm>>
  BY DEF Panic
<1>2. Safe
  BY <1>1 DEF Sound
<1>3. Released' = Released
  BY <1>1, NoneReleased, ReleasedSame DEF InRm
<1>4. RmWithinSingles' /\ NamesInUse'
  BY <1>1, <1>2 DEF Safe, HandsOK, RmWithinSingles, NamesInUse, Sound, InRm
<1> QED
  BY <1>1, <1>2, <1>3, <1>4, QuietSafe

LEMMA RmQuietSafe ==
  ASSUME Typed, Sound => Safe, Sound',
         (\E ino \in Ino : RmBegin(ino)) \/ RmFreeInode \/ RmUnlink \/ PowerCut
  PROVE  Safe'
<1>1. CASE \E ino \in Ino : RmBegin(ino)
  <2>1. PICK ino \in Ino : RmBegin(ino)
    BY <1>1
  <2>2. /\ UNCHANGED <<disk, listed, inode_map, i_size, i_zone, named, harm>>
        /\ call.step = "none" /\ call'.step = "rm" /\ call'.i = 0
        /\ complete' \subseteq complete
    BY <2>1 DEF RmBegin, Idle
  <2>3. Safe
    BY <2>2 DEF Sound
  <2>4. Released = {} /\ Released' = {}
    BY <2>2, NoneReleased DEF InRm
  <2>5. RmWithinSingles' /\ NamesInUse'
    BY <2>2, <2>3, Ends DEF Safe, RmWithinSingles, NamesInUse, Sound, InRm
  <2> QED
    BY <2>2, <2>3, <2>4, <2>5, QuietSafe
<1>2. CASE RmFreeInode
  <2>1. /\ UNCHANGED <<disk, listed, i_size, i_zone, named, complete, harm>>
        /\ call.step = "freeino" /\ call'.step = "unlink" /\ call'.ino = call.ino
        /\ inode_map' = inode_map \ {call.ino}
    BY <1>2, Calls DEF RmFreeInode, GoTo, At, Steps, Typed
  <2>2. Safe
    BY <2>1 DEF Sound
  <2>3. Released = {} /\ Released' = {}
    BY <2>1, NoneReleased DEF InRm
  <2>4. RmWithinSingles' /\ NamesInUse'
    BY <2>1, <2>2 DEF Safe, RmWithinSingles, NamesInUse, Sound, InRm
  <2> QED
    BY <2>1, <2>2, <2>3, <2>4, QuietSafe
<1>3. CASE RmUnlink
  <2>1. /\ UNCHANGED <<disk, listed, inode_map, i_size, i_zone, complete, harm>>
        /\ call.step = "unlink" /\ call'.step = "none"
        /\ named' = named \ {call.ino}
    BY <1>3, Calls DEF RmUnlink, GoTo, At, Steps, Typed
  <2>2. Safe
    BY <2>1 DEF Sound
  <2>3. Released = {} /\ Released' = {}
    BY <2>1, NoneReleased DEF InRm
  <2>4. RmWithinSingles' /\ NamesInUse'
    BY <2>1, <2>2 DEF Safe, RmWithinSingles, NamesInUse, Sound, InRm
  <2> QED
    BY <2>1, <2>2, <2>3, <2>4, QuietSafe
<1>4. CASE PowerCut
  <2>1. /\ UNCHANGED <<disk, listed, inode_map, i_size, i_zone, named, complete>>
        /\ call'.step = "none" /\ harm \subseteq harm'
        /\ Released # {} => "cutrm" \in harm'
        /\ call.step = "unlink" => "badbit" \in harm'
    BY <1>4, Calls DEF PowerCut, GoTo, Steps, Typed
  <2>2. Safe
    BY <2>1 DEF Sound
  <2>3. Released = {} /\ Released' = {} /\ call.step # "unlink"
    BY <2>1, NoneReleased DEF InRm, Sound
  <2>4. RmWithinSingles' /\ NamesInUse'
    BY <2>1, <2>2, <2>3 DEF Safe, RmWithinSingles, NamesInUse, Sound, InRm
  <2>5. harm' = {} => harm = {}
    BY <2>1
  <2> QED
    BY <2>1, <2>2, <2>3, <2>4, <2>5, QuietSafe
<1> QED
  BY <1>1, <1>2, <1>3, <1>4

(* The index block of a file with one level: rm clears the bit of the      *)
(* inode that has the number of the block.                                 *)
LEMMA RmTailSafe ==
  ASSUME Typed, Sound => Safe, Sound', RmTail PROVE Safe'
<1>1. /\ UNCHANGED <<disk, i_size, i_zone, named, complete>>
      /\ call.step = "tail" /\ call'.step = "clear"
      /\ call'.ino = call.ino /\ call'.i = call.i
  BY Calls DEF RmTail, GoTo, At, Steps, Typed
<1>2. harm \subseteq harm'
  BY DEF RmTail, free_inode_of_block
<1>3. Safe
  BY <1>2 DEF Sound
<1>4. call.i = i_size[call.ino] /\ call.i <= SingleEnd /\ call.i \in Nat
  BY <1>1, <1>3, Calls DEF Typed, CallOK, Safe, HandsOK, RmWithinSingles, InRm
<1>5. listed' = listed
  BY <1>4, Ends DEF RmTail
<1>6. inode_map \subseteq inode_map'
  <2>1. \/ inode_map' = inode_map
        \/ \E z : inode_map' = inode_map \ {z} /\ (z \in inode_map => "badbit" \in harm')
    <3>1. ASSUME NEW z, free_inode_of_block(z)
          PROVE  inode_map' = inode_map \ {z} /\ (z \in inode_map => "badbit" \in harm')
      BY <3>1 DEF free_inode_of_block
    <3> QED
      BY <3>1 DEF RmTail
  <2> QED
    BY <2>1 DEF Sound
<1>7. Released' = Released
  BY <1>1, ReleasedSame DEF InRm
<1>8. RmWithinSingles' /\ NamesInUse'
  BY <1>1, <1>2, <1>3, <1>4, <1>6 DEF Safe, RmWithinSingles, NamesInUse, Sound, InRm
<1>9. harm' = {} => harm = {}
  BY <1>2
<1> QED
  BY <1>1, <1>3, <1>5, <1>7, <1>8, <1>9, QuietSafe

-----------------------------------------------------------------------------
(* Steps that take a block from the free list.                             *)

LEMMA HeldNext ==
  ASSUME NEW f, NEW q \in Slots(f)', NrAt(f, q)' # 0
  PROVE  NrAt(f, q)' \in Held(f)'
BY Zenon DEF Held

LEMMA LostBlock ==
  ASSUME Typed, Safe, Released = {}, Released' = {}, RmWithinSingles', NamesInUse',
         NEW b, NEW blocks, new_block(b, blocks), disk' = blocks,
         UNCHANGED <<i_size, i_zone>>, harm' # {}, complete' = complete,
         call'.step = "write" => call' = call
  PROVE  Safe'
<1>1. b \in Block /\ \A d \in Block : d # b => disk'[d] = disk[d] /\ listed'[d] = listed[d]
  BY NewBlock DEF Typed
<1>2. listed'[b] = 0 /\ \A f \in Ino : \A q \in Slots(f) : NrAt(f, q) # b
  BY FreshBlock DEF Typed, Safe, HandsOK
<1>3. ASSUME NEW f \in Ino PROVE NumbersSame(f) /\ LeavesKept(f)
  <2>1. i_zone'[f] = i_zone[f] /\ \A q \in Slots(f) : NrAt(f, q) # b
    BY <1>2
  <2>2. \A d \in Block : d # b => disk'[d] = disk[d]
    BY <1>1
  <2> QED
    BY <2>1, <2>2, FreshKept DEF Typed
<1>4. /\ NumbersOK' /\ Distinct' /\ ZonesOK'
      /\ \A f \in Ino : Held(f)' = Held(f)
  BY <1>3, NumbersStay DEF Safe, HandsOK
<1>5. ListedFree' /\ ReleasedListed'
  <2>1. \A f \in Ino : Held(f)' \subseteq Held(f) \union {b}
    BY <1>4
  <2> QED
    BY <1>1, <1>2, <2>1, ListedStep DEF Typed, Safe, HandsOK
<1>6. WrittenOK'
  <2>1. \A f \in complete' : i_size'[f] = i_size[f] /\ LeavesKept(f)
    BY <1>3 DEF Typed, TypeOK
  <2>2. call.ino \in Ino
    BY Calls DEF Typed
  <2> QED
    BY <1>3, <2>1, <2>2, WrittenOKKept DEF Safe
<1>7. NothingLost'
  BY DEF NothingLost
<1> QED
  BY <1>4, <1>5, <1>6, <1>7 DEF Safe, HandsOK

(* A new inode gets a block; a directory may name it.                      *)
LEMMA MakesSafe ==
  ASSUME Typed, Safe, Sound, call.step = "none", call' = call,
         NEW ino \in Ino, ino # Beyond, MakesInode(ino),
         named' \subseteq named \union {ino},
         harm' = {} => harm = {} /\ ~(i_size[ino] > 0)
  PROVE  Safe'
<1>1. PICK b \in Candidates : \E blocks \in Contents(b) :
        /\ new_block(b, blocks)
        /\ disk' = Recorded(ino, blocks, b)
        /\ inode_map' = inode_map \union ({ino} \ {Beyond})
        /\ i_size' = [i_size EXCEPT ![ino] = SECTOR_PER_BLOCK]
        /\ i_zone' = [i_zone EXCEPT ![ino] =
                        [z \in 0 .. (Direct + 1) |-> IF z = 0 THEN b ELSE 0]]
        /\ complete' = complete \ {ino}
  BY DEF MakesInode
<1>2. PICK blocks : new_block(b, blocks) /\ disk' = blocks
  BY <1>1 DEF Recorded
<1>3. /\ call.step = "none" /\ call' = call
      /\ harm' = {} => harm = {} /\ ~(i_size[ino] > 0)
  OBVIOUS
<1>4. Sound /\ Safe
  OBVIOUS
<1>5. Released = {} /\ Released' = {}
  BY <1>3, NoneReleased DEF InRm
<1>6. b \in Block /\ \A d \in Block : d # b => disk'[d] = disk[d] /\ listed'[d] = listed[d]
  BY <1>2, NewBlock DEF Typed
<1>7. /\ listed'[b] = 0 /\ \A f \in Ino : \A q \in Slots(f) : NrAt(f, q) # b
      /\ \A f \in Ino : b \notin Held(f)
  BY <1>2, <1>4, <1>5, FreshBlock DEF Typed, Safe, HandsOK
<1>8. /\ i_size \in [Ino -> 0 .. DoubleEnd] /\ i_zone \in [Ino -> [Zone -> Word]]
  BY DEF Typed, TypeOK, Zone
<1>9. /\ i_size'[ino] = 2 /\ \A f \in Ino : f # ino => i_size'[f] = i_size[f]
      /\ \A f \in Ino : f # ino => i_zone'[f] = i_zone[f]
      /\ i_zone'[ino] = [z \in Zone |-> IF z = 0 THEN b ELSE 0]
  BY <1>1, <1>8 DEF SECTOR_PER_BLOCK, Zone
<1>10. Slots(ino)' = {<<0>>} /\ NrAt(ino, <<0>>)' = b
  <2>1. Slots(ino)' = {<<0>>}
    BY <1>9, PlacesNext, FirstPlace
  <2>2. NrAt(ino, <<0>>)' = i_zone'[ino][0]
    <3>1. NrAt(ino, <<0>>)' = NrIn(i_zone'[ino], disk', <<0>>)
      BY PlacesNext
    <3> QED
      BY <3>1 DEF NrIn
  <2>3. 0 \in Zone
    BY Ends DEF Zone
  <2> QED
    BY <1>9, <2>1, <2>2, <2>3
<1>11. ASSUME NEW f \in Ino, f # ino
       PROVE  /\ Slots(f)' = Slots(f) /\ i_size'[f] = i_size[f]
              /\ NumbersSame(f) /\ LeavesKept(f)
  <2>1. i_zone'[f] = i_zone[f] /\ \A q \in Slots(f) : NrAt(f, q) # b
    BY <1>7, <1>9, <1>11
  <2>2. \A d \in Block : d # b => disk'[d] = disk[d]
    BY <1>6
  <2>3. NumbersSame(f) /\ LeavesKept(f)
    BY <2>1, <2>2, FreshKept DEF Typed
  <2>4. Slots(f)' = Slots(f)
    BY <1>9, <1>11, PlacesOfFile, PlacesNext
  <2> QED
    BY <1>9, <1>11, <2>3, <2>4
<1>12. NumbersOK' /\ Distinct' /\ \A f \in Ino : Held(f)' \subseteq Held(f) \union {b}
  <2>1. ASSUME NEW f \in Ino, NEW q \in Slots(f)'
        PROVE  \/ q \in Slots(f) /\ NrAt(f, q)' = NrAt(f, q)
               \/ f = ino /\ q = <<0>> /\ NrAt(f, q)' = b
    <3>1. CASE f = ino
      <4>1. q = <<0>>
        BY <1>10, <3>1
      <4> QED
        BY <1>10, <3>1, <4>1
    <3>2. CASE f # ino
      BY <1>11, <3>2 DEF NumbersSame
    <3> QED
      BY <3>1, <3>2
  <2>2. PICK p : p = <<0>>
    OBVIOUS
  <2>3. \A f \in Ino : \A q \in Slots(f)' :
           \/ NrAt(f, q)' = 0
           \/ q \in Slots(f) /\ NrAt(f, q)' = NrAt(f, q)
           \/ f = ino /\ q = p /\ NrAt(f, q)' = b
    BY <2>1, <2>2
  <2>4. NumbersOK /\ Distinct
    BY <1>4 DEF Safe, HandsOK
  <2>5. b \in {0} \union Block
    BY <1>6
  <2> QED
    BY <1>7, <2>3, <2>4, <2>5, HandsStep
<1>13. ListedFree' /\ ReleasedListed'
  BY <1>4, <1>5, <1>6, <1>7, <1>12, ListedStep DEF Typed, Safe, HandsOK
<1>14. ZonesOK'
  <2>1. ASSUME NEW f \in Ino, NEW z \in Zone, i_zone'[f][z] # 0
        PROVE  <<z>> \in Slots(f)'
    <3>1. CASE f = ino
      <4>1. z = 0
        BY <1>9, <2>1, <3>1
      <4> QED
        BY <1>10, <3>1, <4>1
    <3>2. CASE f # ino
      <4>1. i_zone[f][z] # 0
        BY <1>9, <2>1, <3>2
      <4>2. <<z>> \in Slots(f)
        BY <1>4, <4>1 DEF Safe, HandsOK, ZonesOK, Zone
      <4> QED
        BY <1>11, <3>2, <4>2
    <3> QED
      BY <3>1, <3>2
  <2> QED
    BY <2>1 DEF ZonesOK, Zone
<1>15. RmWithinSingles' /\ NamesInUse'
  BY <1>1, <1>4 DEF Safe, RmWithinSingles, NamesInUse, InRm
<1>16. WrittenOK'
  <2>1. \A f \in complete' : i_size'[f] = i_size[f] /\ LeavesKept(f)
    BY <1>1, <1>11 DEF Typed, TypeOK
  <2> QED
    BY <1>1, <1>3, <1>4, <2>1, WrittenOKKept DEF Safe
<1>17. NothingLost'
  <2>1. ASSUME harm' = {}, NEW d \in Block
        PROVE  listed'[d] = 1 \/ \E f \in Ino : d \in Held(f)'
    <3>1. CASE d = b
      <4>1. NrAt(ino, <<0>>)' # 0
        BY <1>6, <1>10, Words
      <4>2. b \in Held(ino)'
        BY <1>10, <4>1, HeldNext
      <4> QED
        BY <3>1, <4>2
    <3>2. CASE d # b /\ listed[d] = 1
      BY <1>6, <3>2
    <3>3. ASSUME NEW f \in Ino, d \in Held(f) PROVE d \in Held(f)'
      <4>1. PICK q \in Slots(f) : NrAt(f, q) = d /\ d # 0
        BY <3>3, InHand
      <4>2. f # ino
        <5>1. i_size[ino] = 0
          BY <1>3, <1>8, <2>1, Ends
        <5>2. Slots(ino) = {}
          BY <5>1, PlacesOfFile, NoPlaces
        <5> QED
          BY <4>1, <5>2
      <4>3. q \in Slots(f)' /\ NrAt(f, q)' = d
        BY <1>11, <4>1, <4>2 DEF NumbersSame
      <4> QED
        BY <4>1, <4>3, HeldNext
    <3>4. harm = {}
      BY <1>3, <2>1
    <3>5. listed[d] = 1 \/ \E f \in Ino : d \in Held(f)
      BY <1>4, <3>4 DEF Safe, NothingLost
    <3> QED
      BY <3>1, <3>2, <3>3, <3>5
  <2> QED
    BY <2>1, Zenon DEF NothingLost
<1> QED
  BY <1>12, <1>13, <1>14, <1>15, <1>16, <1>17 DEF Safe, HandsOK

LEMMA CreatSafe ==
  ASSUME Typed, Sound => Safe, Sound', Creat PROVE Safe'
<1>1. PICK ino \in NewInode :
        /\ MakesInode(ino)
        /\ named' = named \union {ino}
        /\ harm' = harm \union NoNumber(ino)
                        \union (IF i_size[ino] > 0 THEN {"leak"} ELSE {})
  BY Zenon DEF Creat
<1>2. ino \in Ino /\ ino # Beyond /\ Sound
  BY <1>1 DEF NewInode, NoNumber, Sound
<1>3. call.step = "none" /\ call' = call
  BY DEF Creat, Idle
<1>4. harm' = {} => harm = {} /\ ~(i_size[ino] > 0)
  BY <1>1
<1> QED
  BY <1>1, <1>2, <1>3, <1>4, MakesSafe

LEMMA CutSafe ==
  ASSUME Typed, Sound => Safe, Sound', CreatCut \/ WriteAllocCut PROVE Safe'
<1>1. ASSUME call.step \in {"none", "write"}, call'.step = "none",
             harm' = harm \union {"leak"}, inode_map \subseteq inode_map',
             UNCHANGED <<i_size, i_zone, named, complete>>,
             \/ UNCHANGED <<disk, listed>>
             \/ \E b \in Candidates : \E blocks \in Contents(b) :
                  new_block(b, blocks) /\ disk' = blocks
      PROVE  Safe'
  <2>1. Sound /\ Safe /\ harm' # {}
    BY <1>1 DEF Sound
  <2>2. Released = {} /\ Released' = {}
    BY <1>1, NoneReleased DEF InRm
  <2>3. RmWithinSingles' /\ NamesInUse'
    BY <1>1, <2>1 DEF Safe, RmWithinSingles, NamesInUse, InRm
  <2>4. CASE UNCHANGED <<disk, listed>>
    BY <1>1, <2>1, <2>2, <2>3, <2>4, QuietSafe
  <2>5. CASE \E b \in Candidates : \E blocks \in Contents(b) :
               new_block(b, blocks) /\ disk' = blocks
    <3>1. PICK b, blocks : new_block(b, blocks) /\ disk' = blocks
      BY <2>5
    <3> QED
      BY <1>1, <2>1, <2>2, <2>3, <3>1, LostBlock
  <2> QED
    BY <1>1, <2>4, <2>5
<1>2. CASE CreatCut
  <2>1. UNCHANGED <<named, call, running>> /\ call.step = "none"
    BY <1>2 DEF CreatCut, Idle
  <2>2. PICK ino \in NewInode :
          \/ /\ inode_map' = inode_map \union ({ino} \ {Beyond})
             /\ \/ UNCHANGED <<disk, listed>>
                \/ \E b \in Candidates : \E blocks \in Contents(b) :
                     new_block(b, blocks) /\ disk' = blocks
             /\ harm' = harm \union {"leak"}
             /\ UNCHANGED <<i_size, i_zone, complete>>
          \/ /\ MakesInode(ino)
             /\ harm' = harm \union {"leak"} \union NoNumber(ino)
    BY <1>2, Zenon DEF CreatCut
  <2>3. CASE /\ inode_map' = inode_map \union ({ino} \ {Beyond})
             /\ \/ UNCHANGED <<disk, listed>>
                \/ \E b \in Candidates : \E blocks \in Contents(b) :
                     new_block(b, blocks) /\ disk' = blocks
             /\ harm' = harm \union {"leak"}
             /\ UNCHANGED <<i_size, i_zone, complete>>
    BY <1>1, <2>1, <2>3
  <2>4. CASE MakesInode(ino) /\ harm' = harm \union {"leak"} \union NoNumber(ino)
    <3>1. ino \in Ino /\ ino # Beyond /\ Sound /\ harm' # {}
      BY <2>4 DEF NewInode, NoNumber, Sound
    <3> QED
      BY <2>1, <2>4, <3>1, MakesSafe
  <2> QED
    BY <2>2, <2>3, <2>4
<1>3. CASE WriteAllocCut
  <2>1. call'.step = "none" /\ call.step = "write"
    BY <1>3, Calls DEF WriteAllocCut, GoTo, Steps, Typed, Writing, At
  <2> QED
    BY <1>1, <1>3, <2>1 DEF WriteAllocCut
<1> QED
  BY <1>2, <1>3

LEMMA WriteAllocSafe ==
  ASSUME Typed, Sound => Safe, Sound', WriteAlloc PROVE Safe'
<1>1. /\ UNCHANGED <<inode_map, i_size, named, call, complete>>
      /\ harm \subseteq harm' /\ call.step = "write"
  BY DEF WriteAlloc, Writing, At
<1>2. Sound /\ Safe
  BY <1>1 DEF Sound
<1>3. Released = {} /\ Released' = {}
  BY <1>1, NoneReleased DEF InRm
<1>4. PICK g \in Ino, b \in Block : \E p :
        /\ g = call.ino /\ Placed(g, p, b)
        /\ listed[b] = 1 /\ listed'[b] = 0
        /\ \A d \in Block : d # b => listed'[d] = listed[d]
        /\ \A f \in Ino : b \notin Held(f)
  BY <1>2, AllocEffect DEF Safe
<1>5. PICK p : /\ g = call.ino /\ Placed(g, p, b)
               /\ listed[b] = 1 /\ listed'[b] = 0
               /\ \A d \in Block : d # b => listed'[d] = listed[d]
               /\ \A f \in Ino : b \notin Held(f)
  BY <1>4
<1>6. /\ p \in Slots(g) /\ NrAt(g, p) = 0 /\ NrAt(g, p)' = b
      /\ \A f \in Ino : \A q \in Slots(f) :
           f # g \/ q # p => NrAt(f, q)' = NrAt(f, q)
      /\ \A f \in Ino : \A q \in Slots(f) \ Inner :
           NrAt(f, q) \in Block => disk'[NrAt(f, q)] = disk[NrAt(f, q)]
      /\ ZonesOK'
  BY <1>5, Zenon DEF Placed
<1>7. \A f \in Ino : Slots(f)' = Slots(f)
  BY <1>1, PlacesOfFile, PlacesNext
<1>8. NumbersOK' /\ Distinct' /\ \A f \in Ino : Held(f)' \subseteq Held(f) \union {b}
  <2>1. \A f \in Ino : \A q \in Slots(f)' :
           \/ NrAt(f, q)' = 0
           \/ q \in Slots(f) /\ NrAt(f, q)' = NrAt(f, q)
           \/ f = g /\ q = p /\ NrAt(f, q)' = b
    BY <1>6, <1>7
  <2>2. NumbersOK /\ Distinct /\ b \in {0} \union Block
    BY <1>2 DEF Safe, HandsOK
  <2>3. \A f \in Ino : b \notin Held(f)
    BY <1>5
  <2> QED
    BY <2>1, <2>2, <2>3, HandsStep
<1>9. ListedFree' /\ ReleasedListed'
  BY <1>2, <1>3, <1>5, <1>8, ListedStep DEF Typed, Safe, HandsOK
<1>10. RmWithinSingles' /\ NamesInUse'
  BY <1>1, <1>2 DEF Safe, RmWithinSingles, NamesInUse, InRm
<1>11. WrittenOK'
  <2>1. ASSUME NEW f \in Ino, NEW q \in Slots(f) \ Inner, NrAt(f, q) \in Block
        PROVE  NrAt(f, q)' = NrAt(f, q) /\ disk'[NrAt(f, q)] = disk[NrAt(f, q)]
    <3>1. f # g \/ q # p
      BY <1>6, <2>1, Words
    <3> QED
      BY <1>6, <2>1, <3>1
  <2>2. \A f \in Ino : LeavesKept(f)
    BY <2>1, Zenon DEF LeavesKept
  <2>3. \A f \in complete' : i_size'[f] = i_size[f] /\ LeavesKept(f)
    BY <1>1, <2>2 DEF Typed, TypeOK
  <2> QED
    BY <1>1, <1>2, <1>5, <2>2, <2>3, WrittenOKKept DEF Safe
<1>12. NothingLost'
  <2>1. ASSUME harm' = {}, NEW d \in Block
        PROVE  listed'[d] = 1 \/ \E f \in Ino : d \in Held(f)'
    <3>1. CASE d = b
      <4>1. NrAt(g, p)' # 0 /\ p \in Slots(g)'
        BY <1>6, <1>7, Words
      <4>2. b \in Held(g)'
        BY <1>6, <4>1, HeldNext
      <4> QED
        BY <3>1, <4>2
    <3>2. CASE d # b /\ listed[d] = 1
      BY <1>5, <3>2
    <3>3. ASSUME NEW f \in Ino, d \in Held(f) PROVE d \in Held(f)'
      <4>1. PICK q \in Slots(f) : NrAt(f, q) = d /\ d # 0
        BY <3>3, InHand
      <4>2. f # g \/ q # p
        BY <1>6, <4>1
      <4>3. q \in Slots(f)' /\ NrAt(f, q)' = d
        BY <1>6, <1>7, <4>1, <4>2
      <4> QED
        BY <4>1, <4>3, HeldNext
    <3>4. harm = {}
      BY <1>1, <2>1
    <3>5. listed[d] = 1 \/ \E f \in Ino : d \in Held(f)
      BY <1>2, <3>4 DEF Safe, NothingLost
    <3> QED
      BY <3>1, <3>2, <3>3, <3>5
  <2> QED
    BY <2>1, Zenon DEF NothingLost
<1> QED
  BY <1>6, <1>8, <1>9, <1>10, <1>11, <1>12 DEF Safe, HandsOK

-----------------------------------------------------------------------------
(* A file that has just been created is given its length.                  *)
LEMMA WriteBeginSafe ==
  ASSUME Typed, Sound => Safe, Sound', NEW ino \in Ino, NEW len \in Lens,
         WriteBegin(ino, len)
  PROVE  Safe'
<1>1. /\ UNCHANGED <<disk, listed, inode_map, i_zone, named, complete, harm>>
      /\ call.step = "none" /\ call'.step = "write" /\ call'.i = 0
      /\ ino \notin complete /\ i_size[ino] = 2
      /\ i_size' = [i_size EXCEPT ![ino] = len]
  BY DEF WriteBegin, Idle, SECTOR_PER_BLOCK
<1>2. Sound /\ Safe
  BY <1>1 DEF Sound
<1>3. Released = {} /\ Released' = {}
  BY <1>1, NoneReleased DEF InRm
<1>4. len \in 1 .. DoubleEnd /\ len \in 0 .. DoubleEnd
  BY FileMapAssumption, Ends
<1>5. i_size'[ino] = len /\ \A f \in Ino : f # ino => i_size'[f] = i_size[f]
  BY <1>1 DEF Typed, TypeOK
<1>6. \A f : \A q : NrAt(f, q)' = NrAt(f, q)
  BY <1>1 DEF NrAt, WordOf
<1>7. Slots(ino) = {<<0>>} /\ Slots(ino)' = Places(len) /\ <<0>> \in Places(len)
  BY <1>1, <1>4, <1>5, PlacesOfFile, PlacesNext, FirstPlace
<1>8. \A f \in Ino : f # ino => Slots(f)' = Slots(f)
  BY <1>5, PlacesOfFile, PlacesNext
<1>9. ASSUME NEW q \in Slots(ino)' PROVE q \in Slots(ino) \/ NrAt(ino, q)' = 0
  <2> SUFFICES ASSUME NrAt(ino, q) # 0 PROVE q \in Slots(ino)
    BY <1>6
  <2> DEFINE zones == i_zone[ino]
  <2>1. q \in Places(len) /\ NrIn(zones, disk, q) # 0
    BY <1>7, PlacesOfFile
  <2>2. ASSUME NEW z \in Zone, zones[z] # 0 PROVE <<z>> \in Slots(ino)
    BY <1>2, <2>2 DEF Safe, HandsOK, ZonesOK, Zone
  <2>3. \A z \in {Direct, Direct + 1} : z \in Zone /\ z # 0
    BY Ends DEF Zone
  <2> HIDE DEF zones
  <2>4. CASE \E z \in Zone : q = <<z>> /\ zones[z] # 0
    BY <2>2, <2>4
  <2>5. CASE \E z \in {Direct, Direct + 1} : zones[z] # 0
    <3>1. PICK z \in {Direct, Direct + 1} : zones[z] # 0
      BY <2>5
    <3>2. <<z>> \in {<<0>>}
      BY <1>7, <2>2, <2>3, <3>1
    <3> QED
      BY <2>3, <3>2
  <2> QED
    BY <1>4, <2>1, <2>4, <2>5, ZeroBehind, Zenon
<1>10. NumbersOK' /\ Distinct' /\ \A f \in Ino : Held(f)' \subseteq Held(f) \union {0}
  <2>1. ASSUME NEW f \in Ino, NEW q \in Slots(f)'
        PROVE  NrAt(f, q)' = 0 \/ (q \in Slots(f) /\ NrAt(f, q)' = NrAt(f, q))
    <3>1. CASE f = ino
      BY <1>6, <1>9, <3>1
    <3>2. CASE f # ino
      BY <1>6, <1>8, <3>2
    <3> QED
      BY <3>1, <3>2
  <2>2. NumbersOK /\ Distinct
    BY <1>2 DEF Safe, HandsOK
  <2>3. PICK b : b = 0
    OBVIOUS
  <2>4. /\ b \in {0} \union Block
        /\ b # 0 => \A f \in Ino : b \notin Held(f)
        /\ \A f \in Ino : \A q \in Slots(f)' :
             \/ NrAt(f, q)' = 0
             \/ q \in Slots(f) /\ NrAt(f, q)' = NrAt(f, q)
             \/ f = ino /\ q = 0 /\ NrAt(f, q)' = b
    BY <2>1, <2>3
  <2>5. NumbersOK' /\ Distinct' /\ \A f \in Ino : Held(f)' \subseteq Held(f) \union {b}
    BY <2>2, <2>4, HandsStep
  <2> QED
    BY <2>3, <2>5
<1>11. ListedFree' /\ ReleasedListed'
  BY <1>1, <1>2, <1>3, <1>10, ListedStep DEF Typed, Safe, HandsOK
<1>12. \A f \in Ino : \A q \in Slots(f) : q \in Slots(f)'
  BY <1>7, <1>8
<1>13. ZonesOK'
  BY <1>1, <1>2, <1>12 DEF Safe, HandsOK, ZonesOK
<1>14. RmWithinSingles' /\ NamesInUse'
  BY <1>1, <1>2 DEF Safe, RmWithinSingles, NamesInUse, InRm
<1>15. WrittenOK'
  <2>1. ASSUME NEW f \in complete PROVE Written(f, i_size[f])' /\ i_size'[f] = i_size[f]
    <3>1. f # ino /\ f \in Ino
      BY <1>1 DEF Typed, TypeOK
    <3>2. i_size'[f] = i_size[f]
      BY <1>5, <3>1
    <3>3. Written(f, i_size[f])
      BY <1>2 DEF Safe, WrittenOK
    <3> QED
      BY <1>1, <1>6, <3>2, <3>3 DEF Written
  <2>2. Written(call.ino, call.i)'
    <3>1. 0 .. (call'.i - 1) = {}
      BY <1>1
    <3> QED
      BY <3>1, Zenon DEF Written
  <2> QED
    BY <1>1, <2>1, <2>2 DEF WrittenOK
<1>16. NothingLost'
  <2>1. ASSUME NEW f \in Ino, NEW d \in Held(f) PROVE d \in Held(f)'
    <3>1. PICK q \in Slots(f) : NrAt(f, q) = d /\ d # 0
      BY InHand
    <3> QED
      BY <1>6, <1>12, <3>1, HeldNext
  <2> QED
    BY <1>1, <1>2, <2>1, Zenon DEF Safe, NothingLost
<1> QED
  BY <1>10, <1>11, <1>13, <1>14, <1>15, <1>16 DEF Safe, HandsOK

LEMMA WriteEndSafe ==
  ASSUME Typed, Sound => Safe, Sound', WriteEnd PROVE Safe'
<1>1. /\ UNCHANGED <<disk, listed, inode_map, i_size, i_zone, named, harm>>
      /\ call.step = "write" /\ call'.step = "none" /\ call.i = i_size[call.ino]
      /\ complete' = complete \union {call.ino}
  BY Calls DEF WriteEnd, GoTo, At, Steps, Typed
<1>2. Sound /\ Safe
  BY <1>1 DEF Sound
<1>3. Released = {} /\ Released' = {}
  BY <1>1, NoneReleased DEF InRm
<1>4. RmWithinSingles' /\ NamesInUse'
  BY <1>1, <1>2 DEF Safe, RmWithinSingles, NamesInUse, InRm
<1>5. HandsOK' /\ \A f \in Ino : Held(f)' = Held(f)
  BY <1>1, <1>2, <1>3, <1>4, QuietStep DEF Safe
<1>6. \A f : \A q : NrAt(f, q)' = NrAt(f, q)
  BY <1>1 DEF NrAt, WordOf
<1>7. ASSUME NEW f \in complete' PROVE Written(f, i_size[f])'
  <2>1. Written(f, i_size[f])
    BY <1>1, <1>2 DEF Safe, WrittenOK
  <2> QED
    BY <1>1, <1>6, <2>1 DEF Written
<1>8. WrittenOK'
  BY <1>1, <1>7 DEF WrittenOK
<1>9. NothingLost'
  BY <1>1, <1>2, <1>5, Zenon DEF Safe, NothingLost
<1> QED
  BY <1>4, <1>5, <1>8, <1>9 DEF Safe

-----------------------------------------------------------------------------
(* Steps that write half a block of data.                                  *)

(* Of the disk only the block of one sector changes.                       *)
LEMMA LeafChange ==
  ASSUME Typed, HandsOK, NEW g \in Ino, NEW i \in 0 .. (i_size[g] - 1),
         \A d \in Block : d # NrAt(g, Path(i)) => disk'[d] = disk[d], i_zone' = i_zone
  PROVE  /\ \A f \in Ino : NumbersSame(f)
         /\ \A f \in Ino : \A q \in Slots(f) : f # g \/ q # Path(i) =>
              (NrAt(f, q) \in Block => disk'[NrAt(f, q)] = disk[NrAt(f, q)])
<1>1. i_size[g] \in 0 .. DoubleEnd
  BY DEF Typed, TypeOK
<1>2. Path(i) \in Slots(g) /\ Path(i) \notin Inner
  BY <1>1, PathPlace, PlacesOfFile
<1>3. ASSUME NEW f \in Ino, NEW q \in Slots(f), f # g \/ q # Path(i), NrAt(f, q) \in Block
      PROVE  disk'[NrAt(f, q)] = disk[NrAt(f, q)]
  <2>1. <<f, q>> # <<g, Path(i)>>
    BY <1>3
  <2>2. NrAt(f, q) # 0
    BY <1>3, Words
  <2>3. NrAt(f, q) # NrAt(g, Path(i))
    BY <1>2, <2>1, <2>2, Zenon DEF HandsOK, Distinct
  <2> QED
    BY <1>3, <2>3
<1>4. ASSUME NEW f \in Ino PROVE NumbersSame(f)
  <2>1. \A q \in Slots(f) \cap Inner :
          NrAt(f, q) \in Block => disk'[NrAt(f, q)] = disk[NrAt(f, q)]
    BY <1>2, <1>3
  <2> QED
    BY <2>1, NumbersKept DEF Typed, NumbersSame
<1> QED
  BY <1>3, <1>4

LEMMA LeafStep ==
  ASSUME Typed, HandsOK, NEW g \in Ino, NEW i \in 0 .. (i_size[g] - 1), NEW h, NEW w,
         disk' = PutSectorIn(disk, NrAt(g, Path(i)), h, w), i_zone' = i_zone
  PROVE  /\ \A f \in Ino : NumbersSame(f)
         /\ \A f \in Ino : \A q \in Slots(f) : f # g \/ q # Path(i) =>
              (NrAt(f, q) \in Block => disk'[NrAt(f, q)] = disk[NrAt(f, q)])
         /\ NrAt(g, Path(i)) \in Block =>
              disk'[NrAt(g, Path(i))] = WithSector(disk[NrAt(g, Path(i))], h, w)
<1> DEFINE b == NrAt(g, Path(i))
<1>1. /\ b \in Block => disk'[b] = WithSector(disk[b], h, w)
      /\ \A d \in Block : d # b => disk'[d] = disk[d]
  <2>1. disk \in [Block -> [Entry -> Word]]
    BY DEF Typed, TypeOK
  <2>2. disk' = PutSectorIn(disk, b, h, w)
    OBVIOUS
  <2> HIDE DEF b
  <2> QED
    BY <2>1, <2>2 DEF PutSectorIn
<1> QED
  BY <1>1, LeafChange

LEMMA Halves ==
  ASSUME NEW words, NEW h, NEW w
  PROVE  /\ WithSector(WithSector(words, h, w), h, w) = WithSector(words, h, w)
         /\ \A l, v : (words = WithSector(words, l, v) /\ l # h) =>
              WithSector(WithSector(words, h, w), l, v) = WithSector(words, h, w)
<1>1. WithSector(WithSector(words, h, w), h, w) = WithSector(words, h, w)
  BY DEF WithSector
<1>2. ASSUME NEW l, NEW v, words = WithSector(words, l, v), l # h
      PROVE  WithSector(WithSector(words, h, w), l, v) = WithSector(words, h, w)
  <2>1. \A k \in Entry : (2 * k) \div Fanout = l => words[k] = v
    BY <1>2 DEF WithSector
  <2> QED
    BY <1>2, <2>1 DEF WithSector
<1> QED
  BY <1>1, <1>2

(* Sector i of file f is on disk as it was written.                        *)
SectorOK(f, i) ==
  LET b == NrAt(f, Path(i))
  IN  b \in Block /\ disk[b] = WithSector(disk[b], i % 2, TextWord(f, i))

LEMMA SectorNext ==
  ASSUME Typed, HandsOK, NEW g \in Ino, NEW i \in 0 .. (i_size[g] - 1),
         disk' = PutSectorIn(disk, NrAt(g, Path(i)), i % 2, TextWord(g, i)),
         i_zone' = i_zone, NrAt(g, Path(i)) \in Block,
         NEW f \in Ino, NEW j \in 0 .. (i_size[f] - 1),
         SectorOK(f, j) \/ (f = g /\ j = i)
  PROVE  SectorOK(f, j)'
<1>1. i_size[f] \in 0 .. DoubleEnd /\ i_size[g] \in 0 .. DoubleEnd
  BY DEF Typed, TypeOK
<1>2. /\ i_size[f] \in 0 .. DoubleEnd
      /\ i \in 0 .. (DoubleEnd - 1) /\ j \in 0 .. (DoubleEnd - 1)
      /\ i \in Nat /\ j \in Nat
  BY <1>1, Ends
<1>3. Path(j) \in Slots(f)
  BY <1>2, PathPlace, PlacesOfFile
<1>4. /\ NumbersSame(f)
      /\ \A q \in Slots(f) : f # g \/ q # Path(i) =>
              (NrAt(f, q) \in Block => disk'[NrAt(f, q)] = disk[NrAt(f, q)])
      /\ disk'[NrAt(g, Path(i))]
           = WithSector(disk[NrAt(g, Path(i))], i % 2, TextWord(g, i))
  BY LeafStep
<1>5. NrAt(f, Path(j))' = NrAt(f, Path(j))
  BY <1>3, <1>4, Zenon DEF NumbersSame
<1> DEFINE b == NrAt(f, Path(j))
<1>6. CASE f = g /\ Path(j) = Path(i)
  <2>1. b = NrAt(g, Path(i)) /\ b \in Block
    BY <1>6, Zenon
  <2>2. disk'[b] = WithSector(disk[b], i % 2, TextWord(g, i))
    BY <1>4, <2>1, Zenon
  <2>3. CASE j = i
    <3>1. disk'[b] = WithSector(disk'[b], j % 2, TextWord(f, j))
      <4>1. disk'[b] = WithSector(disk[b], j % 2, TextWord(f, j))
        BY <1>6, <2>2, <2>3, Zenon
      <4> HIDE DEF b
      <4> QED
        BY <4>1, Halves
    <3> QED
      BY <1>5, <2>1, <3>1, Zenon DEF SectorOK
  <2>4. CASE j # i
    <3>1. j % 2 # i % 2
      <4>1. i \div 2 = j \div 2
        BY <1>2, <1>6, PathInjective
      <4> QED
        BY <1>2, <2>4, <4>1, BlockOfSector
    <3>2. disk[b] = WithSector(disk[b], j % 2, TextWord(f, j))
      BY <2>4, Zenon DEF SectorOK
    <3>3. disk'[b] = WithSector(disk'[b], j % 2, TextWord(f, j))
      <4> DEFINE words == disk[b]
      <4>1. WithSector(WithSector(words, i % 2, TextWord(g, i)), j % 2, TextWord(f, j))
              = WithSector(words, i % 2, TextWord(g, i))
        BY <3>1, <3>2, Halves
      <4> QED
        BY <2>2, <4>1, Zenon
    <3> QED
      BY <1>5, <2>1, <3>3, Zenon DEF SectorOK
  <2> QED
    BY <2>3, <2>4
<1>7. CASE ~(f = g /\ Path(j) = Path(i))
  <2>1. b \in Block /\ disk[b] = WithSector(disk[b], j % 2, TextWord(f, j))
    BY <1>7, Zenon DEF SectorOK
  <2>2. disk'[b] = disk[b]
    BY <1>3, <1>7, <1>4, <2>1, Zenon
  <2> QED
    BY <1>5, <2>1, <2>2, Zenon DEF SectorOK
<1> QED
  BY <1>6, <1>7

LEMMA WriteSectorSafe ==
  ASSUME Typed, Sound => Safe, Sound', WriteSector PROVE Safe'
<1>1. /\ UNCHANGED <<listed, inode_map, i_size, i_zone, named, complete, harm>>
      /\ call.step = "write" /\ call.i < i_size[call.ino]
      /\ disk' = PutSectorIn(disk, NrAt(call.ino, Path(call.i)),
                             call.i % 2, TextWord(call.ino, call.i))
      /\ \A q \in Parts(call.i) : NrAt(call.ino, q) # 0
  BY DEF WriteSector, Writing, At
<1>2. call'.step = "write" /\ call'.ino = call.ino /\ call'.i = call.i + 1
  BY <1>1 DEF WriteSector, NextSector, Typed, TypeOK
<1>3. Sound /\ Safe
  BY <1>1 DEF Sound
<1>4. PICK g \in Ino : g = call.ino
  BY Calls DEF Typed
<1>5. PICK i \in Nat : i = call.i
  BY Calls DEF Typed
<1>6. /\ i_size[g] \in 0 .. DoubleEnd /\ i \in 0 .. (i_size[g] - 1)
      /\ i \in 0 .. (DoubleEnd - 1)
  BY <1>1, <1>4, <1>5, Calls, Ends DEF Typed
<1>7. NrAt(g, Path(i)) \in Block
  <2>1. Path(i) \in Slots(g)
    BY <1>6, PathPlace, PlacesOfFile
  <2>2. Path(i) \in Parts(i)
    BY <1>6, PartsShape, Zenon
  <2>3. NrAt(g, Path(i)) # 0
    BY <1>1, <1>4, <1>5, <2>2, Zenon
  <2> QED
    BY <1>3, <2>1, <2>3 DEF Safe, HandsOK, NumbersOK
<1>8. disk' = PutSectorIn(disk, NrAt(g, Path(i)), i % 2, TextWord(g, i))
  BY <1>1, <1>4, <1>5, Zenon
<1>9. \A f \in Ino : NumbersSame(f)
  BY <1>1, <1>3, <1>6, <1>8, LeafStep, Zenon DEF Safe
<1>10. /\ NumbersOK' /\ Distinct' /\ ZonesOK'
       /\ \A f \in Ino : Held(f)' = Held(f)
  BY <1>1, <1>3, <1>9, NumbersStay DEF Safe, HandsOK
<1>11. ListedFree' /\ ReleasedListed'
  <2>1. Released = {} /\ Released' = {}
    BY <1>1, <1>2, NoneReleased DEF InRm
  <2> QED
    BY <1>1, <1>3, <1>10, <2>1 DEF Safe, HandsOK, ListedFree, ReleasedListed
<1>12. RmWithinSingles' /\ NamesInUse'
  BY <1>1, <1>2, <1>3 DEF Safe, RmWithinSingles, NamesInUse, InRm
<1>13. ASSUME NEW f \in Ino, NEW j \in 0 .. (i_size[f] - 1), SectorOK(f, j) \/ (f = g /\ j = i)
       PROVE  SectorOK(f, j)'
  BY <1>1, <1>3, <1>6, <1>7, <1>8, <1>13, SectorNext, Zenon DEF Safe
<1>14. WrittenOK'
  <2>1. ASSUME NEW f \in complete PROVE Written(f, i_size[f])'
    <3>1. f \in Ino
      BY DEF Typed, TypeOK
    <3>2. \A j \in 0 .. (i_size[f] - 1) : SectorOK(f, j)
      BY <1>3, Zenon DEF Safe, WrittenOK, Written, SectorOK
    <3>3. \A j \in 0 .. (i_size[f] - 1) : SectorOK(f, j)'
      BY <1>13, <3>1, <3>2, Zenon
    <3>4. i_size' = i_size
      BY <1>1
    <3> QED
      BY <3>3, <3>4, Zenon DEF Written, SectorOK
  <2>2. Written(call.ino, call.i)'
    <3>1. \A j \in 0 .. (i - 1) : SectorOK(g, j)
      BY <1>1, <1>3, <1>4, <1>5, Zenon DEF Safe, WrittenOK, Written, SectorOK
    <3>2. ASSUME NEW j \in 0 .. ((i + 1) - 1) PROVE SectorOK(g, j)'
      <4>1. j \in 0 .. (i_size[g] - 1) /\ (j \in 0 .. (i - 1) \/ j = i)
        BY <1>6, Ends
      <4> QED
        BY <1>13, <3>1, <4>1, Zenon
    <3>3. call'.ino = g /\ call'.i = i + 1
      BY <1>2, <1>4, <1>5
    <3> QED
      BY <3>2, <3>3, Zenon DEF Written, SectorOK
  <2> QED
    BY <1>1, <2>1, <2>2 DEF WrittenOK
<1>15. NothingLost'
  BY <1>1, <1>3, <1>10, Zenon DEF Safe, NothingLost
<1> QED
  BY <1>10, <1>11, <1>12, <1>14, <1>15 DEF Safe, HandsOK

-----------------------------------------------------------------------------
(* rm.                                                                     *)

LEMMA ReleasedInRm ==
  ASSUME NEW g
  PROVE  /\ (InRm /\ g = call.ino) => \A d : d \in Released <=>
              \E j \in 0 .. (call.i - 1) : j % 2 = 1 /\ d = NrAt(g, Path(j))
         /\ (InRm' /\ g = call'.ino) => \A d : d \in Released' <=>
              \E j \in 0 .. (call'.i - 1) : j % 2 = 1 /\ d = NrAt(g, Path(j))'
<1>1. \A j : IsSecondHalf(j) <=> j % 2 = 1
  BY DEF IsSecondHalf, SECTOR_PER_BLOCK
<1>2. ASSUME InRm, g = call.ino
      PROVE  \A d : d \in Released <=>
               \E j \in 0 .. (call.i - 1) : j % 2 = 1 /\ d = NrAt(g, Path(j))
  <2>1. Released = {NrAt(g, Path(i)) : i \in {j \in 0 .. (call.i - 1) : IsSecondHalf(j)}}
    BY <1>2, Zenon DEF Released, InRm
  <2> QED
    BY <1>1, <2>1, Zenon
<1>3. ASSUME InRm', g = call'.ino
      PROVE  \A d : d \in Released' <=>
               \E j \in 0 .. (call'.i - 1) : j % 2 = 1 /\ d = NrAt(g, Path(j))'
  <2>1. \A q : NrAt(call.ino, q)' = NrAt(g, q)'
    BY <1>3 DEF NrAt
  <2>2. Released' = {NrAt(call.ino, Path(i))' : i \in {j \in 0 .. (call'.i - 1) : IsSecondHalf(j)}}
    BY <1>3, Zenon DEF Released, InRm
  <2>3. Released' = {NrAt(g, Path(i))' : i \in {j \in 0 .. (call'.i - 1) : IsSecondHalf(j)}}
    BY <2>1, <2>2
  <2> QED
    BY <1>1, <2>3, Zenon
<1> QED
  BY <1>2, <1>3

LEMMA FreeOne ==
  ASSUME TypeOK, NEW b, NEW d \in Block
  PROVE  FreeBlocks(<<b>>)[d] = IF d = b THEN listed[d] + 1 ELSE listed[d]
<1>1. listed[d] \in Nat
  BY DEF TypeOK
<1>2. DOMAIN <<b>> = {1} /\ <<b>>[1] = b
  OBVIOUS
<1>3. FreeBlocks(<<b>>)[d] = listed[d] + Cardinality({k \in {1} : <<b>>[k] = d})
  BY <1>2 DEF FreeBlocks
<1>4. CASE d = b
  <2>1. {k \in {1} : <<b>>[k] = d} = {1}
    BY <1>2, <1>4
  <2>2. Cardinality({1}) = 1
    BY FS_Singleton
  <2> QED
    BY <1>3, <1>4, <2>1, <2>2
<1>5. CASE d # b
  <2>1. {k \in {1} : <<b>>[k] = d} = {}
    BY <1>2, <1>5
  <2>2. Cardinality({}) = 0
    BY FS_EmptySet
  <2> QED
    BY <1>1, <1>3, <1>5, <2>1, <2>2
<1> QED
  BY <1>4, <1>5

(* rm goes on with its sector: the disk changes at most in the block, and  *)
(* the block may be listed when both its sectors are done.                 *)
LEMMA RmStepSafe ==
  ASSUME Typed, Safe, Sound, call.step \in {"rm", "free"},
         UNCHANGED <<inode_map, i_size, i_zone, named, complete, harm>>,
         \A d \in Block : d # Current => disk'[d] = disk[d],
         call'.ino = call.ino, call'.step \in {"rm", "free", "singles", "tail"},
         RmWithinSingles',
         \/ /\ listed' = listed
            /\ call'.i = call.i \/ (call.i % 2 # 1 /\ call'.i = call.i + 1)
         \/ /\ listed' = FreeBlocks(<<Current>>)
            /\ call.i % 2 = 1 /\ call'.i = call.i + 1
  PROVE  Safe'
<1>1. Sound /\ Safe /\ InRm /\ InRm'
  BY DEF InRm
<1>2. PICK g \in Ino : g = call.ino
  BY Calls DEF Typed
<1>3. PICK i \in Nat : i = call.i
  BY Calls DEF Typed
<1>4. i < SingleEnd /\ i < i_size[g] /\ g \notin complete
  BY <1>1, <1>2, <1>3 DEF Typed, CallOK, Safe, HandsOK, RmWithinSingles
<1>5. /\ i_size[g] \in 0 .. DoubleEnd /\ i \in 0 .. (i_size[g] - 1)
      /\ i \in 0 .. (DoubleEnd - 1)
  BY <1>2, <1>3, <1>4, Calls, Ends DEF Typed
<1>6. \A d \in Block : d # NrAt(g, Path(i)) => disk'[d] = disk[d]
  BY <1>2, <1>3, Zenon DEF Current
<1>7. /\ \A f \in Ino : NumbersSame(f)
      /\ \A f \in Ino : \A q \in Slots(f) : f # g \/ q # Path(i) =>
            (NrAt(f, q) \in Block => disk'[NrAt(f, q)] = disk[NrAt(f, q)])
  BY <1>1, <1>5, <1>6, LeafChange DEF Safe
<1>8. /\ NumbersOK' /\ Distinct' /\ ZonesOK'
       /\ \A f \in Ino : Held(f)' = Held(f)
  BY <1>1, <1>7, NumbersStay DEF Safe, HandsOK
<1> DEFINE b == NrAt(g, Path(i))
<1>9. \A j \in 0 .. i : Path(j) \in Slots(g) /\ NrAt(g, Path(j))' = NrAt(g, Path(j))
  <2>1. ASSUME NEW j \in 0 .. i PROVE Path(j) \in Slots(g)
    <3>1. j \in 0 .. (i_size[g] - 1)
      BY <1>5, Ends
    <3> QED
      BY <1>5, <3>1, PathPlace, PlacesOfFile
  <2> QED
    BY <1>7, <2>1 DEF NumbersSame
<1>10. \A d : d \in Released <=> \E j \in 0 .. (i - 1) : j % 2 = 1 /\ d = NrAt(g, Path(j))
  BY <1>1, <1>2, <1>3, ReleasedInRm, Zenon
<1>11. call'.i \in {i, i + 1}
  BY <1>3
<1>12. \A d : d \in Released' <=>
              \E j \in 0 .. (call'.i - 1) : j % 2 = 1 /\ d = NrAt(g, Path(j))
  <2>1. \A d : d \in Released' <=>
          \E j \in 0 .. (call'.i - 1) : j % 2 = 1 /\ d = NrAt(g, Path(j))'
    BY <1>1, <1>2, ReleasedInRm, Zenon
  <2>2. 0 .. (call'.i - 1) \subseteq 0 .. i
    BY <1>11
  <2> QED
    BY <1>9, <2>1, <2>2
<1>13. ListedFree' /\ ReleasedListed'
  <2>1. CASE listed' = FreeBlocks(<<Current>>) /\ i % 2 = 1 /\ call'.i = i + 1
    <3>1. \A d : d \in Released' <=> d \in Released \/ d = b
      <4>1. 0 .. (call'.i - 1) = 0 .. i
        BY <2>1
      <4> QED
        BY <1>10, <1>12, <2>1, <4>1
    <3>2. \A d \in Block : listed'[d] = IF d = b THEN listed[d] + 1 ELSE listed[d]
      BY <1>2, <1>3, <2>1, FreeOne DEF Typed, Current
    <3>3. ASSUME b \in Block PROVE b \notin Released
      <4> SUFFICES ASSUME b \in Released PROVE FALSE
        OBVIOUS
      <4>1. PICK j \in 0 .. (i - 1) : j % 2 = 1 /\ b = NrAt(g, Path(j))
        BY <1>10
      <4>2. j \in 0 .. i /\ j \in 0 .. (DoubleEnd - 1) /\ j \in Nat /\ j # i
        BY <1>5, Ends
      <4>3. Path(j) = Path(i)
        <5>1. Path(j) \in Slots(g) /\ Path(i) \in Slots(g)
          BY <1>9, <4>2
        <5>2. b # 0
          BY <3>3, Words
        <5>3. <<g, Path(j)>> # <<g, Path(i)>> => FALSE
          BY <1>1, <4>1, <5>1, <5>2, Zenon DEF Safe, HandsOK, Distinct
        <5> QED
          BY <5>3
      <4>4. j \div 2 = i \div 2
        BY <1>5, <4>2, <4>3, PathInjective
      <4> QED
        BY <2>1, <4>1, <4>2, <4>4, BlockOfSector
    <3>4. ASSUME b \in Block PROVE listed[b] = 0
      <4>1. b \in Held(g)
        <5>1. Path(i) \in Slots(g)
          BY <1>5, <1>9, Ends
        <5>2. b # 0
          BY <3>4, Words
        <5> QED
          BY <5>1, <5>2, InHand
      <4>2. ~(listed[b] = 1) /\ listed[b] <= 1
        BY <1>1, <3>3, <3>4, <4>1 DEF Safe, HandsOK, ListedFree
      <4>3. listed[b] \in Nat
        BY <3>4 DEF Typed, TypeOK
      <4> QED
        BY <4>2, <4>3
    <3> HIDE DEF b
    <3>5. ListedFree'
      <4>1. ASSUME NEW d \in Block
            PROVE  /\ listed'[d] <= 1
                   /\ (listed'[d] = 1 /\ d \notin Released') => \A f \in Ino : d \notin Held(f)'
        <5>1. CASE d = b
          BY <3>1, <3>2, <3>4, <5>1
        <5>2. CASE d # b
          BY <1>1, <1>8, <3>1, <3>2, <5>2 DEF Safe, HandsOK, ListedFree
        <5> QED
          BY <5>1, <5>2
      <4> QED
        BY <4>1, Zenon DEF ListedFree
    <3>6. ReleasedListed'
      <4>1. ASSUME NEW d \in Block, d \in Released' PROVE listed'[d] = 1
        <5>1. CASE d = b
          BY <3>2, <3>4, <5>1
        <5>2. CASE d # b
          BY <1>1, <3>1, <3>2, <4>1, <5>2 DEF Safe, HandsOK, ReleasedListed
        <5> QED
          BY <5>1, <5>2
      <4> QED
        BY <4>1, Zenon DEF ReleasedListed
    <3> QED
      BY <3>5, <3>6
  <2>2. CASE listed' = listed /\ (call'.i = i \/ (i % 2 # 1 /\ call'.i = i + 1))
    <3>1. \A d : d \in Released' <=> d \in Released
      BY <1>10, <1>12, <2>2
    <3>2. ListedFree'
      BY <1>1, <1>8, <2>2, <3>1 DEF Safe, HandsOK, ListedFree
    <3>3. ReleasedListed'
      BY <1>1, <2>2, <3>1 DEF Safe, HandsOK, ReleasedListed
    <3> QED
      BY <3>2, <3>3
  <2> QED
    BY <1>3, <2>1, <2>2
<1>14. NamesInUse'
  BY <1>1 DEF Safe, NamesInUse
<1>15. WrittenOK'
  <2>1. ASSUME NEW f \in complete' PROVE i_size'[f] = i_size[f] /\ LeavesKept(f)
    <3>1. f \in Ino /\ f # g
      BY <1>4 DEF Typed, TypeOK
    <3> QED
      BY <1>7, <3>1 DEF LeavesKept, NumbersSame
  <2>2. call'.step # "write"
    OBVIOUS
  <2> QED
    BY <1>1, <2>1, <2>2, WrittenOKKept DEF Safe
<1>16. NothingLost'
  <2>1. ASSUME NEW d \in Block, listed[d] = 1 PROVE listed'[d] = 1
    <3>1. CASE d \in Released'
      BY <1>13, <3>1 DEF ReleasedListed
    <3>2. CASE d \notin Released'
      <4>1. CASE listed' = FreeBlocks(<<Current>>) /\ i % 2 = 1 /\ call'.i = i + 1
        <5>1. i \in 0 .. (call'.i - 1)
          BY <4>1
        <5>2. d # b
          BY <1>12, <3>2, <4>1, <5>1
        <5> QED
          BY <1>2, <1>3, <2>1, <4>1, <5>2, FreeOne DEF Typed, Current
      <4>2. CASE listed' = listed
        BY <2>1, <4>2
      <4> QED
        BY <1>3, <4>1, <4>2
    <3> QED
      BY <3>1, <3>2
  <2> QED
    BY <1>1, <1>8, <2>1, Zenon DEF Safe, NothingLost
<1> QED
  BY <1>1, <1>8, <1>13, <1>14, <1>15, <1>16 DEF Safe, HandsOK

LEMMA RmSectorSafe ==
  ASSUME Typed, Sound => Safe, Sound', RmSector PROVE Safe'
<1>1. /\ UNCHANGED <<listed, inode_map, i_size, i_zone, named, complete, harm>>
      /\ call.step = "rm"
      /\ disk' = IF call.i < SingleEnd THEN PutSectorIn(disk, Current, call.i % 2, 0)
                 ELSE disk
      /\ IF IsSecondHalf(call.i) THEN GoTo("free") ELSE AfterSector
  BY Zenon DEF RmSector, At
<1>2. Sound /\ Safe
  BY <1>1 DEF Sound
<1>3. call.i < SingleEnd /\ call.i < i_size[call.ino] /\ call.i \in Nat
  BY <1>1, <1>2, Calls DEF Typed, CallOK, Safe, HandsOK, RmWithinSingles
<1>4. \A d \in Block : d # Current => disk'[d] = disk[d]
  <2>1. PICK b : b = Current
    OBVIOUS
  <2>2. disk' = PutSectorIn(disk, b, call.i % 2, 0) \/ disk' = disk
    BY <1>1, <2>1
  <2>3. disk \in [Block -> [Entry -> Word]]
    BY DEF Typed, TypeOK
  <2>4. \A d \in Block : d # b => disk'[d] = disk[d]
    BY <2>2, <2>3 DEF PutSectorIn
  <2> QED
    BY <2>1, <2>4
<1>5. IsSecondHalf(call.i) <=> call.i % 2 = 1
  BY DEF IsSecondHalf, SECTOR_PER_BLOCK
<1>6. CASE IsSecondHalf(call.i) /\ GoTo("free")
  <2>1. call'.step = "free" /\ call'.ino = call.ino /\ call'.i = call.i
    BY <1>6, Calls DEF GoTo, Steps, Typed
  <2>2. RmWithinSingles'
    BY <1>3, <2>1, Ends DEF RmWithinSingles
  <2> QED
    BY <1>1, <1>2, <1>4, <2>1, <2>2, RmStepSafe
<1>7. CASE ~IsSecondHalf(call.i) /\ AfterSector
  <2>1. /\ call'.ino = call.ino /\ call'.i = call.i + 1
        /\ call'.step \in {"rm", "singles", "tail"}
        /\ call'.step = "rm" => call'.i # SingleEnd
    BY <1>3, <1>7, NextCall DEF Typed
  <2>2. RmWithinSingles'
    BY <1>3, <2>1, Ends DEF RmWithinSingles
  <2> QED
    BY <1>1, <1>2, <1>4, <1>5, <1>7, <2>1, <2>2, RmStepSafe
<1> QED
  BY <1>1, <1>6, <1>7

LEMMA CurrentChanged ==
  ASSUME Typed, disk' = disk \/ disk' = [disk EXCEPT ![Current] = HeadBlock]
  PROVE  /\ \A d \in Block : d # Current => disk'[d] = disk[d]
         /\ Current \notin Block => disk' = disk
<1>1. PICK b : b = Current
  OBVIOUS
<1>2. disk' = disk \/ disk' = [disk EXCEPT ![b] = HeadBlock]
  BY <1>1
<1>3. disk \in [Block -> [Entry -> Word]]
  BY DEF Typed, TypeOK
<1>4. \A d \in Block : d # b => disk'[d] = disk[d]
  BY <1>2, <1>3
<1>5. b \notin Block => disk' = disk
  BY <1>2, <1>3
<1> QED
  BY <1>1, <1>4, <1>5

LEMMA RmFreeSafe ==
  ASSUME Typed, Sound => Safe, Sound', RmFree PROVE Safe'
<1>1. /\ UNCHANGED <<inode_map, i_size, i_zone, named, complete, harm>>
      /\ call.step = "free" /\ AfterSector /\ listed' = FreeBlocks(<<Current>>)
      /\ disk' = disk \/ disk' = [disk EXCEPT ![Current] = HeadBlock]
  BY DEF RmFree, At, Contents
<1>2. Sound /\ Safe
  BY <1>1 DEF Sound
<1>3. call.i < SingleEnd /\ call.i < i_size[call.ino] /\ call.i \in Nat /\ call.i % 2 = 1
  BY <1>1, <1>2, Calls
  DEF Typed, CallOK, Safe, HandsOK, RmWithinSingles, IsSecondHalf, SECTOR_PER_BLOCK
<1>4. /\ call'.ino = call.ino /\ call'.i = call.i + 1
      /\ call'.step \in {"rm", "singles", "tail"}
      /\ call'.step = "rm" => call'.i # SingleEnd
  BY <1>1, <1>3, NextCall DEF Typed
<1>5. RmWithinSingles'
  BY <1>3, <1>4, Ends DEF RmWithinSingles
<1> QED
  BY <1>1, <1>2, <1>3, <1>4, <1>5, CurrentChanged, RmStepSafe

(* A power failure in the middle of free_block, when nothing was freed     *)
(* before.                                                                 *)
LEMMA RmFreeCutSafe ==
  ASSUME Typed, Sound => Safe, Sound', RmFreeCut PROVE Safe'
<1>1. /\ UNCHANGED <<listed, inode_map, i_size, i_zone, named, complete>>
      /\ call.step = "free" /\ call'.step = "none"
      /\ disk' = [disk EXCEPT ![Current] = HeadBlock]
      /\ harm \subseteq harm' /\ (Released # {} => "cutrm" \in harm')
  BY Calls DEF RmFreeCut, At, GoTo, Steps, Typed
<1>2. Sound /\ Safe /\ Released = {} /\ Released' = {}
  BY <1>1, NoneReleased DEF Sound, InRm
<1>3. PICK g \in Ino : g = call.ino
  BY Calls DEF Typed
<1>4. PICK i \in 0 .. (i_size[g] - 1) : i = call.i
  BY <1>1, <1>3, Calls DEF Typed, CallOK
<1>5. \A d \in Block : d # NrAt(g, Path(i)) => disk'[d] = disk[d]
  BY <1>1, <1>3, <1>4, CurrentChanged DEF Current
<1>6. /\ \A f \in Ino : NumbersSame(f)
      /\ \A f \in Ino : \A q \in Slots(f) : f # g \/ q # Path(i) =>
           (NrAt(f, q) \in Block => disk'[NrAt(f, q)] = disk[NrAt(f, q)])
  BY <1>1, <1>2, <1>5, LeafChange DEF Safe
<1>7. /\ NumbersOK' /\ Distinct' /\ ZonesOK'
      /\ \A f \in Ino : Held(f)' = Held(f)
  BY <1>1, <1>2, <1>6, NumbersStay DEF Safe, HandsOK
<1>8. ListedFree' /\ ReleasedListed'
  BY <1>1, <1>2, <1>7 DEF Safe, HandsOK, ListedFree, ReleasedListed
<1>9. RmWithinSingles' /\ NamesInUse'
  BY <1>1, <1>2 DEF Safe, RmWithinSingles, NamesInUse, InRm
<1>10. WrittenOK'
  <2>1. ASSUME NEW f \in complete' PROVE i_size'[f] = i_size[f] /\ LeavesKept(f)
    <3>1. f \in Ino /\ f # g
      BY <1>1, <1>3 DEF Typed, TypeOK, CallOK, InRm
    <3> QED
      BY <1>1, <1>6, <3>1 DEF LeavesKept, NumbersSame
  <2> QED
    BY <1>1, <1>2, <2>1, WrittenOKKept DEF Safe
<1>11. NothingLost'
  BY <1>1, <1>2, <1>7, Zenon DEF Safe, NothingLost
<1> QED
  BY <1>7, <1>8, <1>9, <1>10, <1>11 DEF Safe, HandsOK

(* The inode is cleared.  Nothing is lost of a file that had only blocks   *)
(* with both sectors in its direct zones: rm has freed each of them.       *)
LEMMA RmClearSafe ==
  ASSUME Typed, Sound => Safe, Sound', RmClear PROVE Safe'
<1>1. /\ UNCHANGED <<disk, listed, inode_map, named, complete>>
      /\ call.step = "clear" /\ call'.step = "freeino"
      /\ harm \subseteq harm'
      /\ harm' = {} => /\ i_size[call.ino] % 2 # 1
                       /\ ~(i_size[call.ino] > DirectEnd)
      /\ i_size' = [i_size EXCEPT ![call.ino] = 0]
      /\ i_zone' = [i_zone EXCEPT ![call.ino] = [z \in 0 .. (Direct + 1) |-> 0]]
  BY Calls DEF RmClear, GoTo, At, Steps, Typed
<1>2. Sound /\ Safe /\ InRm
  BY <1>1 DEF Sound, InRm
<1>3. PICK g \in Ino : g = call.ino
  BY Calls DEF Typed
<1>4. /\ i_size \in [Ino -> 0 .. DoubleEnd] /\ i_zone \in [Ino -> [Zone -> Word]]
  BY DEF Typed, TypeOK, Zone
<1>5. /\ i_size'[g] = 0 /\ \A f \in Ino : f # g => i_size'[f] = i_size[f]
      /\ \A f \in Ino : f # g => i_zone'[f] = i_zone[f]
      /\ i_zone'[g] = [z \in Zone |-> 0]
  BY <1>1, <1>3, <1>4 DEF Zone
<1>6. call.i = i_size[g] /\ g \notin complete
  BY <1>1, <1>2, <1>3 DEF Typed, CallOK
<1>7. Slots(g)' = {}
  BY <1>5, PlacesNext, NoPlaces
<1>8. ASSUME NEW f \in Ino, f # g
      PROVE  /\ Slots(f)' = Slots(f)
             /\ \A q \in Slots(f) : NrAt(f, q)' = NrAt(f, q)
             /\ LeavesKept(f)
  <2>1. Slots(f)' = Slots(f)
    BY <1>5, <1>8, PlacesOfFile, PlacesNext
  <2>2. \A q \in Slots(f) : NrAt(f, q)' = NrAt(f, q)
    BY <1>1, <1>5, <1>8, NumbersKept DEF Typed
  <2> QED
    BY <1>1, <2>1, <2>2 DEF LeavesKept
<1>9. NumbersOK' /\ Distinct'
  <2>1. \A f \in Ino : \A q \in Slots(f)' : q \in Slots(f) /\ NrAt(f, q)' = NrAt(f, q)
    BY <1>7, <1>8
  <2>2. NumbersOK /\ Distinct
    BY <1>2 DEF Safe, HandsOK
  <2> QED
    BY <2>1, <2>2, HandsStep
<1>10. Held(g)' = {}
  BY <1>7, Zenon DEF Held
<1>11. \A f \in Ino : f # g => Held(f)' = Held(f)
  BY <1>8, Zenon DEF Held
<1>12. Released' = {}
  BY <1>1, NoneReleased DEF InRm
<1>13. ASSUME NEW d \in Block, d \in Released, NEW f \in Ino, f # g PROVE d \notin Held(f)
  <2>1. PICK j \in 0 .. (i_size[g] - 1) : d = NrAt(g, Path(j))
    BY <1>2, <1>3, <1>6, <1>13, ReleasedInRm
  <2>2. Path(j) \in Slots(g)
    BY <1>4, PathPlace, PlacesOfFile
  <2>3. ASSUME d \in Held(f) PROVE FALSE
    <3>1. PICK q \in Slots(f) : NrAt(f, q) = d /\ d # 0
      BY <2>3, InHand
    <3>2. <<f, q>> # <<g, Path(j)>>
      BY <1>13
    <3> QED
      BY <1>2, <2>1, <2>2, <3>1, <3>2, Zenon DEF Safe, HandsOK, Distinct
  <2> QED
    BY <2>3
<1>14. ListedFree'
  <2>1. ASSUME NEW d \in Block
        PROVE  /\ listed'[d] <= 1
               /\ listed'[d] = 1 => \A f \in Ino : d \notin Held(f)'
    <3>1. listed[d] <= 1 /\ ((listed[d] = 1 /\ d \notin Released) => \A f \in Ino : d \notin Held(f))
      BY <1>2 DEF Safe, HandsOK, ListedFree
    <3>2. ASSUME listed[d] = 1, NEW f \in Ino PROVE d \notin Held(f)'
      <4>1. CASE f = g
        BY <1>10, <4>1
      <4>2. CASE f # g
        BY <1>11, <1>13, <3>1, <3>2, <4>2
      <4> QED
        BY <4>1, <4>2
    <3> QED
      BY <1>1, <3>1, <3>2
  <2> QED
    BY <2>1, Zenon DEF ListedFree
<1>15. ReleasedListed'
  BY <1>12 DEF ReleasedListed
<1>16. ZonesOK'
  <2>1. ASSUME NEW f \in Ino, NEW z \in Zone, i_zone'[f][z] # 0 PROVE <<z>> \in Slots(f)'
    <3>1. f # g
      BY <1>5, <2>1
    <3>2. i_zone[f][z] # 0
      BY <1>5, <2>1, <3>1
    <3>3. <<z>> \in Slots(f)
      BY <1>2, <3>2 DEF Safe, HandsOK, ZonesOK, Zone
    <3> QED
      BY <1>8, <3>1, <3>3
  <2> QED
    BY <2>1 DEF ZonesOK, Zone
<1>17. RmWithinSingles' /\ NamesInUse'
  BY <1>1, <1>2 DEF Safe, RmWithinSingles, NamesInUse, InRm
<1>18. WrittenOK'
  <2>1. ASSUME NEW f \in complete' PROVE i_size'[f] = i_size[f] /\ LeavesKept(f)
    <3>1. f \in Ino /\ f # g
      BY <1>1, <1>6 DEF Typed, TypeOK
    <3> QED
      BY <1>5, <1>8, <3>1
  <2> QED
    BY <1>1, <1>2, <2>1, WrittenOKKept DEF Safe
<1>19. NothingLost'
  <2>1. ASSUME harm' = {}, NEW d \in Held(g) PROVE d \in Released
    <3> DEFINE n == i_size[g]
    <3>1. n \in 0 .. DoubleEnd /\ n \in Nat /\ n % 2 = 0 /\ n <= DirectEnd
      BY <1>1, <1>3, <1>4, <2>1, Ends
    <3>2. PICK q \in Slots(g) : NrAt(g, q) = d
      BY InHand
    <3> HIDE DEF n
    <3>3. PICK i \in 0 .. (n - 1) : q \in Parts(i)
      BY <3>2, PlacesOfFile DEF Places, n
    <3> DEFINE k == i \div 2
               j == 2 * k + 1
    <3>4. i \in Nat /\ i < DirectEnd
      BY <3>1, Ends
    <3>5. q = <<k>>
      BY <3>3, <3>4, DirectParts
    <3>6. k \in Nat /\ i = 2 * k + (i % 2) /\ i % 2 \in {0, 1} /\ n = 2 * (n \div 2) + (n % 2)
          /\ n \div 2 \in Nat
      BY <3>1, <3>4, BlockOfSector
    <3> HIDE DEF k
    <3>7. j \in Nat /\ j \in 0 .. (n - 1) /\ j % 2 = 1 /\ j \div 2 = k
      BY <3>1, <3>6
    <3> HIDE DEF j
    <3>8. j < DirectEnd
      BY <3>1, <3>7, Ends
    <3>9. Path(j) = <<k>>
      BY <3>7, <3>8, DirectParts
    <3>10. d = NrAt(g, Path(j))
      BY <3>2, <3>5, <3>9, Zenon
    <3>11. j \in 0 .. (call.i - 1)
      BY <1>6, <3>7 DEF n
    <3> QED
      BY <1>2, <1>3, <3>7, <3>10, <3>11, ReleasedInRm, Zenon
  <2>2. ASSUME harm' = {}, NEW d \in Block
        PROVE  listed'[d] = 1 \/ \E f \in Ino : d \in Held(f)'
    <3>1. harm = {}
      BY <1>1, <2>2
    <3>2. listed[d] = 1 \/ \E f \in Ino : d \in Held(f)
      BY <1>2, <3>1 DEF Safe, NothingLost
    <3>3. ASSUME d \in Held(g) PROVE listed[d] = 1
      <4>1. d \in Released
        BY <2>1, <2>2, <3>3
      <4> QED
        BY <1>2, <4>1 DEF Safe, HandsOK, ReleasedListed
    <3> QED
      BY <1>1, <1>11, <3>2, <3>3
  <2> QED
    BY <2>2, Zenon DEF NothingLost
<1> QED
  BY <1>9, <1>14, <1>15, <1>16, <1>17, <1>18, <1>19 DEF Safe, HandsOK

-----------------------------------------------------------------------------
(* The theorems.                                                           *)

LEMMA InitSafe == Init => Safe
<1> SUFFICES ASSUME Init PROVE Safe
  OBVIOUS
<1>1. /\ i_size = [ino \in Ino |-> 0] /\ listed = [b \in Block |-> 1]
      /\ i_zone = [ino \in Ino |-> [z \in 0 .. (Direct + 1) |-> 0]]
      /\ named = {} /\ complete = {} /\ call.step = "none"
  BY DEF Init
<1>2. \A f \in Ino : Slots(f) = {}
  BY <1>1, PlacesOfFile, NoPlaces
<1>3. \A f \in Ino : Held(f) = {}
  BY <1>2, Zenon DEF Held
<1>4. Released = {}
  BY <1>1, NoneReleased DEF InRm
<1>5. NumbersOK /\ Distinct
  BY <1>2, Zenon DEF NumbersOK, Distinct
<1>6. ZonesOK
  BY <1>1 DEF ZonesOK
<1>7. ListedFree /\ ReleasedListed
  BY <1>1, <1>3, <1>4 DEF ListedFree, ReleasedListed
<1>8. RmWithinSingles /\ NamesInUse /\ WrittenOK
  BY <1>1 DEF RmWithinSingles, NamesInUse, WrittenOK, InRm
<1>9. NothingLost
  BY <1>1 DEF NothingLost
<1> QED
  BY <1>5, <1>6, <1>7, <1>8, <1>9 DEF Safe, HandsOK

LEMMA NextSafe ==
  ASSUME Typed, Sound => Safe, Sound', [Next]_vars PROVE Safe'
<1>1. CASE UNCHANGED vars
  <2>1. UNCHANGED <<disk, listed, i_size, i_zone, complete, named, inode_map, call, harm>>
    BY <1>1 DEF vars
  <2>2. Safe
    BY <2>1 DEF Sound
  <2>3. Released' = Released
    BY <2>1, NoneReleased, ReleasedSame DEF InRm
  <2>4. RmWithinSingles' /\ NamesInUse'
    BY <2>1, <2>2 DEF Safe, HandsOK, RmWithinSingles, NamesInUse, Sound, InRm
  <2> QED
    BY <2>1, <2>2, <2>3, <2>4, QuietSafe
<1>2. CASE Creat \/ CreatCut \/ WriteAllocCut
  BY <1>2, CreatSafe, CutSafe
<1>3. CASE \E ino \in Ino : \/ \E len \in Lens : WriteBegin(ino, len)
                            \/ RmBegin(ino)
  BY <1>3, WriteBeginSafe, RmQuietSafe
<1>4. CASE WriteNoBlock \/ (\E ino \in Ino : Read(ino)) \/ RmPanics
  BY <1>4, PanicSafe DEF WriteNoBlock, Read, RmPanics
<1>5. CASE WriteAlloc \/ WriteSector \/ WriteEnd
  BY <1>5, WriteAllocSafe, WriteSectorSafe, WriteEndSafe
<1>6. CASE RmSingles
  BY <1>6 DEF RmSingles, Sound
<1>7. CASE RmSector \/ RmFree \/ RmFreeCut \/ RmTail \/ RmClear
  BY <1>7, RmSectorSafe, RmFreeSafe, RmFreeCutSafe, RmTailSafe, RmClearSafe
<1>8. CASE RmFreeInode \/ RmUnlink \/ PowerCut
  BY <1>8, RmQuietSafe
<1> QED
  BY <1>1, <1>2, <1>3, <1>4, <1>5, <1>6, <1>7, <1>8, Zenon DEF Next

(* The inductive invariant holds in every behaviour.                       *)
THEOREM FileMapInvariance == Spec => []IInv
<1>1. Init => IInv
  BY InitTyped, InitSafe DEF IInv, Typed
<1>2. IInv /\ [Next]_vars => IInv'
  <2> SUFFICES ASSUME IInv, [Next]_vars PROVE IInv'
    OBVIOUS
  <2>1. Typed /\ (Sound => Safe)
    BY DEF IInv, Typed
  <2>2. Typed'
    BY <2>1, NextTyped
  <2>3. Sound' => Safe'
    BY <2>1, NextSafe
  <2> QED
    BY <2>2, <2>3 DEF IInv, Typed
<1> QED
  BY <1>1, <1>2, PTL DEF Spec

(* What commands leave on disk and in memory stays in range, whatever the  *)
(* lengths, the sizes and the power failures: a number on disk fits its    *)
(* word, a length the three levels, a cursor its file.                     *)
THEOREM FileMapTypeCorrect == Spec => []TypeOK
<1>1. IInv => TypeOK
  BY DEF IInv
<1> QED
  BY <1>1, FileMapInvariance, PTL

(* Until one of the harmful events happens a block is in one hand: at one  *)
(* place of one file or once in the free list, for files with any number   *)
(* of index levels, and while write and rm are on their way through one.   *)
THEOREM FileMapOneHand == Spec => []OneHand
<1>1. IInv => OneHand
  BY DEF IInv, Safe, HandsOK, Distinct, ListedFree, OneHand
<1> QED
  BY <1>1, FileMapInvariance, PTL

(* A file that was written to its end reads back as written, in every one  *)
(* of its sectors, whatever other files were created, written and removed  *)
(* since, in part only when the power failed, until one of the harmful     *)
(* events happens: a file made when no inode is left is one of them        *)
(* (file.cc:45-49), and its record may be in the middle of this file.      *)
THEOREM FileMapReadsBack == Spec => []ReadsBack
<1>1. IInv => ReadsBack
  BY Zenon DEF IInv, Safe, WrittenOK, Written, ReadsBack
<1> QED
  BY <1>1, FileMapInvariance, PTL

(* As long as nothing at all has gone wrong every block is listed or held. *)
THEOREM FileMapNothingLost == Spec => []NothingLost
<1>1. IInv => NothingLost
  BY DEF IInv, Safe, NothingLost, Sound
<1> QED
  BY <1>1, FileMapInvariance, PTL

(* The directory names inodes in use, but for the one rm is about to take  *)
(* out of it, until a file is made when none is left (inode.cc:81) or rm   *)
(* takes the number of an index block for that of an inode (rm.cc:168).    *)
THEOREM FileMapNamesInUse == Spec => []NamesInUse
<1>1. IInv => NamesInUse
  BY DEF IInv, Safe, NamesInUse
<1> QED
  BY <1>1, FileMapInvariance, PTL

-----------------------------------------------------------------------------
(* The contents of files, as the abstract store has them.                  *)

(* An inode whose bit is clear is empty, and so is the one that rm is      *)
(* about to take out of the directory.                                     *)
EmptyOK ==
  /\ Sound => \A f \in Ino \ inode_map : i_size[f] = 0
  /\ call.step \in {"freeino", "unlink"} => i_size[call.ino] = 0

LEMMA EmptyStep == IInv /\ EmptyOK /\ [Next]_vars => EmptyOK'
<1> SUFFICES ASSUME IInv, EmptyOK, [Next]_vars PROVE EmptyOK'
  OBVIOUS
<1>1. /\ i_size \in [Ino -> 0 .. DoubleEnd] /\ call.ino \in Ino
      /\ \A step \in Steps : /\ [call EXCEPT !.step = step].step = step
                             /\ [call EXCEPT !.step = step].ino = call.ino
  BY Calls DEF IInv, TypeOK
<1>2. ASSUME i_size' = i_size, Sound' => Sound /\ inode_map \subseteq inode_map',
             \/ call'.step \notin {"freeino", "unlink"}
             \/ call' = call
      PROVE  EmptyOK'
  BY <1>2 DEF EmptyOK
<1>3. ASSUME NEW ino \in NewInode, MakesInode(ino), call.step = "none", call' = call,
             harm \subseteq harm', NoNumber(ino) \subseteq harm'
      PROVE  EmptyOK'
  <2>1. Sound' => ino # Beyond /\ Sound
    BY <1>3 DEF Sound, NoNumber
  <2>2. inode_map' = inode_map \union ({ino} \ {Beyond})
        /\ i_size' = [i_size EXCEPT ![ino] = SECTOR_PER_BLOCK]
    BY <1>3 DEF MakesInode
  <2> QED
    BY <1>1, <1>3, <2>1, <2>2 DEF EmptyOK
<1>4. CASE Creat
  <2>1. PICK ino \in NewInode :
          /\ MakesInode(ino)
          /\ harm' = harm \union NoNumber(ino)
                          \union (IF i_size[ino] > 0 THEN {"leak"} ELSE {})
    BY <1>4, Zenon DEF Creat
  <2> QED
    BY <1>3, <1>4, <2>1 DEF Creat, Idle
<1>5. CASE CreatCut
  <2>1. call.step = "none" /\ call' = call
    BY <1>5 DEF CreatCut, Idle
  <2>2. PICK ino \in NewInode :
          \/ /\ inode_map' = inode_map \union ({ino} \ {Beyond})
             /\ harm' = harm \union {"leak"}
             /\ i_size' = i_size
          \/ MakesInode(ino) /\ harm' = harm \union {"leak"} \union NoNumber(ino)
    BY <1>5, Zenon DEF CreatCut
  <2> QED
    BY <1>2, <1>3, <2>1, <2>2 DEF Sound
<1>6. ASSUME NEW ino \in Ino, NEW len \in Lens, WriteBegin(ino, len) PROVE EmptyOK'
  <2>1. Sound => ino \in inode_map
    BY <1>6 DEF WriteBegin, Idle, IInv, Safe, NamesInUse
  <2> QED
    BY <1>1, <1>6, <2>1 DEF WriteBegin, EmptyOK, Sound
<1>7. CASE RmClear
  <2>1. call'.ino = call.ino /\ call'.step = "freeino"
    BY <1>1, <1>7 DEF RmClear, GoTo, Steps
  <2>2. i_size' = [i_size EXCEPT ![call.ino] = 0] /\ inode_map' = inode_map
        /\ harm \subseteq harm'
    BY <1>7 DEF RmClear
  <2> QED
    BY <1>1, <2>1, <2>2 DEF EmptyOK, Sound
<1>8. CASE RmFreeInode
  <2>1. call'.ino = call.ino /\ call.step = "freeino"
    BY <1>1, <1>8 DEF RmFreeInode, GoTo, At, Steps
  <2> QED
    BY <1>8, <2>1 DEF RmFreeInode, EmptyOK, Sound
<1>9. CASE RmTail
  <2>1. harm \subseteq harm' /\ (Sound' => inode_map \subseteq inode_map')
    <3>1. ASSUME NEW z, free_inode_of_block(z)
          PROVE  harm \subseteq harm' /\ (Sound' => inode_map \subseteq inode_map')
      BY <3>1 DEF free_inode_of_block, Sound
    <3> QED
      BY <1>9, <3>1 DEF RmTail
  <2>2. call'.step = "clear" /\ i_size' = i_size
    BY <1>1, <1>9 DEF RmTail, GoTo, Steps
  <2> QED
    BY <1>2, <2>1, <2>2 DEF Sound
<1>10. CASE RmSingles
  <2>1. call'.step = "rm" /\ i_size' = i_size
    BY <1>1, <1>10 DEF RmSingles, GoTo, Steps
  <2> QED
    BY <1>2, <1>10, <2>1 DEF RmSingles, Sound
<1>11. ASSUME NEW ino \in Ino, RmBegin(ino) PROVE EmptyOK'
  BY <1>2, <1>11 DEF RmBegin, Sound
<1>12. CASE WriteSector
  <2>1. call'.step = "write"
    BY <1>12 DEF WriteSector, NextSector, Writing, At, IInv, TypeOK
  <2> QED
    BY <1>2, <1>12, <2>1 DEF WriteSector, Sound
<1>13. CASE RmSector \/ RmFree
  <2>1. /\ UNCHANGED <<inode_map, i_size, harm>> /\ (GoTo("free") \/ AfterSector)
        /\ call.step \in {"rm", "free"}
    BY <1>13 DEF RmSector, RmFree, At
  <2>2. call.i < i_size[call.ino]
    BY <2>1 DEF IInv, CallOK
  <2>3. call'.step \in {"free", "rm", "singles", "tail"}
    BY <1>1, <2>1, <2>2, NextCall DEF GoTo, Steps, IInv
  <2> QED
    BY <1>2, <2>1, <2>3 DEF Sound
<1>14. CASE WriteAllocCut \/ WriteEnd \/ RmFreeCut \/ PowerCut
  <2>1. i_size' = i_size /\ inode_map' = inode_map /\ harm \subseteq harm'
    BY <1>14 DEF WriteAllocCut, WriteEnd, RmFreeCut, PowerCut
  <2>2. call'.step = "none"
    BY <1>1, <1>14 DEF WriteAllocCut, WriteEnd, RmFreeCut, PowerCut, GoTo, Steps
  <2> QED
    BY <1>2, <2>1, <2>2 DEF Sound
<1>15. CASE RmUnlink
  <2>1. i_size' = i_size /\ inode_map' = inode_map /\ harm' = harm /\ call'.step = "none"
    BY <1>1, <1>15 DEF RmUnlink, GoTo, Steps
  <2> QED
    BY <1>2, <2>1 DEF Sound
<1>16. CASE \/ WriteAlloc \/ WriteNoBlock \/ RmPanics \/ \E ino \in Ino : Read(ino)
            \/ UNCHANGED vars
  <2>1. i_size' = i_size /\ inode_map' = inode_map /\ call' = call /\ harm \subseteq harm'
    BY <1>16 DEF WriteAlloc, WriteNoBlock, RmPanics, Read, Panic, vars
  <2> QED
    BY <1>2, <2>1 DEF Sound
<1> QED
  BY <1>4, <1>5, <1>6, <1>7, <1>8, <1>9, <1>10, <1>11, <1>12, <1>13, <1>14, <1>15, <1>16
  DEF Next

(* A leaf is where the way to some sector ends.                            *)
LEMMA LeafPlace ==
  ASSUME NEW n \in 0 .. DoubleEnd, NEW q \in Places(n), q \notin Inner
  PROVE  \E i \in 0 .. (n - 1) : q = Path(i)
<1>1. PICK i \in 0 .. (n - 1) : q \in Parts(i)
  BY DEF Places
<1>2. i \in 0 .. (DoubleEnd - 1)
  BY Ends
<1>3. \/ \E z : Path(i) = <<z>> /\ Parts(i) = {<<z>>}
      \/ \E k \in Entry : Path(i) = <<Direct, k>> /\ Parts(i) = {<<Direct>>, <<Direct, k>>}
      \/ \E k \in Entry, m \in Entry :
           /\ Path(i) = <<Direct + 1, k, m>>
           /\ Parts(i) = {<<Direct + 1>>, <<Direct + 1, k>>, <<Direct + 1, k, m>>}
  BY <1>2, PartsShape, Zenon
<1>4. <<Direct>> \in Inner /\ <<Direct + 1>> \in Inner
      /\ \A k \in Entry : <<Direct + 1, k>> \in Inner
  BY Zenon DEF Inner
<1>5. CASE \E z : Path(i) = <<z>> /\ Parts(i) = {<<z>>}
  BY <1>1, <1>5
<1>6. CASE \E k \in Entry : Path(i) = <<Direct, k>> /\ Parts(i) = {<<Direct>>, <<Direct, k>>}
  BY <1>1, <1>4, <1>6
<1>7. CASE \E k \in Entry, m \in Entry :
             /\ Path(i) = <<Direct + 1, k, m>>
             /\ Parts(i) = {<<Direct + 1>>, <<Direct + 1, k>>, <<Direct + 1, k, m>>}
  BY <1>1, <1>4, <1>7
<1> QED
  BY <1>3, <1>5, <1>6, <1>7

(* Both sectors of a block have the same way.                              *)
LEMMA SameBlock ==
  ASSUME NEW i \in 0 .. (DoubleEnd - 1), NEW j \in 0 .. (DoubleEnd - 1),
         i \div 2 = j \div 2
  PROVE  Path(i) = Path(j)
<1>1. i \in Nat /\ j \in Nat
  BY Ends
<1>2. get_zone_blks(i + 1) - 1 = get_zone_blks(j + 1) - 1
  BY <1>1, BlockOfSector
<1>3. (i < DirectEnd <=> j < DirectEnd) /\ (i < SingleEnd <=> j < SingleEnd)
  BY <1>1, BlockOfSector, Ends
<1> QED
  BY <1>2, <1>3, Zenon DEF Path

LEMMA HalfFilled ==
  ASSUME NEW i \in Nat, NEW words
  PROVE  [k \in Half(i % 2) |-> words[k]] # Hole
<1>1. i % 2 \in {0, 1}
  BY BlockOfSector
<1>2. 0 \in Half(0)
  BY Ends DEF Half, Entry
<1>3. PICK m \in Nat : Fanout = 2 * m
  <2>1. Fanout \in Nat /\ Fanout % 2 = 0
    BY FileMapAssumption
  <2>2. Fanout = 2 * (Fanout \div 2) + (Fanout % 2) /\ Fanout \div 2 \in Nat
    BY <2>1, BlockOfSector
  <2> QED
    BY <2>1, <2>2
<1>4. m \in Half(1)
  <2>1. m \in Entry /\ 2 * m = Fanout
    BY <1>3, Ends DEF Entry
  <2>2. Fanout \div Fanout = 1
    BY Ends
  <2> QED
    BY <2>1, <2>2 DEF Half
<1>5. PICK h : h = i % 2
  OBVIOUS
<1>6. PICK k : k \in Half(h)
  BY <1>1, <1>2, <1>4, <1>5
<1>7. DOMAIN [l \in Half(h) |-> words[l]] # DOMAIN Hole
  BY <1>6 DEF Hole
<1> QED
  BY <1>5, <1>7

-----------------------------------------------------------------------------
(* What a step does to sectors.                                            *)

LEMMA SectorNow ==
  ASSUME TypeOK, NEW f \in Ino, NEW i \in 0 .. (i_size[f] - 1)
  PROVE  Path(i) \in Slots(f) \ Inner /\ i \in Nat /\ i \in 0 .. (DoubleEnd - 1)
<1>1. i_size[f] \in 0 .. DoubleEnd
  BY DEF TypeOK
<1> QED
  BY <1>1, PathPlace, PlacesOfFile, Ends

LEMMA SectorKept ==
  ASSUME TypeOK, NEW f \in Ino, NEW i \in 0 .. (i_size[f] - 1),
         NrAt(f, Path(i))' = NrAt(f, Path(i)),
         NrAt(f, Path(i)) \in Block => disk'[NrAt(f, Path(i))] = disk[NrAt(f, Path(i))]
  PROVE  SectorOf(f, i)' = SectorOf(f, i)
<1> DEFINE b == NrAt(f, Path(i))
<1>1. SectorOf(f, i) = IF b \in Block THEN [k \in Half(i % 2) |-> disk[b][k]] ELSE Hole
  BY Zenon DEF SectorOf
<1>2. SectorOf(f, i)' = IF b' \in Block THEN [k \in Half(i % 2) |-> disk'[b'][k]] ELSE Hole
  BY Zenon DEF SectorOf
<1>3. b' = b /\ (b \in Block => disk'[b] = disk[b])
  OBVIOUS
<1> HIDE DEF b
<1> QED
  BY <1>1, <1>2, <1>3

LEMMA SectorsKept ==
  ASSUME TypeOK, NEW f \in Ino, i_size'[f] = i_size[f], NumbersSame(f), LeavesKept(f)
  PROVE  SectorsOf(f)' = SectorsOf(f)
<1>1. ASSUME NEW i \in 0 .. (i_size[f] - 1) PROVE SectorOf(f, i)' = SectorOf(f, i)
  <2>1. Path(i) \in Slots(f) \ Inner
    BY SectorNow
  <2> QED
    BY <2>1, SectorKept, Zenon DEF NumbersSame, LeavesKept
<1>2. SectorsOf(f)' = [i \in 0 .. (i_size'[f] - 1) |-> SectorOf(f, i)']
  BY DEF SectorsOf
<1> QED
  BY <1>1, <1>2, Zenon DEF SectorsOf

(* Half a block of data is written.                                        *)
LEMMA SectorPut ==
  ASSUME Typed, HandsOK, NEW g \in Ino, NEW i \in 0 .. (i_size[g] - 1), NEW w,
         disk' = PutSectorIn(disk, NrAt(g, Path(i)), i % 2, w),
         i_zone' = i_zone, i_size' = i_size
  PROVE  /\ \A f \in Ino : f # g => SectorsOf(f)' = SectorsOf(f)
         /\ NrAt(g, Path(i)) \in Block =>
              SectorsOf(g)' = [SectorsOf(g) EXCEPT ![i] = Filled(i, w)]
         /\ NrAt(g, Path(i)) \notin Block => SectorsOf(g)' = SectorsOf(g)
<1>1. /\ \A f \in Ino : NumbersSame(f)
      /\ \A f \in Ino : \A q \in Slots(f) : f # g \/ q # Path(i) =>
           (NrAt(f, q) \in Block => disk'[NrAt(f, q)] = disk[NrAt(f, q)])
      /\ NrAt(g, Path(i)) \in Block =>
           disk'[NrAt(g, Path(i))] = WithSector(disk[NrAt(g, Path(i))], i % 2, w)
  BY LeafStep
<1>2. ASSUME NEW f \in Ino, f # g PROVE SectorsOf(f)' = SectorsOf(f)
  <2>1. LeavesKept(f)
    BY <1>1, <1>2 DEF LeavesKept, NumbersSame
  <2> QED
    BY <1>1, <2>1, SectorsKept DEF Typed
<1>3. ASSUME NrAt(g, Path(i)) \notin Block PROVE SectorsOf(g)' = SectorsOf(g)
  <2>1. LeavesKept(g)
    BY <1>1, <1>3 DEF LeavesKept, NumbersSame
  <2> QED
    BY <1>1, <2>1, SectorsKept DEF Typed
<1>4. ASSUME NrAt(g, Path(i)) \in Block
      PROVE  SectorsOf(g)' = [SectorsOf(g) EXCEPT ![i] = Filled(i, w)]
  <2>1. ASSUME NEW j \in 0 .. (i_size[g] - 1)
        PROVE  SectorOf(g, j)' = IF j = i THEN Filled(i, w) ELSE SectorOf(g, j)
    <3>1. Path(j) \in Slots(g) /\ j \in Nat /\ j \in 0 .. (DoubleEnd - 1)
          /\ i \in Nat /\ i \in 0 .. (DoubleEnd - 1)
      BY SectorNow DEF Typed
    <3>2. NrAt(g, Path(j))' = NrAt(g, Path(j))
      BY <1>1, <3>1 DEF NumbersSame
    <3>3. CASE Path(j) # Path(i)
      <4>1. SectorOf(g, j)' = SectorOf(g, j)
        BY <1>1, <3>1, <3>2, <3>3, SectorKept DEF Typed
      <4> QED
        BY <3>3, <4>1
    <3>4. CASE Path(j) = Path(i)
      <4> DEFINE b == NrAt(g, Path(i))
                 h == i % 2
                 l == j % 2
      <4>1. /\ SectorOf(g, j) = [k \in Half(l) |-> disk[b][k]]
            /\ SectorOf(g, j)' = [k \in Half(l) |-> disk'[b][k]]
            /\ disk'[b] = WithSector(disk[b], h, w)
        BY <1>1, <1>4, <3>2, <3>4, Zenon DEF SectorOf
      <4>2. j # i => l # h
        <5>1. i \div 2 = j \div 2
          BY <3>1, <3>4, PathInjective
        <5> QED
          BY <3>1, <5>1, BlockOfSector
      <4>3. Filled(i, w) = [k \in Half(h) |-> w]
        BY DEF Filled
      <4> HIDE DEF b, h, l
      <4>4. \A k \in Half(l) : disk'[b][k] = IF l = h THEN w ELSE disk[b][k]
        BY <4>1 DEF Half, WithSector
      <4>5. CASE j = i
        <5>1. l = h
          BY <4>5 DEF l, h
        <5> QED
          BY <4>1, <4>3, <4>4, <4>5, <5>1
      <4>6. CASE j # i
        BY <4>1, <4>2, <4>4, <4>6
      <4> QED
        BY <4>5, <4>6
    <3> QED
      BY <3>3, <3>4
  <2>2. SectorsOf(g)' = [j \in 0 .. (i_size'[g] - 1) |-> SectorOf(g, j)']
    BY DEF SectorsOf
  <2>3. SectorsOf(g) = [j \in 0 .. (i_size[g] - 1) |-> SectorOf(g, j)]
    BY DEF SectorsOf
  <2> QED
    BY <2>1, <2>2, <2>3
<1> QED
  BY <1>2, <1>3, <1>4

-----------------------------------------------------------------------------
(* The steps of the store.  While it is sound its state is what the names  *)
(* of the mapping say.                                                     *)

Files == [ino \in Ino |-> IF Sound THEN SectorsOf(ino) ELSE <<>>]

LEMMA FilesNow ==
  /\ Sound => /\ \A f \in Ino : Files[f] = SectorsOf(f)
              /\ \A f \in Ino : DOMAIN Files[f] = 0 .. (i_size[f] - 1)
              /\ \A f \in Ino : \A i \in 0 .. (i_size[f] - 1) : Files[f][i] = SectorOf(f, i)
  /\ Sound' => /\ \A f \in Ino : Files'[f] = SectorsOf(f)'
               /\ \A f \in Ino : DOMAIN Files'[f] = 0 .. (i_size'[f] - 1)
               /\ \A f \in Ino : \A i \in 0 .. (i_size'[f] - 1) :
                    Files'[f][i] = SectorOf(f, i)'
BY DEF Files, SectorsOf

LEMMA OneFile ==
  ASSUME Sound, Sound', NEW g \in Ino,
         \A f \in Ino : f # g => SectorsOf(f)' = SectorsOf(f)
  PROVE  /\ Files' = [Files EXCEPT ![g] = Files'[g]]
         /\ SectorsOf(g)' = SectorsOf(g) => Files' = Files
<1>1. Files = [f \in Ino |-> SectorsOf(f)] /\ Files' = [f \in Ino |-> SectorsOf(f)']
  BY DEF Files
<1> QED
  BY <1>1

(* Nothing happens to files when no length, zone and block does.           *)
LEMMA FilesSame ==
  ASSUME Sound, Sound', UNCHANGED <<disk, i_size, i_zone>>
  PROVE  Files' = Files
<1>1. \A f \in Ino : SectorsOf(f)' = SectorsOf(f)
  BY DEF SectorsOf, SectorOf, NrAt, WordOf
<1> QED
  BY <1>1 DEF Files

(* Nor when a new block is lost.                                           *)
LEMMA FilesSpared ==
  ASSUME Typed, Safe, Sound, Sound', Released = {},
         NEW b, NEW blocks, new_block(b, blocks), disk' = blocks,
         UNCHANGED <<i_size, i_zone>>
  PROVE  Files' = Files
<1>1. b \in Block /\ \A d \in Block : d # b => disk'[d] = disk[d]
  BY NewBlock DEF Typed
<1>2. \A f \in Ino : \A q \in Slots(f) : NrAt(f, q) # b
  BY FreshBlock DEF Typed, Safe, HandsOK
<1>3. ASSUME NEW f \in Ino PROVE SectorsOf(f)' = SectorsOf(f)
  <2>1. i_zone'[f] = i_zone[f] /\ i_size'[f] = i_size[f]
    OBVIOUS
  <2>2. NumbersSame(f) /\ LeavesKept(f)
    BY <1>1, <1>2, <2>1, FreshKept DEF Typed
  <2> QED
    BY <2>1, <2>2, SectorsKept DEF Typed
<1> QED
  BY <1>3 DEF Files

(* Which command works on what.                                            *)
Writes == Working({"write"})
Removes == Working(Steps \ {"none", "write"})

LEMMA Works ==
  /\ Writes = IF call.step = "write" THEN {call.ino} ELSE {}
  /\ Writes' = IF call'.step = "write" THEN {call'.ino} ELSE {}
  /\ call.step \in Steps =>
       Removes = IF call.step \in {"none", "write"} THEN {} ELSE {call.ino}
  /\ call'.step \in Steps =>
       Removes' = IF call'.step \in {"none", "write"} THEN {} ELSE {call'.ino}
BY DEF Writes, Removes, Working

LEMMA StoreStutters ==
  ASSUME Sound, Sound', Files' = Files, UNCHANGED <<named, complete>>,
         Writes' = Writes, Removes' = Removes
  PROVE  UNCHANGED Store!vars
BY DEF Store!vars, Claimed, Files, Writes, Removes

LEMMA StoreInterrupted ==
  ASSUME Sound, Sound', Files' = Files, UNCHANGED <<named, complete>>, call'.step = "none"
  PROVE  Store!Interrupt
<1>1. Writes' = {} /\ Removes' = {}
  BY Works DEF Steps
<1> QED
  BY <1>1 DEF Store!Interrupt, Claimed, Files, Writes, Removes

-----------------------------------------------------------------------------
(* Each step of the code is a step of the store, or none.                  *)

LEMMA EmptyFile ==
  ASSUME NEW f
  PROVE  /\ i_size[f] = 0 => SectorsOf(f) = <<>>
         /\ i_size'[f] = 0 => SectorsOf(f)' = <<>>
<1>1. 0 .. (0 - 1) = {}
  OBVIOUS
<1>2. i_size[f] = 0 => DOMAIN SectorsOf(f) = {}
  BY <1>1 DEF SectorsOf
<1>3. i_size'[f] = 0 => DOMAIN SectorsOf(f)' = {}
  BY <1>1 DEF SectorsOf
<1>4. i_size[f] = 0 => SectorsOf(f) = <<>>
  BY <1>2 DEF SectorsOf
<1>5. i_size'[f] = 0 => SectorsOf(f)' = <<>>
  BY <1>3 DEF SectorsOf
<1> QED
  BY <1>4, <1>5

LEMMA MakesFile ==
  ASSUME Typed, Safe, EmptyOK, Sound, Sound', call.step = "none", call' = call,
         NEW ino \in NewInode, ino # Beyond, MakesInode(ino)
  PROVE  /\ ino \in Ino /\ ino \notin named /\ Files[ino] = <<>>
         /\ Files' = [Files EXCEPT ![ino] = Files'[ino]]
         /\ DOMAIN Files'[ino] = {0, 1} /\ \A i \in {0, 1} : Files'[ino][i] # Hole
         /\ Writes = {} /\ Removes = {} /\ Writes' = Writes /\ Removes' = Removes
<1>1. PICK b \in Candidates : \E blocks \in Contents(b) :
        /\ new_block(b, blocks)
        /\ disk' = Recorded(ino, blocks, b)
        /\ i_size' = [i_size EXCEPT ![ino] = SECTOR_PER_BLOCK]
        /\ i_zone' = [i_zone EXCEPT ![ino] =
                        [z \in 0 .. (Direct + 1) |-> IF z = 0 THEN b ELSE 0]]
  BY DEF MakesInode
<1>2. PICK blocks : new_block(b, blocks) /\ disk' = blocks
  BY <1>1 DEF Recorded
<1>3. ino \in Ino /\ ino \notin inode_map
  BY DEF NewInode
<1>4. Released = {}
  BY NoneReleased DEF InRm
<1>5. b \in Block /\ \A d \in Block : d # b => disk'[d] = disk[d]
  BY <1>2, NewBlock DEF Typed
<1>6. \A f \in Ino : \A q \in Slots(f) : NrAt(f, q) # b
  BY <1>2, <1>4, FreshBlock DEF Typed, Safe, HandsOK
<1>7. /\ i_size \in [Ino -> 0 .. DoubleEnd] /\ i_zone \in [Ino -> [Zone -> Word]]
  BY DEF Typed, TypeOK, Zone
<1>8. /\ i_size'[ino] = 2 /\ \A f \in Ino : f # ino => i_size'[f] = i_size[f]
      /\ \A f \in Ino : f # ino => i_zone'[f] = i_zone[f]
      /\ i_zone'[ino] = [z \in Zone |-> IF z = 0 THEN b ELSE 0]
  BY <1>1, <1>3, <1>7 DEF SECTOR_PER_BLOCK, Zone
<1>9. NrAt(ino, <<0>>)' = b
  <2>1. NrAt(ino, <<0>>)' = NrIn(i_zone'[ino], disk', <<0>>)
    BY PlacesNext
  <2>2. NrAt(ino, <<0>>)' = i_zone'[ino][0]
    BY <2>1 DEF NrIn
  <2>3. 0 \in Zone
    BY Ends DEF Zone
  <2> QED
    BY <1>8, <2>2, <2>3
<1>10. \A f \in Ino : f # ino => SectorsOf(f)' = SectorsOf(f)
  <2>1. ASSUME NEW f \in Ino, f # ino PROVE SectorsOf(f)' = SectorsOf(f)
    <3>1. NumbersSame(f) /\ LeavesKept(f)
      BY <1>5, <1>6, <1>8, <2>1, FreshKept DEF Typed
    <3> QED
      BY <1>8, <2>1, <3>1, SectorsKept DEF Typed
  <2> QED
    BY <2>1
<1>11. Files' = [Files EXCEPT ![ino] = Files'[ino]]
  BY <1>3, <1>10, OneFile
<1>12. ino \notin named /\ Files[ino] = <<>>
  <2>1. ino \notin named
    BY <1>3 DEF Safe, NamesInUse
  <2>2. i_size[ino] = 0
    BY <1>3 DEF EmptyOK
  <2> QED
    BY <1>3, <2>1, <2>2, EmptyFile, FilesNow
<1>13. DOMAIN Files'[ino] = {0, 1}
  BY <1>3, <1>8, FilesNow
<1>14. ASSUME NEW i \in {0, 1} PROVE Files'[ino][i] # Hole
  <2>1. i \in Nat /\ i < DirectEnd /\ i \div 2 = 0 /\ i \in 0 .. (i_size'[ino] - 1)
    BY <1>8, Ends
  <2>2. Path(i) = <<0>>
    BY <2>1, DirectParts
  <2>3. NrAt(ino, Path(i))' = b
    BY <1>9, <2>2
  <2>4. SectorOf(ino, i)' = [k \in Half(i % 2) |-> disk'[b][k]]
    BY <1>5, <2>3, Zenon DEF SectorOf
  <2>5. SectorOf(ino, i)' # Hole
    BY <2>1, <2>4, HalfFilled
  <2> QED
    BY <1>3, <2>1, <2>5, FilesNow
<1>15. Writes = {} /\ Removes = {} /\ Writes' = Writes /\ Removes' = Removes
  BY Works DEF Steps
<1> QED
  BY <1>3, <1>11, <1>12, <1>13, <1>14, <1>15

LEMMA CreatCreates ==
  ASSUME Typed, Safe, EmptyOK, Sound, Sound', Creat
  PROVE  \E f \in Ino : Store!Create(f)
<1>1. PICK ino \in NewInode :
        /\ MakesInode(ino)
        /\ named' = named \union {ino}
        /\ harm' = harm \union NoNumber(ino)
                        \union (IF i_size[ino] > 0 THEN {"leak"} ELSE {})
  BY Zenon DEF Creat
<1>2. ino # Beyond /\ complete' = complete \ {ino}
  BY <1>1 DEF NoNumber, Sound, MakesInode
<1>3. call.step = "none" /\ call' = call
  BY DEF Creat, Idle
<1>4. /\ ino \in Ino /\ ino \notin named /\ Files[ino] = <<>>
      /\ Files' = [Files EXCEPT ![ino] = Files'[ino]]
      /\ DOMAIN Files'[ino] = {0, 1} /\ \A i \in {0, 1} : Files'[ino][i] # Hole
      /\ Writes = {} /\ Removes = {} /\ Writes' = Writes /\ Removes' = Removes
  BY <1>1, <1>2, <1>3, MakesFile
<1>5. Store!Create(ino)
  BY <1>1, <1>2, <1>4
  DEF Store!Create, Store!Idle, Store!OnlyChanges, Store!Sectors, Store!Empty,
      Claimed, Files, Writes, Removes
<1> QED
  BY <1>4, <1>5

LEMMA CreatCutCreates ==
  ASSUME Typed, Safe, EmptyOK, Sound, Sound', CreatCut
  PROVE  (\E f \in Ino : Store!CreateCut(f)) \/ UNCHANGED Store!vars
<1>1. UNCHANGED <<named, call, running>> /\ call.step = "none"
  BY DEF CreatCut, Idle
<1>2. PICK ino \in NewInode :
        \/ /\ \/ UNCHANGED <<disk, listed>>
              \/ \E b \in Candidates : \E blocks \in Contents(b) :
                   new_block(b, blocks) /\ disk' = blocks
           /\ UNCHANGED <<i_size, i_zone, complete>>
        \/ /\ MakesInode(ino)
           /\ harm' = harm \union {"leak"} \union NoNumber(ino)
  BY Zenon DEF CreatCut
<1>3. CASE /\ \/ UNCHANGED <<disk, listed>>
              \/ \E b \in Candidates : \E blocks \in Contents(b) :
                   new_block(b, blocks) /\ disk' = blocks
           /\ UNCHANGED <<i_size, i_zone, complete>>
  <2>1. Released = {}
    BY <1>1, NoneReleased DEF InRm
  <2>2. Files' = Files
    <3>1. CASE UNCHANGED <<disk, listed>>
      BY <1>3, <3>1, FilesSame
    <3>2. CASE \E b \in Candidates : \E blocks \in Contents(b) :
                 new_block(b, blocks) /\ disk' = blocks
      <4>1. PICK b, blocks : new_block(b, blocks) /\ disk' = blocks
        BY <3>2
      <4> QED
        BY <1>3, <2>1, <4>1, FilesSpared
    <3> QED
      BY <1>3, <3>1, <3>2
  <2> QED
    BY <1>1, <1>3, <2>2, StoreStutters DEF Writes, Removes, Working
<1>4. CASE MakesInode(ino) /\ harm' = harm \union {"leak"} \union NoNumber(ino)
  <2>1. ino # Beyond /\ complete' = complete \ {ino}
    BY <1>4 DEF NoNumber, Sound, MakesInode
  <2>2. /\ ino \in Ino /\ ino \notin named /\ Files[ino] = <<>>
        /\ Files' = [Files EXCEPT ![ino] = Files'[ino]]
        /\ Writes = {} /\ Removes = {} /\ Writes' = Writes /\ Removes' = Removes
    BY <1>1, <1>4, <2>1, MakesFile
  <2>3. Store!CreateCut(ino)
    BY <1>1, <2>1, <2>2
    DEF Store!CreateCut, Store!Idle, Store!OnlyChanges, Store!Empty,
        Claimed, Files, Writes, Removes
  <2> QED
    BY <2>2, <2>3
<1> QED
  BY <1>2, <1>3, <1>4

LEMMA WriteBegins ==
  ASSUME Typed, Safe, Sound, Sound', NEW ino \in Ino, NEW len \in Lens,
         WriteBegin(ino, len)
  PROVE  Store!BeginWrite(ino)
<1>1. /\ UNCHANGED <<disk, i_zone, named, complete>>
      /\ call.step = "none" /\ call'.step = "write" /\ call'.ino = ino
      /\ ino \in named \ complete /\ i_size[ino] = 2
      /\ i_size' = [i_size EXCEPT ![ino] = len]
  BY DEF WriteBegin, Idle, SECTOR_PER_BLOCK
<1>2. len \in 1 .. DoubleEnd /\ len \in 0 .. DoubleEnd /\ len \in Nat
  BY FileMapAssumption, Ends
<1>3. i_size'[ino] = len /\ \A f \in Ino : f # ino => i_size'[f] = i_size[f]
  BY <1>1 DEF Typed, TypeOK
<1>4. /\ \A f : \A q : NrAt(f, q)' = NrAt(f, q)
      /\ \A f : \A i : SectorOf(f, i)' = SectorOf(f, i)
  BY <1>1 DEF NrAt, WordOf, SectorOf
<1>5. \A f \in Ino : f # ino => SectorsOf(f)' = SectorsOf(f)
  BY <1>3, <1>4 DEF SectorsOf
<1>6. Files' = [Files EXCEPT ![ino] = Files'[ino]]
  BY <1>5, OneFile
<1>7. Slots(ino) = {<<0>>}
  BY <1>1, PlacesOfFile, FirstPlace
<1>8. ASSUME NEW i \in 0 .. (len - 1)
      PROVE  SectorOf(ino, i) = IF i \in 0 .. 1 THEN Files[ino][i] ELSE Hole
  <2>1. i \in Nat /\ i \in 0 .. (DoubleEnd - 1) /\ Path(i) \in Places(len)
    BY <1>2, PathPlace, Ends
  <2>2. CASE i \in 0 .. 1
    BY <1>1, <2>2, FilesNow
  <2>3. CASE i \notin 0 .. 1
    <3>1. Path(i) # <<0>>
      <4>1. Path(0) = <<0>> /\ 0 \in 0 .. (DoubleEnd - 1) /\ 0 \div 2 = 0
        BY DirectParts, Ends
      <4>2. i \div 2 # 0
        BY <2>1, <2>3
      <4> QED
        BY <2>1, <4>1, <4>2, PathInjective
    <3>2. NrAt(ino, Path(i)) = 0
      <4> SUFFICES ASSUME NrAt(ino, Path(i)) # 0 PROVE FALSE
        OBVIOUS
      <4> DEFINE zones == i_zone[ino]
      <4>1. NrIn(zones, disk, Path(i)) # 0
        BY PlacesOfFile
      <4>2. ASSUME NEW z \in Zone, zones[z] # 0 PROVE z = 0
        <5>1. <<z>> \in Slots(ino)
          BY <4>2 DEF Safe, HandsOK, ZonesOK, Zone
        <5> QED
          BY <1>7, <5>1
      <4>3. \A z \in {Direct, Direct + 1} : z \in Zone /\ z # 0
        BY Ends DEF Zone
      <4> HIDE DEF zones
      <4> QED
        BY <1>2, <2>1, <3>1, <4>1, <4>2, <4>3, ZeroBehind
    <3> QED
      BY <2>3, <3>2, Words DEF SectorOf
  <2> QED
    BY <2>2, <2>3
<1>9. DOMAIN Files[ino] = 0 .. 1 /\ DOMAIN Files'[ino] = 0 .. (len - 1)
      /\ \A i \in 0 .. (len - 1) :
           Files'[ino][i] = IF i \in 0 .. 1 THEN Files[ino][i] ELSE Hole
  BY <1>1, <1>3, <1>4, <1>8, FilesNow
<1>10. Writes = {} /\ Removes = {} /\ Writes' = {ino} /\ Removes' = {}
  BY <1>1, Works DEF Steps
<1> QED
  BY <1>1, <1>6, <1>9, <1>10
  DEF Store!BeginWrite, Store!Idle, Store!OnlyChanges, Store!Sectors,
      Claimed, Files, Writes, Removes

LEMMA WriteAllocates ==
  ASSUME Typed, Safe, Sound, Sound', WriteAlloc
  PROVE  (\E f \in Ino : Store!Allocate(f)) \/ UNCHANGED Store!vars
<1>1. UNCHANGED <<i_size, named, call, complete>> /\ call.step = "write"
  BY DEF WriteAlloc, Writing, At
<1>2. PICK g \in Ino, b \in Block : \E p : g = call.ino /\ Placed(g, p, b)
  BY AllocEffect DEF Safe
<1>3. PICK p : g = call.ino /\ Placed(g, p, b)
  BY <1>2
<1>4. /\ p \in Slots(g) /\ NrAt(g, p) = 0 /\ NrAt(g, p)' = b
      /\ \A f \in Ino : \A q \in Slots(f) :
           f # g \/ q # p => NrAt(f, q)' = NrAt(f, q)
      /\ \A f \in Ino : \A q \in Slots(f) \ Inner :
           NrAt(f, q) \in Block => disk'[NrAt(f, q)] = disk[NrAt(f, q)]
  BY <1>3, Zenon DEF Placed
<1>5. ASSUME NEW f \in Ino, NEW j \in 0 .. (i_size[f] - 1), f # g \/ Path(j) # p
      PROVE  SectorOf(f, j)' = SectorOf(f, j)
  <2>1. Path(j) \in Slots(f) \ Inner
    BY SectorNow DEF Typed
  <2> QED
    BY <1>4, <1>5, <2>1, SectorKept DEF Typed
<1>6. ASSUME NEW f \in Ino, f # g PROVE SectorsOf(f)' = SectorsOf(f)
  <2>1. i_size'[f] = i_size[f] /\ \A j \in 0 .. (i_size[f] - 1) : SectorOf(f, j)' = SectorOf(f, j)
    BY <1>1, <1>5, <1>6
  <2> QED
    BY <2>1 DEF SectorsOf
<1>7. Writes = {g} /\ Removes = {} /\ Writes' = Writes /\ Removes' = Removes
  BY <1>1, <1>3, Works DEF Steps
<1>8. CASE p \in Inner
  <2>1. \A j \in 0 .. (i_size[g] - 1) : SectorOf(g, j)' = SectorOf(g, j)
    BY <1>5, <1>8, SectorNow DEF Typed
  <2>2. SectorsOf(g)' = SectorsOf(g)
    BY <1>1, <2>1 DEF SectorsOf
  <2>3. Files' = Files
    BY <1>6, <2>2, OneFile
  <2> QED
    BY <1>1, <1>7, <2>3, StoreStutters
<1>9. CASE p \notin Inner
  <2>1. i_size[g] \in 0 .. DoubleEnd /\ p \in Places(i_size[g])
    BY <1>4, PlacesOfFile DEF Typed, TypeOK
  <2>2. PICK i \in 0 .. (i_size[g] - 1) : p = Path(i)
    BY <1>9, <2>1, LeafPlace
  <2>3. ASSUME NEW j \in 0 .. (i_size[g] - 1)
        PROVE  IF j \div 2 = i \div 2
               THEN SectorOf(g, j) = Hole /\ SectorOf(g, j)' # Hole
               ELSE SectorOf(g, j)' = SectorOf(g, j)
    <3>1. i \in 0 .. (DoubleEnd - 1) /\ j \in 0 .. (DoubleEnd - 1) /\ j \in Nat
      BY SectorNow DEF Typed
    <3>2. CASE j \div 2 = i \div 2
      <4>1. Path(j) = p
        BY <2>2, <3>1, <3>2, SameBlock
      <4>2. SectorOf(g, j) = Hole
        BY <1>4, <4>1, Words DEF SectorOf
      <4>3. SectorOf(g, j)' = [k \in Half(j % 2) |-> disk'[b][k]]
        BY <1>4, <4>1, Zenon DEF SectorOf
      <4> QED
        BY <3>1, <3>2, <4>2, <4>3, HalfFilled
    <3>3. CASE j \div 2 # i \div 2
      <4>1. Path(j) # p
        BY <2>2, <3>1, <3>3, PathInjective
      <4> QED
        BY <1>5, <3>3, <4>1
    <3> QED
      BY <3>2, <3>3
  <2>4. Files' = [Files EXCEPT ![g] = Files'[g]]
    BY <1>6, OneFile
  <2>5. DOMAIN Files'[g] = DOMAIN Files[g] /\ i \in DOMAIN Files[g]
        /\ \A j \in DOMAIN Files[g] :
             IF j \div 2 = i \div 2
             THEN Files[g][j] = Hole /\ Files'[g][j] # Hole
             ELSE Files'[g][j] = Files[g][j]
    <3>1. DOMAIN Files[g] = 0 .. (i_size[g] - 1) /\ DOMAIN Files'[g] = 0 .. (i_size[g] - 1)
      BY <1>1, FilesNow, Zenon
    <3>2. \A j \in 0 .. (i_size[g] - 1) :
            Files[g][j] = SectorOf(g, j) /\ Files'[g][j] = SectorOf(g, j)'
      BY <1>1, FilesNow, Zenon
    <3> HIDE DEF Files
    <3> QED
      BY <2>3, <3>1, <3>2
  <2>6. Store!Allocate(g)
    BY <1>1, <1>7, <2>4, <2>5
    DEF Store!Allocate, Store!OnlyChanges, Store!Sectors, Claimed, Files, Writes, Removes
  <2> QED
    BY <2>6
<1> QED
  BY <1>8, <1>9

(* A sector that is written to has a place on the disk, or nothing is      *)
(* written.                                                                *)
LEMMA SectorFilled ==
  ASSUME Typed, HandsOK, Sound, Sound', NEW g \in Ino, NEW i \in 0 .. (i_size[g] - 1), NEW w,
         disk' = PutSectorIn(disk, NrAt(g, Path(i)), i % 2, w),
         i_zone' = i_zone, i_size' = i_size
  PROVE  /\ NrAt(g, Path(i)) # 0 =>
              /\ i \in DOMAIN Files[g] /\ Files[g][i] # Hole
              /\ Files' = [Files EXCEPT ![g][i] = Filled(i, w)]
         /\ NrAt(g, Path(i)) = 0 => Files' = Files
<1>1. Path(i) \in Slots(g) /\ i \in Nat
  BY SectorNow DEF Typed
<1>2. NrAt(g, Path(i)) \in {0} \union Block
  BY <1>1 DEF HandsOK, NumbersOK
<1>3. \A f \in Ino : f # g => SectorsOf(f)' = SectorsOf(f)
  BY SectorPut
<1>4. CASE NrAt(g, Path(i)) = 0
  <2>1. SectorsOf(g)' = SectorsOf(g)
    BY <1>4, SectorPut, Words
  <2> QED
    BY <1>3, <1>4, <2>1, OneFile
<1>5. CASE NrAt(g, Path(i)) \in Block
  <2>1. SectorsOf(g)' = [SectorsOf(g) EXCEPT ![i] = Filled(i, w)]
    BY <1>5, SectorPut
  <2>2. SectorOf(g, i) = [k \in Half(i % 2) |-> disk[NrAt(g, Path(i))][k]]
    BY <1>5, Zenon DEF SectorOf
  <2>3. SectorOf(g, i) # Hole
    BY <1>1, <2>2, HalfFilled
  <2>4. i \in DOMAIN Files[g] /\ Files[g][i] # Hole
    BY <2>3, FilesNow
  <2>5. Files' = [Files EXCEPT ![g] = Files'[g]]
    BY <1>3, OneFile
  <2>6. Files'[g] = [Files[g] EXCEPT ![i] = Filled(i, w)]
    BY <2>1, FilesNow
  <2> QED
    BY <1>5, <2>4, <2>5, <2>6, Words
<1> QED
  BY <1>2, <1>4, <1>5

LEMMA WriteSectorWrites ==
  ASSUME Typed, Safe, Sound, Sound', WriteSector
  PROVE  \E f \in Ino : \E i \in Store!Sectors(f) : Store!Write(f, i)
<1>1. /\ UNCHANGED <<i_size, i_zone, named, complete>> /\ call.step = "write"
      /\ call'.step = "write" /\ call'.ino = call.ino
  BY DEF WriteSector, Writing, At, NextSector, Typed, TypeOK
<1>2. PICK g \in Ino, i \in 0 .. (i_size[call.ino] - 1) : g = call.ino /\ i = call.i
  BY Calls DEF WriteSector, Writing, Typed
<1>3. disk' = PutSectorIn(disk, NrAt(g, Path(i)), i % 2, TextWord(g, i))
  BY <1>2 DEF WriteSector
<1>4. NrAt(g, Path(i)) # 0
  <2>1. i \in 0 .. (DoubleEnd - 1)
    BY <1>2, SectorNow DEF Typed
  <2>2. Path(i) \in Parts(i)
    BY <2>1, PartsShape
  <2> QED
    BY <1>2, <2>2 DEF WriteSector
<1>5. /\ i \in DOMAIN Files[g] /\ Files[g][i] # Hole
      /\ Files' = [Files EXCEPT ![g][i] = Filled(i, TextWord(g, i))]
  BY <1>1, <1>2, <1>3, <1>4, SectorFilled DEF Safe
<1>6. Writes = {g} /\ Removes = {} /\ Writes' = Writes /\ Removes' = Removes
  BY <1>1, <1>2, Works DEF Steps
<1>7. i \in Store!Sectors(g) /\ Store!Write(g, i)
  BY <1>1, <1>5, <1>6
  DEF Store!Write, Store!Sectors, TextSector, Claimed, Files, Writes, Removes
<1> QED
  BY <1>7

LEMMA RmSectorErases ==
  ASSUME Typed, Safe, Sound, Sound', RmSector
  PROVE  \/ \E f \in Ino : \E i \in Store!Sectors(f) : Store!Erase(f, i)
         \/ UNCHANGED Store!vars
<1>1. /\ UNCHANGED <<i_size, i_zone, named, complete>> /\ call.step = "rm"
      /\ call'.step \in {"rm", "free", "singles", "tail"} /\ call'.ino = call.ino
  <2>1. call.step = "rm" /\ (GoTo("free") \/ AfterSector)
    BY DEF RmSector, At
  <2>2. call.i < i_size[call.ino]
    BY <2>1 DEF Typed, CallOK
  <2> QED
    BY <2>1, <2>2, Calls, NextCall DEF RmSector, GoTo, Steps, Typed
<1>2. PICK g \in Ino, i \in 0 .. (i_size[call.ino] - 1) : g = call.ino /\ i = call.i
  BY <1>1, Calls DEF Typed, CallOK
<1>3. disk' = PutSectorIn(disk, NrAt(g, Path(i)), i % 2, 0)
  BY <1>1, <1>2 DEF RmSector, Current, Safe, HandsOK, RmWithinSingles
<1>4. Writes = {} /\ Removes = {g} /\ Writes' = Writes /\ Removes' = Removes
  BY <1>1, <1>2, Works DEF Steps
<1>5. CASE NrAt(g, Path(i)) = 0
  <2>1. Files' = Files
    BY <1>1, <1>2, <1>3, <1>5, SectorFilled DEF Safe
  <2> QED
    BY <1>1, <1>4, <2>1, StoreStutters
<1>6. CASE NrAt(g, Path(i)) # 0
  <2>1. /\ i \in DOMAIN Files[g] /\ Files[g][i] # Hole
        /\ Files' = [Files EXCEPT ![g][i] = Filled(i, 0)]
    BY <1>1, <1>2, <1>3, <1>6, SectorFilled DEF Safe
  <2>2. i \in Store!Sectors(g) /\ Store!Erase(g, i)
    BY <1>1, <1>4, <2>1
    DEF Store!Erase, Store!Sectors, BlankSector, Claimed, Files, Writes, Removes
  <2> QED
    BY <2>2
<1> QED
  BY <1>5, <1>6

(* The block of two sectors is given back, or the command ends with that.  *)
LEMMA RmFreeGives ==
  ASSUME Typed, Safe, Sound, Sound', RmFree \/ RmFreeCut
  PROVE  (\E f \in Ino : Store!GiveBack(f)) \/ UNCHANGED Store!vars
<1>1. /\ UNCHANGED <<i_size, i_zone, named, complete>> /\ call.step = "free"
      /\ disk' = disk \/ disk' = [disk EXCEPT ![Current] = HeadBlock]
      /\ RmFreeCut => Current \in Block
  BY DEF RmFree, RmFreeCut, At, Contents
<1>2. PICK g \in Ino : g = call.ino
  BY Calls DEF Typed
<1>3. PICK i \in 0 .. (i_size[g] - 1) : i = call.i
  BY <1>1, <1>2, Calls DEF Typed, CallOK
<1>4. Current = NrAt(g, Path(i))
  BY <1>2, <1>3 DEF Current
<1>5. /\ \A d \in Block : d # NrAt(g, Path(i)) => disk'[d] = disk[d]
      /\ NrAt(g, Path(i)) \notin Block => disk' = disk
  BY <1>1, <1>4, CurrentChanged
<1>6. /\ \A f \in Ino : NumbersSame(f)
      /\ \A f \in Ino : \A q \in Slots(f) : f # g \/ q # Path(i) =>
           (NrAt(f, q) \in Block => disk'[NrAt(f, q)] = disk[NrAt(f, q)])
  BY <1>1, <1>3, <1>5, LeafChange DEF Safe
<1>7. ASSUME NEW f \in Ino, f # g PROVE SectorsOf(f)' = SectorsOf(f)
  <2>1. LeavesKept(f)
    BY <1>6, <1>7 DEF LeavesKept, NumbersSame
  <2> QED
    BY <1>1, <1>6, <2>1, SectorsKept DEF Typed
<1>8. Writes = {} /\ Removes = {g} /\ Writes' = {} /\ Removes' \in {{g}, {}}
      /\ (RmFree => Removes' = {g})
  <2>1. CASE RmFree
    <3>1. AfterSector /\ call.i < i_size[call.ino]
      BY <1>1, <2>1 DEF RmFree, Typed, CallOK
    <3>2. call'.ino = call.ino /\ call'.step \in {"rm", "singles", "tail"}
      BY <3>1, NextCall DEF Typed
    <3> QED
      BY <1>1, <1>2, <3>2, Works DEF Steps
  <2>2. CASE RmFreeCut
    <3>1. call'.step = "none" /\ call.step # "none" /\ ~RmFree
      <4>1. call'.step = "none"
        BY <2>2, Calls DEF RmFreeCut, GoTo, Steps, Typed
      <4>2. RmFree => call'.step \in {"rm", "singles", "tail"}
        BY <1>1, NextCall DEF RmFree, Typed, CallOK
      <4> QED
        BY <1>1, <4>1, <4>2
    <3> QED
      BY <1>1, <1>2, <3>1, Works DEF Steps
  <2> QED
    BY <2>1, <2>2
<1>9. CASE NrAt(g, Path(i)) \notin Block
  <2>1. Files' = Files
    BY <1>1, <1>5, <1>9, FilesSame
  <2>2. RmFree
    BY <1>1, <1>4, <1>9
  <2> QED
    BY <1>1, <1>8, <2>1, <2>2, StoreStutters
<1>10. CASE NrAt(g, Path(i)) \in Block
  <2>1. ASSUME NEW j \in 0 .. (i_size[g] - 1)
        PROVE  IF j \div 2 = i \div 2
               THEN SectorOf(g, j) # Hole /\ SectorOf(g, j)' # Hole
               ELSE SectorOf(g, j)' = SectorOf(g, j)
    <3>1. /\ i \in 0 .. (DoubleEnd - 1) /\ j \in 0 .. (DoubleEnd - 1) /\ j \in Nat
          /\ Path(j) \in Slots(g)
      BY <1>3, SectorNow DEF Typed
    <3>2. NrAt(g, Path(j))' = NrAt(g, Path(j))
      BY <1>6, <3>1 DEF NumbersSame
    <3>3. CASE j \div 2 = i \div 2
      <4> DEFINE b == NrAt(g, Path(i))
      <4>1. NrAt(g, Path(j)) = b /\ b \in Block
        BY <1>10, <3>1, <3>3, SameBlock
      <4> HIDE DEF b
      <4>2. SectorOf(g, j) = [k \in Half(j % 2) |-> disk[b][k]]
        BY <4>1, Zenon DEF SectorOf
      <4>3. SectorOf(g, j)' = [k \in Half(j % 2) |-> disk'[b][k]]
        BY <3>2, <4>1, Zenon DEF SectorOf
      <4> QED
        BY <3>1, <3>3, <4>2, <4>3, HalfFilled
    <3>4. CASE j \div 2 # i \div 2
      <4>1. Path(j) # Path(i)
        BY <3>1, <3>4, PathInjective
      <4>2. SectorOf(g, j)' = SectorOf(g, j)
        BY <1>6, <3>1, <3>2, <4>1, SectorKept DEF Typed
      <4> QED
        BY <3>4, <4>2
    <3> QED
      BY <3>3, <3>4
  <2>2. Files' = [Files EXCEPT ![g] = Files'[g]]
    BY <1>7, OneFile
  <2>3. DOMAIN Files'[g] = DOMAIN Files[g] /\ i \in DOMAIN Files[g]
        /\ \A j \in DOMAIN Files[g] :
             IF j \div 2 = i \div 2
             THEN Files[g][j] # Hole /\ Files'[g][j] # Hole
             ELSE Files'[g][j] = Files[g][j]
    <3>1. DOMAIN Files[g] = 0 .. (i_size[g] - 1) /\ DOMAIN Files'[g] = 0 .. (i_size[g] - 1)
      BY <1>1, FilesNow, Zenon
    <3>2. \A j \in 0 .. (i_size[g] - 1) :
            Files[g][j] = SectorOf(g, j) /\ Files'[g][j] = SectorOf(g, j)'
      BY <1>1, FilesNow, Zenon
    <3> HIDE DEF Files
    <3> QED
      BY <2>1, <3>1, <3>2
  <2>4. Store!GiveBack(g)
    BY <1>1, <1>8, <2>2, <2>3
    DEF Store!GiveBack, Store!OnlyChanges, Store!Sectors, Claimed, Files, Writes, Removes
  <2> QED
    BY <2>4
<1> QED
  BY <1>9, <1>10

(* What write ends with holds what it has written.                         *)
LEMMA WriteEnds ==
  ASSUME Typed, Safe, Sound, Sound', WriteEnd
  PROVE  \E f \in Ino : Store!EndWrite(f)
<1>1. /\ UNCHANGED <<disk, i_size, i_zone, named>>
      /\ call.step = "write" /\ call'.step = "none" /\ call.i = i_size[call.ino]
      /\ complete' = complete \union {call.ino}
  BY Calls DEF WriteEnd, GoTo, At, Steps, Typed
<1>2. PICK g \in Ino : g = call.ino
  BY DEF Typed, TypeOK
<1>3. ASSUME NEW i \in 0 .. (i_size[g] - 1) PROVE Files[g][i] = TextSector(g, i)
  <2> DEFINE b == NrAt(g, Path(i))
             h == i % 2
             w == TextWord(g, i)
  <2>1. b \in Block /\ disk[b] = WithSector(disk[b], h, w)
    BY <1>1, <1>2 DEF Safe, WrittenOK, Written
  <2>2. SectorOf(g, i) = [k \in Half(h) |-> disk[b][k]]
    BY <2>1, Zenon DEF SectorOf
  <2>3. TextSector(g, i) = [k \in Half(h) |-> w]
    BY DEF TextSector, Filled
  <2> HIDE DEF b, h, w
  <2>4. \A k \in Half(h) : disk[b][k] = w
    BY <2>1 DEF Half, WithSector
  <2>5. SectorOf(g, i) = TextSector(g, i)
    BY <2>2, <2>3, <2>4
  <2> QED
    BY <2>5, FilesNow
<1>4. \A i \in DOMAIN Files[g] : Files[g][i] = TextSector(g, i)
  BY <1>3, FilesNow
<1>5. Files' = Files
  BY <1>1, FilesSame
<1>6. Writes = {g} /\ Removes = {} /\ Writes' = {} /\ Removes' = Removes
  BY <1>1, <1>2, Works DEF Steps
<1>7. Store!EndWrite(g)
  BY <1>1, <1>2, <1>4, <1>5, <1>6
  DEF Store!EndWrite, Store!Sectors, Claimed, Files, Writes, Removes
<1> QED
  BY <1>7

LEMMA RmRemoves ==
  ASSUME Typed, Safe, EmptyOK, Sound, Sound',
         (\E ino \in Ino : RmBegin(ino)) \/ RmClear \/ RmUnlink
  PROVE  \E f \in Ino : Store!BeginRemove(f) \/ Store!Clear(f) \/ Store!Unlink(f)
<1>1. \A step \in Steps : /\ [call EXCEPT !.step = step].step = step
                          /\ [call EXCEPT !.step = step].ino = call.ino
  BY Calls DEF Typed
<1>2. i_size \in [Ino -> 0 .. DoubleEnd] /\ call.ino \in Ino
  BY Calls DEF Typed, TypeOK
<1>3. ASSUME NEW ino \in Ino, RmBegin(ino) PROVE Store!BeginRemove(ino)
  <2>1. /\ UNCHANGED <<disk, i_size, i_zone, named>>
        /\ call.step = "none" /\ call'.step = "rm" /\ call'.ino = ino
        /\ ino \in named /\ complete' = complete \ {ino}
    BY <1>3 DEF RmBegin, Idle
  <2>2. Files' = Files
    BY <2>1, FilesSame
  <2>3. Writes = {} /\ Removes = {} /\ Writes' = {} /\ Removes' = {ino}
    BY <2>1, Works DEF Steps
  <2> QED
    BY <2>1, <2>2, <2>3
    DEF Store!BeginRemove, Store!Idle, Claimed, Files, Writes, Removes
<1>4. ASSUME RmClear PROVE \E f \in Ino : Store!Clear(f)
  <2>1. /\ UNCHANGED <<disk, named, complete>>
        /\ call.step = "clear" /\ call'.step = "freeino" /\ call'.ino = call.ino
        /\ i_size' = [i_size EXCEPT ![call.ino] = 0]
        /\ i_zone' = [i_zone EXCEPT ![call.ino] = [z \in 0 .. (Direct + 1) |-> 0]]
    BY <1>1, <1>4 DEF RmClear, At, GoTo, Steps
  <2>2. PICK g \in Ino : g = call.ino
    BY <1>2
  <2>3. /\ i_size'[g] = 0
        /\ \A f \in Ino : f # g => i_size'[f] = i_size[f] /\ i_zone'[f] = i_zone[f]
    BY <1>2, <2>1, <2>2 DEF Typed, TypeOK
  <2>4. \A f \in Ino : f # g => SectorsOf(f)' = SectorsOf(f)
    <3>1. ASSUME NEW f \in Ino, f # g PROVE SectorsOf(f)' = SectorsOf(f)
      <4>1. i_size'[f] = i_size[f] /\ i_zone'[f] = i_zone[f]
        BY <2>3, <3>1
      <4>2. \A q : NrAt(f, q)' = NrAt(f, q)
        <5>1. disk' = disk
          BY <2>1
        <5> QED
          BY <4>1, <5>1, PlacesOfFile, PlacesNext
      <4>3. \A i : SectorOf(f, i)' = SectorOf(f, i)
        BY <2>1, <4>2 DEF SectorOf
      <4> QED
        BY <4>1, <4>3 DEF SectorsOf
    <3> QED
      BY <3>1
  <2>5. Files' = [Files EXCEPT ![g] = <<>>]
    BY <2>3, <2>4, EmptyFile, OneFile, FilesNow
  <2>6. Writes = {} /\ Removes = {g} /\ Writes' = {} /\ Removes' = {g}
    BY <2>1, <2>2, Works DEF Steps
  <2>7. Store!Clear(g)
    BY <2>1, <2>5, <2>6 DEF Store!Clear, Store!Empty, Claimed, Files, Writes, Removes
  <2> QED
    BY <2>7
<1>5. ASSUME RmUnlink PROVE \E f \in Ino : Store!Unlink(f)
  <2>1. /\ UNCHANGED <<disk, i_size, i_zone, complete>>
        /\ call.step = "unlink" /\ call'.step = "none"
        /\ named' = named \ {call.ino}
    BY <1>1, <1>5 DEF RmUnlink, At, GoTo, Steps
  <2>2. PICK g \in Ino : g = call.ino
    BY <1>2
  <2>3. Files' = Files
    BY <2>1, FilesSame
  <2>4. Files[g] = <<>>
    BY <2>1, <2>2, EmptyFile, FilesNow DEF EmptyOK
  <2>5. Writes = {} /\ Removes = {g} /\ Writes' = {} /\ Removes' = {}
    BY <2>1, <2>2, Works DEF Steps
  <2>6. Store!Unlink(g)
    BY <2>1, <2>2, <2>3, <2>4, <2>5
    DEF Store!Unlink, Store!Empty, Claimed, Files, Writes, Removes
  <2> QED
    BY <2>6
<1> QED
  BY <1>3, <1>4, <1>5

(* The steps that the store does not see, but for a power failure.         *)
LEMMA OtherSteps ==
  ASSUME Typed, Safe, Sound, Sound',
         \/ WriteAllocCut \/ WriteNoBlock \/ RmPanics
         \/ (\E ino \in Ino : Read(ino))
         \/ RmSingles \/ RmTail \/ RmFreeInode \/ PowerCut \/ UNCHANGED vars
  PROVE  Store!Interrupt \/ UNCHANGED Store!vars
<1>1. \A step \in Steps : /\ [call EXCEPT !.step = step].step = step
                          /\ [call EXCEPT !.step = step].ino = call.ino
  BY Calls DEF Typed
<1>2. UNCHANGED <<named, complete, i_size, i_zone>>
  BY DEF WriteAllocCut, WriteNoBlock, RmPanics, Read, Panic, RmSingles, RmTail,
         RmFreeInode, PowerCut, vars
<1>3. ~RmSingles
  BY DEF RmSingles, Sound
<1>4. CASE WriteAllocCut
  <2>1. call.step = "write" /\ call'.step = "none"
    BY <1>1, <1>4 DEF WriteAllocCut, Writing, At, GoTo, Steps
  <2>2. Released = {}
    BY <2>1, NoneReleased DEF InRm
  <2>3. PICK b, blocks : new_block(b, blocks) /\ disk' = blocks
    BY <1>4 DEF WriteAllocCut
  <2>4. Files' = Files
    BY <1>2, <2>2, <2>3, FilesSpared
  <2> QED
    BY <1>2, <2>1, <2>4, StoreInterrupted
<1>5. CASE WriteNoBlock \/ RmPanics \/ (\E ino \in Ino : Read(ino)) \/ UNCHANGED vars
  <2>1. disk' = disk /\ call' = call
    BY <1>5 DEF WriteNoBlock, RmPanics, Read, Panic, vars
  <2> QED
    BY <1>2, <2>1, FilesSame, StoreStutters DEF Writes, Removes, Working
<1>6. CASE RmTail \/ RmFreeInode
  <2>1. /\ disk' = disk /\ call'.ino = call.ino
        /\ call.step \in {"tail", "freeino"} /\ call'.step \in {"clear", "unlink"}
    BY <1>1, <1>6 DEF RmTail, RmFreeInode, At, GoTo, Steps
  <2>2. Writes' = Writes /\ Removes' = Removes
    BY <2>1, Works DEF Steps
  <2> QED
    BY <1>2, <2>1, <2>2, FilesSame, StoreStutters
<1>7. CASE PowerCut
  <2>1. disk' = disk /\ call'.step = "none"
    BY <1>1, <1>7 DEF PowerCut, GoTo, Steps
  <2> QED
    BY <1>2, <2>1, FilesSame, StoreInterrupted
<1> QED
  BY <1>3, <1>4, <1>5, <1>6, <1>7

(* Once something irreparable has happened the store claims nothing.       *)
LEMMA HarmLasts == [Next]_vars => harm \subseteq harm'
BY DEF Next, vars, Creat, CreatCut, WriteBegin, Read, RmBegin, WriteAlloc, WriteAllocCut,
       WriteNoBlock, WriteSector, WriteEnd, RmSector, RmFree, RmFreeCut, RmPanics,
       RmSingles, RmTail, RmClear, RmFreeInode, RmUnlink, PowerCut, Panic, free_inode_of_block

LEMMA NothingClaimed ==
  /\ ~Sound /\ ~Sound' => UNCHANGED Store!vars
  /\ Sound /\ ~Sound' => Store!Harm
<1>1. ~Sound => Files = [f \in Ino |-> <<>>]
  BY DEF Files
<1>2. ~Sound' => Files' = [f \in Ino |-> <<>>]
  BY DEF Files
<1>3. ASSUME ~Sound, ~Sound' PROVE UNCHANGED Store!vars
  <2>1. Files' = Files
    BY <1>1, <1>2, <1>3
  <2>2. /\ Claimed(named)' = {} /\ Claimed(complete)' = {}
        /\ Claimed(Working({"write"}))' = {}
        /\ Claimed(Working(Steps \ {"none", "write"}))' = {}
    BY <1>3 DEF Claimed
  <2>3. \A S : Claimed(S) = {}
    BY <1>3 DEF Claimed
  <2>4. Sound' = Sound
    BY <1>3 DEF Sound
  <2> QED
    BY <2>1, <2>2, <2>3, <2>4 DEF Store!vars, Files
<1>4. ASSUME Sound, ~Sound' PROVE Store!Harm
  <2>1. /\ Claimed(named)' = {} /\ Claimed(complete)' = {}
        /\ Claimed(Working({"write"}))' = {}
        /\ Claimed(Working(Steps \ {"none", "write"}))' = {}
    BY <1>4 DEF Claimed
  <2> QED
    BY <1>2, <1>4, <2>1 DEF Store!Harm, Store!Nothing, Store!Empty, Files
<1> QED
  BY <1>3, <1>4

LEMMA StoreInit == Init => Store!Init
<1> SUFFICES ASSUME Init PROVE Store!Init
  OBVIOUS
<1>1. Sound /\ named = {} /\ complete = {} /\ Working({"write"}) = {}
      /\ Working(Steps \ {"none", "write"}) = {}
  BY DEF Init, Sound, Working
<1>2. \A f \in Ino : SectorsOf(f) = <<>>
  BY EmptyFile DEF Init
<1>3. [ino \in Ino |-> IF Sound THEN SectorsOf(ino) ELSE <<>>] = [ino \in Ino |-> <<>>]
  BY <1>1, <1>2
<1> QED
  BY <1>1, <1>3 DEF Store!Init, Store!Nothing, Store!Empty, Claimed

LEMMA StoreStep ==
  ASSUME IInv, EmptyOK, [Next]_vars
  PROVE  [Store!Next]_(Store!vars)
<1>1. CASE ~Sound
  <2>1. ~Sound'
    BY <1>1, HarmLasts DEF Sound
  <2> QED
    BY <1>1, <2>1, NothingClaimed
<1>2. CASE Sound /\ ~Sound'
  BY <1>2, NothingClaimed DEF Store!Next
<1>3. CASE Sound /\ Sound'
  <2>1. Typed /\ Safe /\ Sound /\ Sound'
    BY <1>3 DEF IInv, Typed
  <2>2. CASE Creat
    BY <2>1, <2>2, CreatCreates DEF Store!Next
  <2>3. CASE \E ino \in Ino, len \in Lens : WriteBegin(ino, len)
    BY <2>1, <2>3, WriteBegins DEF Store!Next
  <2>4. CASE WriteAlloc
    BY <2>1, <2>4, WriteAllocates DEF Store!Next
  <2>5. CASE WriteSector
    BY <2>1, <2>5, WriteSectorWrites DEF Store!Next
  <2>6. CASE WriteEnd
    BY <2>1, <2>6, WriteEnds DEF Store!Next
  <2>7. CASE (\E ino \in Ino : RmBegin(ino)) \/ RmClear \/ RmUnlink
    BY <2>1, <2>7, RmRemoves DEF Store!Next
  <2>8. CASE RmSector
    BY <2>1, <2>8, RmSectorErases DEF Store!Next
  <2>9. CASE \/ WriteAllocCut \/ WriteNoBlock \/ RmPanics
             \/ (\E ino \in Ino : Read(ino))
             \/ RmSingles \/ RmTail \/ RmFreeInode \/ PowerCut \/ UNCHANGED vars
    BY <2>1, <2>9, OtherSteps DEF Store!Next
  <2>10. CASE RmFree \/ RmFreeCut
    BY <2>1, <2>10, RmFreeGives DEF Store!Next
  <2>11. CASE CreatCut
    BY <2>1, <2>11, CreatCutCreates DEF Store!Next
  <2> QED
    BY <2>2, <2>3, <2>4, <2>5, <2>6, <2>7, <2>8, <2>9, <2>10, <2>11 DEF Next
<1> QED
  BY <1>1, <1>2, <1>3

LEMMA InitEmpty == Init => EmptyOK
BY DEF Init, EmptyOK

(* write and rm implement the store of files: no command changes a sector  *)
(* of a file that it is not working on, a file written to its end holds    *)
(* what was written, and only an emptied file loses its name, over all the *)
(* steps through zones and index blocks and a power failure after any of   *)
(* them, in the middle of free_block too, until something that the code    *)
(* does not repair has happened (file.cc:33-448, rm.cc:56-228).            *)
THEOREM FileMapStoresFiles == Spec => StoreSpec
<1>1. Init => EmptyOK
  BY InitEmpty
<1>2. IInv /\ EmptyOK /\ [Next]_vars => EmptyOK'
  BY EmptyStep
<1>3. IInv /\ EmptyOK /\ [Next]_vars => [Store!Next]_(Store!vars)
  BY StoreStep
<1> QED
  BY <1>1, <1>2, <1>3, StoreInit, FileMapInvariance, PTL DEF Spec, StoreSpec, Store!Spec

=============================================================================
