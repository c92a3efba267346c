----------------------------- MODULE BootProofs -----------------------------
(***************************************************************************)
(* Theorems about Boot, for every number of sectors, groups and set-up     *)
(* writes: what a machine that is up can rely on, and that no start costs  *)
(* the user a file.                                                        *)
(***************************************************************************)
EXTENDS Boot, SequenceTheorems, TLAPS

(* The sectors formatted when n writes have been done. *)
Done(n) == {FormatWrites[i] : i \in 1 .. n}

-----------------------------------------------------------------------------
(* The order in which a disk is formatted.                                 *)

LEMMA SectorsOf ==
  /\ \A g \in 1 .. TOTAL_GROUP : /\ <<"head", g>> \in Sector
                                 /\ <<"head+1", g>> \in Sector
  /\ \A i \in 1 .. INODE_BLKS : <<"inodes", i>> \in Sector
  /\ <<"super", 1>> \in Sector /\ <<"zones", 1>> \in Sector
  /\ <<"inodemap", 1>> \in Sector
BY DEF Sector

LEMMA HeadOrder ==
  /\ HeadWrites \in Seq(Sector)
  /\ Len(HeadWrites) = 2 * TOTAL_GROUP
  /\ \A i \in 1 .. 2 * TOTAL_GROUP :
       HeadWrites[i] \in {"head", "head+1"} \X (1 .. TOTAL_GROUP)
  /\ \A g \in 1 .. TOTAL_GROUP : /\ HeadWrites[2 * g - 1] = <<"head", g>>
                                 /\ HeadWrites[2 * g] = <<"head+1", g>>
<1>1. \A i \in 1 .. 2 * TOTAL_GROUP : (i + 1) \div 2 \in 1 .. TOTAL_GROUP
  BY BootAssumption
<1>2. \A i \in 1 .. 2 * TOTAL_GROUP :
        HeadWrites[i] \in {"head", "head+1"} \X (1 .. TOTAL_GROUP)
  BY <1>1 DEF HeadWrites
<1>3. \A i \in 1 .. 2 * TOTAL_GROUP : HeadWrites[i] \in Sector
  BY <1>2 DEF Sector
<1>4. HeadWrites \in Seq(Sector) /\ Len(HeadWrites) = 2 * TOTAL_GROUP
  <2>1. 2 * TOTAL_GROUP \in Nat
    BY BootAssumption
  <2>2. HeadWrites \in [1 .. 2 * TOTAL_GROUP -> Sector]
    BY <1>3 DEF HeadWrites
  <2> QED
    BY <2>1, <2>2, SeqDef, LenProperties
<1>5. ASSUME NEW g \in 1 .. TOTAL_GROUP
      PROVE  /\ HeadWrites[2 * g - 1] = <<"head", g>>
             /\ HeadWrites[2 * g] = <<"head+1", g>>
  <2>1. /\ 2 * g - 1 \in 1 .. 2 * TOTAL_GROUP /\ (2 * g - 1) % 2 = 1
        /\ ((2 * g - 1) + 1) \div 2 = g
    BY BootAssumption
  <2>2. /\ 2 * g \in 1 .. 2 * TOTAL_GROUP /\ (2 * g) % 2 = 0
        /\ (2 * g + 1) \div 2 = g
    BY BootAssumption
  <2> QED
    BY <2>1, <2>2 DEF HeadWrites
<1> QED
  BY <1>2, <1>4, <1>5

(* Superblock, zone bitmap, inode bitmap, inodes, heads, superblock again. *)
LEMMA WriteOrder ==
  /\ Last = 4 + INODE_BLKS + 2 * TOTAL_GROUP
  /\ FormatWrites[1] = <<"super", 1>>
  /\ FormatWrites[2] = <<"zones", 1>>
  /\ FormatWrites[3] = <<"inodemap", 1>>
  /\ \A i \in 1 .. INODE_BLKS : FormatWrites[3 + i] = <<"inodes", i>>
  /\ \A i \in 1 .. 2 * TOTAL_GROUP :
       FormatWrites[3 + INODE_BLKS + i] = HeadWrites[i]
  /\ FormatWrites[Last] = <<"super", 1>>
<1> DEFINE A == <<<<"super", 1>>, <<"zones", 1>>, <<"inodemap", 1>>>>
           B == [i \in 1 .. INODE_BLKS |-> <<"inodes", i>>]
           C == HeadWrites
           D == <<<<"super", 1>>>>
<1>1. /\ A \in Seq(Sector) /\ Len(A) = 3
      /\ A[1] = <<"super", 1>> /\ A[2] = <<"zones", 1>> /\ A[3] = <<"inodemap", 1>>
  BY SectorsOf
<1>2. B \in Seq(Sector) /\ Len(B) = INODE_BLKS
  <2>1. INODE_BLKS \in Nat /\ B \in [1 .. INODE_BLKS -> Sector]
    BY SectorsOf, BootAssumption
  <2> QED
    BY <2>1, SeqDef, LenProperties
<1>3. D \in Seq(Sector) /\ Len(D) = 1 /\ D[1] = <<"super", 1>>
  BY SectorsOf
<1>4. C \in Seq(Sector) /\ Len(C) = 2 * TOTAL_GROUP
  BY HeadOrder
<1>5. \A i \in 1 .. INODE_BLKS : B[i] = <<"inodes", i>>
  OBVIOUS
<1>6. FormatWrites = ((A \o B) \o C) \o D
  BY DEF FormatWrites
<1> DEFINE AB == A \o B
           ABC == AB \o C
<1> HIDE DEF A, B, C, D
<1>7. /\ AB \in Seq(Sector) /\ Len(AB) = 3 + INODE_BLKS
      /\ \A i \in 1 .. 3 + INODE_BLKS : AB[i] = IF i <= 3 THEN A[i] ELSE B[i - 3]
  <2>1. /\ AB \in Seq(Sector) /\ Len(AB) = Len(A) + Len(B)
        /\ \A i \in 1 .. Len(A) + Len(B) :
             AB[i] = IF i <= Len(A) THEN A[i] ELSE B[i - Len(A)]
    BY <1>1, <1>2, ConcatProperties, Zenon
  <2> QED
    BY <1>1, <1>2, <2>1, Zenon
<1> HIDE DEF AB
<1>8. /\ ABC \in Seq(Sector) /\ Len(ABC) = 3 + INODE_BLKS + 2 * TOTAL_GROUP
      /\ \A i \in 1 .. 3 + INODE_BLKS + 2 * TOTAL_GROUP :
           ABC[i] = IF i <= 3 + INODE_BLKS THEN AB[i] ELSE C[i - (3 + INODE_BLKS)]
  <2>1. /\ ABC \in Seq(Sector) /\ Len(ABC) = Len(AB) + Len(C)
        /\ \A i \in 1 .. Len(AB) + Len(C) :
             ABC[i] = IF i <= Len(AB) THEN AB[i] ELSE C[i - Len(AB)]
    BY <1>4, <1>7, ConcatProperties, Zenon
  <2> QED
    BY <1>4, <1>7, <2>1, Zenon
<1> HIDE DEF ABC
<1>9. /\ Len(ABC \o D) = 4 + INODE_BLKS + 2 * TOTAL_GROUP
      /\ \A i \in 1 .. 4 + INODE_BLKS + 2 * TOTAL_GROUP :
           (ABC \o D)[i] = IF i <= 3 + INODE_BLKS + 2 * TOTAL_GROUP THEN ABC[i]
                           ELSE D[i - (3 + INODE_BLKS + 2 * TOTAL_GROUP)]
  <2>1. /\ Len(ABC \o D) = Len(ABC) + Len(D)
        /\ \A i \in 1 .. Len(ABC) + Len(D) :
             (ABC \o D)[i] = IF i <= Len(ABC) THEN ABC[i] ELSE D[i - Len(ABC)]
    BY <1>3, <1>8, ConcatProperties, Zenon
  <2>2. 4 + INODE_BLKS + 2 * TOTAL_GROUP = 3 + INODE_BLKS + 2 * TOTAL_GROUP + 1
    BY BootAssumption
  <2> QED
    BY <1>3, <1>8, <2>1, <2>2, Zenon
<1>10. FormatWrites = ABC \o D
  BY <1>6 DEF ABC, AB
<1>11. Last = 4 + INODE_BLKS + 2 * TOTAL_GROUP
  BY <1>9, <1>10 DEF Last
<1>12. \A i \in 1 .. 3 : FormatWrites[i] = A[i]
  BY <1>7, <1>8, <1>9, <1>10, BootAssumption
<1>13. \A i \in 1 .. INODE_BLKS : FormatWrites[3 + i] = B[i]
  <2> TAKE i \in 1 .. INODE_BLKS
  <2>1. 3 + i \in 1 .. 3 + INODE_BLKS /\ ~(3 + i <= 3) /\ (3 + i) - 3 = i
    BY BootAssumption
  <2> QED
    BY <2>1, <1>7, <1>8, <1>9, <1>10, BootAssumption
<1>14. \A i \in 1 .. 2 * TOTAL_GROUP : FormatWrites[3 + INODE_BLKS + i] = C[i]
  <2> TAKE i \in 1 .. 2 * TOTAL_GROUP
  <2>1. /\ 3 + INODE_BLKS + i \in 1 .. 3 + INODE_BLKS + 2 * TOTAL_GROUP
        /\ ~(3 + INODE_BLKS + i <= 3 + INODE_BLKS)
        /\ (3 + INODE_BLKS + i) - (3 + INODE_BLKS) = i
    BY BootAssumption
  <2> QED
    BY <2>1, <1>8, <1>9, <1>10, BootAssumption
<1>15. FormatWrites[Last] = D[1]
  BY <1>9, <1>10, <1>11, BootAssumption
<1> QED
  BY <1>1, <1>3, <1>5, <1>11, <1>12, <1>13, <1>14, <1>15 DEF C

(* All sectors are there when all writes but the last have been made.      *)
LEMMA WritesEach ==
  /\ Last \in Nat /\ Last > 4
  /\ \A i \in 1 .. Last : FormatWrites[i] \in Sector
  /\ Done(Last - 1) = Sector
<1>1. Last \in Nat /\ Last > 4
  BY WriteOrder, BootAssumption
<1>2. ASSUME NEW i \in 1 .. Last
      PROVE  \/ i \in 1 .. 3
             \/ \E j \in 1 .. INODE_BLKS : i = 3 + j
             \/ \E j \in 1 .. 2 * TOTAL_GROUP : i = 3 + INODE_BLKS + j
             \/ i = Last
  <2>1. CASE 3 < i /\ i <= 3 + INODE_BLKS
    <3>1. i - 3 \in 1 .. INODE_BLKS /\ i = 3 + (i - 3)
      BY <2>1, BootAssumption
    <3> QED
      BY <3>1
  <2>2. CASE 3 + INODE_BLKS < i /\ i < Last
    <3>1. /\ i - (3 + INODE_BLKS) \in 1 .. 2 * TOTAL_GROUP
          /\ i = 3 + INODE_BLKS + (i - (3 + INODE_BLKS))
      BY <2>2, WriteOrder, BootAssumption
    <3> QED
      BY <3>1
  <2> QED
    BY <1>1, <2>1, <2>2, BootAssumption
<1>3. \A i \in 1 .. Last : FormatWrites[i] \in Sector
  <2> TAKE i \in 1 .. Last
  <2>1. CASE i \in 1 .. 3
    BY <2>1, WriteOrder, SectorsOf
  <2>2. CASE \E j \in 1 .. INODE_BLKS : i = 3 + j
    BY <2>2, WriteOrder, SectorsOf
  <2>3. CASE \E j \in 1 .. 2 * TOTAL_GROUP : i = 3 + INODE_BLKS + j
    BY <2>3, WriteOrder, HeadOrder DEF Sector
  <2> QED
    BY <1>2, <2>1, <2>2, <2>3, WriteOrder, SectorsOf
<1>4. Done(Last - 1) \subseteq Sector
  BY <1>1, <1>3 DEF Done
<1>5. Sector \subseteq Done(Last - 1)
  <2> SUFFICES ASSUME NEW x \in Sector
               PROVE  \E i \in 1 .. Last - 1 : FormatWrites[i] = x
    BY DEF Done
  <2>1. CASE x \in {"super", "zones", "inodemap"} \X {1}
    <3>1. 1 \in 1 .. Last - 1 /\ 2 \in 1 .. Last - 1 /\ 3 \in 1 .. Last - 1
      BY <1>1
    <3>2. x \in {<<"super", 1>>, <<"zones", 1>>, <<"inodemap", 1>>}
      BY <2>1
    <3> QED
      BY <3>1, <3>2, WriteOrder
  <2>2. CASE x \in {"inodes"} \X (1 .. INODE_BLKS)
    <3>1. PICK j \in 1 .. INODE_BLKS : x = <<"inodes", j>>
      BY <2>2
    <3>2. 3 + j \in 1 .. Last - 1
      BY WriteOrder, BootAssumption
    <3> QED
      BY <3>1, <3>2, WriteOrder
  <2>3. CASE x \in {"head", "head+1"} \X (1 .. TOTAL_GROUP)
    <3>1. PICK g \in 1 .. TOTAL_GROUP : x = <<"head", g>> \/ x = <<"head+1", g>>
      BY <2>3
    <3>2. \E j \in 1 .. 2 * TOTAL_GROUP : HeadWrites[j] = x
      <4>1. 2 * g - 1 \in 1 .. 2 * TOTAL_GROUP /\ 2 * g \in 1 .. 2 * TOTAL_GROUP
        BY BootAssumption
      <4> QED
        BY <3>1, <4>1, HeadOrder
    <3>3. PICK j \in 1 .. 2 * TOTAL_GROUP : HeadWrites[j] = x
      BY <3>2
    <3>4. 3 + INODE_BLKS + j \in 1 .. Last - 1
      BY WriteOrder, BootAssumption
    <3> QED
      BY <3>3, <3>4, WriteOrder
  <2> QED
    BY <2>1, <2>2, <2>3 DEF Sector
<1> QED
  BY <1>1, <1>3, <1>4, <1>5

(* One more write. *)
LEMMA OneMore ==
  ASSUME NEW n \in 1 .. Last
  PROVE  Done(n) = Done(n - 1) \union {FormatWrites[n]}
<1>1. 1 .. n = (1 .. n - 1) \union {n}
  BY WritesEach
<1> QED
  BY <1>1 DEF Done

LEMMA NothingDone == Done(0) = {}
BY DEF Done

-----------------------------------------------------------------------------
(* The inductive invariant.                                                *)

(* Where a start can be, and what it has found there. *)
PlacesSound ==
  /\ at # "dpt" => mbr
  /\ at \in {"again", "root", "block", "inode", "dots", "setup", "up", "panic"}
       => magic
  /\ at = "check" => tmp_sb = magic
  /\ at # "format" => k = 1

(* The magic number comes first, so without it nothing is formatted. *)
FormatSound ==
  /\ ~magic => fresh = {}
  /\ at = "format" => fresh = Done(k - 1)
  /\ at = "again" => fresh = Sector
  /\ magic /\ fresh # Sector => at = "format" \/ "format" \in harm

(* The root's bit is cleared before its inode when the disk is formatted,  *)
(* and set before it afterwards.                                           *)
RootFound ==
  /\ at = "format" /\ k > 3 => ~root_bit
  /\ at = "dots" => root_inode = "root"
  /\ at \in {"block", "inode", "dots", "setup", "up"} => root_bit
  /\ root_bit /\ magic /\ harm \intersect {"format", "root"} = {} =>
       \/ RootSound
       \/ at \in {"block", "inode", "dots"}
       \/ at = "format" /\ k <= 3

(* Only the start that formats makes the set-up. *)
SetupFound ==
  harm = {} =>
    /\ magic /\ content < SETUP => new_rifs \/ at \in {"format", "again"}
    /\ at = "up" => content = SETUP

(* Once the user has stored something, there is a magic number to be found. *)
UserSafe ==
  user => magic /\ at \notin {"format", "again"} /\ (new_rifs => at = "up")

Inv ==
  TypeOK /\ PlacesSound /\ FormatSound /\ RootFound /\ SetupFound /\ UserSafe

-----------------------------------------------------------------------------
LEMMA Flags ==
  TypeOK <=>
    /\ mbr \in BOOLEAN /\ magic \in BOOLEAN /\ root_bit \in BOOLEAN
    /\ user \in BOOLEAN /\ tmp_sb \in BOOLEAN /\ new_rifs \in BOOLEAN
    /\ fresh \subseteq Sector
    /\ root_inode \in {"foreign", "zero", "root"}
    /\ root_block \in {"foreign", "dots"}
    /\ content \in 0 .. SETUP
    /\ at \in Places /\ k \in 1 .. Last
    /\ harm \subseteq {"format", "root", "setup"}
BY DEF TypeOK

LEMMA InitInv == Init => Inv
<1> SUFFICES ASSUME Init PROVE Inv
  OBVIOUS
<1>1. TypeOK
  <2>1. 1 \in 1 .. Last
    BY WritesEach
  <2>2. 0 \in 0 .. SETUP
    BY BootAssumption
  <2> QED
    BY Flags, <2>1, <2>2 DEF Init, Places
<1>2. Sector # {}
  BY SectorsOf
<1>3. PlacesSound /\ FormatSound
  BY DEF Init, PlacesSound, FormatSound
<1>4. RootFound /\ SetupFound /\ UserSafe
  BY DEF Init, RootFound, SetupFound, UserSafe
<1> QED
  BY <1>1, <1>3, <1>4 DEF Inv

LEMMA FormatStep == Inv /\ Format => Inv'
<1> SUFFICES ASSUME Inv, Format PROVE Inv'
  OBVIOUS
<1> USE DEF Goes
<1> DEFINE sector == FormatWrites[k]
<1>1. /\ k \in 1 .. Last /\ at = "format" /\ sector \in Sector
      /\ magic \in BOOLEAN /\ root_bit \in BOOLEAN
  BY Flags, WritesEach DEF Inv, Format
<1>2. fresh = Done(k - 1) /\ fresh' = Done(k)
  BY <1>1, OneMore DEF Inv, FormatSound, Format
<1>3. magic' = TRUE
  <2>1. CASE k = 1
    BY <1>1, <2>1, WriteOrder DEF Format
  <2>2. CASE k # 1
    <3>1. 1 \in 1 .. k - 1
      BY <1>1, <2>2, WritesEach
    <3>2. fresh # {}
      BY <1>2, <3>1 DEF Done
    <3> QED
      BY <1>1, <3>2 DEF Format, Inv, FormatSound
  <2> QED
    BY <2>1, <2>2
<1>4. /\ k = Last => at' = "again" /\ k' = 1 /\ fresh' = Sector
      /\ k # Last => at' = "format" /\ k' = k + 1 /\ fresh' = Done(k' - 1)
  <2>1. ASSUME k = Last PROVE at' = "again" /\ k' = 1 /\ fresh' = Sector
    <3>1. Done(k - 1) = Sector
      BY <2>1, WritesEach, Zenon
    <3>2. Done(k) = Done(k - 1) \union {sector}
      BY <1>1, OneMore
    <3>3. fresh' = Sector
      BY <1>1, <1>2, <3>1, <3>2
    <3> QED
      BY <2>1, <3>3 DEF Format, Advance
  <2>2. ASSUME k # Last
        PROVE  at' = "format" /\ k' = k + 1 /\ fresh' = Done(k' - 1)
    <3>1. at' = "format" /\ k' = k + 1
      BY <2>2 DEF Format, Advance
    <3>2. k' - 1 = k
      BY <1>1, <3>1
    <3> QED
      BY <1>2, <3>1, <3>2
  <2> QED
    BY <2>1, <2>2
<1>5. k >= 3 => ~root_bit'
  <2>1. CASE k = 3
    <3>1. sector = <<"inodemap", 1>>
      BY <2>1, WriteOrder
    <3> QED
      BY <3>1 DEF Format
  <2>2. CASE k > 3
    BY <1>1, <2>2 DEF Format, Inv, RootFound
  <2>3. k \in Nat
    BY <1>1, WritesEach
  <2> QED
    BY <2>1, <2>2, <2>3
<1>6. TypeOK'
  <2>1. k' \in 1 .. Last
    BY <1>1, <1>4, WritesEach
  <2>2. fresh' \subseteq Sector
    BY <1>1, Flags DEF Format, Inv
  <2>3. /\ at' \in Places /\ content' \in 0 .. SETUP
        /\ root_inode' \in {"foreign", "zero", "root"}
    BY Flags, BootAssumption DEF Format, Inv, Places
  <2>4. /\ mbr' \in BOOLEAN /\ magic' \in BOOLEAN /\ root_bit' \in BOOLEAN
        /\ user' \in BOOLEAN /\ tmp_sb' \in BOOLEAN /\ new_rifs' \in BOOLEAN
    BY <1>3, Flags DEF Format, Inv
  <2>5. /\ root_block' \in {"foreign", "dots"}
        /\ harm' \subseteq {"format", "root", "setup"}
    BY Flags DEF Format, Inv
  <2> QED
    BY <2>1, <2>2, <2>3, <2>4, <2>5 DEF TypeOK
<1>7. PlacesSound' /\ FormatSound'
  BY <1>1, <1>3, <1>4 DEF Format, Inv, PlacesSound, FormatSound
<1>8. RootFound'
  <2>1. k' > 3 => ~root_bit'
    BY <1>1, <1>4, <1>5, WritesEach
  <2>2. at' = "again" => ~root_bit'
    BY <1>4, <1>5, WritesEach, <1>1
  <2>3. k' \in Nat
    BY <1>1, <1>4, WritesEach
  <2> QED
    BY <1>4, <2>1, <2>2, <2>3 DEF RootFound
<1>9. SetupFound' /\ UserSafe'
  BY <1>3, <1>4 DEF Format, SetupFound, UserSafe
<1> QED
  BY <1>6, <1>7, <1>8, <1>9 DEF Inv

LEMMA PowerCutStep == Inv /\ PowerCut => Inv'
<1> SUFFICES ASSUME Inv, PowerCut PROVE Inv'
  OBVIOUS
<1> USE DEF disk
<1>1. TypeOK'
  <2>1. k' \in 1 .. Last /\ at' \in Places
    BY WritesEach DEF PowerCut, Places
  <2>2. harm' \subseteq {"format", "root", "setup"}
    BY Flags DEF Inv, PowerCut
  <2>3. {mbr', magic', root_bit', user', tmp_sb', new_rifs'} \subseteq BOOLEAN
    BY Flags DEF Inv, PowerCut
  <2> QED
    BY <2>1, <2>2, <2>3 DEF Inv, PowerCut, TypeOK
<1>2. PlacesSound' /\ FormatSound'
  BY DEF PowerCut, Inv, PlacesSound, FormatSound
<1>3. RootFound'
  <2>1. root_bit /\ magic /\ harm' \intersect {"format", "root"} = {} => RootSound
    <3> SUFFICES ASSUME root_bit, magic, harm' \intersect {"format", "root"} = {}
                 PROVE  RootSound
      OBVIOUS
    <3>1. harm \intersect {"format", "root"} = {} /\ fresh = Sector
      BY DEF PowerCut
    <3>2. at \notin {"block", "inode", "dots"}
      BY DEF PowerCut
    <3>3. ~(at = "format" /\ k <= 3)
      <4> SUFFICES ASSUME at = "format", k <= 3 PROVE FALSE
        OBVIOUS
      <4>1. fresh = Done(k - 1) /\ k \in 1 .. Last
        BY Flags DEF Inv, FormatSound
      <4>2. <<"inodes", 1>> \in Sector
        BY SectorsOf, BootAssumption
      <4>3. PICK i \in 1 .. k - 1 : FormatWrites[i] = <<"inodes", 1>>
        BY <3>1, <4>1, <4>2 DEF Done
      <4>4. i = 1 \/ i = 2
        BY <4>1, WritesEach
      <4> QED
        BY <4>3, <4>4, WriteOrder
    <3> QED
      BY <3>1, <3>2, <3>3 DEF Inv, RootFound
  <2> QED
    BY <2>1 DEF PowerCut, RootFound, RootSound
<1>4. SetupFound' /\ UserSafe'
  BY DEF PowerCut, Inv, SetupFound, UserSafe
<1> QED
  BY <1>1, <1>2, <1>3, <1>4 DEF Inv

LEMMA InvStep == Inv /\ [Next]_vars => Inv'
<1> SUFFICES ASSUME Inv, [Next]_vars PROVE Inv'
  OBVIOUS
<1> USE DEF Goes, disk, memory
<1>1. CASE init_dpt
  <2>1. TypeOK'
    BY <1>1, Flags DEF init_dpt, Inv, TypeOK, Places
  <2>2. PlacesSound' /\ FormatSound' /\ RootFound' /\ SetupFound' /\ UserSafe'
    BY <1>1 DEF init_dpt, Inv, PlacesSound, FormatSound, RootFound, RootSound,
                SetupFound, UserSafe
  <2> QED
    BY <2>1, <2>2 DEF Inv
<1>2. CASE ReadSuper
  <2>1. TypeOK'
    BY <1>2, Flags DEF ReadSuper, Inv, TypeOK, Places
  <2>2. PlacesSound' /\ FormatSound' /\ RootFound' /\ SetupFound' /\ UserSafe'
    BY <1>2 DEF ReadSuper, Inv, PlacesSound, FormatSound, RootFound, RootSound,
                SetupFound, UserSafe
  <2> QED
    BY <2>1, <2>2 DEF Inv
<1>3. CASE check_rifs
  <2>1. TypeOK'
    BY <1>3, Flags DEF check_rifs, Inv, TypeOK, Places
  <2>2. PlacesSound'
    BY <1>3 DEF check_rifs, Inv, PlacesSound, Detected
  <2>3. FormatSound'
    BY <1>3, NothingDone DEF check_rifs, Inv, PlacesSound, FormatSound, Detected
  <2>4. RootFound' /\ SetupFound'
    BY <1>3 DEF check_rifs, Inv, PlacesSound, RootFound, RootSound, SetupFound, Detected
  <2>5. UserSafe'
    BY <1>3 DEF check_rifs, Inv, PlacesSound, UserSafe, Detected
  <2> QED
    BY <2>1, <2>2, <2>3, <2>4, <2>5 DEF Inv
<1>4. CASE Format
  BY <1>4, FormatStep
<1>5. CASE Again
  <2>1. TypeOK'
    BY <1>5, Flags DEF Again, Reread, Inv, TypeOK, Places
  <2>2. PlacesSound' /\ FormatSound' /\ RootFound' /\ SetupFound' /\ UserSafe'
    BY <1>5 DEF Again, Reread, Inv, PlacesSound, FormatSound, RootFound, RootSound,
                SetupFound, UserSafe
  <2> QED
    BY <2>1, <2>2 DEF Inv
<1>6. CASE RootBit
  <2>1. TypeOK'
    BY <1>6, Flags DEF RootBit, Inv, TypeOK, Places
  <2>2. PlacesSound' /\ FormatSound' /\ RootFound' /\ SetupFound' /\ UserSafe'
    BY <1>6 DEF RootBit, Inv, PlacesSound, FormatSound, RootFound, RootSound,
                SetupFound, UserSafe
  <2> QED
    BY <2>1, <2>2 DEF Inv
<1>7. CASE RootBlock
  <2>1. TypeOK'
    BY <1>7, Flags DEF RootBlock, Inv, TypeOK, Places
  <2>2. PlacesSound' /\ FormatSound' /\ SetupFound' /\ UserSafe'
    BY <1>7 DEF RootBlock, Inv, PlacesSound, FormatSound, SetupFound, UserSafe
  <2>3. RootFound'
    BY <1>7, SectorsOf, BootAssumption
       DEF RootBlock, FirstHead, Inv, PlacesSound, FormatSound, RootFound, RootSound
  <2> QED
    BY <2>1, <2>2, <2>3 DEF Inv
<1>8. CASE RootInode
  <2>1. TypeOK'
    BY <1>8, Flags DEF RootInode, Inv, TypeOK, Places
  <2>2. PlacesSound' /\ FormatSound' /\ RootFound' /\ SetupFound' /\ UserSafe'
    BY <1>8 DEF RootInode, Inv, PlacesSound, FormatSound, RootFound, RootSound,
                SetupFound, UserSafe
  <2> QED
    BY <2>1, <2>2 DEF Inv
<1>9. CASE RootDots
  <2>1. TypeOK'
    BY <1>9, Flags DEF RootDots, Inv, TypeOK, Places
  <2>2. PlacesSound' /\ FormatSound' /\ RootFound' /\ SetupFound' /\ UserSafe'
    BY <1>9 DEF RootDots, Inv, PlacesSound, FormatSound, RootFound, RootSound,
                SetupFound, UserSafe
  <2> QED
    BY <2>1, <2>2 DEF Inv
<1>10. CASE RootDetected
  <2>1. TypeOK'
    BY <1>10, Flags DEF RootDetected, Inv, TypeOK, Places
  <2>2. PlacesSound' /\ FormatSound' /\ RootFound' /\ SetupFound' /\ UserSafe'
    BY <1>10 DEF RootDetected, Inv, PlacesSound, FormatSound, RootFound, RootSound,
                SetupFound, UserSafe
  <2> QED
    BY <2>1, <2>2 DEF Inv
<1>11. CASE SetupWrite
  <2>1. TypeOK'
    BY <1>11, Flags, BootAssumption DEF SetupWrite, Inv, TypeOK, Places
  <2>2. PlacesSound' /\ FormatSound' /\ RootFound' /\ SetupFound' /\ UserSafe'
    BY <1>11 DEF SetupWrite, Inv, PlacesSound, FormatSound, RootFound, RootSound,
                SetupFound, UserSafe
  <2> QED
    BY <2>1, <2>2 DEF Inv
<1>12. CASE SetupDone
  <2>1. TypeOK'
    BY <1>12, Flags DEF SetupDone, Inv, TypeOK, Places
  <2>2. PlacesSound' /\ FormatSound' /\ RootFound' /\ UserSafe'
    BY <1>12 DEF SetupDone, Inv, PlacesSound, FormatSound, RootFound, RootSound, UserSafe
  <2>3. SetupFound'
    BY <1>12, Flags, BootAssumption DEF SetupDone, Inv, PlacesSound, SetupFound
  <2> QED
    BY <2>1, <2>2, <2>3 DEF Inv
<1>13. CASE UserWrites
  <2>1. TypeOK'
    BY <1>13, Flags DEF UserWrites, Inv, TypeOK, Places
  <2>2. PlacesSound' /\ FormatSound' /\ RootFound' /\ SetupFound' /\ UserSafe'
    BY <1>13 DEF UserWrites, Inv, PlacesSound, FormatSound, RootFound, RootSound,
                SetupFound, UserSafe
  <2> QED
    BY <2>1, <2>2 DEF Inv
<1>14. CASE PowerCut
  BY <1>14, PowerCutStep
<1>15. CASE UNCHANGED vars
  BY <1>15 DEF vars, Inv, TypeOK, PlacesSound, FormatSound, Done, RootFound,
               RootSound, SetupFound, UserSafe
<1> QED
  BY <1>1, <1>2, <1>3, <1>4, <1>5, <1>6, <1>7, <1>8, <1>9, <1>10, <1>11, <1>12,
     <1>13, <1>14, <1>15 DEF Next, Step

-----------------------------------------------------------------------------
(* What a start can rely on holds at all times. *)
THEOREM BootInvariance == Spec => []Inv
<1>1. Init => Inv
  BY InitInv
<1>2. Inv /\ [Next]_vars => Inv'
  BY InvStep
<1> QED
  BY <1>1, <1>2, PTL DEF Spec

(* The variables of the start have their types. *)
THEOREM BootTypeCorrect == Spec => []TypeOK
<1>1. Inv => TypeOK
  BY DEF Inv
<1> QED
  BY <1>1, BootInvariance, PTL

(* A machine that is up has a formatted disk, a root directory and the     *)
(* first set-up, except as the windows of a power failure allow.           *)
THEOREM UpIsSound == Spec => []SoundWhenUp
<1>1. Inv => SoundWhenUp
  <2> SUFFICES ASSUME Inv PROVE SoundWhenUp
    OBVIOUS
  <2>1. at \in {"block", "up"} /\ "format" \notin harm => fresh = Sector
    BY DEF Inv, PlacesSound, FormatSound
  <2>2. at = "up" => mbr /\ magic /\ root_bit
    BY DEF Inv, PlacesSound, RootFound
  <2>3. at = "up" /\ harm \intersect {"format", "root"} = {} => RootSound
    BY <2>2 DEF Inv, RootFound
  <2>4. at = "up" /\ harm = {} => content = SETUP
    BY DEF Inv, SetupFound
  <2> QED
    BY <2>1, <2>2, <2>3, <2>4 DEF SoundWhenUp
<1> QED
  BY <1>1, BootInvariance, PTL

(* No start costs the user a file: neither a format nor a set-up comes     *)
(* after anything that the user has stored.                                *)
THEOREM FilesKept == Spec => KeepsFiles
<1>1. Inv /\ [Next]_vars => [user => user' /\ content' = content]_vars
  <2> SUFFICES ASSUME Inv, Next, user
               PROVE  user' /\ content' = content
    BY DEF vars
  <2>1. ~Format /\ ~SetupWrite
    BY DEF Inv, UserSafe, Format, SetupWrite, Goes
  <2> QED
    BY <2>1 DEF Next, Step, init_dpt, ReadSuper, check_rifs, Again, RootBit, RootBlock,
       RootInode, RootDots, RootDetected, SetupDone, UserWrites, PowerCut, disk, Goes
<1> QED
  BY <1>1, BootInvariance, PTL DEF Spec, KeepsFiles
=============================================================================
