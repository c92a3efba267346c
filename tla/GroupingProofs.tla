--------------------------- MODULE GroupingProofs ---------------------------
(***************************************************************************)
(* Theorems about the grouped free list, for every number of groups and    *)
(* every group size from three blocks up.                                  *)
(***************************************************************************)
EXTENDS Grouping, FiniteSetTheorems, WellFoundedInduction, TLAPS

-----------------------------------------------------------------------------
(* Types.                                                                  *)

LEMMA MaxU16Nat == MaxU16 \in Nat
BY DEF MaxU16

LEMMA Numbers ==
  /\ LastBlk \in Nat /\ LastBlk >= 3
  /\ Slot \subseteq U16
  /\ 0 \in Slot /\ 1 \in Slot /\ 2 \in Slot
  /\ 1 \in Block /\ 0 \in Nr /\ Block \subseteq Nr
  /\ \A b \in Nr : b # 0 => b \in Block
<1>1. LastBlk \in Nat /\ LastBlk >= 3
  <2>1. \A x, y \in Nat : x * y \in Nat
    BY SMT
  <2>2. \A x, y \in Nat : x >= 3 /\ y >= 1 => x * y >= 3
    BY SMT
  <2> QED
    BY <2>1, <2>2, GroupingAssumption DEF LastBlk
<1>2. Slot \subseteq U16
  BY GroupingAssumption, MaxU16Nat DEF Slot, U16
<1>3. 0 \in Slot /\ 1 \in Slot /\ 2 \in Slot
  BY GroupingAssumption DEF Slot
<1>4. 1 \in Block /\ 0 \in Nr /\ Block \subseteq Nr
  BY <1>1 DEF Block, Nr
<1>5. \A b \in Nr : b # 0 => b \in Block
  BY <1>1 DEF Block, Nr
<1> QED
  BY <1>1, <1>2, <1>3, <1>4, <1>5

LEMMA ZeroHeadType == ZeroHead \in GroupHead
BY Numbers, MaxU16Nat DEF ZeroHead, GroupHead, U16

(* The heads that formatting writes. *)
LEMMA FormattedHeadType ==
  ASSUME NEW i \in 1..TOTAL_GROUP
  PROVE  FormattedHead(i) \in GroupHead
<1>1. /\ i * BLKS_PER_GROUP \in Nat
      /\ i * BLKS_PER_GROUP <= LastBlk
      /\ i * BLKS_PER_GROUP >= BLKS_PER_GROUP
      /\ i # TOTAL_GROUP => i * BLKS_PER_GROUP + BLKS_PER_GROUP <= LastBlk
  <2>1. \A x, y, z \in Nat : x <= y => x * z \in Nat /\ x * z <= z * y
    BY SMT
  <2>2. \A x, z \in Nat : x >= 1 => x * z >= z
    BY SMT
  <2>3. \A x, y, z \in Nat : x + 1 <= y => x * z + z <= z * y
    BY SMT
  <2> QED
    BY <2>1, <2>2, <2>3, GroupingAssumption DEF LastBlk
<1>2. CASE i # TOTAL_GROUP
  BY <1>1, <1>2, GroupingAssumption, Numbers
     DEF FormattedHead, GroupHead, U16, Slot, Nr
<1>3. CASE i = TOTAL_GROUP
  BY <1>1, <1>3, GroupingAssumption, Numbers
     DEF FormattedHead, GroupHead, U16, Slot, Nr
<1> QED
  BY <1>2, <1>3

LEMMA FormattedDiskType == init_free_space_grouping \in [Nr -> GroupHead]
<1> SUFFICES ASSUME NEW b \in Nr
             PROVE  init_free_space_grouping[b] \in GroupHead
  BY DEF init_free_space_grouping
<1>1. CASE b \in InitHeads
  <2>1. PICK i \in 1..TOTAL_GROUP : b = HeadOfGroup(i)
    BY <1>1 DEF InitHeads
  <2>2. (CHOOSE k \in 1..TOTAL_GROUP : b = HeadOfGroup(k)) \in 1..TOTAL_GROUP
    BY <2>1
  <2> QED
    BY <1>1, <2>2, FormattedHeadType DEF init_free_space_grouping
<1>2. CASE b \notin InitHeads
  BY <1>2, ZeroHeadType DEF init_free_space_grouping
<1> QED
  BY <1>1, <1>2

LEMMA RefillType ==
  ASSUME NEW g \in GroupHead, NEW s \in Nr
  PROVE  Refill(g, s) \in GroupHead
BY DEF Refill, GroupHead

LEMMA RoleType ==
  ASSUME NEW b, NEW r \in Roles, role \in [Block -> Roles]
  PROVE  Role(b, r) \in [Block -> Roles]
BY DEF Role

(* A call of new_block, whatever it finds in the group heads. *)
LEMMA NewBlockType ==
  ASSUME TypeOK, new_block
  PROVE  /\ disk' \in [Nr -> GroupHead]
         /\ s_specific_blk_nr' \in Nr
         /\ specific_block' \in GroupHead
         /\ is_specific_block_set' \in BOOLEAN
         /\ power' \in PowerStates
         /\ role' \in [Block -> Roles]
         /\ open' \in BOOLEAN
<1> DEFINE s == IF is_specific_block_set THEN s_specific_blk_nr ELSE 1
           h == IF is_specific_block_set THEN specific_block ELSE disk[1]
<1>1. s \in Nr /\ h \in GroupHead
  BY Numbers DEF TypeOK
<1>2. is_specific_block_set' \in BOOLEAN
  BY DEF new_block
<1> HIDE DEF s, h
<1>3. CASE TakeEntry(h, s)
  <2> DEFINE taken == [h EXCEPT !.s_free = h.s_free - 1]
  <2>1. PICK junk \in JunkWords :
          /\ h.s_free > 1
          /\ specific_block' = taken
          /\ s_specific_blk_nr' = s
          /\ disk' = [disk EXCEPT ![s] = taken]
          /\ role' = Role(Entry(h, TakenSlot(h), junk), "owned")
          /\ power' = IF power = "again" THEN "up" ELSE power
          /\ UNCHANGED open
    BY <1>3 DEF TakeEntry, Written, NamesSpecific
  <2>2. [h EXCEPT !.s_free = h.s_free - 1] \in GroupHead
    BY <1>1, <2>1, MaxU16Nat DEF GroupHead, U16
  <2>3. role' \in [Block -> Roles]
    BY <2>1, RoleType DEF TypeOK, Roles
  <2> QED
    BY <1>1, <1>2, <2>1, <2>2, <2>3 DEF TypeOK, PowerStates
<1>4. CASE SwitchGroup(h, s)
  <2> DEFINE next == h.s_free_blk_nr[0]
  <2>1. next \in Nr
    BY <1>1, Numbers DEF GroupHead
  <2>2. disk[next] \in GroupHead
    BY <2>1 DEF TypeOK
  <2>3. Refill(disk[next], s) \in GroupHead
    BY <1>1, <2>2, RefillType
  <2>4. Role(s, "lost") \in [Block -> Roles] /\ Role(s, "listed") \in [Block -> Roles]
    BY RoleType DEF TypeOK, Roles
  <2>5. specific_block' \in GroupHead /\ s_specific_blk_nr' \in Nr
    BY <1>4, <2>1, <2>3 DEF SwitchGroup, NamesSpecific
  <2>6. disk' \in [Nr -> GroupHead]
    BY <1>4, <2>1, <2>3 DEF SwitchGroup, Written, TypeOK
  <2>7. role' \in [Block -> Roles]
    BY <1>4, <2>4 DEF SwitchGroup, Roles
  <2>8. power' \in PowerStates /\ open' \in BOOLEAN
    BY <1>4 DEF SwitchGroup, TypeOK, PowerStates
  <2> QED
    BY <1>2, <2>5, <2>6, <2>7, <2>8
<1>5. CASE NoneLeft(h, s)
  BY <1>1, <1>2, <1>5 DEF NoneLeft, NamesSpecific, TypeOK, PowerStates
<1> QED
  BY <1>3, <1>4, <1>5 DEF new_block, s, h

LEMMA FreeBlockType ==
  ASSUME TypeOK, NEW b \in Block, free_block(b)
  PROVE  /\ disk' \in [Nr -> GroupHead]
         /\ specific_block' \in GroupHead
         /\ power' \in PowerStates
         /\ role' \in [Block -> Roles]
<1> DEFINE h == specific_block
           listing == [s_free |-> h.s_free + 1,
                       s_free_blk_nr |-> [h.s_free_blk_nr EXCEPT ![h.s_free] = b]]
           linking == [s_free |-> 1,
                       s_free_blk_nr |-> [h.s_free_blk_nr EXCEPT ![0] = b]]
<1>1. h \in GroupHead /\ b \in Nr
  BY Numbers DEF TypeOK
<1>2. h.s_free < BLKS_PER_GROUP => listing \in GroupHead
  <2>1. h.s_free < BLKS_PER_GROUP => h.s_free + 1 \in U16
    <3>1. h.s_free \in Nat
      BY <1>1, MaxU16Nat DEF GroupHead, U16
    <3> QED
      BY <3>1, GroupingAssumption, MaxU16Nat DEF U16
  <2>2. [h.s_free_blk_nr EXCEPT ![h.s_free] = b] \in [Slot -> Nr]
    BY <1>1 DEF GroupHead
  <2> QED
    BY <2>1, <2>2 DEF GroupHead
<1>3. linking \in GroupHead
  BY <1>1, Numbers DEF GroupHead
<1>4. specific_block' \in GroupHead /\ disk' \in [Nr -> GroupHead]
  <2>1. CASE /\ h.s_free < BLKS_PER_GROUP
             /\ specific_block' = listing
             /\ disk' = Written(disk, listing, s_specific_blk_nr)
    BY <1>2, <2>1 DEF TypeOK, Written
  <2>2. CASE /\ specific_block' = linking
             /\ disk' = Written(Written(disk, h, b), linking, s_specific_blk_nr)
    BY <1>1, <1>3, <2>2 DEF TypeOK, Written
  <2>3. CASE specific_block' = h /\ disk' = disk
    BY <1>1, <2>3 DEF TypeOK
  <2> QED
    BY <2>1, <2>2, <2>3 DEF free_block
<1>5. role' \in [Block -> Roles]
  <2>1. \E r \in Roles : role' = Role(b, r)
    BY DEF free_block, Roles
  <2> QED
    BY <2>1, RoleType DEF TypeOK
<1>6. power' \in PowerStates
  BY DEF free_block, TypeOK, PowerStates
<1> QED
  BY <1>4, <1>5, <1>6

LEMMA StepType == TypeOK /\ [Next]_vars => TypeOK'
<1> SUFFICES ASSUME TypeOK, [Next]_vars
             PROVE  TypeOK'
  OBVIOUS
<1>1. CASE NewBlock
  BY <1>1, NewBlockType DEF NewBlock, TypeOK
<1>2. CASE NewBlockCut
  <2>1. s_specific_blk_nr' \in Nr
    BY <1>2, Numbers DEF NewBlockCut, TypeOK, GroupHead
  <2>2. role' \in [Block -> Roles]
    BY <1>2, RoleType DEF NewBlockCut, TypeOK, Roles
  <2> QED
    BY <1>2, <2>1, <2>2, ZeroHeadType DEF NewBlockCut, TypeOK, PowerStates
<1>3. ASSUME NEW b \in Block, FreeBlock(b)
      PROVE  TypeOK'
  BY <1>3, FreeBlockType DEF FreeBlock, TypeOK
<1>4. ASSUME NEW b \in Block, FreeBlockCut(b)
      PROVE  TypeOK'
  BY <1>4, Numbers, ZeroHeadType DEF FreeBlockCut, TypeOK, PowerStates
<1>5. ASSUME NEW b \in Block, WriteData(b)
      PROVE  TypeOK'
  BY <1>5, Numbers, GroupingAssumption DEF WriteData, TypeOK
<1>6. CASE InitRootDir
  BY <1>6, NewBlockType DEF InitRootDir, TypeOK
<1>7. CASE InitRootDirCut
  BY <1>7, ZeroHeadType DEF InitRootDirCut, TypeOK
<1>8. CASE SetupFs
  BY <1>8 DEF SetupFs, LoadedNr, TypeOK, PowerStates
<1>9. CASE Restart
  BY <1>9, ZeroHeadType DEF Restart, TypeOK, PowerStates
<1>10. CASE UNCHANGED vars
  BY <1>10 DEF vars, TypeOK
<1> QED
  BY <1>1, <1>2, <1>3, <1>4, <1>5, <1>6, <1>7, <1>8, <1>9, <1>10 DEF Next

(* Every reachable state of the free list is well formed: in particular no *)
(* call leaves a number beyond the data zone or beyond u16 in a group head *)
(* (new_block, free_block).                                                *)
THEOREM TypeCorrect == Spec => []TypeOK
<1>1. Init => TypeOK
  BY FormattedDiskType, ZeroHeadType, Numbers
     DEF Init, TypeOK, PowerStates, Roles
<1> QED
  BY <1>1, StepType, PTL DEF Spec

-----------------------------------------------------------------------------
(* The free list, one lemma per way in which the disk changes.             *)

(* File data, and the first write of an interrupted free_block, go to      *)
(* blocks that are not heads.                                              *)
LEMMA HeadsUntouched ==
  ASSUME FreeList, role' = role, Sp' = Sp,
         \A h \in Heads : disk'[h] = disk[h]
  PROVE  FreeList'
<1>1. Heads' = Heads
  BY DEF Heads
<1>2. \A h \in Heads : NextHead(h)' = NextHead(h) /\ Entries(h)' = Entries(h)
  BY DEF NextHead, Entries
<1>3. HeadsFilled'
  BY <1>1 DEF FreeList, HeadsFilled
<1>4. ListsFreeBlocks'
  BY <1>1, <1>2 DEF FreeList, ListsFreeBlocks
<1>5. ListedOnce'
  BY <1>1, <1>2 DEF FreeList, ListedOnce
<1>6. OneChain'
  BY <1>1, <1>2 DEF FreeList, OneChain
<1> QED
  BY <1>3, <1>4, <1>5, <1>6 DEF FreeList

LEMMA HeadTypes ==
  ASSUME TypeOK
  PROVE  \A h \in Nr : /\ disk[h].s_free \in Nat
                       /\ disk[h].s_free_blk_nr \in [Slot -> Nr]
                       /\ disk[h] = [s_free |-> disk[h].s_free,
                                     s_free_blk_nr |-> disk[h].s_free_blk_nr]
BY MaxU16Nat DEF TypeOK, GroupHead, U16

(* new_block hands out the last entry of the specific block. *)
LEMMA EntryTaken ==
  ASSUME TypeOK, FreeList, disk[Sp].s_free > 1, Sp' = Sp,
         disk' = [disk EXCEPT ![Sp] =
                    [disk[Sp] EXCEPT !.s_free = disk[Sp].s_free - 1]],
         role' = [role EXCEPT ![disk[Sp].s_free_blk_nr[disk[Sp].s_free - 1]]
                    = "owned"]
  PROVE  /\ FreeList'
         /\ disk[Sp].s_free_blk_nr[disk[Sp].s_free - 1] \in Block
         /\ role[disk[Sp].s_free_blk_nr[disk[Sp].s_free - 1]] = "listed"
<1> DEFINE k == disk[Sp].s_free - 1
           e == disk[Sp].s_free_blk_nr[k]
<1>1. Sp \in Heads /\ Sp \in Nr /\ Heads \subseteq Nr
  BY Numbers DEF FreeList, HeadsFilled, Heads
<1>2. disk[Sp].s_free \in Nat /\ k \in Nat /\ k \in Entries(Sp)
  <2>1. disk[Sp].s_free \in Nat
    BY <1>1, HeadTypes
  <2> QED
    BY <2>1 DEF Entries
<1>3. e \in Block /\ role[e] = "listed"
  BY <1>1, <1>2 DEF FreeList, ListsFreeBlocks
<1>4. Heads' = Heads
  BY <1>3 DEF Heads, TypeOK
<1>5. /\ \A h \in Heads : disk'[h].s_free_blk_nr = disk[h].s_free_blk_nr
      /\ \A h \in Heads \ {Sp} : disk'[h] = disk[h]
      /\ disk'[Sp].s_free = k
  BY <1>1, HeadTypes DEF TypeOK
<1>6. /\ \A h \in Heads : NextHead(h)' = NextHead(h)
      /\ \A h \in Heads \ {Sp} : Entries(h)' = Entries(h)
      /\ Entries(Sp)' = Entries(Sp) \ {k}
  BY <1>2, <1>5 DEF NextHead, Entries
<1>7. HeadsFilled'
  <2>1. \A h \in Heads \ {Sp} : disk'[h].s_free = disk[h].s_free
    BY <1>5
  <2>2. disk[Sp].s_free \in 1..BLKS_PER_GROUP
    BY DEF FreeList, HeadsFilled
  <2>3. disk'[Sp].s_free \in 1..BLKS_PER_GROUP
    BY <1>2, <1>5, <2>2, GroupingAssumption
  <2> QED
    BY <1>1, <1>4, <2>1, <2>3 DEF FreeList, HeadsFilled
<1>8. ListsFreeBlocks'
  <2>1. ASSUME NEW h \in Heads, NEW j \in Entries(h)'
        PROVE  /\ disk'[h].s_free_blk_nr[j] \in Block
               /\ role'[disk'[h].s_free_blk_nr[j]] = "listed"
    <3>1. j \in Entries(h) /\ ~(h = Sp /\ j = k)
      BY <1>6, <2>1
    <3>2. disk[h].s_free_blk_nr[j] # e
      BY <1>1, <1>2, <3>1 DEF FreeList, ListedOnce
    <3> QED
      BY <1>5, <3>1, <3>2 DEF FreeList, ListsFreeBlocks, TypeOK
  <2>2. ASSUME NEW b \in Block, role'[b] = "listed"
        PROVE  \E h \in Heads : \E j \in Entries(h)' :
                 disk'[h].s_free_blk_nr[j] = b
    <3>1. role[b] = "listed" /\ b # e
      BY <1>3, <2>2 DEF TypeOK
    <3>2. PICK h \in Heads : \E j \in Entries(h) : disk[h].s_free_blk_nr[j] = b
      BY <3>1 DEF FreeList, ListsFreeBlocks
    <3>3. PICK j \in Entries(h) : disk[h].s_free_blk_nr[j] = b
      BY <3>2
    <3>4. j \in Entries(h)'
      BY <1>6, <3>1, <3>3
    <3> QED
      BY <1>5, <3>3, <3>4
  <2> QED
    BY <1>4, <2>1, <2>2 DEF ListsFreeBlocks
<1>9. ListedOnce'
  <2>1. \A h \in Heads : Entries(h)' \subseteq Entries(h)
    BY <1>6
  <2> QED
    BY <1>4, <1>5, <2>1 DEF FreeList, ListedOnce
<1>10. OneChain'
  BY <1>4, <1>6 DEF FreeList, OneChain
<1> QED
  BY <1>3, <1>7, <1>8, <1>9, <1>10 DEF FreeList

(* The drained specific block leaves the list, and the next head takes its *)
(* place: what both the complete and the interrupted group switch do.      *)
LEMMA NextGroup ==
  ASSUME TypeOK, FreeList, disk[Sp].s_free = 1, NextHead(Sp) # 0
  PROVE  /\ Sp \in Block
         /\ NextHead(Sp) \in Heads \ {Sp}
         /\ Entries(Sp) = {}
         /\ \A h \in Heads \ {Sp} :
              NextHead(h) \in (Heads \ {Sp, NextHead(Sp)}) \union {0}
         /\ \A S \in SUBSET (Heads \ {Sp, NextHead(Sp)}) : S # {} =>
              \E h \in (Heads \ {Sp}) \ S : NextHead(h) \in S
<1>1. Sp \in Heads /\ Sp \in Block
  BY DEF FreeList, HeadsFilled, Heads
<1>2. NextHead(Sp) \in Heads \ {Sp}
  BY <1>1 DEF FreeList, OneChain
<1>3. Entries(Sp) = {}
  BY DEF Entries
<1>4. ASSUME NEW h \in Heads \ {Sp}
      PROVE  NextHead(h) \in (Heads \ {Sp, NextHead(Sp)}) \union {0}
  BY <1>1 DEF FreeList, OneChain
<1>5. ASSUME NEW S \in SUBSET (Heads \ {Sp, NextHead(Sp)}), S # {}
      PROVE  \E h \in (Heads \ {Sp}) \ S : NextHead(h) \in S
  <2>1. PICK h \in Heads \ S : NextHead(h) \in S
    BY <1>5 DEF FreeList, OneChain
  <2>2. h # Sp
    BY <2>1
  <2> QED
    BY <2>1, <2>2
<1> QED
  BY <1>1, <1>2, <1>3, <1>4, <1>5

LEMMA GroupSwitchCut ==
  ASSUME TypeOK, FreeList, disk[Sp].s_free = 1, NextHead(Sp) # 0,
         disk' = disk, Sp' = NextHead(Sp),
         role' = [role EXCEPT ![Sp] = "lost"]
  PROVE  FreeList'
<1> DEFINE next == NextHead(Sp)
<1>1. Heads' = Heads \ {Sp}
  BY NextGroup DEF Heads, TypeOK
<1>2. \A h \in Heads : NextHead(h)' = NextHead(h) /\ Entries(h)' = Entries(h)
  BY DEF NextHead, Entries
<1>3. HeadsFilled'
  BY <1>1, NextGroup, GroupingAssumption DEF FreeList, HeadsFilled
<1>4. ListsFreeBlocks'
  <2>1. ASSUME NEW h \in Heads, NEW j \in Entries(h)
        PROVE  /\ disk[h].s_free_blk_nr[j] \in Block
               /\ role'[disk[h].s_free_blk_nr[j]] = "listed"
    <3>1. /\ disk[h].s_free_blk_nr[j] \in Block
          /\ role[disk[h].s_free_blk_nr[j]] = "listed"
      BY DEF FreeList, ListsFreeBlocks
    <3>2. role[Sp] = "head"
      BY DEF FreeList, HeadsFilled, Heads
    <3> QED
      BY <3>1, <3>2 DEF TypeOK
  <2>2. \A b \in Block : role'[b] = "listed" => role[b] = "listed"
    BY DEF TypeOK
  <2>3. \A b \in Block : role[b] = "listed" =>
          \E h \in Heads \ {Sp} : \E j \in Entries(h) :
            disk[h].s_free_blk_nr[j] = b
    BY NextGroup DEF FreeList, ListsFreeBlocks
  <2> QED
    BY <1>1, <1>2, <2>1, <2>2, <2>3 DEF ListsFreeBlocks
<1>5. ListedOnce'
  BY <1>1, <1>2 DEF FreeList, ListedOnce
<1>6. OneChain'
  BY <1>1, <1>2, NextGroup DEF FreeList, OneChain
<1> QED
  BY <1>3, <1>4, <1>5, <1>6 DEF FreeList

LEMMA GroupSwitched ==
  ASSUME TypeOK, FreeList, disk[Sp].s_free = 1, NextHead(Sp) # 0,
         disk' = [disk EXCEPT ![NextHead(Sp)] = Refill(disk[NextHead(Sp)], Sp)],
         Sp' = NextHead(Sp),
         NEW tmp,
         tmp = disk[NextHead(Sp)].s_free_blk_nr[disk[NextHead(Sp)].s_free - 1],
         role' = [b \in Block |-> IF b = tmp THEN "owned"
                                  ELSE IF b = Sp THEN "listed" ELSE role[b]]
  PROVE  FreeList'
<1> DEFINE next == NextHead(Sp)
           k == disk[next].s_free - 1
<1>1. next \in Heads \ {Sp} /\ next \in Block /\ Sp \in Block /\ Heads \subseteq Nr
  BY NextGroup, Numbers DEF Heads
<1>2. /\ disk[next].s_free \in {BLKS_PER_GROUP - 1, BLKS_PER_GROUP}
      /\ k \in Slot /\ k # 0 /\ k \in Entries(next)
  <2>1. disk[next].s_free \in {BLKS_PER_GROUP - 1, BLKS_PER_GROUP}
    BY <1>1 DEF FreeList, HeadsFilled
  <2> QED
    BY <2>1, GroupingAssumption DEF Slot, Entries
<1>3. tmp \in Block /\ role[tmp] = "listed" /\ tmp # Sp
  BY <1>1, <1>2 DEF FreeList, ListsFreeBlocks, HeadsFilled, Heads
<1>4. Heads' = Heads \ {Sp}
  BY <1>3, <1>1 DEF Heads, TypeOK
<1>5. /\ \A h \in Heads \ {next} : disk'[h] = disk[h]
      /\ disk'[next].s_free = disk[next].s_free
      /\ \A j \in Slot : disk'[next].s_free_blk_nr[j] =
                          IF j = k THEN Sp ELSE disk[next].s_free_blk_nr[j]
  <2>1. disk'[next] = Refill(disk[next], Sp)
    BY <1>1, Numbers DEF TypeOK
  <2>2. \A j \in Slot : (j + 1 = disk[next].s_free) <=> (j = k)
    BY <1>2, GroupingAssumption DEF Slot
  <2>3. Refill(disk[next], Sp).s_free_blk_nr =
          [j \in Slot |-> IF j + 1 = disk[next].s_free THEN Sp
                          ELSE disk[next].s_free_blk_nr[j]]
    BY <1>1, HeadTypes DEF Refill
  <2>4. Refill(disk[next], Sp).s_free = disk[next].s_free
    BY <1>1, HeadTypes DEF Refill
  <2>5. \A h \in Heads \ {next} : disk'[h] = disk[h]
    BY <1>1, SMTT(30) DEF TypeOK
  <2> QED
    BY <2>1, <2>2, <2>3, <2>4, <2>5
<1>6. \A h \in Heads : NextHead(h)' = NextHead(h) /\ Entries(h)' = Entries(h)
  BY <1>2, <1>5, Numbers DEF NextHead, Entries
<1>7. \A h \in Heads : \A j \in Entries(h) :
        disk'[h].s_free_blk_nr[j] = IF h = next /\ j = k THEN Sp
                                    ELSE disk[h].s_free_blk_nr[j]
  <2>1. Entries(next) \subseteq Slot
    BY <1>2, GroupingAssumption DEF Entries, Slot
  <2> QED
    BY <1>5, <2>1
<1>8. HeadsFilled'
  <2>1. \A h \in Heads : disk'[h].s_free = disk[h].s_free
    BY <1>5
  <2>2. disk[next].s_free \in 1..BLKS_PER_GROUP
    BY <1>2, GroupingAssumption
  <2> QED
    BY <1>1, <1>4, <2>1, <2>2 DEF FreeList, HeadsFilled
<1>9. ListsFreeBlocks'
  <2>1. ASSUME NEW h \in Heads \ {Sp}, NEW j \in Entries(h)
        PROVE  /\ disk'[h].s_free_blk_nr[j] \in Block
               /\ role'[disk'[h].s_free_blk_nr[j]] = "listed"
    <3>1. CASE h = next /\ j = k
      BY <1>1, <1>3, <1>7, <3>1
    <3>2. CASE ~(h = next /\ j = k)
      <4>1. disk[h].s_free_blk_nr[j] # tmp
        BY <1>1, <1>2, <3>2 DEF FreeList, ListedOnce
      <4>2. disk'[h].s_free_blk_nr[j] = disk[h].s_free_blk_nr[j]
        BY <1>7, <3>2
      <4>3. /\ disk[h].s_free_blk_nr[j] \in Block
            /\ role[disk[h].s_free_blk_nr[j]] = "listed"
        BY DEF FreeList, ListsFreeBlocks
      <4> QED
        BY <4>1, <4>2, <4>3
    <3> QED
      BY <3>1, <3>2
  <2>2. ASSUME NEW b \in Block, role'[b] = "listed"
        PROVE  \E h \in Heads \ {Sp} : \E j \in Entries(h) :
                 disk'[h].s_free_blk_nr[j] = b
    <3>1. CASE b = Sp
      BY <1>1, <1>2, <1>7, <3>1
    <3>2. CASE b # Sp
      <4>1. role[b] = "listed" /\ b # tmp
        BY <2>2, <3>2
      <4>2. PICK h \in Heads : \E j \in Entries(h) : disk[h].s_free_blk_nr[j] = b
        BY <4>1 DEF FreeList, ListsFreeBlocks
      <4>3. PICK j \in Entries(h) : disk[h].s_free_blk_nr[j] = b
        BY <4>2
      <4>4. h # Sp
        BY <4>3, NextGroup
      <4>5. disk'[h].s_free_blk_nr[j] = b
        BY <1>7, <4>1, <4>3
      <4> QED
        BY <4>3, <4>4, <4>5
    <3> QED
      BY <3>1, <3>2
  <2> QED
    BY <1>4, <1>6, <2>1, <2>2 DEF ListsFreeBlocks
<1>10. ListedOnce'
  <2>1. \A h \in Heads : \A j \in Entries(h) : disk[h].s_free_blk_nr[j] # Sp
    BY <1>1 DEF FreeList, ListsFreeBlocks, HeadsFilled, Heads
  <2> QED
    BY <1>4, <1>6, <1>7, <2>1 DEF FreeList, ListedOnce
<1>11. OneChain'
  BY <1>4, <1>6, NextGroup DEF FreeList, OneChain
<1> QED
  BY <1>8, <1>9, <1>10, <1>11 DEF FreeList

(* free_block with room in the specific block: b becomes its last entry. *)
LEMMA BlockListed ==
  ASSUME TypeOK, FreeList, NEW b \in Block, role[b] = "owned", Sp' = Sp,
         disk[Sp].s_free < BLKS_PER_GROUP,
         disk' = [disk EXCEPT ![Sp] =
           [s_free |-> disk[Sp].s_free + 1,
            s_free_blk_nr |-> [disk[Sp].s_free_blk_nr EXCEPT ![disk[Sp].s_free] = b]]],
         role' = [role EXCEPT ![b] = "listed"]
  PROVE  FreeList'
<1> DEFINE k == disk[Sp].s_free
<1>1. Sp \in Heads /\ Sp \in Nr /\ Heads \subseteq Nr
  BY Numbers DEF FreeList, HeadsFilled, Heads
<1>2. k \in Slot /\ k \in 1..BLKS_PER_GROUP
  BY GroupingAssumption DEF FreeList, HeadsFilled, Slot
<1>3. Heads' = Heads
  BY DEF Heads, TypeOK
<1>4. /\ \A h \in Heads \ {Sp} : disk'[h] = disk[h]
      /\ disk'[Sp].s_free = k + 1
      /\ \A j \in Slot : disk'[Sp].s_free_blk_nr[j] =
                          IF j = k THEN b ELSE disk[Sp].s_free_blk_nr[j]
  <2>1. disk'[Sp] = [s_free |-> k + 1,
                     s_free_blk_nr |-> [disk[Sp].s_free_blk_nr EXCEPT ![k] = b]]
    BY <1>1 DEF TypeOK
  <2>2. disk[Sp].s_free_blk_nr \in [Slot -> Nr]
    BY <1>1, HeadTypes
  <2>3. \A h \in Heads \ {Sp} : disk'[h] = disk[h]
    BY <1>1 DEF TypeOK
  <2> QED
    BY <2>1, <2>2, <2>3
<1>5. /\ \A h \in Heads : NextHead(h)' = NextHead(h)
      /\ \A h \in Heads \ {Sp} : Entries(h)' = Entries(h)
      /\ Entries(Sp)' = Entries(Sp) \union {k}
      /\ k \notin Entries(Sp)
  <2>1. \A h \in Heads : NextHead(h)' = NextHead(h)
    BY <1>2, <1>4, Numbers DEF NextHead
  <2>2. \A h \in Heads \ {Sp} : Entries(h)' = Entries(h)
    BY <1>4 DEF Entries
  <2>3. k + 1 - 1 = k /\ 1..k = 1..(k - 1) \union {k} /\ k \notin 1..(k - 1)
    BY <1>2, GroupingAssumption
  <2> QED
    BY <1>4, <2>1, <2>2, <2>3 DEF Entries
<1>6. \A h \in Heads : \A j \in Entries(h)' :
        disk'[h].s_free_blk_nr[j] = IF h = Sp /\ j = k THEN b
                                    ELSE disk[h].s_free_blk_nr[j]
  <2>1. Entries(Sp)' \subseteq Slot
    BY <1>2, <1>4, GroupingAssumption DEF Entries, Slot
  <2> QED
    BY <1>4, <2>1
<1>7. HeadsFilled'
  <2>1. disk'[Sp].s_free \in 1..BLKS_PER_GROUP
    BY <1>2, <1>4, GroupingAssumption
  <2> QED
    BY <1>1, <1>3, <1>4, <2>1 DEF FreeList, HeadsFilled
<1>8. ListsFreeBlocks'
  <2>1. ASSUME NEW h \in Heads, NEW j \in Entries(h)'
        PROVE  /\ disk'[h].s_free_blk_nr[j] \in Block
               /\ role'[disk'[h].s_free_blk_nr[j]] = "listed"
    <3>1. CASE h = Sp /\ j = k
      BY <1>6, <3>1 DEF TypeOK
    <3>2. CASE ~(h = Sp /\ j = k)
      <4>1. j \in Entries(h)
        BY <1>5, <3>2
      <4> QED
        BY <1>6, <3>2, <4>1 DEF FreeList, ListsFreeBlocks, TypeOK
    <3> QED
      BY <3>1, <3>2
  <2>2. ASSUME NEW c \in Block, role'[c] = "listed"
        PROVE  \E h \in Heads : \E j \in Entries(h)' :
                 disk'[h].s_free_blk_nr[j] = c
    <3>1. CASE c = b
      BY <1>1, <1>5, <1>6, <3>1
    <3>2. CASE c # b
      <4>1. role[c] = "listed"
        BY <2>2, <3>2 DEF TypeOK
      <4>2. PICK h \in Heads : \E j \in Entries(h) : disk[h].s_free_blk_nr[j] = c
        BY <4>1 DEF FreeList, ListsFreeBlocks
      <4>3. PICK j \in Entries(h) : disk[h].s_free_blk_nr[j] = c
        BY <4>2
      <4>4. j \in Entries(h)' /\ ~(h = Sp /\ j = k)
        BY <1>5
      <4> QED
        BY <1>6, <4>3, <4>4
    <3> QED
      BY <3>1, <3>2
  <2> QED
    BY <1>3, <2>1, <2>2 DEF ListsFreeBlocks
<1>9. ListedOnce'
  <2>1. \A h \in Heads : \A j \in Entries(h) : disk[h].s_free_blk_nr[j] # b
    BY DEF FreeList, ListsFreeBlocks
  <2>2. \A h \in Heads : \A j \in Entries(h)' :
          j \in Entries(h) \/ (h = Sp /\ j = k)
    BY <1>5
  <2> QED
    BY <1>3, <1>5, <1>6, <2>1, <2>2 DEF FreeList, ListedOnce
<1>10. OneChain'
  BY <1>3, <1>5 DEF FreeList, OneChain
<1> QED
  BY <1>7, <1>8, <1>9, <1>10 DEF FreeList

(* free_block with a full specific block: b takes over its entries and     *)
(* becomes the head behind it.                                             *)
LEMMA BlockLinked ==
  ASSUME TypeOK, FreeList, NEW b \in Block, role[b] = "owned", Sp' = Sp,
         disk[Sp].s_free = BLKS_PER_GROUP,
         disk' = [disk EXCEPT ![b] = disk[Sp], ![Sp] =
           [s_free |-> 1,
            s_free_blk_nr |-> [disk[Sp].s_free_blk_nr EXCEPT ![0] = b]]],
         role' = [role EXCEPT ![b] = "head"]
  PROVE  FreeList'
<1>1. Sp \in Heads /\ Sp \in Nr /\ Heads \subseteq Nr /\ b \in Nr /\ b # Sp /\ b \notin Heads
  BY Numbers DEF FreeList, HeadsFilled, Heads
<1>2. Heads' = Heads \union {b}
  BY DEF Heads, TypeOK
<1>3. /\ \A h \in Heads \ {Sp} : disk'[h] = disk[h]
      /\ disk'[b] = disk[Sp]
      /\ disk'[Sp].s_free = 1
      /\ disk'[Sp].s_free_blk_nr[0] = b
  <2>1. disk[Sp].s_free_blk_nr \in [Slot -> Nr]
    BY <1>1, HeadTypes
  <2>2. disk'[Sp] = [s_free |-> 1,
                     s_free_blk_nr |-> [disk[Sp].s_free_blk_nr EXCEPT ![0] = b]]
    BY <1>1 DEF TypeOK
  <2>3. disk'[b] = disk[Sp] /\ \A h \in Heads \ {Sp} : disk'[h] = disk[h]
    BY <1>1 DEF TypeOK
  <2>4. disk'[Sp].s_free = 1
    BY <2>2
  <2>5. disk'[Sp].s_free_blk_nr[0] = b
    BY <2>1, <2>2, Numbers
  <2> QED
    BY <2>3, <2>4, <2>5
<1>4. /\ \A h \in Heads \ {Sp} : NextHead(h)' = NextHead(h) /\ Entries(h)' = Entries(h)
      /\ NextHead(Sp)' = b
      /\ disk'[b].s_free_blk_nr[0] = NextHead(Sp)
      /\ Entries(Sp)' = {}
      /\ 1..(disk'[b].s_free - 1) = Entries(Sp)
  <2>1. ASSUME NEW h \in Heads \ {Sp}
        PROVE  NextHead(h)' = NextHead(h) /\ Entries(h)' = Entries(h)
    BY <1>3 DEF NextHead, Entries
  <2>2. NextHead(Sp)' = b
    BY <1>3 DEF NextHead
  <2>3. Entries(Sp)' = {}
    BY <1>3 DEF Entries
  <2>4. disk'[b].s_free_blk_nr[0] = NextHead(Sp) /\ 1..(disk'[b].s_free - 1) = Entries(Sp)
    BY <1>3 DEF NextHead, Entries
  <2> QED
    BY <2>1, <2>2, <2>3, <2>4
<1>5. HeadsFilled'
  <2>1. disk'[Sp].s_free \in 1..BLKS_PER_GROUP
    BY <1>3, GroupingAssumption
  <2>2. disk'[b].s_free \in {BLKS_PER_GROUP - 1, BLKS_PER_GROUP}
    BY <1>3
  <2>3. \A h \in Heads \ {Sp} : disk'[h].s_free \in {BLKS_PER_GROUP - 1, BLKS_PER_GROUP}
    BY <1>3 DEF FreeList, HeadsFilled
  <2> QED
    BY <1>1, <1>2, <2>1, <2>2, <2>3 DEF HeadsFilled
<1>6. ListsFreeBlocks'
  <2>1. ASSUME NEW h \in Heads \union {b}, NEW j \in 1..(disk'[h].s_free - 1)
        PROVE  /\ disk'[h].s_free_blk_nr[j] \in Block
               /\ role'[disk'[h].s_free_blk_nr[j]] = "listed"
    <3>1. PICK g \in Heads : j \in Entries(g) /\ disk'[h] = disk[g]
      BY <1>1, <1>3, <1>4 DEF Entries
    <3>2. /\ disk[g].s_free_blk_nr[j] \in Block
          /\ role[disk[g].s_free_blk_nr[j]] = "listed"
      BY <3>1 DEF FreeList, ListsFreeBlocks
    <3> QED
      BY <3>1, <3>2 DEF TypeOK
  <2>2. ASSUME NEW c \in Block, role'[c] = "listed"
        PROVE  \E h \in Heads \union {b} : \E j \in 1..(disk'[h].s_free - 1) :
                 disk'[h].s_free_blk_nr[j] = c
    <3>1. role[c] = "listed"
      BY <2>2 DEF TypeOK
    <3>2. PICK g \in Heads : \E j \in Entries(g) : disk[g].s_free_blk_nr[j] = c
      BY <3>1 DEF FreeList, ListsFreeBlocks
    <3>3. PICK j \in Entries(g) : disk[g].s_free_blk_nr[j] = c
      BY <3>2
    <3>4. PICK h \in Heads \union {b} : disk'[h] = disk[g]
      BY <1>3
    <3>5. j \in 1..(disk'[h].s_free - 1)
      BY <3>4 DEF Entries
    <3> QED
      BY <3>3, <3>4, <3>5
  <2> QED
    BY <1>2, <2>1, <2>2 DEF ListsFreeBlocks, Entries
<1>7. ListedOnce'
  <2>1. ASSUME NEW g \in Heads \union {b}, NEW h \in Heads \union {b},
               NEW i \in 1..(disk'[g].s_free - 1), NEW j \in 1..(disk'[h].s_free - 1),
               disk'[g].s_free_blk_nr[i] = disk'[h].s_free_blk_nr[j]
        PROVE  g = h /\ i = j
    <3> DEFINE Was(x) == IF x = b THEN Sp ELSE x
    <3>1. \A x \in Heads \union {b} : x # Sp =>
            Was(x) \in Heads /\ disk'[x] = disk[Was(x)]
      BY <1>1, <1>3
    <3>2. g # Sp /\ h # Sp
      <4>1. 1..(disk'[Sp].s_free - 1) = {}
        BY <1>3
      <4>2. i \in 1..(disk'[g].s_free - 1) /\ j \in 1..(disk'[h].s_free - 1)
        OBVIOUS
      <4> QED
        BY <4>1, <4>2
    <3>3. i \in Entries(Was(g)) /\ j \in Entries(Was(h))
      BY <3>1, <3>2 DEF Entries
    <3> HIDE DEF Was
    <3>4. disk[Was(g)].s_free_blk_nr[i] = disk[Was(h)].s_free_blk_nr[j]
      BY <2>1, <3>1, <3>2
    <3>5. Was(g) = Was(h) /\ i = j
      BY <3>1, <3>2, <3>3, <3>4 DEF FreeList, ListedOnce
    <3> QED
      BY <1>1, <3>2, <3>5 DEF Was
  <2> QED
    BY <1>2, <2>1 DEF ListedOnce, Entries
<1>8. OneChain'
  <2> DEFINE N(h) == disk'[h].s_free_blk_nr[0]
  <2>1. /\ \A h \in Heads \ {Sp} : N(h) = NextHead(h)
        /\ N(Sp) = b
        /\ N(b) = NextHead(Sp)
    BY <1>3 DEF NextHead
  <2> HIDE DEF N
  <2>2. \A h \in Heads \union {b} : N(h) \in ((Heads \union {b}) \ {Sp}) \union {0}
    BY <1>1, <2>1 DEF FreeList, OneChain
  <2>3. 0 \notin Heads \union {b}
    BY DEF Heads, Block
  <2>4. \A g, h \in Heads \union {b} : N(g) = N(h) /\ N(g) # 0 => g = h
    BY <1>1, <2>1, <2>3 DEF FreeList, OneChain
  <2>5. ASSUME NEW S \in SUBSET ((Heads \union {b}) \ {Sp}), S # {}
        PROVE  \E h \in (Heads \union {b}) \ S : N(h) \in S
    <3>1. CASE b \in S
      BY <1>1, <2>1, <3>1
    <3>2. CASE b \notin S
      <4>1. PICK h \in Heads \ S : NextHead(h) \in S
        BY <2>5, <3>2 DEF FreeList, OneChain
      <4> QED
        BY <2>1, <3>2, <4>1
    <3> QED
      BY <3>1, <3>2
  <2> QED
    BY <1>2, <2>2, <2>4, <2>5 DEF OneChain, NextHead, N
<1> QED
  BY <1>5, <1>6, <1>7, <1>8 DEF FreeList

-----------------------------------------------------------------------------
(* The list that formatting leaves.                                        *)

LEMMA NatMinimum ==
  ASSUME NEW S \in SUBSET Nat, S # {}
  PROVE  \E n \in S : \A m \in S : n <= m
<1> DEFINE F == {0..n : n \in S}
<1>1. F \subseteq FiniteSubsetsOf(Nat) /\ F # {}
  <2>1. ASSUME NEW n \in S
        PROVE  0..n \in FiniteSubsetsOf(Nat)
    <3>1. IsFiniteSet(0..n)
      BY FS_Interval
    <3> QED
      BY <3>1 DEF FiniteSubsetsOf
  <2> QED
    BY <2>1
<1>2. IsWellFoundedOn(StrictSubsetOrdering(Nat), FiniteSubsetsOf(Nat))
  BY FS_StrictSubsetOrderingWellFounded
<1> HIDE DEF F
<1>3. PICK x \in F : \A y \in F : <<y, x>> \notin StrictSubsetOrdering(Nat)
  BY <1>1, <1>2, WFMin
<1>4. PICK n \in S : x = 0..n
  BY DEF F
<1>5. ASSUME NEW m \in S, m < n
      PROVE  FALSE
  <2>1. 0..m \in SUBSET Nat /\ 0..n \in SUBSET Nat
    OBVIOUS
  <2>2. 0..m \subseteq 0..n /\ 0..m # 0..n
    <3>1. n \in 0..n /\ n \notin 0..m
      BY <1>5
    <3>2. \A i \in 0..m : i \in 0..n
      BY <1>5
    <3> QED
      BY <3>1, <3>2
  <2>3. <<0..m, 0..n>> \in StrictSubsetOrdering(Nat)
    BY <2>1, <2>2 DEF StrictSubsetOrdering
  <2>4. 0..m \in F
    BY DEF F
  <2> QED
    BY <1>3, <1>4, <2>3, <2>4
<1> QED
  BY <1>5

End(i) == i * BLKS_PER_GROUP    \* the last block of group i

LEMMA Spans ==
  /\ \A i \in 0..TOTAL_GROUP : End(i) \in Nat /\ End(i) <= LastBlk
  /\ \A i \in 1..TOTAL_GROUP : End(i) = End(i - 1) + BLKS_PER_GROUP
  /\ \A i, k \in 0..TOTAL_GROUP : i <= k => End(i) <= End(k)
  /\ End(0) = 0
  /\ End(TOTAL_GROUP) = LastBlk
<1>1. \A x, y, z \in Nat : x <= y => x * z \in Nat /\ x * z <= y * z /\ y * z = z * y
  BY SMT
<1>2. \A x, z \in Nat : x >= 1 => x * z = (x - 1) * z + z
  BY SMT
<1>3. \A i, k \in 0..TOTAL_GROUP : i <= k => End(i) <= End(k)
  BY <1>1, GroupingAssumption DEF End
<1>4. \A i \in 1..TOTAL_GROUP : End(i) = End(i - 1) + BLKS_PER_GROUP
  BY <1>2, GroupingAssumption DEF End
<1>5. End(0) = 0 /\ End(TOTAL_GROUP) = LastBlk
  BY <1>1, GroupingAssumption DEF End, LastBlk
<1>6. \A i \in 0..TOTAL_GROUP : End(i) \in Nat
  BY <1>1, GroupingAssumption DEF End
<1> QED
  BY <1>3, <1>4, <1>5, <1>6, GroupingAssumption

(* Every block is in exactly one group. *)
LEMMA GroupOfBlock ==
  /\ \A b \in Block : \E i \in 1..TOTAL_GROUP : b \in (End(i - 1) + 1)..End(i)
  /\ \A i, k \in 1..TOTAL_GROUP :
       \A b \in (End(i - 1) + 1)..End(i) : b \in (End(k - 1) + 1)..End(k) => i = k
<1>1. ASSUME NEW b \in Block
      PROVE  \E i \in 1..TOTAL_GROUP : b \in (End(i - 1) + 1)..End(i)
  <2> DEFINE S == {i \in 0..TOTAL_GROUP : b <= End(i)}
  <2>1. S \in SUBSET Nat /\ S # {}
    BY Spans, Numbers, GroupingAssumption, SMTT(30) DEF Block
  <2>2. PICK i \in S : \A m \in S : i <= m
    BY <2>1, NatMinimum
  <2>3. i # 0
    BY Spans, <2>2, Numbers DEF Block
  <2>4. i - 1 \in 0..TOTAL_GROUP /\ i - 1 \notin S
    BY <2>2, <2>3, GroupingAssumption
  <2>5. ~(b <= End(i - 1))
    BY <2>4
  <2> QED
    BY <2>2, <2>3, <2>4, <2>5, Spans, Numbers, GroupingAssumption DEF Block
<1>2. ASSUME NEW i \in 1..TOTAL_GROUP, NEW k \in 1..TOTAL_GROUP,
             NEW b \in (End(i - 1) + 1)..End(i), b \in (End(k - 1) + 1)..End(k)
      PROVE  i = k
  <2>1. ASSUME NEW m \in 1..TOTAL_GROUP, NEW n \in 1..TOTAL_GROUP, m < n
        PROVE  End(m) <= End(n - 1)
    BY <2>1, Spans, GroupingAssumption
  <2>2. End(i - 1) \in Nat /\ End(i) \in Nat /\ End(k - 1) \in Nat /\ End(k) \in Nat
    BY Spans, GroupingAssumption
  <2>3. ~(i < k)
    BY <1>2, <2>1, <2>2
  <2>4. ~(k < i)
    BY <1>2, <2>1, <2>2
  <2> QED
    BY <2>3, <2>4, GroupingAssumption
<1> QED
  BY <1>1, <1>2

LEMMA FormattedDisk ==
  /\ \A i \in 1..TOTAL_GROUP :
       /\ HeadOfGroup(i) = End(i - 1) + 1
       /\ HeadOfGroup(i) \in Block
       /\ init_free_space_grouping[HeadOfGroup(i)] = FormattedHead(i)
  /\ \A i, k \in 1..TOTAL_GROUP : HeadOfGroup(i) = HeadOfGroup(k) => i = k
<1>1. ASSUME NEW i \in 1..TOTAL_GROUP
      PROVE  /\ HeadOfGroup(i) = End(i - 1) + 1
             /\ HeadOfGroup(i) \in Block
             /\ HeadOfGroup(i) \in (End(i - 1) + 1)..End(i)
  <2>1. HeadOfGroup(i) = End(i - 1) + 1
    BY DEF HeadOfGroup, End
  <2>2. End(i - 1) \in Nat /\ End(i) = End(i - 1) + BLKS_PER_GROUP /\ End(i) <= LastBlk /\ End(i) \in Nat
    BY Spans, GroupingAssumption
  <2> QED
    BY <2>1, <2>2, Numbers, GroupingAssumption DEF Block
<1>2. ASSUME NEW i \in 1..TOTAL_GROUP, NEW k \in 1..TOTAL_GROUP,
             HeadOfGroup(i) = HeadOfGroup(k)
      PROVE  i = k
  BY <1>1, <1>2, GroupOfBlock
<1>3. ASSUME NEW i \in 1..TOTAL_GROUP
      PROVE  init_free_space_grouping[HeadOfGroup(i)] = FormattedHead(i)
  <2>1. HeadOfGroup(i) \in InitHeads /\ HeadOfGroup(i) \in Nr
    BY <1>1, Numbers DEF InitHeads
  <2>2. (CHOOSE k \in 1..TOTAL_GROUP : HeadOfGroup(i) = HeadOfGroup(k)) = i
    BY <1>2
  <2> QED
    BY <2>1, <2>2 DEF init_free_space_grouping
<1> QED
  BY <1>1, <1>2, <1>3

(* The entries of a formatted head are the blocks behind it, up to the end *)
(* of its group; the last group stops one short.                           *)
LEMMA FormattedEntries ==
  ASSUME NEW i \in 1..TOTAL_GROUP
  PROVE  /\ FormattedHead(i).s_free \in {BLKS_PER_GROUP - 1, BLKS_PER_GROUP}
         /\ FormattedHead(i).s_free_blk_nr[0] =
              IF i = TOTAL_GROUP THEN 0 ELSE HeadOfGroup(i + 1)
         /\ \A j \in 1..(FormattedHead(i).s_free - 1) :
              /\ FormattedHead(i).s_free_blk_nr[j] \in (End(i - 1) + 2)..End(i)
              /\ FormattedHead(i).s_free_blk_nr[j] # LastBlk
              /\ IF i = TOTAL_GROUP
                 THEN FormattedHead(i).s_free_blk_nr[j] = End(i) - j
                 ELSE FormattedHead(i).s_free_blk_nr[j] = End(i) + 1 - j
         /\ \A b \in (End(i - 1) + 2)..End(i) : b # LastBlk =>
              \E j \in 1..(FormattedHead(i).s_free - 1) :
                FormattedHead(i).s_free_blk_nr[j] = b
<1>1. /\ End(i - 1) \in Nat /\ End(i) \in Nat
      /\ End(i) = End(i - 1) + BLKS_PER_GROUP
      /\ LastBlk \in Nat
      /\ i = TOTAL_GROUP => End(i) = LastBlk
      /\ i # TOTAL_GROUP => End(i) + BLKS_PER_GROUP <= LastBlk
  <2>1. i # TOTAL_GROUP => i + 1 \in 1..TOTAL_GROUP
    BY GroupingAssumption
  <2>2. i # TOTAL_GROUP => End(i + 1) = End(i) + BLKS_PER_GROUP /\ End(i + 1) <= LastBlk
    BY <2>1, Spans, GroupingAssumption
  <2> QED
    BY <2>2, Spans, Numbers, GroupingAssumption
<1>2. CASE i # TOTAL_GROUP
  <2>1. /\ FormattedHead(i).s_free = BLKS_PER_GROUP
        /\ \A j \in Slot : FormattedHead(i).s_free_blk_nr[j] = End(i) + 1 - j
    BY <1>2 DEF FormattedHead, End
  <2>2. 1..(BLKS_PER_GROUP - 1) \subseteq Slot
    BY GroupingAssumption DEF Slot
  <2>3. FormattedHead(i).s_free_blk_nr[0] = HeadOfGroup(i + 1)
    <3>1. End(i) + 1 - 0 = HeadOfGroup(i + 1)
      BY <1>1 DEF HeadOfGroup, End
    <3> QED
      BY <2>1, <3>1, Numbers
  <2>4. \A j \in 1..(BLKS_PER_GROUP - 1) :
          /\ End(i) + 1 - j \in (End(i - 1) + 2)..End(i)
          /\ End(i) + 1 - j # LastBlk
    BY <1>1, <1>2, GroupingAssumption
  <2>5. \A b \in (End(i - 1) + 2)..End(i) :
          /\ End(i) + 1 - b \in 1..(BLKS_PER_GROUP - 1)
          /\ End(i) + 1 - (End(i) + 1 - b) = b
    BY <1>1, GroupingAssumption
  <2>6. ASSUME NEW b \in (End(i - 1) + 2)..End(i)
        PROVE  \E j \in 1..(BLKS_PER_GROUP - 1) :
                 FormattedHead(i).s_free_blk_nr[j] = b
    <3>1. End(i) + 1 - b \in 1..(BLKS_PER_GROUP - 1) /\ End(i) + 1 - (End(i) + 1 - b) = b
      BY <2>5, <2>6
    <3> QED
      BY <2>1, <2>2, <3>1
  <2>7. \A j \in 1..(BLKS_PER_GROUP - 1) :
          /\ FormattedHead(i).s_free_blk_nr[j] \in (End(i - 1) + 2)..End(i)
          /\ FormattedHead(i).s_free_blk_nr[j] # LastBlk
          /\ FormattedHead(i).s_free_blk_nr[j] = End(i) + 1 - j
    BY <2>1, <2>2, <2>4
  <2>8. FormattedHead(i).s_free - 1 = BLKS_PER_GROUP - 1
    BY <2>1
  <2>9. \A b \in (End(i - 1) + 2)..End(i) :
          \E j \in 1..(FormattedHead(i).s_free - 1) :
            FormattedHead(i).s_free_blk_nr[j] = b
    BY <2>6, <2>8
  <2>10. \A j \in 1..(FormattedHead(i).s_free - 1) :
           /\ FormattedHead(i).s_free_blk_nr[j] \in (End(i - 1) + 2)..End(i)
           /\ FormattedHead(i).s_free_blk_nr[j] # LastBlk
           /\ FormattedHead(i).s_free_blk_nr[j] = End(i) + 1 - j
    BY <2>7, <2>8
  <2>11. FormattedHead(i).s_free \in {BLKS_PER_GROUP - 1, BLKS_PER_GROUP}
    BY <2>1
  <2>12. FormattedHead(i).s_free_blk_nr[0] =
           IF i = TOTAL_GROUP THEN 0 ELSE HeadOfGroup(i + 1)
    BY <1>2, <2>3
  <2> QED
    BY <1>2, <2>9, <2>10, <2>11, <2>12
<1>3. CASE i = TOTAL_GROUP
  <2>1. /\ FormattedHead(i).s_free = BLKS_PER_GROUP - 1
        /\ \A j \in Slot : FormattedHead(i).s_free_blk_nr[j] =
                            IF j = 0 THEN 0 ELSE End(i) - j
    BY <1>3 DEF FormattedHead, End
  <2>2. 1..(BLKS_PER_GROUP - 1 - 1) \subseteq Slot \ {0}
    BY GroupingAssumption DEF Slot
  <2>3. FormattedHead(i).s_free_blk_nr[0] = 0
    BY <2>1, Numbers
  <2>4. \A j \in 1..(BLKS_PER_GROUP - 1 - 1) :
          /\ End(i) - j \in (End(i - 1) + 2)..End(i)
          /\ End(i) - j # LastBlk
    BY <1>1, <1>3, GroupingAssumption
  <2>5. \A b \in (End(i - 1) + 2)..End(i) : b # LastBlk =>
          /\ End(i) - b \in 1..(BLKS_PER_GROUP - 1 - 1)
          /\ End(i) - (End(i) - b) = b
    BY <1>1, <1>3, GroupingAssumption
  <2>6. ASSUME NEW b \in (End(i - 1) + 2)..End(i), b # LastBlk
        PROVE  \E j \in 1..(BLKS_PER_GROUP - 1 - 1) :
                 FormattedHead(i).s_free_blk_nr[j] = b
    <3>1. End(i) - b \in 1..(BLKS_PER_GROUP - 1 - 1) /\ End(i) - (End(i) - b) = b
      BY <2>5, <2>6
    <3> QED
      BY <2>1, <2>2, <3>1
  <2> QED
    BY <1>3, <2>1, <2>2, <2>3, <2>4, <2>6
<1> QED
  BY <1>2, <1>3

LEMMA InitFreeList == Init => FreeList
<1> SUFFICES ASSUME Init
             PROVE  FreeList
  OBVIOUS
<1> DEFINE H(i) == HeadOfGroup(i)
<1>1. Heads = {H(i) : i \in 1..TOTAL_GROUP} /\ Sp = 1 /\ H(1) = 1
  <2>1. \A b \in Block : role[b] = "head" <=> b \in InitHeads
    BY DEF Init
  <2>2. InitHeads \subseteq Block
    BY FormattedDisk DEF InitHeads
  <2>3. H(1) = 1
    BY FormattedDisk, Spans, GroupingAssumption
  <2> QED
    BY <2>1, <2>2, <2>3 DEF Heads, InitHeads, Init, Sp
<1>2. \A i \in 1..TOTAL_GROUP : disk[H(i)] = FormattedHead(i)
  BY FormattedDisk DEF Init
<1>3. \A i \in 1..TOTAL_GROUP :
        /\ End(i - 1) \in Nat /\ End(i) \in Nat
        /\ End(i) = End(i - 1) + BLKS_PER_GROUP
        /\ End(i) <= LastBlk
        /\ LastBlk \in Nat
  BY Spans, Numbers, GroupingAssumption
<1>4. ASSUME NEW i \in 1..TOTAL_GROUP, NEW b \in (End(i - 1) + 2)..End(i), b # LastBlk
      PROVE  b \in Block /\ role[b] = "listed"
  <2>1. b \in Block
    BY <1>3, <1>4 DEF Block
  <2>2. b \in (End(i - 1) + 1)..End(i)
    BY <1>3
  <2>3. ASSUME NEW k \in 1..TOTAL_GROUP, b = H(k)
        PROVE  FALSE
    <3>1. b \in (End(k - 1) + 1)..End(k)
      BY <1>3, <2>3, FormattedDisk, GroupingAssumption
    <3>2. k = i
      BY <2>2, <3>1, GroupOfBlock
    <3> QED
      BY <1>3, <2>3, <3>2, FormattedDisk
  <2> QED
    BY <1>4, <2>1, <2>3 DEF Init, InitHeads
<1>5. HeadsFilled
  <2>1. 1 \in 1..TOTAL_GROUP
    BY GroupingAssumption
  <2>2. \A h \in Heads : disk[h].s_free \in {BLKS_PER_GROUP - 1, BLKS_PER_GROUP}
    BY <1>1, <1>2, FormattedEntries
  <2>3. BLKS_PER_GROUP - 1 \in 1..BLKS_PER_GROUP /\ BLKS_PER_GROUP \in 1..BLKS_PER_GROUP
    BY GroupingAssumption
  <2>4. Sp \in Heads
    BY <1>1, <2>1
  <2>5. disk[Sp].s_free \in 1..BLKS_PER_GROUP
    BY <2>2, <2>3, <2>4
  <2> QED
    BY <2>2, <2>4, <2>5 DEF HeadsFilled
<1>6. ListsFreeBlocks
  <2>1. ASSUME NEW i \in 1..TOTAL_GROUP, NEW j \in Entries(H(i))
        PROVE  /\ disk[H(i)].s_free_blk_nr[j] \in Block
               /\ role[disk[H(i)].s_free_blk_nr[j]] = "listed"
    BY <1>2, <1>4, FormattedEntries DEF Entries
  <2>2. ASSUME NEW b \in Block, role[b] = "listed"
        PROVE  \E i \in 1..TOTAL_GROUP : \E j \in Entries(H(i)) :
                 disk[H(i)].s_free_blk_nr[j] = b
    <3>1. PICK i \in 1..TOTAL_GROUP : b \in (End(i - 1) + 1)..End(i)
      BY GroupOfBlock
    <3>2. b # LastBlk /\ b # H(i)
      BY <2>2 DEF Init, InitHeads
    <3>3. b \in (End(i - 1) + 2)..End(i)
      BY <1>3, <3>1, <3>2, FormattedDisk
    <3>4. \E j \in 1..(FormattedHead(i).s_free - 1) : FormattedHead(i).s_free_blk_nr[j] = b
      BY <3>2, <3>3, FormattedEntries
    <3> QED
      BY <1>2, <3>4 DEF Entries
  <2> QED
    BY <1>1, <2>1, <2>2 DEF ListsFreeBlocks
<1>7. ListedOnce
  <2>1. ASSUME NEW i \in 1..TOTAL_GROUP, NEW k \in 1..TOTAL_GROUP,
               NEW m \in Entries(H(i)), NEW n \in Entries(H(k)),
               disk[H(i)].s_free_blk_nr[m] = disk[H(k)].s_free_blk_nr[n]
        PROVE  i = k /\ m = n
    <3> DEFINE b == FormattedHead(i).s_free_blk_nr[m]
    <3>1. /\ m \in 1..(FormattedHead(i).s_free - 1)
          /\ n \in 1..(FormattedHead(k).s_free - 1)
          /\ b = FormattedHead(k).s_free_blk_nr[n]
      BY <1>2, <2>1 DEF Entries
    <3>2. b \in (End(i - 1) + 2)..End(i) /\ b \in (End(k - 1) + 2)..End(k)
      BY <3>1, FormattedEntries
    <3>3. b \in (End(i - 1) + 1)..End(i) /\ b \in (End(k - 1) + 1)..End(k)
      BY <1>3, <3>2
    <3>4. i = k
      BY <3>3, GroupOfBlock
    <3>5. \/ b = End(i) - m /\ b = End(i) - n
          \/ b = End(i) + 1 - m /\ b = End(i) + 1 - n
      BY <3>1, <3>4, FormattedEntries
    <3>6. m \in Int /\ n \in Int
      BY DEF Entries
    <3> HIDE DEF b
    <3>7. m = n
      BY <1>3, <3>5, <3>6
    <3> QED
      BY <3>4, <3>7
  <2> QED
    BY <1>1, <2>1 DEF ListedOnce
<1>8. OneChain
  <2>1. \A i \in 1..TOTAL_GROUP :
          NextHead(H(i)) = IF i = TOTAL_GROUP THEN 0 ELSE H(i + 1)
    BY <1>2, FormattedEntries DEF NextHead
  <2>2. \A i \in 1..TOTAL_GROUP : H(i) # 0
    BY FormattedDisk DEF Block
  <2>3. \A i \in 1..TOTAL_GROUP : i # TOTAL_GROUP =>
          i + 1 \in 1..TOTAL_GROUP /\ i + 1 # 1
    BY GroupingAssumption
  <2>4. \A i, k \in 1..TOTAL_GROUP : H(i) = H(k) => i = k
    BY FormattedDisk
  <2>5. 1 \in 1..TOTAL_GROUP
    BY GroupingAssumption
  <2> HIDE DEF H
  <2>6. \A h \in Heads : NextHead(h) \in (Heads \ {Sp}) \union {0}
    <3>1. ASSUME NEW i \in 1..TOTAL_GROUP, i # TOTAL_GROUP
          PROVE  H(i + 1) \in Heads \ {Sp}
      BY <1>1, <2>3, <2>4, <2>5, <3>1
    <3> QED
      BY <1>1, <2>1, <3>1
  <2>7. \A g, h \in Heads : NextHead(g) = NextHead(h) /\ NextHead(g) # 0 => g = h
    <3>1. ASSUME NEW i \in 1..TOTAL_GROUP, NEW k \in 1..TOTAL_GROUP,
                 NextHead(H(i)) = NextHead(H(k)), NextHead(H(i)) # 0
          PROVE  i = k
      <4>1. i # TOTAL_GROUP /\ k # TOTAL_GROUP /\ H(i + 1) = H(k + 1)
        BY <2>1, <3>1
      <4>2. i + 1 = k + 1
        BY <2>3, <2>4, <4>1
      <4> QED
        BY <4>2
    <3> QED
      BY <1>1, <3>1
  <2>8. ASSUME NEW S \in SUBSET (Heads \ {Sp}), S # {}
        PROVE  \E h \in Heads \ S : NextHead(h) \in S
    <3> DEFINE T == {i \in 1..TOTAL_GROUP : H(i) \in S}
    <3>1. T \in SUBSET Nat /\ T # {}
      BY <1>1, <2>8
    <3>2. PICK i \in T : \A m \in T : i <= m
      BY <3>1, NatMinimum
    <3>3. i # 1
      BY <1>1, <3>2
    <3>4. i - 1 \in 1..TOTAL_GROUP /\ i - 1 # TOTAL_GROUP /\ i - 1 \notin T /\ (i - 1) + 1 = i
      BY <3>2, <3>3, GroupingAssumption
    <3>5. H(i - 1) \in Heads \ S /\ NextHead(H(i - 1)) = H(i)
      BY <1>1, <2>1, <3>4
    <3> QED
      BY <3>2, <3>5
  <2> QED
    BY <2>6, <2>7, <2>8 DEF OneChain
<1> QED
  BY <1>5, <1>6, <1>7, <1>8 DEF FreeList

-----------------------------------------------------------------------------
(* The inductive invariant.                                                *)

(* What new_block starts from while the list is open. *)
LEMMA NewBlockStart ==
  ASSUME Inv, open, power = "up" \/ (power = "booting" /\ ~root_bit), new_block
  PROVE  /\ TakeEntry(disk[Sp], Sp) \/ SwitchGroup(disk[Sp], Sp)
         /\ is_specific_block_set' = TRUE
<1>1. (IF is_specific_block_set THEN s_specific_blk_nr ELSE 1) = Sp
  BY DEF Inv, MemoryMirrorsDisk, Sp
<1>2. (IF is_specific_block_set THEN specific_block ELSE disk[1]) = disk[Sp]
  BY DEF Inv, MemoryMirrorsDisk, Sp
<1>3. TakeEntry(disk[Sp], Sp) \/ SwitchGroup(disk[Sp], Sp) \/ NoneLeft(disk[Sp], Sp)
  BY <1>1, <1>2 DEF new_block
<1>4. disk[Sp].s_free # 0
  BY GroupingAssumption DEF Inv, ListSound, FreeList, HeadsFilled
<1> QED
  BY <1>3, <1>4 DEF NoneLeft, PanicWhen, new_block

(* A call of new_block hands out a listed block and keeps the list, or     *)
(* finds that the specific block is the last of it.                        *)
LEMMA NewBlockStep ==
  ASSUME Inv, open, power = "up" \/ (power = "booting" /\ ~root_bit), new_block
  PROVE  \/ /\ open' = TRUE
            /\ FreeList'
            /\ specific_block' = disk'[Sp']
            /\ power' = power
            /\ \E b \in Block :
                 /\ role[b] = "listed"
                 /\ \A c \in Block :
                      /\ (role'[c] = "owned") <=> (role[c] = "owned" \/ c = b)
                      /\ role'[c] \in {"listed", "head"} <=>
                           (role[c] \in {"listed", "head"} /\ c # b)
                 /\ \A c \in Block : role[c] = "owned" => disk'[c] = disk[c]
         \/ /\ open' = FALSE /\ disk[Sp].s_free = 1 /\ NextHead(Sp) = 0
            /\ \A c \in Block : disk'[c] = disk[c]
<1> USE DEF Written, NamesSpecific
<1>1. FreeList /\ TypeOK
  BY DEF Inv, ListSound
<1>2. Sp \in Block /\ Sp \in Nr /\ Sp \in Heads /\ role[Sp] = "head"
  BY <1>1, Numbers DEF FreeList, HeadsFilled, Heads
<1>3. power # "again"
  BY DEF Inv, GivesUpOnlyWhenEmpty
<1>4. CASE TakeEntry(disk[Sp], Sp)
  <2> DEFINE k == disk[Sp].s_free - 1
             e == disk[Sp].s_free_blk_nr[k]
  <2>1. disk[Sp].s_free \in 2..BLKS_PER_GROUP
    BY <1>1, <1>4, GroupingAssumption DEF TakeEntry, FreeList, HeadsFilled
  <2>2. k \in Slot
    BY <2>1, GroupingAssumption DEF Slot
  <2>3. /\ disk' = [disk EXCEPT ![Sp] = [disk[Sp] EXCEPT !.s_free = k]]
        /\ specific_block' = [disk[Sp] EXCEPT !.s_free = k]
        /\ Sp' = Sp
        /\ open' = open
        /\ power' = power
        /\ role' = Role(e, "owned")
    BY <1>3, <1>4, <2>2 DEF TakeEntry, TakenSlot, Entry, Sp
  <2>4. disk[Sp].s_free > 1
    BY <1>4 DEF TakeEntry
  <2>5. e \in Nr
    BY <1>1, <1>2, <2>2, HeadTypes
  <2>6. e \in Block /\ role[e] = "listed"
    <3>1. k \in Entries(Sp)
      BY <2>1, GroupingAssumption DEF Entries
    <3> QED
      BY <1>1, <1>2, <3>1 DEF FreeList, ListsFreeBlocks
  <2>7. role' = [role EXCEPT ![e] = "owned"]
    BY <2>3, <2>6 DEF Role
  <2>8. FreeList'
    BY <1>1, <2>3, <2>4, <2>7, EntryTaken
  <2>9. specific_block' = disk'[Sp']
    BY <1>1, <1>2, <2>3 DEF TypeOK
  <2>10. \A c \in Block : role[c] = "owned" => disk'[c] = disk[c]
    BY <1>1, <1>2, <2>3, Numbers DEF TypeOK
  <2>11. \A c \in Block : role'[c] = IF c = e THEN "owned" ELSE role[c]
    BY <1>1, <2>7 DEF TypeOK
  <2> QED
    BY <2>3, <2>6, <2>8, <2>9, <2>10, <2>11
<1>5. CASE SwitchGroup(disk[Sp], Sp)
  <2> DEFINE next == NextHead(Sp)
             g == disk[next]
             k == g.s_free - 1
             tmp == g.s_free_blk_nr[k]
  <2>1. disk[Sp].s_free = 1
    BY <1>5 DEF SwitchGroup
  <2>2. CASE next = 0
    <3>1. disk' = disk \/ disk' = [disk EXCEPT ![0] = Refill(g, Sp)]
      BY <1>5, <2>2 DEF SwitchGroup, NextHead
    <3>2. \A c \in Block : disk'[c] = disk[c]
      BY <1>1, <3>1, Numbers DEF TypeOK, Block
    <3> QED
      BY <1>5, <2>1, <2>2, <3>2 DEF SwitchGroup, NextHead
  <2>3. CASE next # 0
    <3>1. next \in Heads \ {Sp} /\ next \in Block /\ next \in Nr
      BY <1>1, <2>1, <2>3, NextGroup, Numbers DEF Heads
    <3>2. g.s_free \in {BLKS_PER_GROUP - 1, BLKS_PER_GROUP}
      BY <1>1, <3>1 DEF FreeList, HeadsFilled
    <3>3. k \in Slot /\ g.s_free # 0 /\ k \in Entries(next)
      BY <3>2, GroupingAssumption DEF Slot, Entries
    <3>4. tmp \in Block /\ role[tmp] = "listed" /\ tmp # 0 /\ tmp # Sp
      BY <1>1, <1>2, <3>1, <3>3 DEF FreeList, ListsFreeBlocks, Block
    <3>5. Role(Sp, "listed") = [role EXCEPT ![Sp] = "listed"]
      BY <1>2, SMTT(30) DEF Role
    <3>6. /\ disk' = [disk EXCEPT ![next] = Refill(g, Sp)]
          /\ Sp' = next
          /\ specific_block' = Refill(g, Sp)
          /\ open' = TRUE
          /\ power' = power
          /\ role' = [b \in Block |-> IF b = tmp THEN "owned"
                                      ELSE [role EXCEPT ![Sp] = "listed"][b]]
      BY <1>3, <1>5, <2>3, <3>3, <3>4, <3>5 DEF SwitchGroup, Entry, NextHead, Sp
    <3>7. role' = [b \in Block |-> IF b = tmp THEN "owned"
                                  ELSE IF b = Sp THEN "listed" ELSE role[b]]
      BY <1>1, <3>6 DEF TypeOK
    <3>8. FreeList'
      BY <1>1, <2>1, <2>3, <3>6, <3>7, GroupSwitched
    <3>9. specific_block' = disk'[Sp']
      BY <1>1, <3>1, <3>6 DEF TypeOK
    <3>10. \A c \in Block : role[c] = "owned" => disk'[c] = disk[c]
      BY <1>1, <3>1, <3>6, Numbers DEF TypeOK, Heads
    <3> QED
      BY <1>2, <3>4, <3>6, <3>7, <3>8, <3>9, <3>10
  <2> QED
    BY <2>2, <2>3
<1> QED
  BY <1>4, <1>5, NewBlockStart

(* Once the list has run off its last group, Inv claims only the types.    *)
LEMMA ClosedStep ==
  ASSUME Inv, [Next]_vars, ~open
  PROVE  Inv'
<1>1. TypeOK'
  BY StepType DEF Inv
<1>2. open' = FALSE
  <2>1. CASE new_block
    BY <2>1 DEF new_block, TakeEntry, SwitchGroup, NoneLeft, Inv, TypeOK
  <2> QED
    BY <2>1 DEF Inv, TypeOK, Next, vars, NewBlock, NewBlockCut, FreeBlock,
                FreeBlockCut, WriteData, InitRootDir, InitRootDirCut, SetupFs,
                Restart
<1>3. root_bit => root_bit'
  BY DEF Next, vars, NewBlock, NewBlockCut, FreeBlock, FreeBlockCut, WriteData,
         InitRootDir, InitRootDirCut, SetupFs, Restart
<1>4. ~root_bit' => Sp' = 1 /\ power' = "booting"
  BY <1>3 DEF Inv, Sp, TypeOK, Next, vars, NewBlock, NewBlockCut, FreeBlock,
              FreeBlockCut, WriteData, InitRootDir, InitRootDirCut, SetupFs,
              Restart
<1> QED
  BY <1>1, <1>2, <1>4 DEF Inv, ListSound, MemoryMirrorsDisk, GivesUpOnlyWhenEmpty

(* A step that leaves the list alone and loses the copy in memory, or      *)
(* keeps it, or has just loaded it.                                        *)
LEMMA ListUntouched ==
  ASSUME Inv, TypeOK', open, open' = open, role' = role, Sp' = Sp,
         \A h \in Heads : disk'[h] = disk[h],
         power' \in {"booting", "up"},
         \/ power' = "booting" /\ ~is_specific_block_set'
         \/ /\ power' = power
            /\ is_specific_block_set' = is_specific_block_set
            /\ specific_block' = specific_block
         \/ is_specific_block_set' /\ specific_block' = disk[Sp],
         root_bit'
  PROVE  Inv'
<1>1. FreeList'
  BY HeadsUntouched DEF Inv, ListSound
<1>2. Sp \in Heads
  BY DEF Inv, ListSound, FreeList, HeadsFilled
<1>3. MemoryMirrorsDisk'
  BY <1>2 DEF Inv, MemoryMirrorsDisk
<1>4. GivesUpOnlyWhenEmpty'
  BY DEF GivesUpOnlyWhenEmpty
<1> QED
  BY <1>1, <1>3, <1>4 DEF Inv, ListSound

(* Inv is inductive: one step for each action. *)
LEMMA InvStep == Inv /\ [Next]_vars => Inv'
<1> SUFFICES ASSUME Inv, [Next]_vars, open
             PROVE  Inv'
  BY ClosedStep
<1>1. TypeOK /\ TypeOK' /\ FreeList
  BY StepType DEF Inv, ListSound
<1>2. Sp \in Heads /\ Sp \in Block /\ Sp \in Nr /\ role[Sp] = "head"
  BY <1>1, Numbers DEF FreeList, HeadsFilled, Heads
<1>3. ASSUME power = "up" \/ (power = "booting" /\ ~root_bit), new_block, root_bit'
      PROVE  Inv'
  <2>1. CASE open' = FALSE
    BY <1>1, <1>3, <2>1 DEF Inv, ListSound, MemoryMirrorsDisk, GivesUpOnlyWhenEmpty
  <2>2. CASE open' # FALSE
    <3>1. FreeList' /\ specific_block' = disk'[Sp'] /\ power' = power
      BY <1>3, <2>2, NewBlockStep
    <3>2. is_specific_block_set'
      BY <1>3, NewBlockStart
    <3>3. MemoryMirrorsDisk'
      BY <3>1, <3>2 DEF MemoryMirrorsDisk
    <3>4. GivesUpOnlyWhenEmpty'
      BY <1>3, <3>1 DEF GivesUpOnlyWhenEmpty
    <3> QED
      BY <1>1, <1>3, <3>1, <3>3, <3>4 DEF Inv, ListSound
  <2> QED
    BY <2>1, <2>2
<1>4. CASE NewBlock
  <2>1. power = "up"
    BY <1>4 DEF NewBlock, Inv, GivesUpOnlyWhenEmpty
  <2>2. root_bit'
    BY <1>4, <2>1 DEF NewBlock, Inv
  <2> QED
    BY <1>3, <1>4, <2>1, <2>2 DEF NewBlock
<1>5. CASE InitRootDir
  BY <1>3, <1>5 DEF InitRootDir
<1>6. CASE NewBlockCut
  <2>1. specific_block = disk[Sp] /\ root_bit
    BY <1>6 DEF NewBlockCut, Inv, MemoryMirrorsDisk
  <2>2. /\ disk[Sp].s_free = 1
        /\ Sp' = NextHead(Sp)
        /\ role' = [role EXCEPT ![Sp] = "lost"]
        /\ disk' = disk
        /\ open' = (NextHead(Sp) # 0)
        /\ power' = "booting"
        /\ is_specific_block_set' = FALSE
        /\ root_bit' = root_bit
    BY <1>2, <1>6, <2>1 DEF NewBlockCut, NextHead, Role, Sp
  <2>3. ListSound'
    BY <1>1, <2>2, GroupSwitchCut DEF ListSound
  <2> QED
    BY <1>1, <2>1, <2>2, <2>3 DEF Inv, MemoryMirrorsDisk, GivesUpOnlyWhenEmpty
<1>7. ASSUME NEW b \in Block, FreeBlock(b)
      PROVE  Inv'
  <2>1. specific_block = disk[Sp] /\ root_bit /\ power = "up" /\ role[b] = "owned"
    BY <1>7 DEF FreeBlock, Inv, MemoryMirrorsDisk
  <2>2. /\ Sp' = Sp
        /\ open' = TRUE
        /\ root_bit' = root_bit
        /\ is_specific_block_set' = TRUE
        /\ power' \in {"up", "free_block_panic"}
    BY <1>7, <2>1 DEF FreeBlock, free_block, Sp, Inv, MemoryMirrorsDisk
  <2>3. b # Sp /\ Role(b, "listed") = [role EXCEPT ![b] = "listed"]
               /\ Role(b, "head") = [role EXCEPT ![b] = "head"]
    BY <1>2, <2>1 DEF Role
  <2>4. FreeList' /\ specific_block' = disk'[Sp]
    <3>1. CASE disk[Sp].s_free < BLKS_PER_GROUP
      <4> DEFINE listing == [s_free |-> disk[Sp].s_free + 1,
                             s_free_blk_nr |->
                               [disk[Sp].s_free_blk_nr EXCEPT ![disk[Sp].s_free] = b]]
      <4>1. disk[Sp].s_free \in 1..BLKS_PER_GROUP
        BY <1>1 DEF FreeList, HeadsFilled
      <4>2. ~(disk[Sp].s_free = BLKS_PER_GROUP) /\ ~(disk[Sp].s_free > BLKS_PER_GROUP)
        BY <3>1, <4>1, GroupingAssumption
      <4>3. /\ specific_block' = listing
            /\ disk' = [disk EXCEPT ![Sp] = listing]
            /\ role' = [role EXCEPT ![b] = "listed"]
        BY <1>7, <2>1, <2>3, <4>2 DEF FreeBlock, free_block, Written, Sp
      <4>4. FreeList'
        BY <1>1, <2>1, <2>2, <3>1, <4>3, BlockListed
      <4>5. disk'[Sp] = listing
        BY <1>1, <1>2, <4>3 DEF TypeOK
      <4> QED
        BY <4>3, <4>4, <4>5
    <3>2. CASE ~(disk[Sp].s_free < BLKS_PER_GROUP)
      <4> DEFINE linking == [s_free |-> 1,
                             s_free_blk_nr |-> [disk[Sp].s_free_blk_nr EXCEPT ![0] = b]]
      <4>1. disk[Sp].s_free \in 1..BLKS_PER_GROUP
        BY <1>1 DEF FreeList, HeadsFilled
      <4>2. disk[Sp].s_free = BLKS_PER_GROUP /\ ~(disk[Sp].s_free > BLKS_PER_GROUP)
        BY <3>2, <4>1, GroupingAssumption
      <4>3. /\ specific_block' = linking
            /\ disk' = [disk EXCEPT ![b] = disk[Sp], ![Sp] = linking]
            /\ role' = [role EXCEPT ![b] = "head"]
        BY <1>7, <2>1, <2>3, <3>2, <4>2 DEF FreeBlock, free_block, Written, Sp
      <4>4. FreeList'
        BY <1>1, <2>1, <2>2, <4>2, <4>3, BlockLinked
      <4>5. disk'[Sp] = linking
        BY <1>1, <1>2, <4>3 DEF TypeOK
      <4> QED
        BY <4>3, <4>4, <4>5
    <3> QED
      BY <3>1, <3>2
  <2> QED
    BY <1>1, <2>1, <2>2, <2>4 DEF Inv, ListSound, MemoryMirrorsDisk, GivesUpOnlyWhenEmpty
<1>8. ASSUME NEW b \in Block, FreeBlockCut(b)
      PROVE  Inv'
  <2>1. root_bit
    BY <1>8 DEF FreeBlockCut, Inv
  <2>2. \A h \in Heads : disk'[h] = disk[h]
    BY <1>1, <1>8, Numbers DEF FreeBlockCut, Heads, TypeOK
  <2> QED
    BY <1>1, <1>8, <2>1, <2>2, ListUntouched DEF FreeBlockCut, Sp
<1>9. ASSUME NEW b \in Block, WriteData(b)
      PROVE  Inv'
  <2>1. root_bit
    BY <1>9 DEF WriteData, Inv
  <2>2. \A h \in Heads : disk'[h] = disk[h]
    BY <1>1, <1>9, Numbers DEF WriteData, Heads, TypeOK
  <2> QED
    BY <1>1, <1>9, <2>1, <2>2, ListUntouched DEF WriteData, Sp
<1>10. CASE InitRootDirCut
  BY <1>1, <1>10, ListUntouched DEF InitRootDirCut, Sp
<1>11. CASE SetupFs
  <2>1. \/ is_specific_block_set' = is_specific_block_set /\ specific_block' = specific_block
        \/ is_specific_block_set' /\ specific_block' = disk[Sp]
    BY <1>11 DEF SetupFs, LoadedNr, Sp
  <2>2. is_specific_block_set' /\ specific_block' = disk[Sp]
    BY <1>11, <2>1 DEF SetupFs, LoadedNr, Sp, Inv, MemoryMirrorsDisk
  <2> QED
    BY <1>1, <1>11, <2>2, ListUntouched DEF SetupFs, Sp
<1>12. CASE Restart
  <2>1. FreeList'
    BY <1>1, <1>12, HeadsUntouched DEF Restart, Sp
  <2> QED
    BY <1>1, <1>12, <2>1
       DEF Restart, Sp, Inv, ListSound, MemoryMirrorsDisk, GivesUpOnlyWhenEmpty
<1>13. CASE UNCHANGED vars
  <2>1. FreeList'
    BY <1>1, <1>13, HeadsUntouched DEF vars, Sp
  <2> QED
    BY <1>1, <1>13, <2>1
       DEF vars, Sp, Inv, ListSound, MemoryMirrorsDisk, GivesUpOnlyWhenEmpty
<1> QED
  BY <1>4, <1>5, <1>6, <1>7, <1>8, <1>9, <1>10, <1>11, <1>12, <1>13 DEF Next

LEMMA InvInit == Init => Inv
<1>1. Init => TypeOK
  BY FormattedDiskType, ZeroHeadType, Numbers
     DEF Init, TypeOK, PowerStates, Roles
<1> QED
  BY <1>1, InitFreeList
     DEF Init, Inv, ListSound, MemoryMirrorsDisk, GivesUpOnlyWhenEmpty, Sp

(* The inductive invariant: whatever the calls, crashes and restarts, the  *)
(* types hold, the list is sound, the copy of the specific block mirrors   *)
(* the disk, new_block gives up only when nothing is listed, and before    *)
(* the root directory exists the specific block is block 1.                *)
THEOREM Invariance == Spec => []Inv
BY InvInit, InvStep, PTL DEF Spec

(* Until the list runs off its last group, every free block is in exactly  *)
(* one place of the list that the disk holds, whatever new_block,          *)
(* free_block, crashes and restarts did to it (bitmap.cc:103-182).         *)
THEOREM ListCorrect == Spec => []ListSound
<1>1. Inv => ListSound
  BY DEF Inv
<1> QED
  BY <1>1, Invariance, PTL

(* The copy of the specific block in memory is the one on disk.            *)
THEOREM CopyCorrect == Spec => []MemoryMirrorsDisk
<1>1. Inv => MemoryMirrorsDisk
  BY DEF Inv
<1> QED
  BY <1>1, Invariance, PTL

(* new_block panics or starts over only once the list has run off its last *)
(* group (bitmap.cc:136-149).                                              *)
THEOREM GivesUpCorrect == Spec => []GivesUpOnlyWhenEmpty
<1>1. Inv => GivesUpOnlyWhenEmpty
  BY DEF Inv
<1> QED
  BY <1>1, Invariance, PTL

-----------------------------------------------------------------------------
(* File data.                                                              *)

LEMMA SparesOwnedStep ==
  ASSUME Inv, [Next]_vars, open, NEW b \in Block,
         role[b] = "owned", role'[b] = "owned", disk'[b] # disk[b]
  PROVE  WriteData(b) \/ FreeBlockCut(b)
<1>1. TypeOK /\ b \in Nr /\ b # Sp
  BY Numbers DEF Inv, ListSound, FreeList, HeadsFilled, Heads
<1>2. CASE NewBlock
  <2>1. power = "up"
    BY <1>2 DEF NewBlock, Inv, GivesUpOnlyWhenEmpty
  <2> QED
    BY <1>2, <2>1, NewBlockStep DEF NewBlock
<1>3. CASE InitRootDir
  BY <1>3, NewBlockStep DEF InitRootDir
<1>4. ASSUME NEW c \in Block, FreeBlock(c)
      PROVE  FALSE
  <2>1. role'[b] = role[b] => b # c
    BY <1>1, <1>4 DEF FreeBlock, free_block, Role, TypeOK
  <2> QED
    BY <1>1, <1>4, <2>1 DEF FreeBlock, free_block, Written, Sp, TypeOK
<1>5. ASSUME NEW c \in Block, FreeBlockCut(c) \/ WriteData(c)
      PROVE  c = b
  BY <1>1, <1>5 DEF FreeBlockCut, WriteData, TypeOK
<1> QED
  BY <1>2, <1>3, <1>4, <1>5
     DEF Next, vars, NewBlockCut, InitRootDirCut, SetupFs, Restart

(* What the list writes to disk never lands in a block that a file keeps.  *)
THEOREM OwnedSpared == Spec => SparesOwned
<1>1. Inv /\ [Next]_vars =>
        [\A b \in Block :
           open /\ role[b] = "owned" /\ role'[b] = "owned" /\ disk'[b] # disk[b]
             => WriteData(b) \/ FreeBlockCut(b)]_vars
  BY SparesOwnedStep
<1> QED
  BY <1>1, Invariance, PTL DEF Spec, SparesOwned

-----------------------------------------------------------------------------
(* The list implements the pool.                                           *)

LEMMA PoolInit == Init => Pool!Init
<1>1. LastBlk \in Block /\ LastBlk \notin InitHeads
  <2>1. LastBlk \in Block
    BY Numbers DEF Block
  <2>2. ASSUME NEW i \in 1..TOTAL_GROUP, LastBlk = HeadOfGroup(i)
        PROVE  FALSE
    <3>1. /\ End(i - 1) \in Nat /\ End(i) = End(i - 1) + BLKS_PER_GROUP
          /\ End(i) <= LastBlk
      BY Spans, GroupingAssumption
    <3>2. LastBlk = End(i - 1) + 1
      BY <2>2, FormattedDisk
    <3> QED
      BY <3>1, <3>2, Numbers, GroupingAssumption
  <2> QED
    BY <2>1, <2>2 DEF InitHeads
<1>2. ASSUME Init
      PROVE  {b \in Block : role[b] \in {"listed", "head"}} = Block \ {LastBlk}
             /\ {b \in Block : role[b] = "owned"} = {}
  BY <1>1, <1>2 DEF Init
<1> QED
  BY <1>2 DEF Init, Pool!Init

(* An exhausted list: the specific block is all that is left of the pool.  *)
LEMMA LastOne ==
  ASSUME TypeOK, FreeList, disk[Sp].s_free = 1, NextHead(Sp) = 0
  PROVE  Sp \in Block /\ {b \in Block : role[b] \in {"listed", "head"}} = {Sp}
<1>1. Sp \in Heads /\ Sp \in Block
  BY DEF FreeList, HeadsFilled, Heads
<1>2. Heads = {Sp}
  <2>1. 0 \notin Heads
    BY DEF Heads, Block
  <2>2. Heads \ {Sp} # {} => \E h \in Heads \ (Heads \ {Sp}) : NextHead(h) \in Heads \ {Sp}
    BY DEF FreeList, OneChain
  <2> QED
    BY <1>1, <2>1, <2>2
<1>3. Entries(Sp) = {}
  BY DEF Entries
<1>4. \A b \in Block : role[b] # "listed"
  BY <1>2, <1>3 DEF FreeList, ListsFreeBlocks
<1> QED
  BY <1>1, <1>2, <1>4 DEF Heads

LEMMA PoolStep == Inv /\ [Next]_vars => [Pool!Next]_(Pool!vars)
<1> SUFFICES ASSUME Inv, [Next]_vars
             PROVE  [Pool!Next]_(Pool!vars)
  OBVIOUS
<1> DEFINE F == {b \in Block : role[b] \in {"listed", "head"}}
           O == {b \in Block : role[b] = "owned"}
<1>1. CASE ~open
  <2>1. open' = FALSE
    <3>1. CASE new_block
      BY <1>1, <3>1 DEF new_block, TakeEntry, SwitchGroup, NoneLeft, Inv, TypeOK
    <3> QED
      BY <1>1, <3>1 DEF Inv, TypeOK, Next, vars, NewBlock, NewBlockCut, FreeBlock,
                FreeBlockCut, WriteData, InitRootDir, InitRootDirCut, SetupFs,
                Restart
  <2> QED
    BY <1>1, <2>1 DEF Pool!vars, Inv, TypeOK
<1>2. CASE open
  <2>1. TypeOK /\ FreeList
    BY <1>2 DEF Inv, ListSound
  <2>2. open' \in BOOLEAN /\ open = TRUE
    BY <1>2, StepType DEF Inv, TypeOK
  <2>3. ASSUME role' = role, open' = open
        PROVE  UNCHANGED Pool!vars
    BY <2>3 DEF Pool!vars
  <2>4. ASSUME open' = FALSE, disk[Sp].s_free = 1, NextHead(Sp) = 0
        PROVE  Pool!Close
    <3>1. Sp \in Block /\ F = {Sp}
      BY <2>1, <2>4, LastOne
    <3> QED
      BY <2>2, <2>4, <3>1 DEF Pool!Close
  <2>5. ASSUME power = "up" \/ (power = "booting" /\ ~root_bit), new_block
        PROVE  Pool!Next
    <3>1. CASE open' = FALSE
      BY <1>2, <2>4, <2>5, <3>1, NewBlockStep DEF Pool!Next
    <3>2. CASE open' # FALSE
      <4>1. PICK b \in Block :
              /\ role[b] = "listed"
              /\ \A c \in Block :
                   /\ (role'[c] = "owned") <=> (role[c] = "owned" \/ c = b)
                   /\ role'[c] \in {"listed", "head"} <=>
                        (role[c] \in {"listed", "head"} /\ c # b)
        BY <1>2, <2>5, <3>2, NewBlockStep
      <4>2. b \in F \ O /\ F' = F \ {b} /\ O' = O \union {b}
        BY <4>1
      <4>3. Pool!Alloc(b)
        BY <2>2, <3>2, <4>2 DEF Pool!Alloc
      <4> QED
        BY <4>3 DEF Pool!Next
    <3> QED
      BY <3>1, <3>2
  <2>6. CASE NewBlock
    <3>1. power = "up"
      BY <1>2, <2>6 DEF NewBlock, Inv, GivesUpOnlyWhenEmpty
    <3> QED
      BY <2>5, <2>6, <3>1 DEF NewBlock
  <2>7. CASE InitRootDir
    BY <2>5, <2>7 DEF InitRootDir
  <2>8. CASE NewBlockCut
    <3>1. specific_block = disk[Sp] /\ Sp \in Block /\ role[Sp] = "head"
      BY <1>2, <2>1, <2>8
         DEF NewBlockCut, Inv, MemoryMirrorsDisk, FreeList, HeadsFilled, Heads
    <3>2. /\ disk[Sp].s_free = 1
          /\ role' = [role EXCEPT ![Sp] = "lost"]
          /\ open' = (NextHead(Sp) # 0)
      BY <2>2, <2>8, <3>1 DEF NewBlockCut, NextHead, Role, Sp
    <3>3. CASE NextHead(Sp) = 0
      BY <2>4, <3>2, <3>3 DEF Pool!Next
    <3>4. CASE NextHead(Sp) # 0
      <4>1. Sp \in F /\ F' = F \ {Sp} /\ O' = O
        BY <2>1, <3>1, <3>2 DEF TypeOK
      <4>2. PICK b \in Block : b = Sp
        BY <3>1
      <4>3. Pool!Lose(b)
        BY <2>2, <3>2, <3>4, <4>1, <4>2 DEF Pool!Lose
      <4> QED
        BY <4>3 DEF Pool!Next
    <3> QED
      BY <3>3, <3>4
  <2>9. ASSUME NEW b \in Block, FreeBlock(b)
        PROVE  Pool!Next
    <3>1. specific_block = disk[Sp] /\ role[b] = "owned" /\ open' = open
      BY <1>2, <2>9 DEF FreeBlock, Inv, MemoryMirrorsDisk
    <3>2. ~(specific_block.s_free > BLKS_PER_GROUP)
      BY <2>1, <3>1, GroupingAssumption DEF FreeList, HeadsFilled
    <3>3. role' = [role EXCEPT ![b] = "listed"] \/ role' = [role EXCEPT ![b] = "head"]
      BY <2>9, <3>2 DEF FreeBlock, free_block, Role
    <3>4. b \in O \ F /\ F' = F \union {b} /\ O' = O \ {b}
      BY <2>1, <3>1, <3>3 DEF TypeOK
    <3>5. Pool!Free(b)
      BY <2>2, <3>1, <3>4 DEF Pool!Free
    <3> QED
      BY <3>5 DEF Pool!Next
  <2> QED
    BY <2>3, <2>6, <2>7, <2>8, <2>9
       DEF Next, vars, FreeBlockCut, WriteData, InitRootDirCut, SetupFs, Restart
<1> QED
  BY <1>1, <1>2

(* new_block and free_block implement the abstract pool: a block is handed *)
(* out only from the pool and to one owner, and comes back only from it.   *)
THEOREM PoolImplemented == Spec => PoolSpec
BY PoolInit, PoolStep, Invariance, PTL DEF Spec, PoolSpec, Pool!Spec
-----------------------------------------------------------------------------
(* A list that has run off its last group.                                 *)

(* Calls run with the copy loaded, and the copy has the count of the block *)
(* in front of the data zone, once that is the specific block.             *)
CountKept ==
  /\ power \in {"up", "again"} => is_specific_block_set
  /\ is_specific_block_set /\ Sp = 0 => specific_block.s_free = disk[0].s_free

LEMMA CountAfterNewBlock ==
  ASSUME TypeOK, CountKept, new_block
  PROVE  CountKept'
<1>1. 0 \in Nr /\ disk \in [Nr -> GroupHead] /\ Sp \in Nr
  BY Numbers DEF TypeOK, Nr, Sp
<1> DEFINE sp == IF is_specific_block_set THEN s_specific_blk_nr ELSE 1
           h == IF is_specific_block_set THEN specific_block ELSE disk[1]
<1>2. is_specific_block_set' = TRUE
  BY DEF new_block
<1>3. sp = 0 => h.s_free = disk[0].s_free
  BY DEF CountKept, Sp
<1> HIDE DEF sp, h
<1>4. CASE TakeEntry(h, sp)
  BY <1>1, <1>2, <1>4 DEF TakeEntry, NamesSpecific, Written, CountKept, Sp
<1>5. CASE SwitchGroup(h, sp)
  <2>1. /\ Sp' = h.s_free_blk_nr[0]
        /\ specific_block' = Refill(disk[Sp'], sp)
        /\ \/ disk' = Written(disk, Refill(disk[Sp'], sp), Sp')
           \/ disk' = disk
    BY <1>5 DEF SwitchGroup, NamesSpecific, Sp
  <2>2. Refill(disk[0], sp).s_free = disk[0].s_free
    BY <1>1 DEF Refill, GroupHead
  <2> QED
    BY <1>1, <1>2, <2>1, <2>2 DEF Written, CountKept
<1>6. CASE NoneLeft(h, sp)
  BY <1>2, <1>3, <1>6 DEF NoneLeft, NamesSpecific, CountKept, Sp
<1>7. TakeEntry(h, sp) \/ SwitchGroup(h, sp) \/ NoneLeft(h, sp)
  BY DEF new_block, sp, h
<1> QED
  BY <1>4, <1>5, <1>6, <1>7

LEMMA CountStep == Inv /\ CountKept /\ [Next]_vars => CountKept'
<1> SUFFICES ASSUME Inv, CountKept, [Next]_vars
             PROVE  CountKept'
  OBVIOUS
<1>1. /\ TypeOK /\ 0 \in Nr /\ 0 \notin Block /\ Block \subseteq Nr
      /\ disk \in [Nr -> GroupHead] /\ Sp \in Nr
  BY Numbers DEF Inv, TypeOK, Nr, Block, Sp
<1>2. CASE UNCHANGED vars
  BY <1>2 DEF vars, CountKept, Sp
<1>3. CASE NewBlock \/ InitRootDir
  BY <1>1, <1>3, CountAfterNewBlock DEF NewBlock, InitRootDir
<1>4. ASSUME NEW b \in Block, FreeBlock(b)
      PROVE  CountKept'
  <2>1. /\ power = "up" /\ Sp' = Sp
        /\ UNCHANGED is_specific_block_set /\ is_specific_block_set
    BY <1>4 DEF FreeBlock, CountKept, Sp
  <2>2. Sp = 0 => specific_block'.s_free = disk'[0].s_free
    BY <1>1, <1>4, <2>1 DEF FreeBlock, free_block, Written, CountKept, Sp
  <2> QED
    BY <2>1, <2>2 DEF CountKept
<1>5. ASSUME NEW b \in Block, WriteData(b)
      PROVE  CountKept'
  BY <1>1, <1>5 DEF WriteData, CountKept, Sp
<1>6. CASE SetupFs
  BY <1>1, <1>6 DEF SetupFs, LoadedNr, CountKept, Sp
<1>7. CASE InitRootDirCut
  BY <1>7 DEF InitRootDirCut, CountKept
<1>8. ASSUME \/ NewBlockCut \/ Restart
             \/ \E b \in Block : FreeBlockCut(b)
      PROVE  CountKept'
  BY <1>8 DEF NewBlockCut, FreeBlockCut, Restart, CountKept
<1> QED
  BY <1>2, <1>3, <1>4, <1>5, <1>6, <1>7, <1>8 DEF Next

LEMMA FullStep ==
  ASSUME Inv, CountKept, [Next]_vars, ~open, Sp = 0, disk[0].s_free = 0,
         NEW b \in Block, role'[b] = "owned"
  PROVE  role[b] = "owned"
<1>1. role \in [Block -> Roles] /\ root_bit
  BY DEF Inv, TypeOK
<1>2. CASE role' = role
  BY <1>2
<1>3. CASE NewBlock
  <2>1. is_specific_block_set /\ specific_block.s_free = 0
    BY <1>3 DEF NewBlock, CountKept
  <2> QED
    BY <1>2, <1>3, <2>1
       DEF NewBlock, new_block, TakeEntry, SwitchGroup, NoneLeft
<1>4. CASE NewBlockCut
  BY <1>1, <1>4 DEF NewBlockCut, Role
<1>5. ASSUME NEW c \in Block, FreeBlock(c)
      PROVE  role[b] = "owned"
  BY <1>1, <1>5 DEF FreeBlock, free_block, Role
<1> QED
  BY <1>1, <1>2, <1>3, <1>4, <1>5
     DEF Next, vars, FreeBlockCut, WriteData, InitRootDir, InitRootDirCut, SetupFs,
         Restart

(* Once the list has run off its last group, new_block hands out nothing,  *)
(* over any number of restarts, until a block has been freed.              *)
THEOREM FullIsForGood == Spec => FullStaysFull
<1>1. Init => CountKept
  BY DEF Init, CountKept
<1>2. Inv /\ CountKept /\ [Next]_vars => CountKept'
  BY CountStep
<1>3. Inv /\ CountKept /\ [Next]_vars =>
        [~open /\ Sp = 0 /\ disk[0].s_free = 0 =>
           \A b \in Block : role'[b] = "owned" => role[b] = "owned"]_vars
  BY FullStep
<1> QED
  BY <1>1, <1>2, <1>3, Invariance, PTL DEF Spec, FullStaysFull
=============================================================================
