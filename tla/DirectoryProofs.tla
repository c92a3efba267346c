--------------------------- MODULE DirectoryProofs ---------------------------
(***************************************************************************)
(* Proofs about directories: for every disk, every set of names and every  *)
(* order of commands and power failures, the tree is sound as long as      *)
(* nothing irreparable has happened.                                       *)
(***************************************************************************)
EXTENDS Directory, FiniteSetTheorems, WellFoundedInduction, TLAPS

-----------------------------------------------------------------------------
(* The inductive invariant.                                                *)

(* A tree: the inodes M that have an entry, and the root; the directories  *)
(* D among them; those of them, C, that have their dots; a sector for each *)
(* directory and the places in it that count.                              *)
EntriesIn(M, D, sec, slots) ==
  \A d \in D : \A k \in slots[d] :
    sec[d][k].inode \in M \ {0} /\ sec[d][k].name \in Name \ TooLong

LinkedOnce(M, D, sec, slots) ==
  /\ \A i \in M \ {0} : \E d \in D : \E k \in slots[d] : sec[d][k].inode = i
  /\ \A d \in D, e \in D : \A k \in slots[d], m \in slots[e] :
       sec[d][k].inode = sec[e][m].inode => d = e /\ k = m

NamesOnce(D, sec, slots) ==
  \A d \in D : \A k \in slots[d], m \in slots[d] :
    sec[d][k].name = sec[d][m].name => k = m \/ sec[d][k].name \in Exact

DotsOK(C, sec, slots) ==
  \A d \in C :
    /\ sec[d][1] = [inode |-> d, name |-> "."]
    /\ sec[d][2].name = ".."
    /\ d = 0 => sec[d][2].inode = NOWHERE
    /\ d # 0 => /\ sec[d][2].inode \in C
                /\ \E k \in slots[sec[d][2].inode] :
                     sec[sec[d][2].inode][k].inode = d

LeadsToRoot(C, sec) ==
  \A S \in SUBSET (C \ {0}) :
    S # {} => \E d \in S : sec[d][2].inode \notin S

TreeOK(M, D, C, sec, slots) ==
  /\ 0 \in C /\ C \subseteq D /\ D \subseteq M
  /\ \A d \in D : slots[d] \subseteq 3 .. DIR_ENTRIES
  /\ EntriesIn(M, D, sec, slots)
  /\ LinkedOnce(M, D, sec, slots)
  /\ NamesOnce(D, sec, slots)
  /\ DotsOK(C, sec, slots)
  /\ LeadsToRoot(C, sec)

(* Each inode of L has a block z[i] of its own, the blocks F are free, and *)
(* those of X are lost.                                                    *)
ZonesOK(L, z, F, X) ==
  /\ \A i \in L : z[i] \in Block /\ z[i] \notin F /\ z[i] \notin X
  /\ \A i \in L, j \in L : z[i] = z[j] => i = j
  /\ F \cap X = {}
  /\ \A b \in Block : b \in F \/ b \in X \/ \E i \in L : z[i] = b

(* The inode that mkdir has taken counts from the moment its entry does;   *)
(* the entry that rmdir or rm is about to remove does not count any more.  *)
Removing == {"unlink", "shrink"}
Dotless == IF cmd.at = "dots" THEN {cmd.new} ELSE {}
Complete == Folders \ Dotless
Sectors == [d \in Folders |-> SectorOf(d)]
SlotSets == [d \in Folders |-> SlotsOf(d)]
Zones == [i \in Live |-> inode[i].i_zone]

TreeNow == TreeOK(Members, Folders, Complete, Sectors, SlotSets)
Blocks == ZonesOK(Live, Zones, free, lost.blk)

NumbersOK == lost.ino \subseteq inode_map \union {LastIno + 1}

NodeOK(i, node) ==
  /\ node.i_ino = i
  /\ (i = 0 \/ node.i_mode = DIR_FILE) => node.i_size \in 2 .. DIR_ENTRIES
  /\ (i # 0 /\ node.i_mode = NORMAL_FILE) => node.i_size = FileEntries
NodesOK == \A i \in Live : NodeOK(i, inode[i])

(* Only mkdir, on its way, may be in a file.                               *)
CwdOK ==
  /\ ipwd.i_ino \in Members /\ ipwd = inode[ipwd.i_ino]
  /\ cmd.at # "mkdir" => ipwd.i_ino \in Complete
  /\ cmd.back.i_ino \in Complete
  /\ cmd.at = "prompt" => cmd.back = inode[cmd.back.i_ino]

(* No entry of the working directory would be found under this name.       *)
NotThere(name) ==
  \A k \in 3 .. ipwd.i_size : Cwd[k].name = name => name \in Exact

NewDir == /\ cmd.new \in Live \ {0}
          /\ inode[cmd.new].i_mode = DIR_FILE /\ inode[cmd.new].i_size = 2

UnderWay ==
  /\ cmd.at \in {"entry", "size", "dots"} => NewDir
  /\ cmd.at \in {"entry", "size"} =>
       /\ ipwd.i_size < DIR_ENTRIES
       /\ ThisName("mkdir") \in Name \ TooLong
       /\ NotThere(ThisName("mkdir"))
  /\ cmd.at = "size" =>
       Cwd[ipwd.i_size + 1] = [inode |-> cmd.new, name |-> ThisName("mkdir")]
  /\ cmd.at = "dots" =>
       3 <= ipwd.i_size /\ Cwd[ipwd.i_size].inode = cmd.new
  /\ cmd.at = "unlink" => Hole \in 3 .. ipwd.i_size
  /\ cmd.at = "shrink" => 3 <= ipwd.i_size

Sound == TypeOK /\ NumbersOK /\ NodesOK /\ Blocks /\ TreeNow /\ CwdOK /\ UnderWay

DirectoryInv == harm = {} => Sound

-----------------------------------------------------------------------------
(* How a tree changes.                                                     *)

LEMMA TreeFacts ==
  ASSUME NEW M, NEW D, NEW C, NEW sec, NEW slots, TreeOK(M, D, C, sec, slots)
  PROVE  /\ 0 \in C /\ 0 \in D /\ 0 \in M
         /\ C \subseteq D /\ D \subseteq M
         /\ \A d \in D : slots[d] \subseteq 3 .. DIR_ENTRIES
BY DEF TreeOK

DotsStay(C, sec, slots, sec2, slots2) ==
  /\ \A d \in C : sec2[d][1] = sec[d][1] /\ sec2[d][2] = sec[d][2]
  /\ \A d \in C : d # 0 => sec[d][2].inode \in C
  /\ \A c \in C, i \in C \ {0} :
       (\E k \in slots[c] : sec[c][k].inode = i) =>
         \E k \in slots2[c] : sec2[c][k].inode = i

LEMMA DotsKept ==
  ASSUME NEW C, NEW sec, NEW slots, DotsOK(C, sec, slots),
         NEW C2, C2 \subseteq C, NEW sec2, NEW slots2,
         DotsStay(C2, sec, slots, sec2, slots2)
  PROVE  DotsOK(C2, sec2, slots2)
<1> SUFFICES ASSUME NEW d \in C2
             PROVE  /\ sec2[d][1] = [inode |-> d, name |-> "."]
                    /\ sec2[d][2].name = ".."
                    /\ d = 0 => sec2[d][2].inode = NOWHERE
                    /\ d # 0 => /\ sec2[d][2].inode \in C2
                                /\ \E k \in slots2[sec2[d][2].inode] :
                                     sec2[sec2[d][2].inode][k].inode = d
  BY DEF DotsOK
<1>1. /\ sec[d][1] = [inode |-> d, name |-> "."]
      /\ sec[d][2].name = ".."
      /\ d = 0 => sec[d][2].inode = NOWHERE
      /\ d # 0 => \E k \in slots[sec[d][2].inode] :
                    sec[sec[d][2].inode][k].inode = d
  BY DEF DotsOK
<1>2. ASSUME d # 0
      PROVE  /\ sec[d][2].inode \in C2
             /\ \E k \in slots2[sec[d][2].inode] :
                  sec2[sec[d][2].inode][k].inode = d
  BY <1>1, <1>2 DEF DotsStay
<1>3. sec2[d][1] = sec[d][1] /\ sec2[d][2] = sec[d][2]
  BY DEF DotsStay
<1> QED
  BY <1>1, <1>2, <1>3

(* Only the entries that count and the dots matter.                        *)
LEMMA SameTree ==
  ASSUME NEW M, NEW D, NEW C, NEW sec, NEW slots, TreeOK(M, D, C, sec, slots),
         NEW sec2,
         \A d \in D : \A k \in slots[d] \union {1, 2} : sec2[d][k] = sec[d][k]
  PROVE  TreeOK(M, D, C, sec2, slots)
<1>1. \A d \in D : \A k \in slots[d] : sec2[d][k] = sec[d][k]
  OBVIOUS
<1>2. \A d \in D : sec2[d][1] = sec[d][1] /\ sec2[d][2] = sec[d][2]
  OBVIOUS
<1>3. EntriesIn(M, D, sec2, slots)
  BY <1>1 DEF TreeOK, EntriesIn
<1>4. LinkedOnce(M, D, sec2, slots)
  BY <1>1 DEF TreeOK, LinkedOnce
<1>5. NamesOnce(D, sec2, slots)
  BY <1>1 DEF TreeOK, NamesOnce
<1>6. DotsOK(C, sec2, slots)
  <2>1. \A d \in C : d # 0 => sec[d][2].inode \in C
    BY DEF TreeOK, DotsOK
  <2>2. DotsOK(C, sec, slots) /\ C \subseteq D
    BY DEF TreeOK
  <2>3. \A c \in C, i \in C \ {0} :
          (\E k \in slots[c] : sec[c][k].inode = i) =>
            \E k \in slots[c] : sec2[c][k].inode = i
    BY <1>1, <2>2
  <2>4. DotsStay(C, sec, slots, sec2, slots)
    BY <2>1, <2>2, <2>3, <1>2 DEF DotsStay
  <2> QED
    BY <2>2, <2>4, DotsKept
<1>7. LeadsToRoot(C, sec2)
  BY <1>2 DEF TreeOK, LeadsToRoot
<1> QED
  BY <1>3, <1>4, <1>5, <1>6, <1>7 DEF TreeOK

(* A new inode i gets an entry at place k of directory c.                  *)
Grows(D, i, c, k, D2, sec, slots, sec2, slots2) ==
  /\ D2 = D \/ D2 = D \union {i}
  /\ \A d \in D : \A m \in slots[d] \union {1, 2} : sec2[d][m] = sec[d][m]
  /\ sec2[c][k].inode = i /\ sec2[c][k].name \in Name \ TooLong
  /\ \A m \in slots[c] :
       sec[c][m].name = sec2[c][k].name => sec[c][m].name \in Exact
  /\ slots2[c] = slots[c] \union {k}
  /\ \A d \in D \ {c} : slots2[d] = slots[d]
  /\ i \in D2 => slots2[i] = {}

LEMMA TreeGrown ==
  ASSUME NEW M, NEW D, NEW C, NEW sec, NEW slots, TreeOK(M, D, C, sec, slots),
         NEW i, i \notin M, NEW c \in D,
         NEW k \in 3 .. DIR_ENTRIES, k \notin slots[c], NEW D2,
         NEW sec2, NEW slots2, Grows(D, i, c, k, D2, sec, slots, sec2, slots2)
  PROVE  TreeOK(M \union {i}, D2, C, sec2, slots2)
<1> USE DEF Grows
<1> DEFINE M2 == M \union {i}
<1>1. /\ 0 \in C /\ C \subseteq D /\ D \subseteq M
      /\ D \subseteq D2 /\ D2 \subseteq M2 /\ C \subseteq D2
      /\ \A d \in D : slots[d] \subseteq 3 .. DIR_ENTRIES
      /\ 0 \in M /\ i # 0 /\ i \notin D
  BY DEF TreeOK
<1>2. ASSUME NEW d \in D2, NEW m \in slots2[d]
      PROVE  /\ d \in D /\ m \in 3 .. DIR_ENTRIES
             /\ (d = c /\ m = k) \/ (m \in slots[d] /\ sec2[d][m] = sec[d][m])
  <2>1. d # i
    BY <1>2
  <2>2. d \in D
    BY <2>1
  <2>3. CASE d = c
    BY <2>2, <2>3, <1>1, <1>2
  <2>4. CASE d # c
    BY <2>2, <2>4, <1>1, <1>2
  <2> QED
    BY <2>3, <2>4
<1>3. ASSUME NEW d \in D, NEW m \in slots[d]
      PROVE  m \in slots2[d] /\ sec2[d][m] = sec[d][m]
  BY <1>3
<1>4. k \in slots2[c] /\ c \in D2
  BY <1>1
<1>5. \A d \in D2 : slots2[d] \subseteq 3 .. DIR_ENTRIES
  BY <1>2
<1>6. EntriesIn(M2, D2, sec2, slots2)
  <2> SUFFICES ASSUME NEW d \in D2, NEW m \in slots2[d]
               PROVE  /\ sec2[d][m].inode \in M2 \ {0}
                      /\ sec2[d][m].name \in Name \ TooLong
    BY DEF EntriesIn
  <2>1. CASE d = c /\ m = k
    BY <2>1, <1>1
  <2>2. CASE m \in slots[d] /\ sec2[d][m] = sec[d][m]
    BY <2>2, <1>2 DEF TreeOK, EntriesIn
  <2> QED
    BY <2>1, <2>2, <1>2
<1>7. LinkedOnce(M2, D2, sec2, slots2)
  <2>1. ASSUME NEW j \in M2 \ {0}
        PROVE  \E d \in D2 : \E m \in slots2[d] : sec2[d][m].inode = j
    <3>1. CASE j = i
      BY <3>1, <1>4
    <3>2. CASE j \in M \ {0}
      <4>1. PICK d \in D : \E m \in slots[d] : sec[d][m].inode = j
        BY <3>2 DEF TreeOK, LinkedOnce
      <4> QED
        BY <4>1, <1>1, <1>3
    <3> QED
      BY <3>1, <3>2
  <2>2. ASSUME NEW d \in D2, NEW m \in slots2[d]
        PROVE  /\ d = c /\ m = k => sec2[d][m].inode = i
               /\ ~(d = c /\ m = k) =>
                    sec2[d][m].inode # i /\ m \in slots[d] /\ d \in D
                    /\ sec2[d][m] = sec[d][m]
    <3>1. ASSUME ~(d = c /\ m = k)
          PROVE  sec2[d][m].inode # i
      <4>1. sec[d][m].inode \in M
        BY <1>2, <3>1 DEF TreeOK, EntriesIn
      <4> QED
        BY <4>1, <1>2, <3>1
    <3> QED
      BY <3>1, <1>2
  <2>3. ASSUME NEW d \in D2, NEW e \in D2, NEW m \in slots2[d],
               NEW n \in slots2[e], sec2[d][m].inode = sec2[e][n].inode
        PROVE  d = e /\ m = n
    <3>1. CASE d = c /\ m = k
      BY <3>1, <2>2, <2>3
    <3>2. CASE e = c /\ n = k
      BY <3>2, <2>2, <2>3
    <3>3. CASE ~(d = c /\ m = k) /\ ~(e = c /\ n = k)
      <4>1. /\ d \in D /\ m \in slots[d] /\ sec2[d][m] = sec[d][m]
            /\ e \in D /\ n \in slots[e] /\ sec2[e][n] = sec[e][n]
        BY <2>2, <3>3
      <4> QED
        BY <4>1, <2>3 DEF TreeOK, LinkedOnce
    <3> QED
      BY <3>1, <3>2, <3>3
  <2> QED
    BY <2>1, <2>3 DEF LinkedOnce
<1>8. NamesOnce(D2, sec2, slots2)
  <2> SUFFICES ASSUME NEW d \in D2, NEW m \in slots2[d], NEW n \in slots2[d],
                      sec2[d][m].name = sec2[d][n].name, m # n
               PROVE  sec2[d][m].name \in Exact
    BY DEF NamesOnce
  <2>1. CASE d = c /\ m = k
    BY <2>1, <1>2
  <2>2. CASE d = c /\ n = k
    BY <2>2, <1>2
  <2>3. CASE ~(d = c /\ m = k) /\ ~(d = c /\ n = k)
    <3>1. /\ d \in D /\ m \in slots[d] /\ sec2[d][m] = sec[d][m]
          /\ n \in slots[d] /\ sec2[d][n] = sec[d][n]
      BY <2>3, <1>2
    <3> QED
      BY <3>1 DEF TreeOK, NamesOnce
  <2> QED
    BY <2>1, <2>2, <2>3
<1>9. \A d \in C : sec2[d][1] = sec[d][1] /\ sec2[d][2] = sec[d][2]
  BY <1>1
<1>10. DotsOK(C, sec2, slots2)
  <2>1. \A d \in C : d # 0 => sec[d][2].inode \in C
    BY DEF TreeOK, DotsOK
  <2>2. DotsOK(C, sec, slots)
    BY DEF TreeOK
  <2>3. \A e \in C, j \in C \ {0} :
          (\E m \in slots[e] : sec[e][m].inode = j) =>
            \E m \in slots2[e] : sec2[e][m].inode = j
    BY <1>1, <1>3
  <2>4. DotsStay(C, sec, slots, sec2, slots2)
    BY <2>1, <2>3, <1>9 DEF DotsStay
  <2> QED
    BY <2>2, <2>4, DotsKept
<1>11. LeadsToRoot(C, sec2)
  BY <1>9 DEF TreeOK, LeadsToRoot
<1> QED
  BY <1>1, <1>5, <1>6, <1>7, <1>8, <1>10, <1>11 DEF TreeOK

(* A new directory i, entered in directory c, gets its dots.               *)
DotsWritten(D, i, c, sec, sec2) ==
  /\ \A d \in D \ {i} : sec2[d] = sec[d]
  /\ sec2[i][1] = [inode |-> i, name |-> "."]
  /\ sec2[i][2] = [inode |-> c, name |-> ".."]

LEMMA TreeDotted ==
  ASSUME NEW M, NEW D, NEW C, NEW sec, NEW slots, TreeOK(M, D, C, sec, slots),
         NEW i \in D \ C, slots[i] = {},
         NEW c \in C, NEW k \in slots[c], sec[c][k].inode = i,
         NEW sec2, DotsWritten(D, i, c, sec, sec2)
  PROVE  TreeOK(M, D, C \union {i}, sec2, slots)
<1> USE DEF DotsWritten
<1> DEFINE C2 == C \union {i}
<1>1. /\ 0 \in C /\ C \subseteq D /\ D \subseteq M
      /\ 0 \in C2 /\ C2 \subseteq D /\ i # 0 /\ i # c
      /\ \A d \in D : slots[d] \subseteq 3 .. DIR_ENTRIES
  BY DEF TreeOK
<1>2. \A d \in D : \A m \in slots[d] : d # i /\ sec2[d] = sec[d]
  OBVIOUS
<1>3. EntriesIn(M, D, sec2, slots)
  BY <1>2 DEF TreeOK, EntriesIn
<1>4. LinkedOnce(M, D, sec2, slots)
  <2>1. ASSUME NEW j \in M \ {0}
        PROVE  \E d \in D : \E m \in slots[d] : sec2[d][m].inode = j
    <3>1. PICK d \in D : \E m \in slots[d] : sec[d][m].inode = j
      BY DEF TreeOK, LinkedOnce
    <3> QED
      BY <3>1, <1>2
  <2>2. ASSUME NEW d \in D, NEW e \in D, NEW m \in slots[d], NEW n \in slots[e],
               sec2[d][m].inode = sec2[e][n].inode
        PROVE  d = e /\ m = n
    <3>1. sec2[d] = sec[d] /\ sec2[e] = sec[e]
      BY <1>2
    <3> QED
      BY <2>2, <3>1 DEF TreeOK, LinkedOnce
  <2> QED
    BY <2>1, <2>2 DEF LinkedOnce
<1>5. NamesOnce(D, sec2, slots)
  BY <1>2 DEF TreeOK, NamesOnce
<1>6. \A d \in C : d # i /\ sec2[d] = sec[d]
  BY <1>1
<1>7. DotsOK(C, sec2, slots)
  <2>1. DotsOK(C, sec, slots)
    BY DEF TreeOK
  <2>2. \A d \in C : d # 0 => sec[d][2].inode \in C
    BY <2>1 DEF DotsOK
  <2>3. \A e \in C, j \in C \ {0} :
          (\E m \in slots[e] : sec[e][m].inode = j) =>
            \E m \in slots[e] : sec2[e][m].inode = j
    BY <1>6
  <2>4. DotsStay(C, sec, slots, sec2, slots)
    BY <2>2, <2>3, <1>6 DEF DotsStay
  <2> QED
    BY <2>1, <2>4, DotsKept
<1>8. DotsOK(C2, sec2, slots)
  <2> SUFFICES ASSUME NEW d \in C2
               PROVE  /\ sec2[d][1] = [inode |-> d, name |-> "."]
                      /\ sec2[d][2].name = ".."
                      /\ d = 0 => sec2[d][2].inode = NOWHERE
                      /\ d # 0 => /\ sec2[d][2].inode \in C2
                                  /\ \E m \in slots[sec2[d][2].inode] :
                                       sec2[sec2[d][2].inode][m].inode = d
    BY DEF DotsOK
  <2>1. CASE d = i
    <3>1. sec2[d][2].inode = c /\ sec2[d][2].name = ".."
      BY <2>1
    <3>2. k \in slots[c] /\ sec2[c][k].inode = d
      BY <2>1, <1>6
    <3> QED
      BY <2>1, <3>1, <3>2, <1>1
  <2>2. CASE d \in C
    BY <2>2, <1>7 DEF DotsOK
  <2> QED
    BY <2>1, <2>2
<1>9. LeadsToRoot(C2, sec2)
  <2> SUFFICES ASSUME NEW S \in SUBSET (C2 \ {0}), S # {}
               PROVE  \E d \in S : sec2[d][2].inode \notin S
    BY DEF LeadsToRoot
  <2>1. CASE S = {i}
    <3>1. sec2[i][2].inode = c
      OBVIOUS
    <3> QED
      BY <2>1, <3>1, <1>1
  <2>2. CASE S # {i}
    <3>1. S \ {i} \in SUBSET (C \ {0}) /\ S \ {i} # {}
      BY <2>2
    <3>2. PICK d \in S \ {i} : sec[d][2].inode \notin S \ {i}
      BY <3>1 DEF TreeOK, LeadsToRoot
    <3>3. d \in C /\ d # 0
      BY <3>1
    <3>4. sec[d][2].inode \in C
      BY <3>3 DEF TreeOK, DotsOK
    <3>5. sec[d][2].inode # i
      BY <3>4
    <3>6. sec2[d][2].inode = sec[d][2].inode
      BY <3>3, <1>6
    <3> QED
      BY <3>2, <3>5, <3>6
  <2> QED
    BY <2>1, <2>2
<1> QED
  BY <1>1, <1>3, <1>4, <1>5, <1>8, <1>9 DEF TreeOK

(* Inode i, a file or an empty directory, loses its entry at place h of    *)
(* directory c.                                                            *)
Pruned(D, i, c, h, sec, slots, sec2, slots2) ==
  /\ i \in D => slots[i] = {}
  /\ \A d \in D \ {i} : sec2[d] = sec[d]
  /\ slots2[c] = slots[c] \ {h}
  /\ \A d \in D \ {c, i} : slots2[d] = slots[d]

LEMMA TreePruned ==
  ASSUME NEW M, NEW D, NEW C, NEW sec, NEW slots, TreeOK(M, D, C, sec, slots),
         NEW i \in M \ {0}, NEW c \in D, NEW h \in slots[c], sec[c][h].inode = i,
         NEW sec2, NEW slots2, Pruned(D, i, c, h, sec, slots, sec2, slots2)
  PROVE  TreeOK(M \ {i}, D \ {i}, C \ {i}, sec2, slots2)
<1> USE DEF Pruned
<1> DEFINE M2 == M \ {i}
           D2 == D \ {i}
           C2 == C \ {i}
<1>1. /\ 0 \in C2 /\ C2 \subseteq D2 /\ D2 \subseteq M2
      /\ \A d \in D : slots[d] \subseteq 3 .. DIR_ENTRIES
      /\ c # i /\ c \in D2 /\ C \subseteq D /\ D \subseteq M
  BY DEF TreeOK
<1>2. \A d \in D2 : slots2[d] \subseteq slots[d] /\ sec2[d] = sec[d]
  BY <1>1
<1>3. ASSUME NEW d \in D2, NEW m \in slots[d]
      PROVE  sec[d][m].inode # i => m \in slots2[d]
  BY <1>1
<1>4. ASSUME NEW d \in D2, NEW m \in slots2[d]
      PROVE  /\ d \in D /\ m \in slots[d] /\ sec2[d] = sec[d]
             /\ sec[d][m].inode # i
  <2>1. d \in D /\ m \in slots[d] /\ sec2[d] = sec[d]
    BY <1>2
  <2>2. sec[d][m].inode = i => d = c /\ m = h
    BY <2>1 DEF TreeOK, LinkedOnce
  <2> QED
    BY <2>1, <2>2
<1>5. EntriesIn(M2, D2, sec2, slots2)
  BY <1>4 DEF TreeOK, EntriesIn
<1>6. LinkedOnce(M2, D2, sec2, slots2)
  <2>1. ASSUME NEW j \in M2 \ {0}
        PROVE  \E d \in D2 : \E m \in slots2[d] : sec2[d][m].inode = j
    <3>0. PICK d \in D : \E m \in slots[d] : sec[d][m].inode = j
      BY DEF TreeOK, LinkedOnce
    <3>1. PICK m \in slots[d] : sec[d][m].inode = j
      BY <3>0
    <3>2. d \in D2
      BY <3>1
    <3>3. m \in slots2[d] /\ sec2[d] = sec[d]
      BY <3>1, <3>2, <1>2, <1>3
    <3> QED
      BY <3>1, <3>2, <3>3
  <2>2. ASSUME NEW d \in D2, NEW e \in D2, NEW m \in slots2[d],
               NEW n \in slots2[e], sec2[d][m].inode = sec2[e][n].inode
        PROVE  d = e /\ m = n
    <3>1. /\ d \in D /\ m \in slots[d] /\ sec2[d] = sec[d]
          /\ e \in D /\ n \in slots[e] /\ sec2[e] = sec[e]
      BY <1>4
    <3> QED
      BY <2>2, <3>1 DEF TreeOK, LinkedOnce
  <2> QED
    BY <2>1, <2>2 DEF LinkedOnce
<1>7. NamesOnce(D2, sec2, slots2)
  <2> SUFFICES ASSUME NEW d \in D2, NEW m \in slots2[d], NEW n \in slots2[d],
                      sec2[d][m].name = sec2[d][n].name, m # n
               PROVE  sec2[d][m].name \in Exact
    BY DEF NamesOnce
  <2>1. d \in D /\ m \in slots[d] /\ n \in slots[d] /\ sec2[d] = sec[d]
    BY <1>4
  <2> QED
    BY <2>1 DEF TreeOK, NamesOnce
<1>8. DotsOK(C2, sec2, slots2)
  <2>1. DotsOK(C, sec, slots)
    BY DEF TreeOK
  <2>2. \A d \in C2 : sec2[d][1] = sec[d][1] /\ sec2[d][2] = sec[d][2]
    BY <1>1, <1>2
  <2>3. \A d \in C2 : d # 0 => sec[d][2].inode \in C2
    <3> SUFFICES ASSUME NEW d \in C2, d # 0
                 PROVE  sec[d][2].inode # i /\ sec[d][2].inode \in C
      OBVIOUS
    <3>1. /\ sec[d][2].inode \in C
          /\ \E m \in slots[sec[d][2].inode] : sec[sec[d][2].inode][m].inode = d
      BY <2>1 DEF DotsOK
    <3> QED
      BY <3>1, <1>1
  <2>4. \A e \in C2, j \in C2 \ {0} :
          (\E m \in slots[e] : sec[e][m].inode = j) =>
            \E m \in slots2[e] : sec2[e][m].inode = j
    BY <1>1, <1>2, <1>3
  <2>5. DotsStay(C2, sec, slots, sec2, slots2) /\ C2 \subseteq C
    BY <2>2, <2>3, <2>4 DEF DotsStay
  <2> QED
    BY <2>1, <2>5, DotsKept
<1>9. LeadsToRoot(C2, sec2)
  <2> SUFFICES ASSUME NEW S \in SUBSET (C2 \ {0}), S # {}
               PROVE  \E d \in S : sec2[d][2].inode \notin S
    BY DEF LeadsToRoot
  <2>1. S \in SUBSET (C \ {0})
    OBVIOUS
  <2>2. PICK d \in S : sec[d][2].inode \notin S
    BY <2>1 DEF TreeOK, LeadsToRoot
  <2>3. sec2[d] = sec[d]
    BY <1>1, <1>2
  <2> QED
    BY <2>2, <2>3
<1> QED
  BY <1>1, <1>2, <1>5, <1>6, <1>7, <1>8, <1>9 DEF TreeOK

(* The entries behind place h of directory c, which does not count any     *)
(* more, move up.                                                          *)
MovedUp(D, c, s, h, sec, slots, sec2, slots2) ==
  /\ slots[c] = (3 .. s) \ {h} /\ slots2[c] = 3 .. (s - 1)
  /\ \A d \in D \ {c} : sec2[d] = sec[d] /\ slots2[d] = slots[d]
  /\ \A m \in 1 .. (s - 1) :
       sec2[c][m] = IF m < h THEN sec[c][m] ELSE sec[c][m + 1]

LEMMA TreeMovedUp ==
  ASSUME NEW M, NEW D, NEW C, NEW sec, NEW slots, TreeOK(M, D, C, sec, slots),
         NEW c \in D, NEW s \in Int, s <= DIR_ENTRIES, NEW h \in 3 .. s,
         NEW sec2, NEW slots2, MovedUp(D, c, s, h, sec, slots, sec2, slots2)
  PROVE  TreeOK(M, D, C, sec2, slots2)
<1> USE DEF MovedUp
<1> DEFINE Was(d, m) == IF d = c /\ m >= h THEN m + 1 ELSE m
<1>1. /\ 0 \in C /\ C \subseteq D /\ D \subseteq M
      /\ \A d \in D : slots[d] \subseteq 3 .. DIR_ENTRIES
      /\ DIR_ENTRIES \in Int
  BY DirectoryAssumption DEF TreeOK
<1>2. ASSUME NEW d \in D, NEW m \in slots2[d]
      PROVE  /\ Was(d, m) \in slots[d] /\ sec2[d][m] = sec[d][Was(d, m)]
             /\ m \in 3 .. DIR_ENTRIES
  <2>1. CASE d = c
    <3>1. m \in 3 .. (s - 1) /\ m \in 1 .. (s - 1)
      BY <2>1
    <3>2. CASE m < h
      BY <2>1, <3>1, <3>2, <1>1
    <3>3. CASE m >= h
      BY <2>1, <3>1, <3>3, <1>1
    <3> QED
      BY <3>1, <3>2, <3>3
  <2>2. CASE d # c
    BY <2>2, <1>1
  <2> QED
    BY <2>1, <2>2
<1>3. ASSUME NEW d \in D, NEW m \in slots2[d], NEW n \in slots2[d],
             Was(d, m) = Was(d, n)
      PROVE  m = n
  <2>1. m \in Int /\ n \in Int
    BY <1>2
  <2> QED
    BY <2>1, <1>3
<1>4. ASSUME NEW d \in D, NEW m \in slots[d]
      PROVE  \E n \in slots2[d] : Was(d, n) = m
  <2>1. CASE d = c
    <3>1. m \in 3 .. s /\ m # h
      BY <2>1
    <3>2. CASE m < h
      <4>1. m \in 3 .. (s - 1) /\ ~(m >= h)
        BY <3>1, <3>2
      <4>2. m \in slots2[d] /\ Was(d, m) = m
        BY <2>1, <4>1
      <4> QED
        BY <4>2
    <3>3. CASE m > h
      <4>1. m - 1 \in 3 .. (s - 1) /\ m - 1 >= h /\ (m - 1) + 1 = m
        BY <3>1, <3>3
      <4> QED
        BY <2>1, <4>1
    <3> QED
      BY <3>1, <3>2, <3>3
  <2>2. CASE d # c
    BY <2>2
  <2> QED
    BY <2>1, <2>2
<1>5. \A d \in D : sec2[d][1] = sec[d][1] /\ sec2[d][2] = sec[d][2]
  <2>1. 1 \in 1 .. (s - 1) /\ 2 \in 1 .. (s - 1) /\ 1 < h /\ 2 < h
    OBVIOUS
  <2>2. sec2[c][1] = sec[c][1] /\ sec2[c][2] = sec[c][2]
    BY <2>1
  <2> QED
    BY <2>2
<1> HIDE DEF Was
<1>6. ASSUME NEW d \in D
      PROVE  slots2[d] \subseteq 3 .. DIR_ENTRIES
  BY <1>2
<1>7. EntriesIn(M, D, sec2, slots2)
  <2> SUFFICES ASSUME NEW d \in D, NEW m \in slots2[d]
               PROVE  /\ sec2[d][m].inode \in M \ {0}
                      /\ sec2[d][m].name \in Name \ TooLong
    BY DEF EntriesIn
  <2>1. Was(d, m) \in slots[d] /\ sec2[d][m] = sec[d][Was(d, m)]
    BY <1>2
  <2> QED
    BY <2>1 DEF TreeOK, EntriesIn
<1>8. LinkedOnce(M, D, sec2, slots2)
  <2>1. ASSUME NEW j \in M \ {0}
        PROVE  \E d \in D : \E m \in slots2[d] : sec2[d][m].inode = j
    <3>1. PICK d \in D : \E m \in slots[d] : sec[d][m].inode = j
      BY DEF TreeOK, LinkedOnce
    <3>2. PICK m \in slots[d] : sec[d][m].inode = j
      BY <3>1
    <3>3. PICK n \in slots2[d] : Was(d, n) = m
      BY <1>4
    <3>4. sec2[d][n].inode = j
      BY <3>2, <3>3, <1>2
    <3> QED
      BY <3>4
  <2>2. ASSUME NEW d \in D, NEW e \in D, NEW m \in slots2[d],
               NEW n \in slots2[e], sec2[d][m].inode = sec2[e][n].inode
        PROVE  d = e /\ m = n
    <3>1. /\ Was(d, m) \in slots[d] /\ Was(e, n) \in slots[e]
          /\ sec[d][Was(d, m)].inode = sec[e][Was(e, n)].inode
      BY <2>2, <1>2
    <3>2. d = e /\ Was(d, m) = Was(e, n)
      BY <3>1 DEF TreeOK, LinkedOnce
    <3> QED
      BY <3>2, <1>3
  <2> QED
    BY <2>1, <2>2 DEF LinkedOnce
<1>9. NamesOnce(D, sec2, slots2)
  <2> SUFFICES ASSUME NEW d \in D, NEW m \in slots2[d], NEW n \in slots2[d],
                      sec2[d][m].name = sec2[d][n].name, m # n
               PROVE  sec2[d][m].name \in Exact
    BY DEF NamesOnce
  <2>1. /\ Was(d, m) \in slots[d] /\ Was(d, n) \in slots[d]
        /\ sec2[d][m] = sec[d][Was(d, m)] /\ sec2[d][n] = sec[d][Was(d, n)]
    BY <1>2
  <2>2. Was(d, m) # Was(d, n)
    BY <1>3
  <2> QED
    BY <2>1, <2>2 DEF TreeOK, NamesOnce
<1>10. DotsOK(C, sec2, slots2)
  <2>1. DotsOK(C, sec, slots)
    BY DEF TreeOK
  <2>2. \A d \in C : d # 0 => sec[d][2].inode \in C
    BY <2>1 DEF DotsOK
  <2>3. ASSUME NEW e \in C, NEW j \in C \ {0},
               NEW m \in slots[e], sec[e][m].inode = j
        PROVE  \E n \in slots2[e] : sec2[e][n].inode = j
    <3>1. e \in D
      BY <1>1
    <3>2. PICK n \in slots2[e] : Was(e, n) = m
      BY <3>1, <1>4
    <3> QED
      BY <2>3, <3>1, <3>2, <1>2
  <2>4. DotsStay(C, sec, slots, sec2, slots2)
    BY <2>2, <2>3, <1>1, <1>5 DEF DotsStay
  <2> QED
    BY <2>1, <2>4, DotsKept
<1>11. LeadsToRoot(C, sec2)
  BY <1>1, <1>5 DEF TreeOK, LeadsToRoot
<1> QED
  BY <1>1, <1>6, <1>7, <1>8, <1>9, <1>10, <1>11 DEF TreeOK

-----------------------------------------------------------------------------
(* The names of a tree, and how they change with it.                       *)

NamesOf(D, sec, slots) ==
  UNION {{[dir |-> d, name |-> sec[d][k].name, stands |-> sec[d][k].inode] :
            k \in slots[d]} : d \in D}
Named(d, entry) == [dir |-> d, name |-> entry.name, stands |-> entry.inode]

LEMMA NamesFacts ==
  ASSUME NEW D, NEW sec, NEW slots, NEW e
  PROVE  e \in NamesOf(D, sec, slots) <=>
           \E d \in D : \E k \in slots[d] : e = Named(d, sec[d][k])
BY DEF NamesOf, Named

LEMMA NamesSame ==
  ASSUME NEW D, NEW sec, NEW slots, NEW sec2, NEW slots2,
         \A d \in D : /\ slots2[d] = slots[d]
                      /\ \A k \in slots[d] : sec2[d][k] = sec[d][k]
  PROVE  NamesOf(D, sec2, slots2) = NamesOf(D, sec, slots)
<1>1. ASSUME NEW e
      PROVE  e \in NamesOf(D, sec2, slots2) <=> e \in NamesOf(D, sec, slots)
  BY NamesFacts
<1> QED
  BY <1>1

LEMMA NamesGrown ==
  ASSUME NEW D, NEW sec, NEW slots, NEW i, i \notin D, NEW c \in D, NEW k, NEW D2,
         NEW sec2, NEW slots2, Grows(D, i, c, k, D2, sec, slots, sec2, slots2)
  PROVE  NamesOf(D2, sec2, slots2) =
           NamesOf(D, sec, slots) \union {Named(c, sec2[c][k])}
<1>1. ASSUME NEW e
      PROVE  e \in NamesOf(D2, sec2, slots2) <=>
               e \in NamesOf(D, sec, slots) \/ e = Named(c, sec2[c][k])
  <2>1. ASSUME NEW d \in D2, NEW m \in slots2[d]
        PROVE  /\ d \in D
               /\ (d = c /\ m = k) \/ (m \in slots[d] /\ sec2[d][m] = sec[d][m])
    BY <2>1 DEF Grows
  <2>2. ASSUME NEW d \in D, NEW m \in slots[d]
        PROVE  d \in D2 /\ m \in slots2[d] /\ sec2[d][m] = sec[d][m]
    BY <2>2 DEF Grows
  <2>3. c \in D2 /\ k \in slots2[c]
    BY DEF Grows
  <2>4. ASSUME e \in NamesOf(D2, sec2, slots2)
        PROVE  e \in NamesOf(D, sec, slots) \/ e = Named(c, sec2[c][k])
    <3>1. PICK d \in D2 : \E m \in slots2[d] : e = Named(d, sec2[d][m])
      BY <2>4, NamesFacts
    <3>2. PICK m \in slots2[d] : e = Named(d, sec2[d][m])
      BY <3>1
    <3> QED
      BY <2>1, <3>2, NamesFacts
  <2>5. ASSUME e \in NamesOf(D, sec, slots)
        PROVE  e \in NamesOf(D2, sec2, slots2)
    <3>1. PICK d \in D : \E m \in slots[d] : e = Named(d, sec[d][m])
      BY <2>5, NamesFacts
    <3>2. PICK m \in slots[d] : e = Named(d, sec[d][m])
      BY <3>1
    <3> QED
      BY <2>2, <3>2, NamesFacts
  <2>6. Named(c, sec2[c][k]) \in NamesOf(D2, sec2, slots2)
    BY <2>3, NamesFacts
  <2> QED
    BY <2>4, <2>5, <2>6
<1> QED
  BY <1>1

LEMMA NamesPruned ==
  ASSUME NEW M, NEW D, NEW C, NEW sec, NEW slots, TreeOK(M, D, C, sec, slots),
         NEW i, NEW c \in D \ {i}, NEW h \in slots[c], sec[c][h].inode = i,
         NEW sec2, NEW slots2, Pruned(D, i, c, h, sec, slots, sec2, slots2)
  PROVE  NamesOf(D \ {i}, sec2, slots2) =
           NamesOf(D, sec, slots) \ {Named(c, sec[c][h])}
<1>1. ASSUME NEW e
      PROVE  e \in NamesOf(D \ {i}, sec2, slots2) <=>
               e \in NamesOf(D, sec, slots) /\ e # Named(c, sec[c][h])
  <2>1. ASSUME NEW d \in D \ {i}, NEW m \in slots2[d]
        PROVE  m \in slots[d] /\ sec2[d][m] = sec[d][m] /\ ~(d = c /\ m = h)
    BY <2>1 DEF Pruned
  <2>2. ASSUME NEW d \in D, NEW m \in slots[d], ~(d = c /\ m = h)
        PROVE  d \in D \ {i} /\ m \in slots2[d] /\ sec2[d][m] = sec[d][m]
    BY <2>2 DEF Pruned
  <2>3. ASSUME NEW d \in D, NEW m \in slots[d], ~(d = c /\ m = h)
        PROVE  Named(d, sec[d][m]) # Named(c, sec[c][h])
    <3>1. sec[d][m].inode # sec[c][h].inode
      BY <2>3 DEF TreeOK, LinkedOnce
    <3> QED
      BY <3>1 DEF Named
  <2>4. ASSUME e \in NamesOf(D \ {i}, sec2, slots2)
        PROVE  e \in NamesOf(D, sec, slots) /\ e # Named(c, sec[c][h])
    <3>1. PICK d \in D \ {i} : \E m \in slots2[d] : e = Named(d, sec2[d][m])
      BY <2>4, NamesFacts
    <3>2. PICK m \in slots2[d] : e = Named(d, sec2[d][m])
      BY <3>1
    <3> QED
      BY <2>1, <2>3, <3>2, NamesFacts
  <2>5. ASSUME e \in NamesOf(D, sec, slots), e # Named(c, sec[c][h])
        PROVE  e \in NamesOf(D \ {i}, sec2, slots2)
    <3>1. PICK d \in D : \E m \in slots[d] : e = Named(d, sec[d][m])
      BY <2>5, NamesFacts
    <3>2. PICK m \in slots[d] : e = Named(d, sec[d][m])
      BY <3>1
    <3> QED
      BY <2>2, <2>5, <3>2, NamesFacts
  <2> QED
    BY <2>4, <2>5
<1> QED
  BY <1>1

LEMMA NamesMovedUp ==
  ASSUME NEW D, NEW sec, NEW slots, NEW c \in D, NEW s \in Int, NEW h \in 3 .. s,
         NEW sec2, NEW slots2, MovedUp(D, c, s, h, sec, slots, sec2, slots2)
  PROVE  NamesOf(D, sec2, slots2) = NamesOf(D, sec, slots)
<1> USE DEF MovedUp
<1>1. ASSUME NEW m \in slots2[c]
      PROVE  \E k \in slots[c] : sec2[c][m] = sec[c][k]
  <2>1. CASE m < h
    <3>1. m \in slots[c] /\ sec2[c][m] = sec[c][m]
      BY <1>1, <2>1
    <3> QED
      BY <3>1
  <2>2. CASE ~(m < h)
    <3>1. m + 1 \in slots[c] /\ sec2[c][m] = sec[c][m + 1]
      BY <1>1, <2>2
    <3> QED
      BY <3>1
  <2> QED
    BY <2>1, <2>2
<1>2. ASSUME NEW m \in slots[c]
      PROVE  \E k \in slots2[c] : sec2[c][k] = sec[c][m]
  <2>1. CASE m < h
    <3>1. m \in slots2[c] /\ sec2[c][m] = sec[c][m]
      BY <1>2, <2>1
    <3> QED
      BY <3>1
  <2>2. CASE m > h
    <3>1. m - 1 \in slots2[c] /\ sec2[c][m - 1] = sec[c][m]
      BY <1>2, <2>2
    <3> QED
      BY <3>1
  <2> QED
    BY <1>2, <2>1, <2>2
<1>3. ASSUME NEW e
      PROVE  e \in NamesOf(D, sec2, slots2) <=> e \in NamesOf(D, sec, slots)
  <2>1. ASSUME e \in NamesOf(D, sec2, slots2)
        PROVE  e \in NamesOf(D, sec, slots)
    <3>1. PICK d \in D : \E m \in slots2[d] : e = Named(d, sec2[d][m])
      BY <2>1, NamesFacts
    <3>2. PICK m \in slots2[d] : e = Named(d, sec2[d][m])
      BY <3>1
    <3>3. \E k \in slots[d] : e = Named(d, sec[d][k])
      BY <1>1, <3>2
    <3> QED
      BY <3>3, NamesFacts
  <2>2. ASSUME e \in NamesOf(D, sec, slots)
        PROVE  e \in NamesOf(D, sec2, slots2)
    <3>1. PICK d \in D : \E m \in slots[d] : e = Named(d, sec[d][m])
      BY <2>2, NamesFacts
    <3>2. PICK m \in slots[d] : e = Named(d, sec[d][m])
      BY <3>1
    <3>3. \E k \in slots2[d] : e = Named(d, sec2[d][k])
      BY <1>2, <3>2
    <3> QED
      BY <3>3, NamesFacts
  <2> QED
    BY <2>1, <2>2
<1> QED
  BY <1>3

LEMMA AllNamesFacts ==
  /\ AllNames = NamesOf(Folders, Sectors, SlotSets)
  /\ AllNames' = NamesOf(Folders', Sectors', SlotSets')
<1>1. AllNames = NamesOf(Folders, Sectors, SlotSets)
  <2>1. \A d \in Folders : Sectors[d] = SectorOf(d) /\ SlotSets[d] = SlotsOf(d)
    BY DEF Sectors, SlotSets
  <2>2. ASSUME NEW e
        PROVE  e \in AllNames <=> \E d \in Folders : \E k \in SlotsOf(d) :
                                    e = Named(d, SectorOf(d)[k])
    BY DEF AllNames, NamesIn, Named
  <2>3. ASSUME NEW e
        PROVE  e \in AllNames <=> e \in NamesOf(Folders, Sectors, SlotSets)
    BY <2>1, <2>2, NamesFacts
  <2> QED
    BY <2>3
<1>2. AllNames' = NamesOf(Folders', Sectors', SlotSets')
  <2>1. \A d \in Folders' : Sectors'[d] = SectorOf(d)' /\ SlotSets'[d] = SlotsOf(d)'
    BY DEF Sectors, SlotSets
  <2>2. ASSUME NEW e
        PROVE  e \in AllNames' <=> \E d \in Folders' : \E k \in SlotsOf(d)' :
                                     e = Named(d, SectorOf(d)'[k])
    BY DEF AllNames, NamesIn, Named
  <2>3. ASSUME NEW e
        PROVE  e \in AllNames' <=> e \in NamesOf(Folders', Sectors', SlotSets')
    BY <2>1, <2>2, NamesFacts
  <2> QED
    BY <2>3
<1> QED
  BY <1>1, <1>2

(* What a step does to the names: nothing, or one name of the working      *)
(* directory comes or goes.                                                *)
NamesStay == Folders' = Folders /\ AllNames' = AllNames

Gains(name, i, dirs) ==
  /\ i \in Ino \ Members /\ ipwd.i_ino \in Folders
  /\ name \in Name \ TooLong
  /\ \A m \in SlotSets[ipwd.i_ino] :
       Sectors[ipwd.i_ino][m].name = name => name \in Exact
  /\ AllNames' = AllNames \union {Named(ipwd.i_ino, [inode |-> i, name |-> name])}
  /\ Folders' = Folders \union dirs

Loses(i) ==
  /\ i # 0 /\ (i \in Folders => SlotSets[i] = {}) /\ ipwd.i_ino \in Folders
  /\ \E h \in SlotSets[ipwd.i_ino] :
       /\ Sectors[ipwd.i_ino][h].inode = i
       /\ AllNames' = AllNames \ {Named(ipwd.i_ino, Sectors[ipwd.i_ino][h])}
  /\ Folders' = Folders \ {i}

-----------------------------------------------------------------------------
(* How blocks change hands.                                                *)

LEMMA ZoneTaken ==
  ASSUME NEW L, NEW z, NEW F, NEW X, ZonesOK(L, z, F, X),
         NEW i, i \notin L, NEW b \in F, F \subseteq Block,
         NEW z2, \A j \in L : z2[j] = z[j], z2[i] = b
  PROVE  ZonesOK(L \union {i}, z2, F \ {b}, X)
<1>1. \A j \in L : z2[j] \in Block /\ z2[j] # b /\ z2[j] \notin F \ {b} /\ z2[j] \notin X
  BY DEF ZonesOK
<1>2. b \in Block /\ b \notin X
  BY DEF ZonesOK
<1>3. \A j \in L, k \in L : z2[j] = z2[k] => j = k
  BY DEF ZonesOK
<1>4. \A e \in Block : e \in F \ {b} \/ e \in X \/ \E j \in L \union {i} : z2[j] = e
  BY DEF ZonesOK
<1>5. (F \ {b}) \cap X = {}
  BY DEF ZonesOK
<1> QED
  BY <1>1, <1>2, <1>3, <1>4, <1>5 DEF ZonesOK

LEMMA ZoneDropped ==
  ASSUME NEW L, NEW z, NEW F, NEW X, ZonesOK(L, z, F, X),
         NEW b \in F, NEW z2, \A j \in L : z2[j] = z[j]
  PROVE  ZonesOK(L, z2, F \ {b}, X \union {b})
<1>1. \A j \in L : /\ z2[j] \in Block
                   /\ z2[j] \notin F \ {b} /\ z2[j] \notin X \union {b}
  BY DEF ZonesOK
<1>2. \A j \in L, k \in L : z2[j] = z2[k] => j = k
  BY DEF ZonesOK
<1>3. \A e \in Block : \/ e \in F \ {b} \/ e \in X \union {b}
                       \/ \E j \in L : z2[j] = e
  BY DEF ZonesOK
<1>4. (F \ {b}) \cap (X \union {b}) = {}
  BY DEF ZonesOK
<1> QED
  BY <1>1, <1>2, <1>3, <1>4 DEF ZonesOK

LEMMA ZoneLost ==
  ASSUME NEW L, NEW z, NEW F, NEW X, ZonesOK(L, z, F, X),
         NEW i \in L, NEW z2, \A j \in L \ {i} : z2[j] = z[j]
  PROVE  ZonesOK(L \ {i}, z2, F, X \union {z[i]})
<1>1. z[i] \notin F /\ z[i] \in Block
  BY DEF ZonesOK
<1>2. \A j \in L \ {i} : z2[j] \in Block /\ z2[j] \notin F /\ z2[j] \notin X \union {z[i]}
  BY DEF ZonesOK
<1>3. \A j \in L \ {i}, k \in L \ {i} : z2[j] = z2[k] => j = k
  BY DEF ZonesOK
<1>4. \A e \in Block : \/ e \in F \/ e \in X \union {z[i]}
                       \/ \E j \in L \ {i} : z2[j] = e
  BY DEF ZonesOK
<1>5. F \cap (X \union {z[i]}) = {}
  BY <1>1 DEF ZonesOK
<1> QED
  BY <1>2, <1>3, <1>4, <1>5 DEF ZonesOK

LEMMA ZoneFreed ==
  ASSUME NEW L, NEW z, NEW F, NEW X, ZonesOK(L, z, F, X),
         NEW i \in L, NEW z2, \A j \in L \ {i} : z2[j] = z[j]
  PROVE  ZonesOK(L \ {i}, z2, F \union {z[i]}, X)
<1>1. z[i] \notin X /\ z[i] \in Block
  BY DEF ZonesOK
<1>2. \A j \in L \ {i} : z2[j] \in Block /\ z2[j] \notin F \union {z[i]} /\ z2[j] \notin X
  BY DEF ZonesOK
<1>3. \A j \in L \ {i}, k \in L \ {i} : z2[j] = z2[k] => j = k
  BY DEF ZonesOK
<1>4. \A e \in Block : \/ e \in F \union {z[i]} \/ e \in X
                       \/ \E j \in L \ {i} : z2[j] = e
  BY DEF ZonesOK
<1>5. (F \union {z[i]}) \cap X = {}
  BY <1>1 DEF ZonesOK
<1> QED
  BY <1>2, <1>3, <1>4, <1>5 DEF ZonesOK

LEMMA ZonesSame ==
  ASSUME NEW L, NEW z, NEW F, NEW X, ZonesOK(L, z, F, X),
         NEW z2, \A j \in L : z2[j] = z[j]
  PROVE  ZonesOK(L, z2, F, X)
BY DEF ZonesOK

(* The least member of a set of places, blocks or inodes.                  *)
LEMMA MinFacts ==
  ASSUME NEW S \in SUBSET Nat, S # {}
  PROVE  Min(S) \in S /\ \A y \in S : Min(S) <= y
<1>1. PICK x \in S : \A y \in S : <<y, x>> \notin OpToRel(<, Nat)
  BY NatLessThanWellFounded, WFMin, Zenon
<1>2. \A y \in S : ~(y < x)
  BY <1>1 DEF OpToRel
<1>3. \E m \in S : \A y \in S : m <= y
  BY <1>2
<1> QED
  BY <1>3, Zenon DEF Min

-----------------------------------------------------------------------------
(* What a search in the working directory finds.                           *)

IsSector(sector, size, self, up) ==
  /\ size \in 2 .. DIR_ENTRIES
  /\ sector[1].inode = self /\ sector[1].name = "."
  /\ sector[2].inode = up /\ sector[2].name = ".."
  /\ \A k \in 3 .. size : sector[k].name \in Name

LEMMA DotsAreFound ==
  ASSUME NEW sector, NEW size, NEW self, NEW up, IsSector(sector, size, self, up)
  PROVE  /\ get_dirIn(sector, size, ".") = self
         /\ get_dirIn(sector, size, "..") = up
<1>1. \A k \in 1 .. size : /\ sector[k].name = "." <=> k = 1
                           /\ sector[k].name = ".." <=> k = 2
  BY DirectoryAssumption DEF IsSector
<1>2. size \in Int /\ 1 \in 1 .. size /\ 2 \in 1 .. size
  BY DirectoryAssumption DEF IsSector
<1>3. Ends(sector, 1) /\ Ends(sector, 2)
  BY DirectoryAssumption DEF IsSector, Ends
<1>4. Matches(sector, size, ".") = {1} /\ Matches(sector, size, "..") = {2}
  BY <1>1, <1>2, <1>3 DEF Matches
<1>5. Min({1}) = 1 /\ Min({2}) = 2
  BY DEF Min
<1> QED
  BY <1>4, <1>5 DEF get_dirIn, IsSector

LEMMA NamesAreFound ==
  ASSUME NEW sector, NEW size, NEW self, NEW up, IsSector(sector, size, self, up),
         NEW name \in Name
  PROVE  /\ Matches(sector, size, name) \subseteq 3 .. size
         /\ \/ /\ Matches(sector, size, name) = {}
               /\ get_dirIn(sector, size, name) = NOWHERE
               /\ \A k \in 3 .. size : sector[k].name = name => name \in Exact
            \/ /\ Matches(sector, size, name) # {}
               /\ Min(Matches(sector, size, name)) \in 3 .. size
               /\ Min(Matches(sector, size, name)) \in Matches(sector, size, name)
               /\ get_dirIn(sector, size, name) =
                    sector[Min(Matches(sector, size, name))].inode
<1> DEFINE found == Matches(sector, size, name)
<1>1. size \in Int /\ name # "." /\ name # ".."
  BY DirectoryAssumption DEF IsSector
<1>2. found \subseteq 3 .. size
  <2> SUFFICES ASSUME NEW k \in 1 .. size, sector[k].name = name
               PROVE  k \in 3 .. size
    BY DEF Matches
  <2>1. k # 1 /\ k # 2
    BY <1>1 DEF IsSector
  <2> QED
    BY <2>1, <1>1
<1>3. CASE found = {}
  <2>1. \A k \in 3 .. size : sector[k].name = name => name \in Exact
    BY <1>1, <1>3 DEF Matches, Ends
  <2> QED
    BY <1>2, <1>3, <2>1 DEF get_dirIn
<1>4. CASE found # {}
  <2>1. found \in SUBSET Nat
    BY <1>1, <1>2
  <2>2. Min(found) \in found
    BY <1>4, <2>1, MinFacts
  <2> QED
    BY <1>2, <1>4, <2>2 DEF get_dirIn
<1> QED
  BY <1>3, <1>4

LEMMA CwdFacts ==
  ASSUME Sound, ipwd.i_ino \in Complete, cmd.at \notin Removing
  PROVE  /\ ipwd.i_size \in 2 .. DIR_ENTRIES
         /\ Cwd = Sectors[ipwd.i_ino] /\ SlotSets[ipwd.i_ino] = 3 .. ipwd.i_size
         /\ ipwd.i_ino \in Folders
         /\ IsSector(Cwd, ipwd.i_size, ipwd.i_ino, Cwd[2].inode)
         /\ ipwd.i_ino = 0 => Cwd[2].inode = NOWHERE
         /\ ipwd.i_ino # 0 => /\ Cwd[2].inode \in Complete
                              /\ Cwd[2].inode # ipwd.i_ino
                              /\ 3 \in SlotSets[Cwd[2].inode]
         /\ \A k \in 3 .. ipwd.i_size :
              Cwd[k].inode \in Members \ {0} /\ Cwd[k].name \in Name \ TooLong
<1> DEFINE d == ipwd.i_ino
<1>1. d \in Folders /\ d \in Members /\ d \in Live /\ ipwd = inode[d]
  BY DEF Sound, CwdOK, Complete, Folders, Members
<1>2. IsFolder(d)
  BY <1>1 DEF Folders
<1>3. ipwd.i_size \in 2 .. DIR_ENTRIES
  BY <1>1, <1>2 DEF Sound, NodesOK, NodeOK, IsFolder
<1>4. Cwd = Sectors[d]
  BY <1>1 DEF Cwd, Sectors, SectorOf
<1>5. SlotSets[d] = 3 .. ipwd.i_size
  BY <1>1 DEF SlotSets, SlotsOf, Removing
<1>6. TreeOK(Members, Folders, Complete, Sectors, SlotSets)
  BY DEF Sound, TreeNow
<1>7. \A k \in 3 .. ipwd.i_size :
        Cwd[k].inode \in Members \ {0} /\ Cwd[k].name \in Name \ TooLong
  BY <1>1, <1>4, <1>5, <1>6 DEF TreeOK, EntriesIn
<1>8. /\ Cwd[1] = [inode |-> d, name |-> "."]
      /\ Cwd[2].name = ".."
      /\ d = 0 => Cwd[2].inode = NOWHERE
      /\ d # 0 => /\ Cwd[2].inode \in Complete
                  /\ \E k \in SlotSets[Cwd[2].inode] :
                       Sectors[Cwd[2].inode][k].inode = d
  BY <1>4, <1>6 DEF TreeOK, DotsOK
<1>9. ASSUME d # 0
      PROVE  Cwd[2].inode # d
  <2>1. {d} \in SUBSET (Complete \ {0}) /\ {d} # {}
    BY <1>9
  <2> QED
    BY <2>1, <1>4, <1>6 DEF TreeOK, LeadsToRoot
<1>10. ASSUME d # 0
       PROVE  3 \in SlotSets[Cwd[2].inode]
  <2>1. PICK k \in SlotSets[Cwd[2].inode] : Sectors[Cwd[2].inode][k].inode = d
    BY <1>8, <1>10
  <2>2. Cwd[2].inode \in Folders
    BY <1>8, <1>10 DEF Complete
  <2>3. SlotSets[Cwd[2].inode] = 3 .. inode[Cwd[2].inode].i_size
    BY <2>2 DEF SlotSets, SlotsOf, Removing
  <2>4. inode[Cwd[2].inode].i_size \in Int
    BY <2>2, DirectoryAssumption DEF Folders, IsFolder, Members, Sound, NodesOK, NodeOK
  <2> QED
    BY <2>1, <2>3, <2>4
<1>11. IsSector(Cwd, ipwd.i_size, d, Cwd[2].inode)
  BY <1>3, <1>7, <1>8 DEF IsSector
<1> QED
  BY <1>1, <1>3, <1>4, <1>5, <1>7, <1>8, <1>9, <1>10, <1>11

(* A search in a directory gives an inode that has an entry, or none.      *)
LEMMA GetDirFacts ==
  ASSUME Sound, ipwd.i_ino \in Complete, cmd.at \notin Removing,
         NEW name \in Name \union {".", ".."}
  PROVE  /\ get_dir(name) \in Members \union {NOWHERE}
         /\ name = "." => get_dir(name) = ipwd.i_ino
         /\ name = ".." => get_dir(name) = Cwd[2].inode
         /\ (name \in Name /\ get_dir(name) = NOWHERE) => NotThere(name)
         /\ (name \in Name /\ get_dir(name) # NOWHERE) =>
              \E k \in 3 .. ipwd.i_size :
                /\ Matches(Cwd, ipwd.i_size, name) # {}
                /\ k = Min(Matches(Cwd, ipwd.i_size, name))
                /\ Cwd[k].inode = get_dir(name)
<1>1. get_dir(name) = get_dirIn(Cwd, ipwd.i_size, name)
  BY DEF get_dir, Cwd
<1>2. IsSector(Cwd, ipwd.i_size, ipwd.i_ino, Cwd[2].inode)
  BY CwdFacts
<1>3. Complete \subseteq Members /\ 0 \in Members /\ Members \subseteq Ino
  BY DEF Sound, Complete, Folders, Members, TreeNow, TreeOK, Live, TypeOK
<1>4. CASE name = "."
  BY <1>1, <1>2, <1>3, <1>4, DotsAreFound, DirectoryAssumption
<1>5. CASE name = ".."
  <2>1. Cwd[2].inode \in Members \union {NOWHERE}
    BY <1>3, CwdFacts
  <2> QED
    BY <1>1, <1>2, <1>5, <2>1, DotsAreFound, DirectoryAssumption
<1>6. CASE name \in Name
  <2>1. name # "." /\ name # ".."
    BY <1>6, DirectoryAssumption
  <2> DEFINE found == Matches(Cwd, ipwd.i_size, name)
  <2>2. \A k \in 3 .. ipwd.i_size : Cwd[k].inode \in Members \ {0}
    BY CwdFacts
  <2>3. NOWHERE \notin Members
    BY <1>3, DirectoryAssumption DEF Ino, NOWHERE
  <2>4. CASE found = {}
    BY <1>1, <1>2, <1>6, <2>1, <2>4, NamesAreFound DEF NotThere
  <2>5. CASE found # {}
    <3>1. /\ Min(found) \in 3 .. ipwd.i_size
          /\ get_dir(name) = Cwd[Min(found)].inode
      BY <1>1, <1>2, <1>6, <2>5, NamesAreFound
    <3> QED
      BY <2>1, <2>2, <2>3, <2>5, <3>1
  <2> QED
    BY <2>4, <2>5
<1> QED
  BY <1>4, <1>5, <1>6

-----------------------------------------------------------------------------
(* The start, and what holds of every step.                                *)

LEMMA HarmStays == Next => harm \subseteq harm'
BY DEF Next, Command, Step, Cut, mkdir_service, cd_service, RmdirRefused,
       RmdirHalts, rmdir, rm, touch, CdUp, ToRoot, ls, MkdirTake, MkdirInFile,
       MkdirNoBlock, MkdirEntry, MkdirSize, MkdirDots, MkdirEnter, CdStep, Unlink,
       Shrink, PromptUp, PromptDone, PowerCut, BitCut, TakeCut, TouchCut, RmCut,
       RmdirCut

LEMMA InitSound == Init => Sound
<1> SUFFICES ASSUME Init
             PROVE  Sound
  OBVIOUS
<1> USE DirectoryAssumption
<1>1. 0 \in Ino /\ 1 \in Block /\ LastIno + 1 # 0 /\ Block \subseteq Nat
      /\ 1 \in Slot /\ 2 \in Slot /\ 1 # 2
  BY DEF Ino, Block, Slot
<1>2. lost.ino = {} /\ lost.blk \in LongAgo /\ lost.blk \subseteq 2 .. NR_BLOCK
  BY DEF Init
<1>3. Live = {0} /\ Members = {0} /\ Folders = {0} /\ Complete = {0}
  BY <1>1, <1>2 DEF Init, Idle, Live, Members, Folders, IsFolder, Complete,
                    Pending, Dotless
<1>4. inode[0] = [i_ino |-> 0, i_mode |-> NORMAL_FILE, i_zone |-> 1, i_size |-> 2]
      /\ ipwd = inode[0] /\ cmd = Idle
  BY <1>1 DEF Init
<1>5. data[1] = Dots(Blank, 0, NOWHERE)
  BY <1>1 DEF Init
<1>6. /\ data[1][1] = [inode |-> 0, name |-> "."]
      /\ data[1][2] = [inode |-> NOWHERE, name |-> ".."]
  BY <1>1, <1>5 DEF Dots, Blank
<1>7. TypeOK
  <2>1. Cleared \in Node
    BY <1>1 DEF Cleared, Node, FileEntries
  <2>2. inode[0] \in Node
    BY <1>1, <1>4 DEF Node, FileEntries
  <2>3. inode \in [Ino -> Node]
    BY <1>4, <2>1, <2>2 DEF Init
  <2>4. NoEntry \in dir_entry /\ HeadWords \in dir_entry
    BY <1>1 DEF NoEntry, HeadWords, dir_entry, Ino
  <2>5. Blank \in [Slot -> dir_entry] /\ HeadSector \in [Slot -> dir_entry]
    BY <2>4 DEF Blank, HeadSector
  <2>6. /\ [inode |-> 0, name |-> "."] \in dir_entry
        /\ [inode |-> NOWHERE, name |-> ".."] \in dir_entry
    BY <1>1 DEF dir_entry
  <2>7. Dots(Blank, 0, NOWHERE) \in [Slot -> dir_entry]
    BY <2>5, <2>6 DEF Dots
  <2>8. data \in [{0} \union Block -> [Slot -> dir_entry]]
    BY <2>5, <2>7 DEF Init
  <2>9. cmd \in [at : Places, rest : Seq(Name \union {"..", "."}),
                 endless : BOOLEAN, new : Ino, back : Node]
    BY <1>1, <1>4, <2>1 DEF Idle, Places
  <2>10. lost \in [ino : SUBSET Ino, blk : SUBSET Block]
    <3>1. lost \in [ino : {{}}, blk : LongAgo]
      BY DEF Init
    <3>2. lost = [ino |-> lost.ino, blk |-> lost.blk]
      BY <3>1
    <3>3. lost.ino \in SUBSET Ino /\ lost.blk \in SUBSET Block
      BY <1>2 DEF Block
    <3> HIDE DEF Init
    <3> QED
      BY <3>2, <3>3
  <2>11. inode_map \subseteq Ino \ {LastIno + 1}
    BY <1>1 DEF Init
  <2>12. free \subseteq Block /\ running \in BOOLEAN /\ harm = {}
    BY DEF Init
  <2> QED
    BY <1>4, <2>2, <2>3, <2>8, <2>9, <2>10, <2>11, <2>12 DEF TypeOK
<1>8. NumbersOK
  BY <1>2 DEF NumbersOK
<1>9. NodesOK
  BY <1>3, <1>4 DEF NodesOK, NodeOK, DIR_FILE, NORMAL_FILE
<1>10. Blocks
  <2>1. Zones[0] = 1
    BY <1>3, <1>4 DEF Zones
  <2>2. free = Block \ ({1} \union lost.blk)
    BY DEF Init
  <2>3. 1 \notin lost.blk
    BY <1>2
  <2> QED
    BY <1>1, <1>3, <2>1, <2>2, <2>3 DEF Blocks, ZonesOK
<1>11. TreeNow
  <2>1. SlotSets[0] = {}
    BY <1>3, <1>4 DEF SlotSets, SlotsOf, Idle
  <2>2. /\ Sectors[0][1] = [inode |-> 0, name |-> "."]
        /\ Sectors[0][2] = [inode |-> NOWHERE, name |-> ".."]
    BY <1>3, <1>4, <1>6 DEF Sectors, SectorOf
  <2>3. DotsOK(Complete, Sectors, SlotSets)
    BY <1>3, <2>2 DEF DotsOK
  <2>4. LeadsToRoot(Complete, Sectors)
    BY <1>3 DEF LeadsToRoot
  <2> QED
    BY <1>3, <2>1, <2>3, <2>4
    DEF TreeNow, TreeOK, EntriesIn, LinkedOnce, NamesOnce
<1>12. CwdOK
  BY <1>3, <1>4 DEF CwdOK, Idle, Cleared
<1>13. UnderWay
  BY <1>4 DEF UnderWay, Idle
<1> QED
  BY <1>7, <1>8, <1>9, <1>10, <1>11, <1>12, <1>13 DEF Sound

(* Places where no entry is half made or half removed.                     *)
Calm == {"idle", "mkdir", "enter", "cd", "prompt"}

LEMMA CalmFacts ==
  ASSUME cmd.at \in Calm
  PROVE  /\ Members = Live /\ Complete = Folders
         /\ \A d \in Folders : SlotSets[d] = 3 .. inode[d].i_size
         /\ UnderWay
BY DEF Calm, Members, Complete, Pending, Dotless, SlotSets, SlotsOf, UnderWay

(* What counts in the sectors of the directories stays.                    *)
SectorsKept ==
  \A d \in Folders : \A k \in SlotSets[d] \union {1, 2} :
    data'[inode[d].i_zone][k] = data[inode[d].i_zone][k]

LEMMA CalmStep ==
  ASSUME Sound, cmd.at \in Calm, cmd'.at \in Calm,
         inode_map' \ lost'.ino = Live, \A i \in Live : inode'[i] = inode[i],
         SectorsKept
  PROVE  /\ Live' = Live /\ Members' = Members /\ Complete' = Complete
         /\ NodesOK' /\ TreeNow' /\ UnderWay' /\ NamesStay
         /\ free' = free /\ lost'.blk = lost.blk => Blocks'
<1>1. Live' = Live
  BY DEF Live
<1>2. Members' = Members /\ Members = Live
  BY <1>1 DEF Members, Pending, Calm
<1>3. Folders' = Folders
  BY <1>2 DEF Folders, IsFolder
<1>4. Complete' = Complete
  BY <1>3 DEF Complete, Dotless, Calm
<1>5. \A d \in Folders : \A k \in SlotSets[d] \union {1, 2} :
        Sectors'[d][k] = Sectors[d][k]
  <2>1. \A d \in Folders : /\ Sectors'[d] = data'[inode[d].i_zone]
                           /\ Sectors[d] = data[inode[d].i_zone]
    BY <1>2, <1>3 DEF Sectors, SectorOf, Folders
  <2> QED
    BY <2>1 DEF SectorsKept
<1>6. SlotSets' = SlotSets
  BY <1>2, <1>3 DEF SlotSets, SlotsOf, Folders, Calm
<1>7. TreeNow'
  <2>1. TreeOK(Members, Folders, Complete, Sectors', SlotSets)
    BY <1>5, SameTree DEF Sound, TreeNow
  <2> QED
    BY <1>2, <1>3, <1>4, <1>6, <2>1 DEF TreeNow
<1>8. NodesOK'
  BY <1>1 DEF Sound, NodesOK
<1>9. UnderWay'
  BY DEF UnderWay, Calm
<1>10. ASSUME free' = free, lost'.blk = lost.blk
       PROVE  Blocks'
  <2>1. Zones' = Zones
    BY <1>1 DEF Zones
  <2> QED
    BY <1>1, <1>10, <2>1 DEF Sound, Blocks
<1>11. NamesStay
  <2>1. NamesOf(Folders, Sectors', SlotSets') = NamesOf(Folders, Sectors, SlotSets)
    BY <1>5, <1>6, NamesSame
  <2> QED
    BY <1>3, <2>1, AllNamesFacts DEF NamesStay
<1> QED
  BY <1>1, <1>2, <1>4, <1>7, <1>8, <1>9, <1>10, <1>11

(* The steps of a walk, which leave the disk as it is.                     *)
Commands == [at : Places, rest : Seq(Name \union {"..", "."}),
             endless : BOOLEAN, new : Ino, back : Node]

LEMMA TreeIsTyped ==
  ASSUME Sound
  PROVE  /\ Complete \subseteq Folders /\ Folders \subseteq Members
         /\ Members \subseteq Live /\ Live \subseteq Ino \ {LastIno + 1}
         /\ 0 \in Complete /\ NOWHERE \notin Ino
         /\ \A i \in Live : inode[i] \in Node /\ inode[i].i_ino = i
<1>1. /\ Complete \subseteq Folders /\ Folders \subseteq Members
      /\ Members \subseteq Live
  BY DEF Complete, Folders, Members
<1>2. Live \subseteq Ino \ {LastIno + 1}
  BY DEF Live, Sound, TypeOK
<1>3. 0 \in Complete
  BY DEF Sound, TreeNow, TreeOK
<1>4. NOWHERE \notin Ino
  BY DirectoryAssumption DEF Ino, NOWHERE
<1>5. \A i \in Live : inode[i] \in Node /\ inode[i].i_ino = i
  BY <1>2 DEF Sound, TypeOK, NodesOK, NodeOK
<1> QED
  BY <1>1, <1>2, <1>3, <1>4, <1>5

LEMMA IdleIsTyped ==
  /\ Cleared \in Node /\ Idle \in Commands
<1>1. 0 \in Ino /\ Cleared \in Node
  BY DirectoryAssumption DEF Ino, Cleared, Node, FileEntries
<1> QED
  BY <1>1 DEF Idle, Commands, Places

LEMMA PromptIsTyped ==
  ASSUME NEW node \in Node
  PROVE  Prompt(node) \in Commands
BY IdleIsTyped DEF Prompt, Commands, Places

LEMMA PromptFacts ==
  ASSUME NEW node
  PROVE  Prompt(node).at = "prompt" /\ Prompt(node).back = node
BY DEF Prompt, Idle

LEMMA GetDirInTree ==
  ASSUME Sound, ipwd.i_ino \in Complete, cmd.at \notin Removing, NEW name
  PROVE  get_dir(name) \in Members \union {NOWHERE}
<1> DEFINE found == Matches(Cwd, ipwd.i_size, name)
<1>1. get_dir(name) = IF found = {} THEN NOWHERE ELSE Cwd[Min(found)].inode
  BY DEF get_dir, get_dirIn, Cwd
<1>2. CASE found # {}
  <2>1. ipwd.i_size \in Int
    BY CwdFacts, DirectoryAssumption
  <2>2. found \in SUBSET Nat /\ found \subseteq 1 .. ipwd.i_size
    BY <2>1 DEF Matches
  <2>3. Min(found) \in 1 .. ipwd.i_size
    BY <1>2, <2>2, MinFacts
  <2>4. \A k \in 3 .. ipwd.i_size : Cwd[k].inode \in Members \ {0}
    BY CwdFacts
  <2>5. Cwd[1].inode \in Members /\ Cwd[2].inode \in Members \union {NOWHERE}
    BY CwdFacts, TreeIsTyped DEF IsSector
  <2> HIDE DEF found
  <2> QED
    BY <1>1, <1>2, <2>1, <2>3, <2>4, <2>5
<1> QED
  BY <1>1, <1>2

LEMMA MoveStep ==
  ASSUME Sound, UNCHANGED <<disk, lost>>, harm' = {},
         cmd.at \in Calm, cmd'.at \in Calm, cmd' \in Commands,
         running' \in BOOLEAN, ipwd' \in Node, CwdOK'
  PROVE  Sound' /\ NamesStay
<1>1. TypeOK'
  BY DEF Sound, TypeOK, disk, Commands
<1>2. Live' = Live /\ Live = inode_map' \ lost'.ino
  BY DEF Live, disk
<1>3. NumbersOK'
  BY DEF Sound, NumbersOK, disk
<1>4. NodesOK' /\ TreeNow' /\ UnderWay' /\ Blocks' /\ NamesStay
  BY <1>2, CalmStep DEF disk, SectorsKept
<1> QED
  BY <1>1, <1>3, <1>4 DEF Sound

LEMMA WalkTo ==
  ASSUME Sound, UNCHANGED <<disk, lost>>, harm' = {}, cmd.at \in Calm,
         cmd' \in Commands, cmd'.at \in Calm,
         running' \in BOOLEAN, NEW i \in Members, ipwd' = inode[i],
         cmd'.at # "mkdir" => i \in Complete,
         cmd'.back.i_ino \in Complete,
         cmd'.at = "prompt" => cmd'.back = inode[cmd'.back.i_ino]
  PROVE  Sound' /\ NamesStay
<1>1. ipwd' \in Node /\ ipwd'.i_ino = i
  BY TreeIsTyped
<1>2. Live' = Live /\ Live = inode_map' \ lost'.ino
  BY DEF Live, disk
<1>3. Members' = Members /\ Complete' = Complete
  BY <1>2, CalmStep DEF disk, SectorsKept
<1>4. CwdOK'
  BY <1>1, <1>3 DEF CwdOK, disk
<1> QED
  BY <1>1, <1>4, MoveStep

LEMMA PromptAt ==
  ASSUME Sound, UNCHANGED <<disk, lost, running>>, harm' = {}, cmd.at \in Calm,
         NEW i \in Complete, ipwd' = inode[i], cmd' = Prompt(ipwd')
  PROVE  Sound' /\ NamesStay
<1>1. i \in Members /\ ipwd' \in Node /\ ipwd'.i_ino = i
  BY TreeIsTyped
<1>2. cmd' = [at |-> "prompt", rest |-> <<>>, endless |-> FALSE, new |-> 0,
              back |-> ipwd']
  BY DEF Prompt, Idle
<1>3. 0 \in Ino
  BY DirectoryAssumption DEF Ino
<1>4. cmd' \in Commands
  BY <1>1, <1>2, <1>3 DEF Commands, Places
<1>5. running' \in BOOLEAN
  BY Zenon DEF Sound, TypeOK
<1>6. cmd'.at = "prompt" /\ cmd'.back = ipwd'
  BY <1>2
<1> QED
  BY <1>1, <1>4, <1>5, <1>6, WalkTo DEF Calm

LEMMA SeqWider ==
  ASSUME NEW A, NEW B, A \subseteq B, NEW s \in Seq(A)
  PROVE  s \in Seq(B)
OBVIOUS

LEMMA StartFacts ==
  ASSUME Sound, cmd.at = "idle", NEW place \in Places, NEW line \in Lines
  PROVE  /\ Start(place, line) \in Commands
         /\ Start(place, line).at = place /\ Start(place, line).back = ipwd
<1>1. line.path \in Seq(Name \union {".."}) /\ line.endless \in BOOLEAN
  BY DirectoryAssumption
<1>2. line.path \in Seq(Name \union {"..", "."})
  BY <1>1, SeqWider
<1>3. 0 \in Ino /\ ipwd \in Node
  BY DirectoryAssumption DEF Ino, Sound, TypeOK
<1> QED
  BY <1>1, <1>2, <1>3 DEF Start, Commands

LEMMA IdleFacts ==
  ASSUME Sound, cmd.at = "idle"
  PROVE  /\ cmd.at \in Calm /\ cmd.at \notin Removing /\ ipwd.i_ino \in Complete
         /\ ipwd.i_ino \in Members /\ ipwd = inode[ipwd.i_ino]
BY DEF Sound, CwdOK, Calm, Removing

LEMMA StartMkdir ==
  ASSUME Sound, NEW line \in Lines, mkdir_service(line), harm' = {}
  PROVE  Sound' /\ NamesStay
<1>1. cmd.at = "idle"
  BY DEF mkdir_service, Ready
<1>2. cmd' \in Commands /\ cmd'.at = "mkdir" /\ cmd'.back = ipwd
  BY <1>1, StartFacts DEF mkdir_service, Places
<1>3. running' \in BOOLEAN
  BY Zenon DEF mkdir_service, Sound, TypeOK
<1>4. ipwd' = inode[ipwd.i_ino]
  BY <1>1, IdleFacts DEF mkdir_service
<1> QED
  BY <1>1, <1>2, <1>3, <1>4, IdleFacts, WalkTo DEF mkdir_service, Calm

LEMMA StartCd ==
  ASSUME Sound, NEW line \in Lines, cd_service(line), harm' = {}
  PROVE  Sound' /\ NamesStay
<1>1. cmd.at = "idle"
  BY DEF cd_service, Ready
<1>2. cmd' \in Commands /\ cmd'.at = "cd" /\ cmd'.back = ipwd
  BY <1>1, StartFacts DEF cd_service, Places
<1>3. running' \in BOOLEAN
  BY Zenon DEF cd_service, Sound, TypeOK
<1>4. ipwd' = inode[ipwd.i_ino]
  BY <1>1, IdleFacts DEF cd_service
<1> QED
  BY <1>1, <1>2, <1>3, <1>4, IdleFacts, WalkTo DEF cd_service, Calm

LEMMA ToRootStep ==
  ASSUME Sound, ToRoot, harm' = {}
  PROVE  Sound' /\ NamesStay
BY IdleFacts, TreeIsTyped, PromptAt DEF ToRoot, Ready

LEMMA LsStep ==
  ASSUME Sound, ls, harm' = {}
  PROVE  Sound' /\ NamesStay
BY IdleFacts, PromptAt DEF ls, Ready

LEMMA RmdirRefusedStep ==
  ASSUME Sound, NEW name, RmdirRefused(name), harm' = {}
  PROVE  Sound' /\ NamesStay
BY IdleFacts, PromptAt DEF RmdirRefused, Ready

(* ".." of a directory but the root is a directory.                        *)
LEMMA UpFacts ==
  ASSUME Sound, ipwd.i_ino \in Complete, cmd.at \notin Removing
  PROVE  \/ ipwd.i_ino = 0 /\ get_dir("..") = NOWHERE
         \/ /\ ipwd.i_ino # 0 /\ get_dir("..") \in Complete
            /\ get_dir("..") # NOWHERE /\ iget(get_dir("..")) = inode[get_dir("..")]
<1>1. get_dir("..") = Cwd[2].inode
  BY GetDirFacts
<1>2. NOWHERE \notin Complete
  BY TreeIsTyped
<1> QED
  BY <1>1, <1>2, CwdFacts DEF iget

LEMMA CdUpStep ==
  ASSUME Sound, CdUp, harm' = {}
  PROVE  Sound' /\ NamesStay
<1>1. cmd.at = "idle"
  BY DEF CdUp, Ready
<1>2. get_dir("..") # NOWHERE
  BY DEF CdUp
<1>3. get_dir("..") \in Complete /\ ipwd' = inode[get_dir("..")]
  BY <1>1, <1>2, IdleFacts, UpFacts DEF CdUp
<1> QED
  BY <1>1, <1>3, IdleFacts, PromptAt DEF CdUp

LEMMA PromptUpStep ==
  ASSUME Sound, PromptUp, harm' = {}
  PROVE  Sound' /\ NamesStay
<1>1. /\ cmd.at = "prompt" /\ ipwd.i_ino \in Complete
      /\ cmd.back.i_ino \in Complete /\ cmd.back = inode[cmd.back.i_ino]
  BY DEF PromptUp, Sound, CwdOK
<1>2. get_dir("..") \in Complete /\ ipwd' = inode[get_dir("..")]
  BY <1>1, UpFacts DEF PromptUp, Removing
<1>3. running' \in BOOLEAN
  BY Zenon DEF PromptUp, Sound, TypeOK
<1>4. cmd' = cmd /\ cmd' \in Commands
  BY DEF PromptUp, Sound, TypeOK, Commands
<1> QED
  BY <1>1, <1>2, <1>3, <1>4, TreeIsTyped, WalkTo DEF PromptUp, Calm

LEMMA PromptDoneStep ==
  ASSUME Sound, PromptDone, harm' = {}
  PROVE  Sound' /\ NamesStay
<1>1. /\ cmd.at = "prompt"
      /\ cmd.back.i_ino \in Complete /\ cmd.back = inode[cmd.back.i_ino]
  BY DEF PromptDone, Sound, CwdOK
<1>2. cmd' \in Commands /\ cmd'.at = "idle" /\ cmd'.back.i_ino = 0
  <2>1. 0 \in Ino /\ Cleared \in Node /\ Cleared.i_ino = 0
    BY DirectoryAssumption DEF Ino, Cleared, Node, FileEntries
  <2>2. cmd' = [at |-> "idle", rest |-> <<>>, endless |-> FALSE, new |-> 0,
                back |-> Cleared]
    BY DEF PromptDone, Idle
  <2> QED
    BY <2>1, <2>2 DEF Commands, Places
<1>3. running' \in BOOLEAN
  BY Zenon DEF PromptDone, Sound, TypeOK
<1> QED
  BY <1>1, <1>2, <1>3, TreeIsTyped, WalkTo DEF PromptDone, Calm

LEMMA RestFacts ==
  ASSUME Sound
  PROVE  Rest \in Seq(Name \union {"..", "."})
BY DEF Rest, Sound, TypeOK

LEMMA CdStepStep ==
  ASSUME Sound, CdStep, harm' = {}
  PROVE  Sound' /\ NamesStay
<1> DEFINE nr == get_dir(ThisName("cd"))
<1>1. cmd.at = "cd" /\ ipwd.i_ino \in Complete /\ cmd.back.i_ino \in Complete
  BY DEF CdStep, Sound, CwdOK
<1>2. nr \in Members \union {NOWHERE}
  BY <1>1, GetDirInTree DEF Removing
<1>3. PICK i \in Complete : ipwd' = inode[i]
  <2>1. CASE iget(nr).i_mode = DIR_FILE
    <3>1. nr # NOWHERE
      BY <2>1 DEF iget, Cleared, DIR_FILE, NORMAL_FILE
    <3>2. nr \in Members /\ inode[nr].i_mode = DIR_FILE /\ ipwd' = inode[nr]
      BY <1>2, <2>1, <3>1 DEF CdStep, iget
    <3>3. nr \in Complete
      BY <1>1, <3>2, CalmFacts DEF Folders, IsFolder, Calm
    <3> QED
      BY <3>2, <3>3
  <2>2. CASE iget(nr).i_mode # DIR_FILE
    BY <2>2, TreeIsTyped DEF CdStep
  <2> QED
    BY <2>1, <2>2
<1>4. CASE Ended
  BY <1>1, <1>3, <1>4, PromptAt DEF CdStep, Calm
<1>5. CASE ~Ended
  <2>1. cmd' = [cmd EXCEPT !.rest = Rest]
    BY <1>5 DEF CdStep
  <2>2. cmd' \in Commands /\ cmd'.at = "cd" /\ cmd'.back = cmd.back
    BY <1>1, <2>1, RestFacts DEF Commands, Sound, TypeOK
  <2>3. running' \in BOOLEAN
    BY Zenon DEF CdStep, Sound, TypeOK
  <2> QED
    BY <1>1, <1>3, <2>2, <2>3, TreeIsTyped, WalkTo DEF CdStep, Calm
<1> QED
  BY <1>4, <1>5

LEMMA MkdirEnterStep ==
  ASSUME Sound, MkdirEnter, harm' = {}
  PROVE  Sound' /\ NamesStay
<1> DEFINE nr == get_dir(ThisName("mkdir"))
           nodes == [inode EXCEPT ![ipwd.i_ino] = ipwd]
<1>1. /\ cmd.at = "enter" /\ ipwd.i_ino \in Complete
      /\ cmd.back.i_ino \in Complete /\ ipwd = inode[ipwd.i_ino]
  BY DEF MkdirEnter, Sound, CwdOK
<1>2. nr \in Members \union {NOWHERE}
  BY <1>1, GetDirInTree DEF Removing
<1>3. nodes = inode
  BY <1>1 DEF Sound, TypeOK
<1>4. UNCHANGED <<disk, lost, running>>
  BY <1>3 DEF MkdirEnter, disk
<1>5. CASE Ended
  <2>1. ipwd' = inode[cmd.back.i_ino] /\ cmd' = Prompt(ipwd')
    BY <1>3, <1>5 DEF MkdirEnter, Back
  <2> QED
    BY <1>1, <1>4, <2>1, PromptAt DEF Calm
<1>6. CASE ~Ended
  <2>1. nr # NOWHERE
    BY <1>6 DEF MkdirEnter
  <2>2. nr \in Members /\ ipwd' = inode[nr]
    BY <1>2, <1>3, <1>6, <2>1 DEF MkdirEnter
  <2>3. cmd' = [Becomes("mkdir") EXCEPT !.rest = Rest]
    BY <1>6 DEF MkdirEnter
  <2>4. cmd' \in Commands /\ cmd'.at = "mkdir" /\ cmd'.back = cmd.back
    BY <2>3, RestFacts DEF Commands, Becomes, Sound, TypeOK, Places
  <2>5. running' \in BOOLEAN
    BY Zenon DEF MkdirEnter, Sound, TypeOK
  <2> QED
    BY <1>1, <1>4, <2>2, <2>4, <2>5, WalkTo DEF Calm
<1> QED
  BY <1>5, <1>6

-----------------------------------------------------------------------------
(* mkdir takes an inode and a block.                                       *)

LEMMA NewFacts ==
  ASSUME Sound, new_inode # LastIno + 1
  PROVE  /\ new_inode \in Ino \ {LastIno + 1}
         /\ new_inode \notin inode_map /\ new_inode \notin lost.ino
         /\ new_inode \notin Live /\ new_inode # 0
<1> DEFINE clear == (Ino \ {LastIno + 1}) \ inode_map
<1>1. clear # {} /\ new_inode = Min(clear)
  BY DEF new_inode
<1>2. clear \in SUBSET Nat
  BY DirectoryAssumption DEF Ino
<1>3. new_inode \in clear
  BY <1>1, <1>2, MinFacts
<1>4. 0 \in inode_map
  BY TreeIsTyped DEF Live
<1> QED
  BY <1>3, <1>4 DEF Live, Sound, NumbersOK

LEMMA NewIsTyped ==
  ASSUME Sound
  PROVE  new_inode \in Ino /\ {new_inode} \ {LastIno + 1} \subseteq Ino \ {LastIno + 1}
<1>1. LastIno + 1 \in Ino
  BY DirectoryAssumption DEF Ino
<1>2. CASE new_inode = LastIno + 1
  BY <1>1, <1>2
<1>3. CASE new_inode # LastIno + 1
  BY <1>3, NewFacts
<1> QED
  BY <1>2, <1>3

LEMMA FreeFacts ==
  ASSUME Sound, free # {}
  PROVE  Min(free) \in free /\ free \subseteq Block
<1>1. free \subseteq Block
  BY DEF Sound, TypeOK
<1>2. free \in SUBSET Nat
  BY <1>1, DirectoryAssumption DEF Block
<1> QED
  BY <1>1, <1>2, MinFacts

LEMMA TakenFacts ==
  ASSUME Sound, free # {}, NEW mode \in {NORMAL_FILE, DIR_FILE},
         NEW size \in 0 .. FileEntries
  PROVE  /\ Taken(mode, size) \in Node
         /\ Taken(mode, size).i_ino = new_inode /\ Taken(mode, size).i_mode = mode
         /\ Taken(mode, size).i_zone = Min(free) /\ Taken(mode, size).i_size = size
BY NewIsTyped, FreeFacts DEF Taken, Node

(* What is dropped is lost, and the tree stays.                            *)
LEMMA DropStep ==
  ASSUME Sound, cmd.at \in Calm, free # {}, new_inode # LastIno + 1,
         NEW node \in Node, inode' = [inode EXCEPT ![new_inode] = node],
         inode_map' = inode_map \union {new_inode},
         free' = free \ {Min(free)}, Drops, data' = data, harm' = {},
         ipwd' = ipwd, ipwd.i_ino \in Complete, running' \in BOOLEAN,
         cmd' \in Commands, cmd'.at \in Calm, cmd'.back.i_ino \in Complete,
         cmd'.at = "prompt" => cmd'.back = inode[cmd'.back.i_ino]
  PROVE  Sound' /\ NamesStay
<1> DEFINE n == new_inode
           b == Min(free)
<1>1. /\ n \in Ino \ {LastIno + 1} /\ n \notin inode_map
      /\ n \notin lost.ino /\ n \notin Live
  BY NewFacts
<1>2. b \in free /\ free \subseteq Block
  BY FreeFacts
<1>3. lost'.ino = lost.ino \union {n} /\ lost'.blk = lost.blk \union {b}
  BY DEF Drops
<1>4. inode_map' \ lost'.ino = Live
  BY <1>1, <1>3 DEF Live
<1>5. \A i \in Live : inode'[i] = inode[i]
  BY <1>1, TreeIsTyped DEF Sound, TypeOK
<1>6. /\ Live' = Live /\ Members' = Members /\ Complete' = Complete
      /\ NodesOK' /\ TreeNow' /\ UnderWay' /\ NamesStay
  BY <1>4, <1>5, CalmStep DEF SectorsKept
<1>7. TypeOK'
  <2>1. inode' \in [Ino -> Node]
    BY <1>1 DEF Sound, TypeOK
  <2>2. inode_map' \subseteq Ino \ {LastIno + 1} /\ free' \subseteq Block
    BY <1>1, <1>2 DEF Sound, TypeOK
  <2>3. lost' = [ino |-> lost.ino \union {n}, blk |-> lost.blk \union {b}]
    BY DEF Drops
  <2>4. lost.ino \union {n} \in SUBSET Ino /\ lost.blk \union {b} \in SUBSET Block
    BY <1>1, <1>2 DEF Sound, TypeOK
  <2>5. lost' \in [ino : SUBSET Ino, blk : SUBSET Block]
    BY <2>3, <2>4
  <2> QED
    BY <2>1, <2>2, <2>5 DEF Sound, TypeOK, Commands
<1>8. NumbersOK'
  BY <1>3 DEF Sound, NumbersOK
<1>9. Blocks'
  <2>1. \A i \in Live : Zones'[i] = Zones[i]
    BY <1>5, <1>6 DEF Zones
  <2>2. ZonesOK(Live, Zones, free, lost.blk)
    BY DEF Sound, Blocks
  <2>3. ZonesOK(Live, Zones', free \ {b}, lost.blk \union {b})
    BY <1>2, <2>1, <2>2, ZoneDropped
  <2> QED
    BY <1>3, <1>6, <2>3 DEF Blocks
<1>10. CwdOK'
  <2>1. ipwd.i_ino \in Members /\ ipwd = inode[ipwd.i_ino]
    BY DEF Sound, CwdOK
  <2>2. ipwd'.i_ino \in Members' /\ ipwd' = inode'[ipwd'.i_ino]
    BY <1>5, <1>6, <2>1, TreeIsTyped
  <2>3. cmd'.at = "prompt" => cmd'.back = inode'[cmd'.back.i_ino]
    BY <1>5, TreeIsTyped
  <2> QED
    BY <1>6, <2>2, <2>3 DEF CwdOK
<1> QED
  BY <1>6, <1>7, <1>8, <1>9, <1>10 DEF Sound

(* A file's sector is beyond the length that mkdir accepts.                *)
LEMMA InDirectory ==
  ASSUME Sound, cmd.at = "mkdir", ipwd.i_size <= DIR_ENTRIES
  PROVE  ipwd.i_ino \in Complete
<1>1. ipwd.i_ino \in Members /\ ipwd = inode[ipwd.i_ino]
  BY DEF Sound, CwdOK
<1>2. ipwd \in Node /\ (ipwd.i_ino = 0 \/ ipwd.i_mode # NORMAL_FILE)
  BY <1>1, TreeIsTyped, DirectoryAssumption DEF Sound, NodesOK, NodeOK, FileEntries
<1>3. IsFolder(ipwd.i_ino)
  BY <1>1, <1>2 DEF Node, IsFolder
<1> QED
  BY <1>1, <1>3, CalmFacts DEF Folders, Calm

LEMMA ThisNameFacts ==
  ASSUME Sound
  PROVE  ThisName("mkdir") \in Name \union {"..", "."}
<1>1. cmd.rest \in Seq(Name \union {"..", "."})
  BY DEF Sound, TypeOK
<1>2. "mkdir" \in Name
  BY DirectoryAssumption
<1> QED
  BY <1>1, <1>2 DEF ThisName

(* The inode counts from the moment that its entry does.                   *)
LEMMA MkdirFits ==
  ASSUME Sound, cmd.at = "mkdir", ipwd.i_ino \in Complete,
         free # {}, new_inode # LastIno + 1,
         inode' = [inode EXCEPT ![new_inode] = Taken(DIR_FILE, 2)],
         inode_map' = inode_map \union {new_inode},
         free' = free \ {Min(free)}, lost' = lost, data' = data, harm' = {},
         ipwd' = ipwd, running' \in BOOLEAN, ipwd.i_size < DIR_ENTRIES,
         ThisName("mkdir") \in Name \ TooLong, NotThere(ThisName("mkdir")),
         cmd' = [cmd EXCEPT !.at = "entry", !.new = new_inode]
  PROVE  Sound' /\ NamesStay
<1> DEFINE n == new_inode
           b == Min(free)
           node == Taken(DIR_FILE, 2)
<1>1. /\ n \in Ino \ {LastIno + 1} /\ n \notin inode_map
      /\ n \notin lost.ino /\ n \notin Live /\ n # 0
  BY NewFacts
<1>2. b \in free /\ free \subseteq Block
  BY FreeFacts
<1>3. /\ node \in Node /\ node.i_ino = n /\ node.i_mode = DIR_FILE
      /\ node.i_zone = b /\ node.i_size = 2
  BY TakenFacts, DirectoryAssumption DEF FileEntries
<1>4. /\ cmd' \in Commands /\ cmd'.at = "entry" /\ cmd'.new = n
      /\ cmd'.rest = cmd.rest /\ cmd'.back = cmd.back
  BY <1>1 DEF Sound, TypeOK, Commands, Places
<1>5. Live' = Live \union {n}
  BY <1>1 DEF Live
<1>6. \A i \in Live : inode'[i] = inode[i]
  BY <1>1, TreeIsTyped DEF Sound, TypeOK
<1>7. inode'[n] = node
  BY <1>1 DEF Sound, TypeOK
<1>8. Members' = Members /\ Members = Live
  BY <1>1, <1>4, <1>5 DEF Members, Pending
<1>9. Folders' = Folders
  BY <1>6, <1>8 DEF Folders, IsFolder
<1>10. Complete' = Complete
  BY <1>4, <1>9 DEF Complete, Dotless
<1>11. Sectors' = Sectors
  BY <1>6, <1>8, <1>9, TreeIsTyped DEF Sectors, SectorOf
<1>12. SlotSets' = SlotSets
  BY <1>4, <1>6, <1>8, <1>9, TreeIsTyped DEF SlotSets, SlotsOf
<1>13. TreeNow'
  BY <1>8, <1>9, <1>10, <1>11, <1>12 DEF Sound, TreeNow
<1>14. NodesOK'
  <2>1. NodeOK(n, node)
    BY <1>3, DirectoryAssumption DEF NodeOK, DIR_FILE, NORMAL_FILE
  <2> QED
    BY <1>5, <1>6, <1>7, <2>1 DEF Sound, NodesOK
<1>15. TypeOK'
  <2>1. inode' \in [Ino -> Node]
    BY <1>1, <1>3 DEF Sound, TypeOK
  <2>2. inode_map' \subseteq Ino \ {LastIno + 1} /\ free' \subseteq Block
    BY <1>1, <1>2 DEF Sound, TypeOK
  <2> QED
    BY <1>4, <2>1, <2>2 DEF Sound, TypeOK, Commands
<1>16. NumbersOK'
  BY DEF Sound, NumbersOK
<1>17. Blocks'
  <2>1. \A i \in Live : Zones'[i] = Zones[i]
    BY <1>5, <1>6 DEF Zones
  <2>2. Zones'[n] = b
    BY <1>3, <1>5, <1>7 DEF Zones
  <2>3. ZonesOK(Live, Zones, free, lost.blk)
    BY DEF Sound, Blocks
  <2>4. ZonesOK(Live \union {n}, Zones', free \ {b}, lost.blk)
    BY <1>1, <1>2, <2>1, <2>2, <2>3, ZoneTaken
  <2> QED
    BY <1>5, <2>4 DEF Blocks
<1>18. CwdOK'
  <2>1. ipwd.i_ino \in Members /\ ipwd = inode[ipwd.i_ino]
        /\ cmd.back.i_ino \in Complete
    BY DEF Sound, CwdOK
  <2>2. ipwd' = inode'[ipwd'.i_ino]
    BY <1>6, <1>8, <2>1
  <2> QED
    BY <1>4, <1>8, <1>10, <2>1, <2>2 DEF CwdOK
<1>19. UnderWay'
  <2>1. NewDir'
    BY <1>1, <1>3, <1>4, <1>5, <1>7 DEF NewDir
  <2>2. ThisName("mkdir")' = ThisName("mkdir")
    BY <1>4 DEF ThisName
  <2>3. NotThere(ThisName("mkdir"))'
    BY <2>2 DEF NotThere, Cwd
  <2> QED
    BY <1>4, <2>1, <2>2, <2>3 DEF UnderWay
<1>20. NamesStay
  BY <1>9, <1>11, <1>12, AllNamesFacts DEF NamesStay
<1> QED
  BY <1>13, <1>14, <1>15, <1>16, <1>17, <1>18, <1>19, <1>20 DEF Sound

LEMMA MkdirTakeStep ==
  ASSUME Sound, MkdirTake, harm' = {}
  PROVE  Sound' /\ NamesStay
<1> DEFINE name == ThisName("mkdir")
<1>1. /\ cmd.at = "mkdir" /\ free # {} /\ data' = data /\ ipwd' = ipwd
      /\ inode_map' = inode_map \union ({new_inode} \ {LastIno + 1})
      /\ free' = free \ {Min(free)}
      /\ inode' = [inode EXCEPT ![new_inode] = Taken(DIR_FILE, 2)]
      /\ ipwd.i_size <= DIR_ENTRIES
  BY DEF MkdirTake, Takes
<1>2. ipwd.i_ino \in Complete /\ cmd.back.i_ino \in Complete
  BY <1>1, InDirectory DEF Sound, CwdOK
<1>3. new_inode # LastIno + 1
  BY DEF MkdirTake, OutOfNumbers
<1>4. inode_map' = inode_map \union {new_inode}
  BY <1>1, <1>3
<1>5. Taken(DIR_FILE, 2) \in Node
  BY <1>1, TakenFacts, DirectoryAssumption DEF FileEntries
<1>6. CASE /\ get_dir(name) # NOWHERE
           /\ cmd' = Becomes("enter") /\ Drops /\ running' = running
  <2>1. cmd' \in Commands /\ cmd'.at = "enter" /\ cmd'.back = cmd.back
    BY <1>6 DEF Becomes, Commands, Sound, TypeOK, Places
  <2>2. running' \in BOOLEAN
    BY <1>6, Zenon DEF Sound, TypeOK
  <2> QED
    BY <1>1, <1>2, <1>3, <1>4, <1>5, <1>6, <2>1, <2>2, DropStep DEF Calm
<1>7. CASE running' = FALSE /\ Drops /\ cmd' = cmd
  <2>1. cmd' \in Commands /\ cmd'.at = "mkdir" /\ cmd'.back = cmd.back
    BY <1>1, <1>7 DEF Commands, Sound, TypeOK
  <2> QED
    BY <1>1, <1>2, <1>3, <1>4, <1>5, <1>7, <2>1, DropStep DEF Calm
<1>8. CASE /\ get_dir(name) = NOWHERE
           /\ name \notin TooLong /\ ipwd.i_size < DIR_ENTRIES
           /\ cmd' = [cmd EXCEPT !.at = "entry", !.new = new_inode]
           /\ harm' = harm \union OutOfNumbers
                \union (IF name = ".." THEN {"dotdot"} ELSE {})
           /\ running' = running /\ lost' = lost
  <2>1. name # ".."
    BY <1>8
  <2>2. name # "."
    <3>1. ipwd.i_ino # NOWHERE
      BY <1>2, TreeIsTyped
    <3> QED
      BY <1>1, <1>2, <1>8, <3>1, GetDirFacts DEF Removing
  <2>3. name \in Name \ TooLong
    BY <1>8, <2>1, <2>2, ThisNameFacts
  <2>4. NotThere(name)
    BY <1>1, <1>2, <1>8, <2>3, GetDirFacts DEF Removing
  <2>5. running' \in BOOLEAN
    BY <1>8, Zenon DEF Sound, TypeOK
  <2> QED
    BY <1>1, <1>2, <1>3, <1>4, <1>8, <2>3, <2>4, <2>5, MkdirFits
<1> QED
  BY <1>6, <1>7, <1>8 DEF MkdirTake

LEMMA MkdirInFileStep ==
  ASSUME MkdirInFile
  PROVE  harm' # {}
BY DEF MkdirInFile

LEMMA MkdirNoBlockStep ==
  ASSUME Sound, MkdirNoBlock, harm' = {}
  PROVE  Sound' /\ NamesStay
<1> DEFINE n == new_inode
<1>1. /\ cmd.at = "mkdir" /\ cmd' = cmd /\ ipwd' = ipwd /\ data' = data
      /\ inode' = inode /\ free' = free /\ running' = FALSE
      /\ inode_map' = inode_map \union ({n} \ {LastIno + 1})
      /\ lost' = [lost EXCEPT !.ino = @ \union {n}]
  BY DEF MkdirNoBlock
<1>2. n \in Ino /\ {n} \ {LastIno + 1} \subseteq Ino \ {LastIno + 1}
      /\ n \notin Live
  BY NewIsTyped, NewFacts, TreeIsTyped
<1>3. lost' = [ino |-> lost.ino \union {n}, blk |-> lost.blk]
      /\ lost.ino \union {n} \in SUBSET Ino /\ lost.blk \in SUBSET Block
  BY <1>1, <1>2 DEF Sound, TypeOK
<1>4. lost'.ino = lost.ino \union {n} /\ lost'.blk = lost.blk
  BY <1>3
<1>5. inode_map' \ lost'.ino = Live
  BY <1>1, <1>2, <1>4 DEF Live
<1>6. /\ Members' = Members /\ Complete' = Complete
      /\ NodesOK' /\ TreeNow' /\ UnderWay' /\ Blocks' /\ NamesStay
  BY <1>1, <1>4, <1>5, CalmStep DEF Calm, SectorsKept
<1>7. TypeOK'
  <2>1. lost' \in [ino : SUBSET Ino, blk : SUBSET Block]
    BY <1>3
  <2>2. inode_map' \subseteq Ino \ {LastIno + 1}
    BY <1>1, <1>2 DEF Sound, TypeOK
  <2> QED
    BY <1>1, <2>1, <2>2 DEF Sound, TypeOK
<1>8. NumbersOK'
  BY <1>1, <1>4 DEF Sound, NumbersOK
<1>9. CwdOK'
  BY <1>1, <1>6 DEF Sound, CwdOK
<1> QED
  BY <1>6, <1>7, <1>8, <1>9 DEF Sound

-----------------------------------------------------------------------------
(* mkdir enters the new directory's name, counts it and writes its dots.   *)

LEMMA ZoneFacts ==
  ASSUME Sound, NEW i \in Live
  PROVE  /\ inode[i].i_zone \in Block
         /\ \A j \in Live : inode[i].i_zone = inode[j].i_zone => i = j
BY DEF Sound, Blocks, ZonesOK, Zones

LEMMA SectorIsTyped ==
  ASSUME Sound, NEW i \in Live
  PROVE  data[inode[i].i_zone] \in [Slot -> dir_entry]
BY ZoneFacts DEF Sound, TypeOK

LEMMA MkdirEntryStep ==
  ASSUME Sound, MkdirEntry, harm' = {}
  PROVE  Sound' /\ NamesStay
<1> DEFINE c == ipwd.i_ino
           k == ipwd.i_size + 1
           name == ThisName("mkdir")
           e == [inode |-> cmd.new, name |-> name]
<1>1. /\ cmd.at = "entry" /\ cmd' = Becomes("size")
      /\ data' = [data EXCEPT ![ipwd.i_zone][k] = e]
      /\ inode' = inode /\ inode_map' = inode_map /\ free' = free
      /\ ipwd' = ipwd /\ lost' = lost
  BY DEF MkdirEntry, Appended
<1>2. /\ c \in Complete /\ cmd.back.i_ino \in Complete
      /\ c \in Members /\ c \in Live /\ c \in Folders /\ ipwd = inode[c]
  BY <1>1, TreeIsTyped DEF Sound, CwdOK
<1>3. /\ ipwd.i_size \in 2 .. DIR_ENTRIES /\ ipwd.i_size < DIR_ENTRIES
      /\ name \in Name \ TooLong /\ NotThere(name) /\ NewDir
  BY <1>1, <1>2, CwdFacts DEF Sound, UnderWay, Removing
<1>4. k \in Slot /\ k \notin 1 .. ipwd.i_size /\ ipwd.i_size \in Int
  BY <1>3, DirectoryAssumption DEF Slot
<1>5. ipwd.i_zone \in Block
  BY <1>2, ZoneFacts
<1>6. cmd' \in Commands /\ cmd'.at = "size" /\ cmd'.new = cmd.new
      /\ cmd'.rest = cmd.rest /\ cmd'.back = cmd.back
  BY <1>1 DEF Becomes, Commands, Sound, TypeOK, Places
<1>7. data' \in [{0} \union Block -> [Slot -> dir_entry]]
  <2>1. e \in dir_entry
    BY <1>3, TreeIsTyped DEF dir_entry, NewDir
  <2> HIDE DEF e, k
  <2>2. data \in [{0} \union Block -> [Slot -> dir_entry]]
    BY DEF Sound, TypeOK
  <2> QED
    BY <1>1, <1>4, <1>5, <2>1, <2>2
<1>8. /\ data'[ipwd.i_zone][k] = e
      /\ \A m \in 1 .. ipwd.i_size : data'[ipwd.i_zone][m] = data[ipwd.i_zone][m]
      /\ \A b \in Block \ {ipwd.i_zone} : data'[b] = data[b]
  <2> HIDE DEF e, k
  <2>1. data \in [{0} \union Block -> [Slot -> dir_entry]]
    BY DEF Sound, TypeOK
  <2> QED
    BY <1>1, <1>4, <1>5, <2>1
<1>9. /\ Live' = Live /\ Members' = Members /\ Folders' = Folders
      /\ Complete' = Complete
  BY <1>1, <1>6 DEF Live, Members, Pending, Folders, IsFolder,
                     Complete, Dotless
<1>10. SlotSets' = SlotSets
  BY <1>1, <1>6, <1>9 DEF SlotSets, SlotsOf
<1>11. TreeNow' /\ NamesStay
  <2>1. ASSUME NEW d \in Folders, NEW m \in SlotSets[d] \union {1, 2}
        PROVE  Sectors'[d][m] = Sectors[d][m]
    <3>1. /\ Sectors'[d] = data'[inode[d].i_zone]
          /\ Sectors[d] = data[inode[d].i_zone]
      BY <1>1, <1>9 DEF Sectors, SectorOf
    <3>2. CASE d = c
      <4>1. SlotSets[c] = 3 .. ipwd.i_size
        BY <1>1, <1>2, CwdFacts DEF Removing
      <4>2. m \in 1 .. ipwd.i_size
        BY <1>3, <1>4, <3>2, <4>1
      <4> QED
        BY <1>2, <1>8, <3>1, <3>2, <4>2
    <3>3. CASE d # c
      <4>1. d \in Live
        BY TreeIsTyped
      <4>2. inode[d].i_zone \in Block \ {ipwd.i_zone}
        BY <1>2, <3>3, <4>1, ZoneFacts
      <4> QED
        BY <1>8, <3>1, <4>2
    <3> QED
      BY <3>2, <3>3
  <2>2. TreeOK(Members, Folders, Complete, Sectors, SlotSets)
    BY DEF Sound, TreeNow
  <2>3. TreeOK(Members, Folders, Complete, Sectors', SlotSets)
    BY <2>1, <2>2, SameTree
  <2>4. NamesOf(Folders, Sectors', SlotSets) = NamesOf(Folders, Sectors, SlotSets)
    BY <2>1, NamesSame
  <2>5. NamesStay
    BY <1>9, <1>10, <2>4, AllNamesFacts DEF NamesStay
  <2> QED
    BY <1>9, <1>10, <2>3, <2>5 DEF TreeNow
<1>12. TypeOK'
  BY <1>1, <1>6, <1>7 DEF MkdirEntry, Sound, TypeOK, Commands
<1>13. NumbersOK' /\ NodesOK'
  BY <1>1, <1>9 DEF Sound, NumbersOK, NodesOK
<1>14. Blocks'
  <2>1. Zones' = Zones
    BY <1>1, <1>9 DEF Zones
  <2> QED
    BY <1>1, <1>9, <2>1 DEF Sound, Blocks
<1>15. CwdOK'
  BY <1>1, <1>2, <1>6, <1>9 DEF CwdOK
<1>16. UnderWay'
  <2>1. NewDir'
    BY <1>1, <1>3, <1>6, <1>9 DEF NewDir
  <2>2. ThisName("mkdir")' = name
    BY <1>6 DEF ThisName
  <2>3. \A m \in 3 .. ipwd.i_size : Cwd'[m] = Cwd[m]
    BY <1>1, <1>4, <1>8 DEF Cwd
  <2>4. NotThere(ThisName("mkdir"))'
    BY <1>1, <1>3, <2>2, <2>3 DEF NotThere
  <2>5. Cwd'[ipwd'.i_size + 1] = [inode |-> cmd'.new, name |-> ThisName("mkdir")']
    BY <1>1, <1>6, <1>8, <2>2 DEF Cwd
  <2>6. ipwd'.i_size < DIR_ENTRIES
    BY <1>1, <1>3
  <2> QED
    BY <1>3, <1>6, <2>1, <2>2, <2>4, <2>5, <2>6 DEF UnderWay
<1> QED
  BY <1>11, <1>12, <1>13, <1>14, <1>15, <1>16 DEF Sound

LEMMA MkdirSizeStep ==
  ASSUME Sound, MkdirSize, harm' = {}
  PROVE  Sound' /\ Gains(ThisName("mkdir"), cmd.new, {cmd.new})
<1> DEFINE c == ipwd.i_ino
           k == ipwd.i_size + 1
           n == cmd.new
<1>1. /\ cmd.at = "size" /\ cmd' = Becomes("dots")
      /\ inode' = [inode EXCEPT ![c] = Grown] /\ ipwd' = Grown
      /\ data' = data /\ inode_map' = inode_map /\ free' = free
      /\ lost' = lost
  BY DEF MkdirSize
<1>2. /\ c \in Complete /\ cmd.back.i_ino \in Complete
      /\ c \in Members /\ c \in Live /\ c \in Folders /\ ipwd = inode[c]
      /\ c \in Ino
  BY <1>1, TreeIsTyped DEF Sound, CwdOK
<1>3. /\ ipwd.i_size \in 2 .. DIR_ENTRIES /\ ipwd.i_size < DIR_ENTRIES
      /\ ThisName("mkdir") \in Name \ TooLong /\ NotThere(ThisName("mkdir"))
      /\ Cwd[k] = [inode |-> n, name |-> ThisName("mkdir")]
      /\ n \in Live \ {0} /\ inode[n].i_mode = DIR_FILE /\ inode[n].i_size = 2
  BY <1>1, <1>2, CwdFacts DEF Sound, UnderWay, NewDir, Removing
<1>4. k \in 3 .. DIR_ENTRIES /\ k \notin 3 .. ipwd.i_size /\ ipwd.i_size \in Int
      /\ k \in 0 .. FileEntries /\ 3 .. k = (3 .. ipwd.i_size) \union {k}
  BY <1>3, DirectoryAssumption DEF FileEntries
<1>5. cmd' \in Commands /\ cmd'.at = "dots" /\ cmd'.new = n
      /\ cmd'.rest = cmd.rest /\ cmd'.back = cmd.back
  BY <1>1 DEF Becomes, Commands, Sound, TypeOK, Places
<1>6. /\ Grown \in Node /\ Grown.i_ino = c /\ Grown.i_mode = ipwd.i_mode
      /\ Grown.i_zone = ipwd.i_zone /\ Grown.i_size = k
  <2>1. ipwd \in Node
    BY DEF Sound, TypeOK
  <2> QED
    BY <1>4, <2>1 DEF Grown, Node
<1>7. /\ inode'[c] = Grown /\ inode' \in [Ino -> Node]
      /\ \A i \in Live \ {c} : inode'[i] = inode[i]
  BY <1>1, <1>2, <1>6, TreeIsTyped DEF Sound, TypeOK
<1>8. /\ Live' = Live /\ Members' = Live /\ Live = Members \union {n}
      /\ n \notin Members /\ n # c
  BY <1>1, <1>2, <1>3, <1>5 DEF Live, Members, Pending
<1>9. Folders' = Folders \union {n} /\ n \notin Folders
  BY <1>2, <1>3, <1>6, <1>7, <1>8 DEF Folders, IsFolder
<1>10. Complete' = Folders /\ Complete = Folders
  BY <1>1, <1>5, <1>9 DEF Complete, Dotless
<1>11. \A i \in Live : inode'[i].i_zone = inode[i].i_zone
  BY <1>2, <1>6, <1>7
<1>12. TreeNow' /\ Gains(ThisName("mkdir"), n, {n})
  <2>1. \A d \in Folders : Sectors'[d] = Sectors[d]
    BY <1>1, <1>8, <1>9, <1>11, TreeIsTyped DEF Sectors, SectorOf
  <2>2. SlotSets[c] = 3 .. ipwd.i_size /\ Cwd = Sectors[c]
    BY <1>1, <1>2, CwdFacts DEF Removing
  <2>3. SlotSets'[c] = SlotSets[c] \union {k}
    BY <1>2, <1>4, <1>5, <1>6, <1>7, <1>9, <2>2 DEF SlotSets, SlotsOf
  <2>4. \A d \in Folders \ {c} : SlotSets'[d] = SlotSets[d]
    BY <1>1, <1>5, <1>7, <1>9, TreeIsTyped DEF SlotSets, SlotsOf
  <2>5. SlotSets'[n] = {}
    BY <1>3, <1>5, <1>7, <1>8, <1>9 DEF SlotSets, SlotsOf
  <2>6. TreeOK(Members, Folders, Complete, Sectors, SlotSets)
    BY DEF Sound, TreeNow
  <2>7. Sectors'[c][k].inode = n /\ Sectors'[c][k].name = ThisName("mkdir")
    BY <1>2, <1>3, <2>1, <2>2
  <2>8. \A m \in SlotSets[c] : Sectors[c][m].name = Sectors'[c][k].name =>
                                 Sectors[c][m].name \in Exact
    BY <1>3, <2>2, <2>7 DEF NotThere
  <2>9. k \in 3 .. DIR_ENTRIES /\ k \notin SlotSets[c] /\ c \in Folders
    BY <1>2, <1>4, <2>2
  <2>10. Grows(Folders, n, c, k, Folders', Sectors, SlotSets, Sectors', SlotSets')
    BY <1>3, <1>9, <2>1, <2>3, <2>4, <2>5, <2>7, <2>8 DEF Grows
  <2>11. n \in Ino
    BY <1>3, TreeIsTyped
  <2>12. Named(c, Sectors'[c][k]) =
           Named(c, [inode |-> n, name |-> ThisName("mkdir")])
    BY <2>7 DEF Named
  <2> HIDE DEF n, k, c
  <2>13. TreeOK(Members \union {n}, Folders', Complete, Sectors', SlotSets')
    BY <1>8, <2>6, <2>9, <2>10, TreeGrown
  <2>14. NamesOf(Folders', Sectors', SlotSets') =
           NamesOf(Folders, Sectors, SlotSets) \union {Named(c, Sectors'[c][k])}
    BY <1>9, <2>9, <2>10, NamesGrown
  <2>15. AllNames' = AllNames \union
           {Named(c, [inode |-> n, name |-> ThisName("mkdir")])}
    BY <2>12, <2>14, AllNamesFacts
  <2>16. \A m \in SlotSets[c] : Sectors[c][m].name = ThisName("mkdir") =>
                                  Sectors[c][m].name \in Exact
    BY <2>7, <2>8
  <2>17. Gains(ThisName("mkdir"), n, {n})
    BY <1>2, <1>3, <1>8, <1>9, <2>11, <2>15, <2>16 DEF Gains, c
  <2> QED
    BY <1>8, <1>10, <2>13, <2>17 DEF TreeNow
<1>13. NodesOK'
  <2>1. c = 0 \/ ipwd.i_mode = DIR_FILE
    BY <1>2 DEF Folders, IsFolder
  <2>2. NodeOK(c, Grown)
    BY <1>3, <1>4, <1>6, <2>1 DEF NodeOK, DIR_FILE, NORMAL_FILE
  <2> QED
    BY <1>7, <1>8, <2>2 DEF Sound, NodesOK
<1>14. TypeOK'
  BY <1>1, <1>5, <1>6, <1>7 DEF MkdirSize, Sound, TypeOK, Commands
<1>15. NumbersOK'
  BY <1>1 DEF Sound, NumbersOK
<1>16. Blocks'
  <2>1. Zones' = Zones
    BY <1>8, <1>11 DEF Zones
  <2> QED
    BY <1>1, <1>8, <2>1 DEF Sound, Blocks
<1>17. CwdOK'
  BY <1>1, <1>2, <1>5, <1>6, <1>7, <1>8, <1>10 DEF CwdOK
<1>18. UnderWay'
  <2>1. NewDir'
    BY <1>3, <1>5, <1>7, <1>8 DEF NewDir
  <2>2. 3 <= ipwd'.i_size /\ Cwd'[ipwd'.i_size].inode = cmd'.new
    BY <1>1, <1>3, <1>4, <1>5, <1>6 DEF Cwd
  <2> QED
    BY <1>5, <2>1, <2>2 DEF UnderWay
<1> QED
  BY <1>12, <1>13, <1>14, <1>15, <1>16, <1>17, <1>18 DEF Sound

LEMMA MkdirDotsStep ==
  ASSUME Sound, MkdirDots, harm' = {}
  PROVE  Sound' /\ NamesStay
<1> DEFINE c == ipwd.i_ino
           n == cmd.new
           z == inode[n].i_zone
           k == ipwd.i_size
<1>1. /\ cmd.at = "dots" /\ cmd' = Becomes("enter")
      /\ data' = [data EXCEPT ![z] = Dots(data[z], n, c)]
      /\ inode' = inode /\ ipwd' = ipwd
      /\ inode_map' = inode_map /\ free' = free /\ lost' = lost
  BY DEF MkdirDots
<1>2. /\ c \in Complete /\ cmd.back.i_ino \in Complete
      /\ c \in Members /\ c \in Live /\ c \in Folders /\ ipwd = inode[c]
      /\ c \in Ino
  BY <1>1, TreeIsTyped DEF Sound, CwdOK
<1>3. /\ n \in Live \ {0} /\ inode[n].i_mode = DIR_FILE /\ inode[n].i_size = 2
      /\ 3 <= ipwd.i_size /\ Cwd[ipwd.i_size].inode = n
  BY <1>1 DEF Sound, UnderWay, NewDir
<1>4. cmd' \in Commands /\ cmd'.at = "enter" /\ cmd'.back = cmd.back
  BY <1>1 DEF Becomes, Commands, Sound, TypeOK, Places
<1>5. /\ Live' = Live /\ Members' = Members /\ Members = Live /\ Folders' = Folders
  BY <1>1, <1>4 DEF Live, Members, Pending, Folders, IsFolder
<1>6. n \in Folders \ Complete
  BY <1>1, <1>3, <1>5 DEF Folders, IsFolder, Complete, Dotless
<1>7. Complete' = Complete \union {n}
  BY <1>1, <1>4, <1>5, <1>6 DEF Complete, Dotless
<1>8. z \in Block /\ data[z] \in [Slot -> dir_entry]
  BY <1>3, ZoneFacts, SectorIsTyped
<1>9. 1 \in Slot /\ 2 \in Slot
  BY DirectoryAssumption DEF Slot
<1>10. /\ Dots(data[z], n, c)[1] = [inode |-> n, name |-> "."]
       /\ Dots(data[z], n, c)[2] = [inode |-> c, name |-> ".."]
       /\ Dots(data[z], n, c) \in [Slot -> dir_entry]
  <2>1. /\ [inode |-> n, name |-> "."] \in dir_entry
        /\ [inode |-> c, name |-> ".."] \in dir_entry
    BY <1>2, <1>3, TreeIsTyped DEF dir_entry
  <2> HIDE DEF n, c, z
  <2> QED
    BY <1>8, <1>9, <2>1 DEF Dots
<1>11. /\ data'[z] = Dots(data[z], n, c)
       /\ \A b \in Block \ {z} : data'[b] = data[b]
       /\ data' \in [{0} \union Block -> [Slot -> dir_entry]]
  <2> HIDE DEF n, c, z
  <2> QED
    BY <1>1, <1>8, <1>10 DEF Sound, TypeOK
<1>12. SlotSets' = SlotSets
  BY <1>1, <1>4, <1>5 DEF SlotSets, SlotsOf
<1>13. TreeNow' /\ NamesStay
  <2>1. \A d \in Folders : /\ Sectors'[d] = data'[inode[d].i_zone]
                           /\ Sectors[d] = data[inode[d].i_zone]
    BY <1>1, <1>5 DEF Sectors, SectorOf
  <2>2. ASSUME NEW d \in Folders \ {n}
        PROVE  Sectors'[d] = Sectors[d]
    <3>1. inode[d].i_zone \in Block \ {z}
      BY <1>3, TreeIsTyped, ZoneFacts
    <3> QED
      BY <1>11, <2>1, <3>1
  <2>3. /\ Sectors'[n][1] = [inode |-> n, name |-> "."]
        /\ Sectors'[n][2] = [inode |-> c, name |-> ".."]
    BY <1>6, <1>10, <1>11, <2>1
  <2>4. /\ SlotSets[c] = 3 .. ipwd.i_size /\ Cwd = Sectors[c]
        /\ ipwd.i_size \in 2 .. DIR_ENTRIES
    BY <1>1, <1>2, CwdFacts DEF Removing
  <2>5. k \in SlotSets[c] /\ Sectors[c][k].inode = n
    BY <1>3, <2>4, DirectoryAssumption
  <2>6. SlotSets[n] = {}
    BY <1>1, <1>3, <1>6 DEF SlotSets, SlotsOf
  <2>7. TreeOK(Members, Folders, Complete, Sectors, SlotSets)
    BY DEF Sound, TreeNow
  <2>8. DotsWritten(Folders, n, c, Sectors, Sectors')
    BY <2>2, <2>3 DEF DotsWritten
  <2> HIDE DEF n, c, z, k
  <2>9. TreeOK(Members, Folders, Complete \union {n}, Sectors', SlotSets)
    BY <1>2, <1>6, <2>5, <2>6, <2>7, <2>8, TreeDotted
  <2>10. \A d \in Folders : \A m \in SlotSets[d] : Sectors'[d][m] = Sectors[d][m]
    BY <2>2, <2>6
  <2>11. NamesOf(Folders, Sectors', SlotSets) = NamesOf(Folders, Sectors, SlotSets)
    BY <2>10, NamesSame
  <2>12. NamesStay
    BY <1>5, <1>12, <2>11, AllNamesFacts DEF NamesStay
  <2> QED
    BY <1>5, <1>7, <1>12, <2>9, <2>12 DEF TreeNow
<1>14. TypeOK'
  BY <1>1, <1>4, <1>11 DEF MkdirDots, Sound, TypeOK, Commands
<1>15. NumbersOK' /\ NodesOK'
  BY <1>1, <1>5 DEF Sound, NumbersOK, NodesOK
<1>16. Blocks'
  <2>1. Zones' = Zones
    BY <1>1, <1>5 DEF Zones
  <2> QED
    BY <1>1, <1>5, <2>1 DEF Sound, Blocks
<1>17. CwdOK'
  BY <1>1, <1>2, <1>4, <1>5, <1>7 DEF CwdOK
<1>18. UnderWay'
  BY <1>4 DEF UnderWay
<1> QED
  BY <1>13, <1>14, <1>15, <1>16, <1>17, <1>18 DEF Sound

-----------------------------------------------------------------------------
(* rmdir, rm and touch.                                                    *)

LEMMA RemovedFacts ==
  ASSUME NEW sector \in [Slot -> dir_entry], NEW size \in 3 .. DIR_ENTRIES,
         NEW h \in 3 .. size
  PROVE  /\ Removed(sector, size, h) \in [Slot -> dir_entry]
         /\ \A m \in 1 .. (size - 1) :
              Removed(sector, size, h)[m] =
                IF m < h THEN sector[m] ELSE sector[m + 1]
<1>1. NoEntry \in dir_entry
  BY DirectoryAssumption DEF NoEntry, dir_entry, Ino
<1>2. DIR_ENTRIES \in Int
  BY DirectoryAssumption
<1>3. ASSUME NEW m \in Slot
      PROVE  (IF m \in h .. size
              THEN IF m = DIR_ENTRIES THEN NoEntry ELSE sector[m + 1]
              ELSE IF m = h THEN NoEntry ELSE sector[m]) \in dir_entry
  BY <1>1, <1>2 DEF Slot
<1>4. Removed(sector, size, h) \in [Slot -> dir_entry]
  BY <1>3 DEF Removed
<1>5. ASSUME NEW m \in 1 .. (size - 1)
      PROVE  Removed(sector, size, h)[m] =
               IF m < h THEN sector[m] ELSE sector[m + 1]
  <2>1. m \in Slot /\ m # DIR_ENTRIES /\ (m \in h .. size <=> ~(m < h)) /\ m <= size
    BY <1>2 DEF Slot
  <2>2. m < h => m # h
    BY <1>2
  <2> QED
    BY <2>1, <2>2 DEF Removed
<1> QED
  BY <1>4, <1>5

LEMMA FolderFacts ==
  ASSUME Sound, NEW d \in Folders
  PROVE  /\ IsFolder(d) /\ inode[d].i_size \in 2 .. DIR_ENTRIES
         /\ d \in Live /\ d \in Ino /\ inode[d] \in Node /\ inode[d].i_ino = d
<1>1. d \in Live /\ d \in Ino /\ inode[d] \in Node /\ inode[d].i_ino = d
  BY TreeIsTyped
<1>2. IsFolder(d)
  BY DEF Folders
<1> QED
  BY <1>1, <1>2 DEF Sound, NodesOK, NodeOK, IsFolder

LEMMA OneNameIsTyped ==
  ASSUME Sound, NEW name \in Name \union {".", ".."}
  PROVE  Start("unlink", OneName(name)) \in Commands
<1>1. <<name>> \in Seq(Name \union {"..", "."})
  OBVIOUS
<1>2. 0 \in Ino /\ ipwd \in Node
  BY DirectoryAssumption DEF Ino, Sound, TypeOK
<1> QED
  BY <1>1, <1>2 DEF Commands, Places, Start, OneName

(* rmdir and rm give back an inode and a block, and the entry counts no    *)
(* more.                                                                   *)
LEMMA LoseStep ==
  ASSUME Sound, cmd.at = "idle", harm' = {}, NEW name \in Name,
         get_dir(name) \notin {NOWHERE, 0},
         get_dir(name) \in Folders => SlotSets[get_dir(name)] = {},
         inode_map' = inode_map \ {get_dir(name)},
         free' = free \union {inode[get_dir(name)].i_zone},
         inode' = [inode EXCEPT ![get_dir(name)] = Cleared],
         NEW sector \in [Slot -> dir_entry],
         data' = [data EXCEPT ![inode[get_dir(name)].i_zone] = sector],
         cmd' = Start("unlink", OneName(name)),
         UNCHANGED <<ipwd, running, lost>>
  PROVE  Sound' /\ Loses(get_dir(name)) /\ cmd'.at = "unlink" /\ cmd'.back = ipwd
<1> DEFINE c == ipwd.i_ino
           nr == get_dir(name)
           node == inode[nr]
           h == Min(Matches(Cwd, ipwd.i_size, name))
<1>1. /\ c \in Complete /\ c \in Members /\ ipwd = inode[c]
      /\ cmd.at \in Calm /\ cmd.at \notin Removing /\ c \in Live
  BY IdleFacts, TreeIsTyped
<1>2. nr \in Members /\ nr \in Live /\ nr \in Ino /\ node \in Node
  BY <1>1, GetDirFacts, TreeIsTyped
<1>3. /\ Matches(Cwd, ipwd.i_size, name) # {}
      /\ h \in 3 .. ipwd.i_size /\ Cwd[h].inode = nr
  BY <1>1, GetDirFacts
<1>4. c \in Folders /\ Cwd = Sectors[c] /\ SlotSets[c] = 3 .. ipwd.i_size
  BY <1>1, CwdFacts
<1>5. h \in SlotSets[c] /\ Sectors[c][h].inode = nr /\ nr # c
  BY <1>3, <1>4
<1>6. /\ cmd' \in Commands /\ cmd'.at = "unlink" /\ cmd'.rest[1] = name
      /\ cmd'.back = ipwd
  <2>1. cmd' \in Commands
    BY OneNameIsTyped
  <2>2. cmd'.at = "unlink" /\ cmd'.rest = <<name>> /\ cmd'.back = ipwd
    BY DEF Start, OneName
  <2> QED
    BY <2>1, <2>2
<1>7. \A i \in Live \ {nr} : inode'[i] = inode[i]
  BY TreeIsTyped DEF Sound, TypeOK
<1>8. Live' = Live \ {nr} /\ Members' = Members \ {nr} /\ Members = Live
  BY <1>6 DEF Live, Members, Pending
<1>9. Folders' = Folders \ {nr}
  BY <1>7, <1>8 DEF Folders, IsFolder
<1>10. Complete' = Complete \ {nr}
  BY <1>6, <1>9 DEF Complete, Dotless
<1>11. /\ data' \in [{0} \union Block -> [Slot -> dir_entry]]
       /\ \A i \in Live \ {nr} : data'[inode[i].i_zone] = data[inode[i].i_zone]
  <2>1. node.i_zone \in Block
    BY <1>2, ZoneFacts
  <2>2. \A i \in Live \ {nr} :
          inode[i].i_zone \in Block /\ inode[i].i_zone # node.i_zone
    BY <1>2, ZoneFacts
  <2> HIDE DEF nr, node
  <2> QED
    BY <2>1, <2>2 DEF Sound, TypeOK, nr, node
<1>12. Cwd' = Cwd
  BY <1>1, <1>5, <1>11 DEF Cwd
<1>13. Hole' = h
  BY <1>3, <1>6, <1>12 DEF Hole
<1>14. TreeNow' /\ Loses(nr)
  <2>1. \A d \in Folders \ {nr} : Sectors'[d] = Sectors[d]
    BY <1>7, <1>9, <1>11, TreeIsTyped DEF Sectors, SectorOf
  <2>2. SlotSets'[c] = SlotSets[c] \ {h}
    BY <1>1, <1>4, <1>5, <1>6, <1>7, <1>9, <1>13 DEF SlotSets, SlotsOf
  <2>3. \A d \in Folders \ {c, nr} : SlotSets'[d] = SlotSets[d]
    BY <1>6, <1>7, <1>9, TreeIsTyped DEF SlotSets, SlotsOf
  <2>4. TreeOK(Members, Folders, Complete, Sectors, SlotSets)
    BY DEF Sound, TreeNow
  <2>5. nr \in Members \ {0}
    BY <1>2
  <2>6. Pruned(Folders, nr, c, h, Sectors, SlotSets, Sectors', SlotSets')
    BY <2>1, <2>2, <2>3 DEF Pruned
  <2>7. nr \in Folders => SlotSets[nr] = {}
    OBVIOUS
  <2> HIDE DEF c, nr, h
  <2>8. TreeOK(Members \ {nr}, Folders \ {nr}, Complete \ {nr}, Sectors', SlotSets')
    BY <1>4, <1>5, <2>4, <2>5, <2>6, TreePruned
  <2>9. NamesOf(Folders \ {nr}, Sectors', SlotSets') =
          NamesOf(Folders, Sectors, SlotSets) \ {Named(c, Sectors[c][h])}
    <3>1. c \in Folders \ {nr}
      BY <1>4, <1>5
    <3> QED
      BY <1>5, <2>4, <2>6, <3>1, NamesPruned
  <2>10. AllNames' = AllNames \ {Named(c, Sectors[c][h])}
    BY <1>9, <2>9, AllNamesFacts
  <2>11. Loses(nr)
    BY <1>4, <1>5, <1>9, <2>5, <2>7, <2>10 DEF Loses, c
  <2> QED
    BY <1>8, <1>9, <1>10, <2>8, <2>11 DEF TreeNow
<1>15. TypeOK'
  <2>1. Cleared \in Node
    BY DirectoryAssumption DEF Cleared, Node, Ino, FileEntries
  <2>2. inode' \in [Ino -> Node]
    BY <2>1 DEF Sound, TypeOK
  <2>3. inode_map' \subseteq Ino \ {LastIno + 1} /\ free' \subseteq Block
    BY <1>2, ZoneFacts DEF Sound, TypeOK
  <2> QED
    BY <1>6, <1>11, <2>2, <2>3 DEF Sound, TypeOK, Commands
<1>16. NumbersOK'
  BY <1>2 DEF Sound, NumbersOK, Live
<1>17. NodesOK'
  BY <1>7, <1>8 DEF Sound, NodesOK
<1>18. Blocks'
  <2>1. \A i \in Live \ {nr} : Zones'[i] = Zones[i]
    BY <1>7, <1>8 DEF Zones
  <2>2. Zones[nr] = node.i_zone
    BY <1>2 DEF Zones
  <2>3. ZonesOK(Live, Zones, free, lost.blk)
    BY DEF Sound, Blocks
  <2> HIDE DEF nr, node
  <2>4. ZonesOK(Live \ {nr}, Zones', free \union {Zones[nr]}, lost.blk)
    BY <1>2, <2>1, <2>3, ZoneFreed
  <2> QED
    BY <1>8, <2>2, <2>4 DEF Blocks, nr, node
<1>19. CwdOK'
  BY <1>1, <1>5, <1>6, <1>7, <1>8, <1>10 DEF CwdOK
<1>20. UnderWay'
  BY <1>3, <1>6, <1>13 DEF UnderWay
<1> QED
  BY <1>6, <1>14, <1>15, <1>16, <1>17, <1>18, <1>19, <1>20 DEF Sound

(* What free_block may leave in a block, and what rm clears.               *)
LEMMA BlankIsTyped ==
  Blank \in [Slot -> dir_entry] /\ HeadSector \in [Slot -> dir_entry]
BY DirectoryAssumption DEF Blank, HeadSector, NoEntry, HeadWords, dir_entry, Ino

LEMMA GivenFacts ==
  ASSUME NEW block, NEW sector \in [Slot -> dir_entry],
         Holds(block, Given(block, sector))
  PROVE  \E s \in [Slot -> dir_entry] : data' = [data EXCEPT ![block] = s]
BY BlankIsTyped DEF Holds, Given

LEMMA WipedFacts ==
  ASSUME NEW node, Wiped(node)
  PROVE  \E s \in [Slot -> dir_entry] : data' = [data EXCEPT ![node.i_zone] = s]
BY BlankIsTyped DEF Wiped, Holds, Given

LEMMA RmdirHaltsStep ==
  ASSUME Sound, NEW name, RmdirHalts(name), harm' = {}
  PROVE  Sound' /\ NamesStay
<1>1. /\ cmd.at = "idle" /\ UNCHANGED <<disk, ipwd, cmd, lost>> /\ running' = FALSE
  BY DEF RmdirHalts, rmdirOf, Ready
<1>2. /\ ipwd.i_ino \in Complete /\ ipwd.i_ino \in Members
      /\ ipwd = inode[ipwd.i_ino] /\ cmd.at \in Calm
  BY <1>1, IdleFacts
<1>3. cmd' \in Commands /\ cmd'.back.i_ino \in Complete
  BY <1>1 DEF Sound, TypeOK, Commands, CwdOK
<1> QED
  BY <1>1, <1>2, <1>3, WalkTo DEF Calm

LEMMA RmdirStep ==
  ASSUME Sound, NEW name \in Name \union {".", ".."}, rmdir(name), harm' = {}
  PROVE  Sound' /\ Loses(get_dir(name)) /\ cmd'.at = "unlink" /\ cmd'.back = ipwd
<1> DEFINE nr == get_dir(name)
           node == inode[nr]
<1>1. cmd.at = "idle" /\ nr # NOWHERE /\ node.i_size <= 2 /\ name # "."
      /\ node.i_ino # 0
  BY DEF rmdir, rmdirOf, Ready, Self
<1>2. /\ ipwd.i_ino \in Complete /\ cmd.at \in Calm /\ cmd.at \notin Removing
  BY <1>1, IdleFacts
<1>3. nr \in Members /\ node.i_ino = nr /\ nr \in Live /\ node \in Node /\ nr # 0
  BY <1>1, <1>2, GetDirFacts, TreeIsTyped
<1>4. node.i_mode = DIR_FILE /\ node.i_size = 2
  <2>1. node.i_mode # NORMAL_FILE
    BY <1>1, <1>3, DirectoryAssumption DEF Sound, NodesOK, NodeOK, FileEntries
  <2>2. node.i_mode = DIR_FILE
    BY <1>3, <2>1 DEF Node
  <2> QED
    BY <1>1, <1>3, <2>2, DirectoryAssumption DEF Sound, NodesOK, NodeOK
<1>5. nr \in Folders /\ SlotSets[nr] = {}
  BY <1>2, <1>3, <1>4, CalmFacts DEF Folders, IsFolder
<1>6. name # ".."
  <2> SUFFICES ASSUME name = ".."
               PROVE  FALSE
    OBVIOUS
  <2>1. nr = Cwd[2].inode
    BY <1>2, GetDirFacts
  <2>2. 3 \in SlotSets[nr]
    <3>1. ipwd.i_ino # 0
      BY <1>1, <1>2, <2>1, CwdFacts
    <3> QED
      BY <1>2, <2>1, <3>1, CwdFacts
  <2> QED
    BY <1>5, <2>2
<1>7. name \in Name
  BY <1>1, <1>6
<1>8. data[node.i_zone] \in [Slot -> dir_entry]
  BY <1>3, SectorIsTyped
<1>9. PICK s \in [Slot -> dir_entry] : data' = [data EXCEPT ![node.i_zone] = s]
  BY <1>8, GivenFacts DEF rmdir
<1>10. /\ inode_map' = inode_map \ {nr} /\ free' = free \union {node.i_zone}
       /\ inode' = [inode EXCEPT ![nr] = Cleared]
       /\ cmd' = Start("unlink", OneName(name))
       /\ UNCHANGED <<ipwd, running, lost>>
  BY <1>3 DEF rmdir, Freed
<1> QED
  BY <1>1, <1>3, <1>5, <1>7, <1>9, <1>10, LoseStep

(* With no harm done, rm has removed a file.                               *)
LEMMA RmFacts ==
  ASSUME Sound, NEW name \in Name \union {".", ".."}, rmOf(name),
         Spared(inode[get_dir(name)]) = {}
  PROVE  /\ cmd.at = "idle" /\ get_dir(name) \notin {NOWHERE, 0} /\ name \in Name
         /\ get_dir(name) \in Live /\ get_dir(name) \in Members \ Folders
         /\ ~OneSector(inode[get_dir(name)])
<1> DEFINE nr == get_dir(name)
<1>1. cmd.at = "idle" /\ nr \notin {NOWHERE, 0} /\ ~OneSector(inode[nr])
  BY DEF rmOf, Ready, Spared
<1>2. ipwd.i_ino \in Complete /\ cmd.at \notin Removing
  BY <1>1, IdleFacts
<1>3. nr \in Members /\ nr \in Live
  BY <1>1, <1>2, GetDirFacts, TreeIsTyped
<1>4. nr \notin Folders
  <2> SUFFICES ASSUME nr \in Folders
               PROVE  FALSE
    OBVIOUS
  <2>1. inode[nr].i_size \in 2 .. DIR_ENTRIES
    BY FolderFacts
  <2> QED
    BY <1>1, <2>1, DirectoryAssumption DEF OneSector
<1>5. name \in Name
  <2>1. name # "."
    BY <1>2, <1>4, GetDirFacts, TreeIsTyped
  <2>2. name # ".."
    BY <1>1, <1>2, <1>4, UpFacts, TreeIsTyped
  <2> QED
    BY <2>1, <2>2
<1> QED
  BY <1>1, <1>3, <1>4, <1>5

LEMMA RmStep ==
  ASSUME Sound, NEW name \in Name \union {".", ".."}, rm(name), harm' = {}
  PROVE  Sound' /\ Loses(get_dir(name)) /\ cmd'.at = "unlink" /\ cmd'.back = ipwd
<1> DEFINE nr == get_dir(name)
           node == inode[nr]
<1>1. /\ cmd.at = "idle" /\ nr \notin {NOWHERE, 0} /\ name \in Name
      /\ nr \in Live /\ nr \in Members \ Folders /\ ~OneSector(node)
  BY RmFacts DEF rm
<1>2. /\ ipwd.i_ino \in Complete /\ ipwd.i_ino \in Folders /\ ipwd.i_ino \in Live
      /\ ipwd = inode[ipwd.i_ino] /\ cmd.at \notin Removing
  BY <1>1, IdleFacts, TreeIsTyped
<1>3. PICK s \in [Slot -> dir_entry] : data' = [data EXCEPT ![node.i_zone] = s]
  BY WipedFacts DEF rm
<1>4. /\ inode_map' = inode_map \ {nr} /\ free' = free \union {node.i_zone}
      /\ inode' = [inode EXCEPT ![nr] = Cleared] /\ lost' = lost
      /\ running' = running
  BY <1>1 DEF rm, Freed
<1>5. data'[ipwd.i_zone] = Cwd
  <2>1. /\ node.i_zone \in Block /\ ipwd.i_zone \in Block
        /\ node.i_zone # ipwd.i_zone
    BY <1>1, <1>2, ZoneFacts
  <2> HIDE DEF node
  <2> QED
    BY <1>3, <2>1 DEF Sound, TypeOK, Cwd
<1>6. Matches(Cwd, ipwd.i_size, name) # {}
  BY <1>1, <1>2, GetDirFacts
<1>7. cmd' = Start("unlink", OneName(name)) /\ ipwd' = ipwd
  BY <1>5, <1>6 DEF rm
<1> QED
  BY <1>1, <1>3, <1>4, <1>7, LoseStep

LEMMA UnlinkStep ==
  ASSUME Sound, Unlink, harm' = {}
  PROVE  Sound' /\ NamesStay
<1> DEFINE c == ipwd.i_ino
           s == ipwd.i_size
           h == Hole
<1>1. /\ cmd.at = "unlink"
      /\ data' = [data EXCEPT ![ipwd.i_zone] = Removed(Cwd, s, h)]
      /\ cmd' = Becomes("shrink")
      /\ inode' = inode /\ ipwd' = ipwd /\ inode_map' = inode_map
      /\ free' = free /\ lost' = lost /\ running' = running
  BY DEF Unlink, Cwd
<1>2. /\ c \in Complete /\ c \in Folders /\ c \in Members /\ ipwd = inode[c]
      /\ cmd.back.i_ino \in Complete
  BY <1>1, TreeIsTyped DEF Sound, CwdOK
<1>3. /\ c \in Live /\ c \in Ino /\ s \in 2 .. DIR_ENTRIES
  BY <1>2, FolderFacts
<1>4. h \in 3 .. s /\ s \in 3 .. DIR_ENTRIES /\ DIR_ENTRIES \in Int
  BY <1>1, <1>3, DirectoryAssumption DEF Sound, UnderWay
<1>5. Cwd \in [Slot -> dir_entry] /\ ipwd.i_zone \in Block
  BY <1>2, <1>3, SectorIsTyped, ZoneFacts DEF Cwd
<1>6. /\ Removed(Cwd, s, h) \in [Slot -> dir_entry]
      /\ \A m \in 1 .. (s - 1) :
           Removed(Cwd, s, h)[m] = IF m < h THEN Cwd[m] ELSE Cwd[m + 1]
  BY <1>4, <1>5, RemovedFacts
<1>7. /\ data'[ipwd.i_zone] = Removed(Cwd, s, h)
      /\ \A z \in Block \ {ipwd.i_zone} : data'[z] = data[z]
      /\ data' \in [{0} \union Block -> [Slot -> dir_entry]]
  BY <1>1, <1>5, <1>6 DEF Sound, TypeOK
<1>8. cmd' \in Commands /\ cmd'.at = "shrink" /\ cmd'.back = cmd.back
  BY <1>1 DEF Becomes, Commands, Sound, TypeOK, Places
<1>9. /\ Live' = Live /\ Members' = Members /\ Members = Live
      /\ Folders' = Folders /\ Complete' = Complete
  BY <1>1, <1>8 DEF Live, Members, Pending, Folders, IsFolder, Complete, Dotless
<1>10. TreeNow' /\ NamesStay
  <2>1. \A d \in Folders : /\ Sectors'[d] = data'[inode[d].i_zone]
                           /\ Sectors[d] = data[inode[d].i_zone]
    BY <1>1, <1>9 DEF Sectors, SectorOf
  <2>2. ASSUME NEW d \in Folders \ {c}
        PROVE  Sectors'[d] = Sectors[d]
    <3>1. inode[d].i_zone \in Block \ {ipwd.i_zone}
      BY <1>2, <1>3, TreeIsTyped, ZoneFacts
    <3> QED
      BY <1>7, <2>1, <3>1
  <2>3. Sectors'[c] = Removed(Cwd, s, h) /\ Sectors[c] = Cwd
    BY <1>2, <1>7, <2>1 DEF Cwd
  <2>4. \A m \in 1 .. (s - 1) :
          Sectors'[c][m] = IF m < h THEN Sectors[c][m] ELSE Sectors[c][m + 1]
    BY <1>6, <2>3
  <2>5. SlotSets[c] = (3 .. s) \ {h}
    BY <1>1, <1>2 DEF SlotSets, SlotsOf
  <2>6. SlotSets'[c] = 3 .. (s - 1)
    <3>1. SlotSets'[c] = (3 .. s) \ {s}
      BY <1>1, <1>2, <1>8, <1>9 DEF SlotSets, SlotsOf
    <3> QED
      BY <1>4, <3>1
  <2>7. \A d \in Folders \ {c} : SlotSets'[d] = SlotSets[d]
    BY <1>1, <1>8, <1>9 DEF SlotSets, SlotsOf
  <2>8. TreeOK(Members, Folders, Complete, Sectors, SlotSets)
    BY DEF Sound, TreeNow
  <2>9. \A d \in Folders \ {c} : Sectors'[d] = Sectors[d] /\ SlotSets'[d] = SlotSets[d]
    BY <2>2, <2>7
  <2>10. s \in Int /\ s <= DIR_ENTRIES /\ h \in 3 .. s /\ c \in Folders
    BY <1>2, <1>4
  <2>11. MovedUp(Folders, c, s, h, Sectors, SlotSets, Sectors', SlotSets')
    BY <2>4, <2>5, <2>6, <2>9 DEF MovedUp
  <2> HIDE DEF c, s, h
  <2>12. TreeOK(Members, Folders, Complete, Sectors', SlotSets')
    BY <2>8, <2>10, <2>11, TreeMovedUp
  <2>13. NamesOf(Folders, Sectors', SlotSets') = NamesOf(Folders, Sectors, SlotSets)
    BY <2>10, <2>11, NamesMovedUp
  <2>14. NamesStay
    BY <1>9, <2>13, AllNamesFacts DEF NamesStay
  <2> QED
    BY <1>9, <2>12, <2>14 DEF TreeNow
<1>11. TypeOK'
  BY <1>1, <1>7, <1>8 DEF Sound, TypeOK, Commands
<1>12. NumbersOK' /\ NodesOK'
  BY <1>1, <1>9 DEF Sound, NumbersOK, NodesOK
<1>13. Blocks'
  <2>1. Zones' = Zones
    BY <1>1, <1>9 DEF Zones
  <2> QED
    BY <1>1, <1>9, <2>1 DEF Sound, Blocks
<1>14. CwdOK'
  BY <1>1, <1>2, <1>8, <1>9 DEF CwdOK
<1>15. UnderWay'
  BY <1>1, <1>4, <1>8 DEF UnderWay
<1> QED
  BY <1>10, <1>11, <1>12, <1>13, <1>14, <1>15 DEF Sound

LEMMA ShrinkStep ==
  ASSUME Sound, Shrink, harm' = {}
  PROVE  /\ Sound' /\ NamesStay
         /\ ipwd'.i_ino = cmd.back.i_ino /\ cmd'.back = ipwd' /\ cmd'.at = "prompt"
<1> DEFINE c == ipwd.i_ino
           s == ipwd.i_size
           b == cmd.back.i_ino
<1>1. /\ cmd.at = "shrink"
      /\ inode' = [inode EXCEPT ![c] = Shrunk]
      /\ ipwd' = inode'[b] /\ cmd' = Prompt(ipwd')
      /\ data' = data /\ inode_map' = inode_map /\ free' = free /\ lost' = lost
      /\ running' = running
  BY DEF Shrink
<1>2. /\ c \in Complete /\ c \in Folders /\ c \in Members /\ ipwd = inode[c]
      /\ b \in Complete
  BY <1>1, TreeIsTyped DEF Sound, CwdOK
<1>3. /\ c \in Live /\ c \in Ino /\ ipwd \in Node /\ s \in 2 .. DIR_ENTRIES
      /\ b \in Live /\ b \in Ino
  BY <1>2, FolderFacts, TreeIsTyped
<1>4. s \in 3 .. DIR_ENTRIES /\ DIR_ENTRIES \in Int
  BY <1>1, <1>3, DirectoryAssumption DEF Sound, UnderWay
<1>5. /\ Shrunk \in Node /\ Shrunk.i_ino = c /\ Shrunk.i_mode = ipwd.i_mode
      /\ Shrunk.i_zone = ipwd.i_zone /\ Shrunk.i_size = s - 1
  BY <1>2, <1>3, <1>4, TreeIsTyped DEF Shrunk, Node, FileEntries
<1>6. /\ inode'[c] = Shrunk /\ inode' \in [Ino -> Node]
      /\ \A i \in Live \ {c} : inode'[i] = inode[i]
  BY <1>1, <1>3, <1>5, TreeIsTyped DEF Sound, TypeOK
<1>7. cmd' \in Commands /\ cmd'.at = "prompt" /\ cmd'.back = ipwd'
  <2>1. ipwd' \in Node
    BY <1>1, <1>3, <1>6
  <2> QED
    BY <1>1, <2>1, PromptIsTyped, PromptFacts
<1>8. Live' = Live /\ Members' = Members /\ Members = Live
  BY <1>1, <1>7 DEF Live, Members, Pending
<1>9. Folders' = Folders
  BY <1>2, <1>3, <1>5, <1>6, <1>8 DEF Folders, IsFolder
<1>10. Complete' = Complete
  BY <1>1, <1>7, <1>9 DEF Complete, Dotless
<1>11. \A i \in Live : inode'[i].i_zone = inode[i].i_zone
  BY <1>2, <1>5, <1>6
<1>12. Sectors' = Sectors
  BY <1>1, <1>9, <1>11, TreeIsTyped DEF Sectors, SectorOf
<1>13. SlotSets' = SlotSets
  <2>1. SlotSets[c] = (3 .. s) \ {s}
    BY <1>1, <1>2 DEF SlotSets, SlotsOf
  <2>2. SlotSets'[c] = 3 .. (s - 1)
    BY <1>2, <1>5, <1>6, <1>7, <1>9 DEF SlotSets, SlotsOf
  <2>3. SlotSets'[c] = SlotSets[c]
    BY <1>4, <2>1, <2>2
  <2>4. \A d \in Folders \ {c} : SlotSets'[d] = SlotSets[d]
    BY <1>6, <1>7, <1>9, TreeIsTyped DEF SlotSets, SlotsOf
  <2> QED
    BY <1>9, <2>3, <2>4 DEF SlotSets
<1>14. TreeNow' /\ NamesStay
  <2>1. NamesStay
    BY <1>9, <1>12, <1>13, AllNamesFacts DEF NamesStay
  <2> QED
    BY <1>8, <1>9, <1>10, <1>12, <1>13, <2>1 DEF Sound, TreeNow
<1>15. TypeOK'
  <2>1. ipwd' \in Node
    BY <1>1, <1>3, <1>6
  <2> QED
    BY <1>1, <1>6, <1>7, <2>1 DEF Sound, TypeOK, Commands
<1>16. NumbersOK'
  BY <1>1 DEF Sound, NumbersOK
<1>17. NodesOK'
  <2>1. c = 0 \/ ipwd.i_mode = DIR_FILE
    BY <1>2, FolderFacts DEF IsFolder
  <2>2. NodeOK(c, Shrunk)
    BY <1>4, <1>5, <2>1 DEF NodeOK, DIR_FILE, NORMAL_FILE
  <2> QED
    BY <1>6, <1>8, <2>2 DEF Sound, NodesOK
<1>18. Blocks'
  <2>1. Zones' = Zones
    BY <1>8, <1>11 DEF Zones
  <2> QED
    BY <1>1, <1>8, <2>1 DEF Sound, Blocks
<1>19. ipwd'.i_ino = b
  <2>1. NodeOK(b, inode'[b])
    BY <1>3, <1>8, <1>17 DEF NodesOK
  <2> QED
    BY <1>1, <2>1 DEF NodeOK
<1>20. CwdOK'
  BY <1>1, <1>2, <1>7, <1>8, <1>10, <1>19, TreeIsTyped DEF CwdOK
<1>21. UnderWay'
  BY <1>7 DEF UnderWay
<1> QED
  BY <1>7, <1>14, <1>15, <1>16, <1>17, <1>18, <1>19, <1>20, <1>21 DEF Sound

(* A file is made, where there is room for it.                             *)
Creates(name) ==
  /\ cmd.at = "idle" /\ free # {} /\ new_inode # LastIno + 1
  /\ name \in Name \ TooLong /\ get_dir(name) = NOWHERE
  /\ ipwd.i_size < DIR_ENTRIES
  /\ data' = Appended(name, new_inode)
  /\ inode' = [[inode EXCEPT ![new_inode] = Taken(NORMAL_FILE, FileEntries)]
                 EXCEPT ![ipwd.i_ino] = Grown]
  /\ inode_map' = inode_map \union {new_inode} /\ free' = free \ {Min(free)}
  /\ lost' = lost /\ running' = running
  /\ ipwd' = inode'[ipwd.i_ino] /\ cmd' = Prompt(ipwd')

LEMMA TouchFits ==
  ASSUME Sound, NEW name, Creates(name), harm' = {}
  PROVE  Sound' /\ Gains(name, new_inode, {})
<1> DEFINE c == ipwd.i_ino
           k == ipwd.i_size + 1
           n == new_inode
           b == Min(free)
           node == Taken(NORMAL_FILE, FileEntries)
           e == [inode |-> n, name |-> name]
<1>0. /\ cmd.at = "idle" /\ free # {} /\ n # LastIno + 1
      /\ name \in Name \ TooLong /\ get_dir(name) = NOWHERE
      /\ ipwd.i_size < DIR_ENTRIES /\ lost' = lost /\ running' = running
      /\ inode_map' = inode_map \union {n} /\ free' = free \ {b}
  BY DEF Creates
<1>1. /\ n \in Ino \ {LastIno + 1} /\ n \notin inode_map
      /\ n \notin lost.ino /\ n \notin Live /\ n # 0
  BY <1>0, NewFacts
<1>2. b \in free /\ free \subseteq Block
  BY <1>0, FreeFacts
<1>3. /\ node \in Node /\ node.i_ino = n /\ node.i_mode = NORMAL_FILE
      /\ node.i_zone = b /\ node.i_size = FileEntries /\ node.i_mode # DIR_FILE
  <2>1. FileEntries \in 0 .. FileEntries
    BY DirectoryAssumption DEF FileEntries
  <2>2. NORMAL_FILE # DIR_FILE
    BY DEF NORMAL_FILE, DIR_FILE
  <2> QED
    BY <1>0, <2>1, <2>2, TakenFacts
<1>4. /\ c \in Complete /\ c \in Members /\ ipwd = inode[c] /\ cmd.at \in Calm
      /\ cmd.at \notin Removing
  BY <1>0, IdleFacts
<1>5. /\ c \in Folders /\ Cwd = Sectors[c] /\ SlotSets[c] = 3 .. ipwd.i_size
      /\ ipwd.i_size \in 2 .. DIR_ENTRIES
  BY <1>4, CwdFacts
<1>6. c \in Live /\ c \in Ino /\ ipwd \in Node /\ c # n
      /\ (c = 0 \/ ipwd.i_mode = DIR_FILE)
  BY <1>1, <1>4, <1>5, FolderFacts DEF IsFolder
<1>7. /\ k \in 3 .. DIR_ENTRIES /\ k \in Slot /\ k \notin 1 .. ipwd.i_size
      /\ k \in 0 .. FileEntries /\ 3 .. k = (3 .. ipwd.i_size) \union {k}
      /\ ipwd.i_size \in Int
  BY <1>0, <1>5, DirectoryAssumption DEF Slot, FileEntries
<1>8. ipwd.i_zone \in Block
  BY <1>4, <1>6, ZoneFacts
<1>9. NotThere(name)
  BY <1>0, <1>4, GetDirFacts
<1>10. /\ data' \in [{0} \union Block -> [Slot -> dir_entry]]
       /\ data'[ipwd.i_zone][k] = e
       /\ \A m \in 1 .. ipwd.i_size : data'[ipwd.i_zone][m] = data[ipwd.i_zone][m]
       /\ \A z \in Block \ {ipwd.i_zone} : data'[z] = data[z]
  <2>1. e \in dir_entry
    BY <1>0, <1>1 DEF dir_entry
  <2>2. data \in [{0} \union Block -> [Slot -> dir_entry]]
    BY DEF Sound, TypeOK
  <2>3. data' = [data EXCEPT ![ipwd.i_zone][k] = e]
    BY DEF Appended, Creates
  <2> HIDE DEF e, k
  <2> QED
    BY <1>7, <1>8, <2>1, <2>2, <2>3
<1>11. /\ Grown \in Node /\ Grown.i_ino = c /\ Grown.i_mode = ipwd.i_mode
       /\ Grown.i_zone = ipwd.i_zone /\ Grown.i_size = k
  BY <1>6, <1>7 DEF Grown, Node
<1>12. /\ inode'[c] = Grown /\ inode'[n] = node /\ inode' \in [Ino -> Node]
       /\ \A i \in Live \ {c} : inode'[i] = inode[i]
  <2>1. inode \in [Ino -> Node] /\ Live \subseteq Ino
    BY TreeIsTyped DEF Sound, TypeOK
  <2> DEFINE file == [inode EXCEPT ![n] = node]
  <2>2. inode' = [file EXCEPT ![c] = Grown]
    BY DEF Creates
  <2>3. /\ file \in [Ino -> Node] /\ file[n] = node
        /\ \A i \in Live : file[i] = inode[i]
    BY <1>1, <1>3, <2>1
  <2> HIDE DEF c, n, file
  <2> QED
    BY <1>1, <1>6, <1>11, <2>1, <2>2, <2>3
<1>13. ipwd' = Grown
  BY <1>12 DEF Creates
<1>14. cmd' \in Commands /\ cmd'.at = "prompt" /\ cmd'.back = Grown
  <2>1. cmd' = [at |-> "prompt", rest |-> <<>>, endless |-> FALSE, new |-> 0,
                back |-> Grown]
    BY <1>13 DEF Prompt, Idle, Creates
  <2>2. 0 \in Ino
    BY DirectoryAssumption DEF Ino
  <2> QED
    BY <1>11, <2>1, <2>2 DEF Commands, Places
<1>15. Live' = Live \union {n}
  BY <1>0, <1>1 DEF Live
<1>16. Members' = Members \union {n} /\ Members = Live
  BY <1>0, <1>14, <1>15 DEF Members, Pending
<1>17. Folders' = Folders
  BY <1>1, <1>3, <1>4, <1>5, <1>11, <1>12, <1>16 DEF Folders, IsFolder
<1>18. Complete' = Complete
  BY <1>0, <1>14, <1>17 DEF Complete, Dotless
<1>19. \A i \in Live : inode'[i].i_zone = inode[i].i_zone
  BY <1>4, <1>11, <1>12
<1>20. TreeNow' /\ Gains(name, n, {})
  <2>1. ASSUME NEW d \in Folders, NEW m \in SlotSets[d] \union {1, 2}
        PROVE  Sectors'[d][m] = Sectors[d][m]
    <3>1. /\ Sectors'[d] = data'[inode[d].i_zone]
          /\ Sectors[d] = data[inode[d].i_zone] /\ d \in Live
      BY <1>17, <1>19, TreeIsTyped DEF Sectors, SectorOf
    <3>2. CASE d = c
      <4>1. m \in 1 .. ipwd.i_size
        BY <1>5, <1>7, <3>2
      <4> QED
        BY <1>4, <1>10, <3>1, <3>2, <4>1
    <3>3. CASE d # c
      <4>1. inode[d].i_zone \in Block \ {ipwd.i_zone}
        BY <1>4, <1>6, <3>1, <3>3, ZoneFacts
      <4> QED
        BY <1>10, <3>1, <4>1
    <3> QED
      BY <3>2, <3>3
  <2>2. SlotSets'[c] = SlotSets[c] \union {k}
    BY <1>5, <1>7, <1>11, <1>12, <1>14, <1>17 DEF SlotSets, SlotsOf
  <2>3. \A d \in Folders \ {c} : SlotSets'[d] = SlotSets[d]
    BY <1>4, <1>12, <1>14, <1>17, TreeIsTyped DEF SlotSets, SlotsOf
  <2>4. TreeOK(Members, Folders, Complete, Sectors, SlotSets)
    BY DEF Sound, TreeNow
  <2>5. Sectors'[c][k] = e
    BY <1>4, <1>5, <1>10, <1>17, <1>19, <1>6 DEF Sectors, SectorOf
  <2>6. Sectors'[c][k].inode = n /\ Sectors'[c][k].name = name
    BY <2>5
  <2>7. \A m \in SlotSets[c] : Sectors[c][m].name = Sectors'[c][k].name =>
                                 Sectors[c][m].name \in Exact
    BY <1>5, <1>9, <2>6 DEF NotThere
  <2>8. k \in 3 .. DIR_ENTRIES /\ k \notin SlotSets[c] /\ c \in Folders
    BY <1>5, <1>7
  <2>9. n \notin Members /\ n \notin Folders
    BY <1>1, TreeIsTyped
  <2>10. Grows(Folders, n, c, k, Folders, Sectors, SlotSets, Sectors', SlotSets')
    BY <1>0, <2>1, <2>2, <2>3, <2>6, <2>7, <2>9 DEF Grows
  <2>11. Named(c, Sectors'[c][k]) = Named(c, [inode |-> n, name |-> name])
    BY <2>6 DEF Named
  <2> HIDE DEF n, k, c
  <2>12. TreeOK(Members \union {n}, Folders, Complete, Sectors', SlotSets')
    BY <2>4, <2>8, <2>9, <2>10, TreeGrown
  <2>13. NamesOf(Folders, Sectors', SlotSets') =
           NamesOf(Folders, Sectors, SlotSets) \union {Named(c, Sectors'[c][k])}
    BY <2>8, <2>9, <2>10, NamesGrown
  <2>14. AllNames' = AllNames \union {Named(c, [inode |-> n, name |-> name])}
    BY <1>17, <2>11, <2>13, AllNamesFacts
  <2>15. \A m \in SlotSets[c] : Sectors[c][m].name = name =>
                                  Sectors[c][m].name \in Exact
    BY <2>6, <2>7
  <2>16. Gains(name, n, {})
    BY <1>0, <1>1, <1>17, <2>8, <2>9, <2>14, <2>15 DEF Gains, c
  <2> QED
    BY <1>16, <1>17, <1>18, <2>12, <2>16 DEF TreeNow
<1>21. NodesOK'
  <2>1. NodeOK(c, Grown) /\ NodeOK(n, node)
    BY <1>1, <1>3, <1>6, <1>7, <1>11, DirectoryAssumption
    DEF NodeOK, DIR_FILE, NORMAL_FILE, FileEntries
  <2> QED
    BY <1>12, <1>15, <2>1 DEF Sound, NodesOK
<1>22. TypeOK'
  <2>1. inode_map' \subseteq Ino \ {LastIno + 1} /\ free' \subseteq Block
    BY <1>0, <1>1, <1>2 DEF Sound, TypeOK
  <2> QED
    BY <1>0, <1>10, <1>11, <1>12, <1>13, <1>14, <2>1 DEF Sound, TypeOK, Commands
<1>23. NumbersOK'
  BY <1>0 DEF Sound, NumbersOK
<1>24. Blocks'
  <2>1. \A i \in Live : Zones'[i] = Zones[i]
    BY <1>15, <1>19 DEF Zones
  <2>2. Zones'[n] = b
    BY <1>3, <1>12, <1>15 DEF Zones
  <2>3. ZonesOK(Live, Zones, free, lost.blk)
    BY DEF Sound, Blocks
  <2>4. ZonesOK(Live \union {n}, Zones', free \ {b}, lost.blk)
    BY <1>1, <1>2, <2>1, <2>2, <2>3, ZoneTaken
  <2> QED
    BY <1>0, <1>15, <2>4 DEF Blocks
<1>25. CwdOK'
  BY <1>4, <1>11, <1>12, <1>13, <1>14, <1>16, <1>18 DEF CwdOK
<1>26. UnderWay'
  BY <1>14 DEF UnderWay
<1> QED
  BY <1>20, <1>21, <1>22, <1>23, <1>24, <1>25, <1>26 DEF Sound

LEMMA TouchStep ==
  ASSUME Sound, NEW name \in Name, touch(name), harm' = {}
  PROVE  Sound' /\ (NamesStay \/ Gains(name, new_inode, {}))
<1> DEFINE n == new_inode
           node == Taken(NORMAL_FILE, FileEntries)
           file == [inode EXCEPT ![n] = node]
<1>1. /\ cmd.at = "idle" /\ free # {} /\ n # LastIno + 1
      /\ inode_map' = inode_map \union {n} /\ free' = free \ {Min(free)}
  BY DEF touch, Ready, Takes, OutOfNumbers
<1>2. /\ ipwd.i_ino \in Complete /\ ipwd.i_ino \in Members
      /\ ipwd = inode[ipwd.i_ino] /\ cmd.at \in Calm
  BY <1>1, IdleFacts
<1>3. node \in Node
  BY <1>1, TakenFacts, DirectoryAssumption DEF FileEntries
<1>4. file[ipwd.i_ino] = ipwd
  <2>1. n \notin Live /\ ipwd.i_ino \in Live /\ ipwd.i_ino \in Ino
    BY <1>1, <1>2, NewFacts, TreeIsTyped
  <2> QED
    BY <1>2, <2>1 DEF Sound, TypeOK
<1>5. running \in BOOLEAN
  BY DEF Sound, TypeOK
<1>6. CASE /\ get_dir(name) # NOWHERE /\ inode' = file
           /\ ipwd' = file[ipwd.i_ino] /\ cmd' = Prompt(ipwd') /\ Drops
           /\ data' = data /\ running' = running
  <2>1. ipwd' = ipwd
    BY <1>4, <1>6
  <2>2. cmd' = [at |-> "prompt", rest |-> <<>>, endless |-> FALSE, new |-> 0,
                back |-> ipwd]
    BY <1>6, <2>1 DEF Prompt, Idle
  <2>3. 0 \in Ino /\ ipwd \in Node
    BY DirectoryAssumption DEF Ino, Sound, TypeOK
  <2>4. cmd' \in Commands /\ cmd'.at = "prompt" /\ cmd'.back = ipwd
    BY <2>2, <2>3 DEF Commands, Places
  <2>5. running' \in BOOLEAN
    BY <1>5, <1>6, Zenon
  <2> QED
    BY <1>1, <1>2, <1>3, <1>6, <2>1, <2>4, <2>5, DropStep DEF Calm
<1>7. CASE /\ inode' = file /\ running' = FALSE /\ Drops
           /\ data' = data /\ ipwd' = ipwd /\ cmd' = cmd
  <2>1. cmd' \in Commands /\ cmd'.at = "idle" /\ cmd'.back.i_ino \in Complete
    BY <1>1, <1>7 DEF Commands, Sound, TypeOK, CwdOK
  <2> QED
    BY <1>1, <1>2, <1>3, <1>7, <2>1, DropStep DEF Calm
<1>8. CASE /\ get_dir(name) = NOWHERE /\ name \notin TooLong
           /\ ipwd.i_size < DIR_ENTRIES /\ data' = Appended(name, n)
           /\ inode' = [file EXCEPT ![ipwd.i_ino] = Grown]
           /\ ipwd' = inode'[ipwd.i_ino] /\ cmd' = Prompt(ipwd')
           /\ running' = running /\ lost' = lost
  <2>1. Creates(name)
    BY <1>1, <1>8 DEF Creates
  <2> QED
    BY <2>1, TouchFits
<1> QED
  BY <1>6, <1>7, <1>8 DEF touch

-----------------------------------------------------------------------------
(* A power failure between any two steps.                                  *)

LEMMA PowerCutStep ==
  ASSUME Sound, PowerCut, harm' = {}
  PROVE  Sound' /\ NamesStay
<1> DEFINE n == cmd.new
<1>1. /\ ipwd' = inode[0] /\ cmd' = Idle /\ running' = TRUE
      /\ inode' = inode /\ inode_map' = inode_map /\ data' = data /\ free' = free
  BY DEF PowerCut, Restarts, disk
<1>2. cmd' \in Commands /\ cmd'.at = "idle" /\ cmd'.back.i_ino = 0
  <2>1. 0 \in Ino /\ Cleared \in Node /\ Cleared.i_ino = 0
    BY DirectoryAssumption DEF Ino, Cleared, Node, FileEntries
  <2>2. cmd' = [at |-> "idle", rest |-> <<>>, endless |-> FALSE, new |-> 0,
                back |-> Cleared]
    BY <1>1 DEF Idle
  <2> QED
    BY <2>1, <2>2 DEF Commands, Places
<1>3. 0 \in Complete /\ 0 \in Members
  BY TreeIsTyped
<1>4. cmd.at # "dots" /\ cmd.at \notin Removing
  BY DEF PowerCut, Removing
<1>5. CASE cmd.at \notin {"entry", "size"}
  <2>1. cmd.at \in Calm
    BY <1>4, <1>5 DEF Sound, TypeOK, Places, Calm, Removing
  <2>2. lost' = lost
    BY <1>5 DEF PowerCut
  <2> QED
    BY <1>1, <1>2, <1>3, <2>1, <2>2, WalkTo DEF disk, Calm
<1>6. CASE cmd.at \in {"entry", "size"}
  <2>1. n \in Live
    BY <1>6 DEF Sound, UnderWay, NewDir
  <2>2. lost' = [ino |-> lost.ino \union {n}, blk |-> lost.blk \union {inode[n].i_zone}]
    BY <1>6 DEF PowerCut
  <2>3. lost'.ino = lost.ino \union {n} /\ lost'.blk = lost.blk \union {inode[n].i_zone}
    BY <2>2
  <2>4. Live' = Live \ {n} /\ Members' = Members /\ Members = Live \ {n}
    BY <1>1, <1>2, <1>6, <2>3 DEF Live, Members, Pending
  <2>5. Folders' = Folders
    BY <1>1, <2>4 DEF Folders, IsFolder
  <2>6. Complete' = Complete
    BY <1>2, <1>6, <2>5 DEF Complete, Dotless
  <2>7. Sectors' = Sectors
    BY <1>1, <2>5 DEF Sectors, SectorOf
  <2>8. SlotSets' = SlotSets
    BY <1>1, <1>2, <1>6, <2>5 DEF SlotSets, SlotsOf
  <2>9. TreeNow'
    BY <2>4, <2>5, <2>6, <2>7, <2>8 DEF Sound, TreeNow
  <2>10. TypeOK'
    <3>1. n \in Ino /\ inode[n].i_zone \in Block
      BY <2>1, TreeIsTyped, ZoneFacts
    <3>2. /\ lost.ino \union {n} \in SUBSET Ino
          /\ lost.blk \union {inode[n].i_zone} \in SUBSET Block
      BY <3>1 DEF Sound, TypeOK
    <3>3. lost' \in [ino : SUBSET Ino, blk : SUBSET Block]
      BY <2>2, <3>2
    <3>4. ipwd' \in Node
      BY <1>1, <1>3, TreeIsTyped
    <3> QED
      BY <1>1, <1>2, <3>3, <3>4 DEF Sound, TypeOK, Commands
  <2>11. NumbersOK' /\ NodesOK'
    BY <1>1, <2>1, <2>3, <2>4 DEF Sound, NumbersOK, NodesOK, Live
  <2>12. Blocks'
    <3>1. \A i \in Live \ {n} : Zones'[i] = Zones[i]
      BY <1>1, <2>4 DEF Zones
    <3>2. Zones[n] = inode[n].i_zone
      BY <2>1 DEF Zones
    <3>3. ZonesOK(Live, Zones, free, lost.blk)
      BY DEF Sound, Blocks
    <3> HIDE DEF n
    <3>4. ZonesOK(Live \ {n}, Zones', free, lost.blk \union {Zones[n]})
      BY <2>1, <3>1, <3>3, ZoneLost
    <3> QED
      BY <1>1, <2>3, <2>4, <3>2, <3>4 DEF Blocks
  <2>13. CwdOK'
    BY <1>1, <1>2, <1>3, <2>4, <2>6, TreeIsTyped DEF CwdOK
  <2>14. UnderWay'
    BY <1>2 DEF UnderWay
  <2>15. NamesStay
    BY <2>5, <2>7, <2>8, AllNamesFacts DEF NamesStay
  <2> QED
    BY <2>9, <2>10, <2>11, <2>12, <2>13, <2>14, <2>15 DEF Sound
<1> QED
  BY <1>5, <1>6

(* A power failure in a command that has changed no entry that counts.     *)
LEMMA CutKeeps ==
  ASSUME Sound, cmd.at \in Calm, Restarts, harm' = {}, SectorsKept,
         inode_map' \ lost'.ino = Live, \A i \in Live : inode'[i] = inode[i],
         inode' \in [Ino -> Node], inode_map' \subseteq Ino \ {LastIno + 1},
         data' \in [{0} \union Block -> [Slot -> dir_entry]], free' \subseteq Block,
         lost' \in [ino : SUBSET Ino, blk : SUBSET Block],
         NumbersOK', ZonesOK(Live, Zones, free', lost'.blk)
  PROVE  Sound' /\ NamesStay
<1>1. ipwd' = inode'[0] /\ cmd' = Idle /\ running' = TRUE
  BY DEF Restarts
<1>2. cmd' \in Commands /\ cmd'.at = "idle" /\ cmd'.back.i_ino = 0 /\ cmd'.at \in Calm
  BY <1>1, IdleIsTyped DEF Idle, Cleared, Calm
<1>3. 0 \in Complete /\ 0 \in Members /\ 0 \in Live /\ 0 \in Ino
  BY TreeIsTyped
<1>4. ipwd' \in Node /\ ipwd'.i_ino = 0 /\ ipwd' = inode'[0]
  BY <1>1, <1>3, TreeIsTyped
<1>5. /\ Live' = Live /\ Members' = Members /\ Complete' = Complete
      /\ NodesOK' /\ TreeNow' /\ UnderWay' /\ NamesStay
  BY <1>2, CalmStep
<1>6. Blocks'
  <2>1. Zones' = Zones
    BY <1>5 DEF Zones
  <2> QED
    BY <1>5, <2>1 DEF Blocks
<1>7. TypeOK'
  BY <1>1, <1>2, <1>4 DEF Sound, TypeOK, Commands
<1>8. CwdOK'
  BY <1>2, <1>3, <1>4, <1>5 DEF CwdOK
<1> QED
  BY <1>5, <1>6, <1>7, <1>8 DEF Sound

LEMMA DroppedCut ==
  ASSUME Sound, cmd.at \in Calm, Restarts, harm' = {}, SectorsKept,
         data' \in [{0} \union Block -> [Slot -> dir_entry]],
         inode_map' = inode_map \union ({new_inode} \ {LastIno + 1}),
         \/ free' = free /\ lost' = [lost EXCEPT !.ino = @ \union {new_inode}]
         \/ free # {} /\ free' = free \ {Min(free)} /\ Drops,
         inode' = inode \/ \E node \in Node : inode' = [inode EXCEPT ![new_inode] = node]
  PROVE  Sound' /\ NamesStay
<1> DEFINE n == new_inode
<1>1. n \in Ino /\ {n} \ {LastIno + 1} \subseteq Ino \ {LastIno + 1} /\ n \notin Live
  BY NewIsTyped, NewFacts, TreeIsTyped
<1>2. PICK X \in SUBSET Block :
        /\ lost' = [ino |-> lost.ino \union {n}, blk |-> lost.blk \union X]
        /\ ZonesOK(Live, Zones, free', lost.blk \union X)
        /\ free' \subseteq Block
  <2>1. ZonesOK(Live, Zones, free, lost.blk) /\ free \subseteq Block
    BY DEF Sound, Blocks, TypeOK
  <2>2. CASE free' = free /\ lost' = [lost EXCEPT !.ino = @ \union {n}]
    <3>1. lost' = [ino |-> lost.ino \union {n}, blk |-> lost.blk \union {}]
      BY <2>2 DEF Sound, TypeOK
    <3>2. ZonesOK(Live, Zones, free', lost.blk \union {})
      BY <2>1, <2>2
    <3> WITNESS {} \in SUBSET Block
    <3> QED
      BY <2>1, <2>2, <3>1, <3>2
  <2>3. CASE free # {} /\ free' = free \ {Min(free)} /\ Drops
    <3>1. Min(free) \in free /\ Min(free) \in Block
      BY <2>3, FreeFacts
    <3>2. ZonesOK(Live, Zones, free \ {Min(free)}, lost.blk \union {Min(free)})
      BY <2>1, <3>1, ZoneDropped
    <3> USE <3>1
    <3> WITNESS {Min(free)} \in SUBSET Block
    <3> QED
      BY <2>1, <2>3, <3>1, <3>2 DEF Drops
  <2> QED
    BY <2>2, <2>3
<1>3. lost'.ino = lost.ino \union {n} /\ lost'.blk = lost.blk \union X
  BY <1>2
<1>4. lost' \in [ino : SUBSET Ino, blk : SUBSET Block]
  <2>1. lost.ino \union {n} \in SUBSET Ino /\ lost.blk \union X \in SUBSET Block
    BY <1>1 DEF Sound, TypeOK
  <2> QED
    BY <1>2, <2>1
<1>5. inode_map' \ lost'.ino = Live
  BY <1>1, <1>3 DEF Live
<1>6. \A i \in Live : inode'[i] = inode[i]
  BY <1>1, TreeIsTyped DEF Sound, TypeOK
<1>7. inode' \in [Ino -> Node] /\ inode_map' \subseteq Ino \ {LastIno + 1}
  BY <1>1 DEF Sound, TypeOK
<1>8. NumbersOK'
  BY <1>3 DEF Sound, NumbersOK
<1> HIDE DEF n
<1> QED
  BY <1>2, <1>3, <1>4, <1>5, <1>6, <1>7, <1>8, CutKeeps

LEMMA MadeIsTyped ==
  ASSUME Sound, free # {}
  PROVE  Made \in Node
BY TakenFacts, DirectoryAssumption DEF Made, FileEntries

LEMMA BitCutStep ==
  ASSUME Sound, BitCut, harm' = {}
  PROVE  Sound' /\ NamesStay
<1>1. cmd.at \in Calm /\ Restarts
  BY DEF BitCut, Calm
<1>2. SectorsKept /\ data' \in [{0} \union Block -> [Slot -> dir_entry]]
  BY DEF BitCut, SectorsKept, Sound, TypeOK
<1>3. /\ inode_map' = inode_map \union ({new_inode} \ {LastIno + 1})
      /\ free' = free /\ lost' = [lost EXCEPT !.ino = @ \union {new_inode}]
      /\ inode' = inode
  BY DEF BitCut
<1> QED
  BY <1>1, <1>2, <1>3, DroppedCut

LEMMA TakeCutStep ==
  ASSUME Sound, TakeCut, harm' = {}
  PROVE  Sound' /\ NamesStay
<1>1. cmd.at \in Calm /\ Restarts /\ Drops /\ free # {}
  BY DEF TakeCut, Calm, Takes
<1>2. SectorsKept /\ data' \in [{0} \union Block -> [Slot -> dir_entry]]
  BY DEF TakeCut, SectorsKept, Sound, TypeOK
<1>3. /\ inode_map' = inode_map \union ({new_inode} \ {LastIno + 1})
      /\ free' = free \ {Min(free)}
  BY DEF TakeCut, Takes
<1>4. inode' = inode \/ \E node \in Node : inode' = [inode EXCEPT ![new_inode] = node]
  BY <1>1, MadeIsTyped DEF TakeCut
<1> QED
  BY <1>1, <1>2, <1>3, <1>4, DroppedCut

LEMMA AppendKeeps ==
  ASSUME Sound, cmd.at = "idle", NEW name \in Name, ipwd.i_size < DIR_ENTRIES,
         data' = Appended(name, new_inode)
  PROVE  SectorsKept /\ data' \in [{0} \union Block -> [Slot -> dir_entry]]
<1> DEFINE c == ipwd.i_ino
           k == ipwd.i_size + 1
           e == [inode |-> new_inode, name |-> name]
<1>1. /\ c \in Complete /\ ipwd = inode[c] /\ cmd.at \notin Removing /\ c \in Live
  BY IdleFacts, TreeIsTyped
<1>2. c \in Folders /\ SlotSets[c] = 3 .. ipwd.i_size /\ ipwd.i_size \in 2 .. DIR_ENTRIES
  BY <1>1, CwdFacts
<1>3. /\ k \in Slot /\ k \notin SlotSets[c] \union {1, 2}
  BY <1>2, DirectoryAssumption DEF Slot
<1>4. ipwd.i_zone \in Block
  BY <1>1, ZoneFacts
<1>5. e \in dir_entry
  BY NewIsTyped DEF dir_entry
<1>6. /\ data' = [data EXCEPT ![ipwd.i_zone][k] = e]
      /\ data \in [{0} \union Block -> [Slot -> dir_entry]]
  BY DEF Appended, Sound, TypeOK
<1>7. ASSUME NEW d \in Folders, NEW m \in SlotSets[d] \union {1, 2}
      PROVE  data'[inode[d].i_zone][m] = data[inode[d].i_zone][m]
  <2>1. d \in Live /\ inode[d].i_zone \in Block
    BY TreeIsTyped, ZoneFacts
  <2>2. CASE d = c
    BY <1>1, <1>3, <1>4, <1>6, <2>2
  <2>3. CASE d # c
    <3>1. inode[d].i_zone # ipwd.i_zone
      BY <1>1, <2>1, <2>3, ZoneFacts
    <3> QED
      BY <1>4, <1>6, <2>1, <3>1
  <2> QED
    BY <2>2, <2>3
<1> HIDE DEF e, k
<1> QED
  BY <1>3, <1>4, <1>5, <1>6, <1>7 DEF SectorsKept

LEMMA TouchCutStep ==
  ASSUME Sound, NEW name \in Name, TouchCut(name), harm' = {}
  PROVE  Sound' /\ NamesStay
<1>1. cmd.at = "idle" /\ cmd.at \in Calm /\ Restarts /\ Drops /\ free # {}
  BY DEF TouchCut, Calm, Takes, Ready
<1>2. SectorsKept /\ data' \in [{0} \union Block -> [Slot -> dir_entry]]
  BY <1>1, AppendKeeps DEF TouchCut
<1>3. /\ inode_map' = inode_map \union ({new_inode} \ {LastIno + 1})
      /\ free' = free \ {Min(free)}
  BY DEF TouchCut, Takes
<1>4. \E node \in Node : inode' = [inode EXCEPT ![new_inode] = node]
  BY <1>1, MadeIsTyped DEF TouchCut
<1> QED
  BY <1>1, <1>2, <1>3, <1>4, DroppedCut

LEMMA RmCutStep ==
  ASSUME Sound, NEW name \in Name \union {".", ".."}, RmCut(name), harm' = {}
  PROVE  Sound' /\ NamesStay
<1> DEFINE nr == get_dir(name)
           node == inode[nr]
<1>1. /\ cmd.at = "idle" /\ nr \in Live /\ nr \in Members \ Folders
  BY RmFacts DEF RmCut
<1>2. /\ UNCHANGED <<inode, free, inode_map, lost>> /\ Restarts /\ cmd.at \in Calm
  BY <1>1 DEF RmCut, Calm
<1>3. PICK s \in [Slot -> dir_entry] : data' = [data EXCEPT ![node.i_zone] = s]
  BY WipedFacts DEF RmCut
<1>4. /\ data' \in [{0} \union Block -> [Slot -> dir_entry]]
      /\ \A d \in Folders : data'[inode[d].i_zone] = data[inode[d].i_zone]
  <2>1. node.i_zone \in Block
    BY <1>1, ZoneFacts
  <2>2. \A d \in Folders : inode[d].i_zone \in Block /\ inode[d].i_zone # node.i_zone
    BY <1>1, ZoneFacts, TreeIsTyped
  <2> HIDE DEF node
  <2> QED
    BY <1>3, <2>1, <2>2 DEF Sound, TypeOK
<1>5. SectorsKept
  BY <1>4 DEF SectorsKept
<1>6. /\ inode_map' \ lost'.ino = Live /\ \A i \in Live : inode'[i] = inode[i]
      /\ inode' \in [Ino -> Node] /\ inode_map' \subseteq Ino \ {LastIno + 1}
      /\ free' \subseteq Block /\ lost' \in [ino : SUBSET Ino, blk : SUBSET Block]
      /\ NumbersOK' /\ ZonesOK(Live, Zones, free', lost'.blk)
  BY <1>2 DEF Live, Sound, TypeOK, NumbersOK, Blocks
<1> QED
  BY <1>2, <1>4, <1>5, <1>6, CutKeeps

LEMMA CutStep ==
  ASSUME Sound, Cut, harm' = {}
  PROVE  Sound' /\ NamesStay
<1>1. CASE PowerCut
  BY <1>1, PowerCutStep
<1>2. CASE BitCut \/ TakeCut
  BY <1>2, BitCutStep, TakeCutStep
<1>3. CASE \E name \in Name : TouchCut(name)
  BY <1>3, TouchCutStep
<1>4. CASE \E name \in Name \union {".", ".."} : RmCut(name) \/ RmdirCut(name)
  BY <1>4, RmCutStep DEF RmdirCut
<1> QED
  BY <1>1, <1>2, <1>3, <1>4 DEF Cut

-----------------------------------------------------------------------------
(* The theorems.                                                           *)

LEMMA StepSound ==
  ASSUME Sound, Next, harm' = {}
  PROVE  Sound'
<1>1. CASE \E line \in Lines : mkdir_service(line) \/ cd_service(line)
  BY <1>1, StartMkdir, StartCd
<1>2. CASE \E name \in Name \union {".", ".."} :
             RmdirRefused(name) \/ RmdirHalts(name) \/ rmdir(name) \/ rm(name)
  BY <1>2, RmdirRefusedStep, RmdirHaltsStep, RmdirStep, RmStep
<1>3. CASE \E name \in Name : touch(name)
  BY <1>3, TouchStep
<1>4. CASE CdUp \/ ToRoot \/ ls
  BY <1>4, CdUpStep, ToRootStep, LsStep
<1>5. CASE MkdirTake
  BY <1>5, MkdirTakeStep
<1>6. CASE MkdirInFile
  BY <1>6, MkdirInFileStep
<1>7. CASE MkdirNoBlock
  BY <1>7, MkdirNoBlockStep
<1>8. CASE MkdirEntry
  BY <1>8, MkdirEntryStep
<1>9. CASE MkdirSize
  BY <1>9, MkdirSizeStep
<1>10. CASE MkdirDots
  BY <1>10, MkdirDotsStep
<1>11. CASE MkdirEnter
  BY <1>11, MkdirEnterStep
<1>12. CASE CdStep
  BY <1>12, CdStepStep
<1>13. CASE Unlink \/ Shrink
  BY <1>13, UnlinkStep, ShrinkStep
<1>14. CASE PromptUp
  BY <1>14, PromptUpStep
<1>15. CASE PromptDone
  BY <1>15, PromptDoneStep
<1>16. CASE Cut
  BY <1>16, CutStep
<1> QED
  BY <1>1, <1>2, <1>3, <1>4, <1>5, <1>6, <1>7, <1>8, <1>9, <1>10, <1>11, <1>12,
     <1>13, <1>14, <1>15, <1>16 DEF Next, Command, Step

(* The invariant is inductive: as long as no command has done what none    *)
(* repairs, a step keeps the disk and the working directory sound.         *)
THEOREM DirectoryInvariance == Spec => []DirectoryInv
<1>1. Init => DirectoryInv
  BY InitSound DEF DirectoryInv
<1>2. DirectoryInv /\ [Next]_vars => DirectoryInv'
  <2> SUFFICES ASSUME DirectoryInv, [Next]_vars, harm' = {}
               PROVE  Sound'
    BY DEF DirectoryInv
  <2>1. CASE Next
    <3>1. harm = {}
      BY <2>1, HarmStays
    <3> QED
      BY <2>1, <3>1, StepSound DEF DirectoryInv
  <2>2. CASE UNCHANGED vars
    <3>1. Sound /\ UNCHANGED <<inode, inode_map, data, free, ipwd, cmd, running,
                               lost, harm>>
      BY <2>2 DEF DirectoryInv, vars, disk
    <3>2. TypeOK' /\ NumbersOK' /\ CwdOK' /\ UnderWay' /\ NodesOK' /\ Blocks' /\ TreeNow'
      <4>1. TypeOK'
        BY <3>1 DEF Sound, TypeOK
      <4>2. /\ Live' = Live /\ Members' = Members /\ Folders' = Folders
            /\ Complete' = Complete
        BY <3>1 DEF Live, Members, Pending, Folders, IsFolder, Complete, Dotless
      <4>3. NumbersOK' /\ NodesOK'
        BY <3>1, <4>2 DEF Sound, NumbersOK, NodesOK
      <4>4. Cwd' = Cwd /\ Hole' = Hole
        BY <3>1 DEF Cwd, Hole
      <4>5. CwdOK'
        BY <3>1, <4>2 DEF Sound, CwdOK
      <4>6. UnderWay'
        BY <3>1, <4>2, <4>4 DEF Sound, UnderWay, NewDir, NotThere, ThisName
      <4>7. Blocks'
        BY <3>1, <4>2 DEF Sound, Blocks, Zones
      <4>8. Sectors' = Sectors /\ SlotSets' = SlotSets
        BY <3>1, <4>2, <4>4 DEF Sectors, SectorOf, SlotSets, SlotsOf
      <4>9. TreeNow'
        BY <3>1, <4>2, <4>8 DEF Sound, TreeNow
      <4> QED
        BY <4>1, <4>3, <4>5, <4>6, <4>7, <4>9
    <3> QED
      BY <3>2 DEF Sound
  <2> QED
    BY <2>1, <2>2
<1> QED
  BY <1>1, <1>2, PTL DEF Spec

-----------------------------------------------------------------------------
(* What something irreparable leaves is still of the right type.           *)

LEMMA LossIsTyped ==
  ASSUME Sound, NEW I \in SUBSET Ino, NEW B \in SUBSET Block
  PROVE  [ino |-> lost.ino \union I, blk |-> lost.blk \union B]
           \in [ino : SUBSET Ino, blk : SUBSET Block]
BY DEF Sound, TypeOK

LEMMA MkdirTakeTyped ==
  ASSUME Sound, harm = {}, MkdirTake
  PROVE  TypeOK'
<1>1. /\ free # {} /\ data' = data /\ ipwd' = ipwd
      /\ inode_map' = inode_map \union ({new_inode} \ {LastIno + 1})
      /\ free' = free \ {Min(free)}
      /\ inode' = [inode EXCEPT ![new_inode] = Taken(DIR_FILE, 2)]
  BY DEF MkdirTake, Takes
<1>2. Taken(DIR_FILE, 2) \in Node /\ Min(free) \in Block
  BY <1>1, TakenFacts, FreeFacts, DirectoryAssumption DEF FileEntries
<1>3. inode_map' \subseteq Ino \ {LastIno + 1} /\ inode' \in [Ino -> Node]
  BY <1>1, <1>2, NewIsTyped DEF Sound, TypeOK
<1>4. lost' \in [ino : SUBSET Ino, blk : SUBSET Block]
  <2>1. CASE Drops
    BY <1>2, <2>1, NewIsTyped, LossIsTyped DEF Drops
  <2>2. CASE lost' = lost
    BY <2>2 DEF Sound, TypeOK
  <2> QED
    BY <2>1, <2>2 DEF MkdirTake
<1>5. cmd' \in Commands
  <2>1. \/ cmd' = Becomes("enter") \/ cmd' = cmd
        \/ cmd' = [cmd EXCEPT !.at = "entry", !.new = new_inode]
    BY DEF MkdirTake
  <2> QED
    BY <2>1, NewIsTyped DEF Becomes, Commands, Places, Sound, TypeOK
<1>6. running' \in BOOLEAN
  BY Zenon DEF MkdirTake, Sound, TypeOK
<1>7. harm' \subseteq {"numbers", "beyond", "dotdot"}
  BY DEF MkdirTake, OutOfNumbers
<1> QED
  BY <1>1, <1>3, <1>4, <1>5, <1>6, <1>7 DEF Sound, TypeOK, Commands

LEMMA MkdirEnterTyped ==
  ASSUME Sound, harm = {}, MkdirEnter, harm' # {}
  PROVE  TypeOK'
<1>1. /\ cmd.at = "enter" /\ ipwd.i_ino \in Complete /\ ipwd = inode[ipwd.i_ino]
  BY DEF MkdirEnter, Sound, CwdOK
<1>2. inode' = inode
  BY <1>1 DEF MkdirEnter, Sound, TypeOK
<1>3. /\ ~Ended /\ ipwd' = Cleared /\ harm' = {"nowhere"}
      /\ cmd' = [Becomes("mkdir") EXCEPT !.rest = Rest]
  BY DEF MkdirEnter
<1>4. cmd' \in Commands
  BY <1>3, RestFacts DEF Commands, Becomes, Sound, TypeOK, Places
<1>5. running' = running
  BY DEF MkdirEnter
<1> QED
  BY <1>2, <1>3, <1>4, <1>5, IdleIsTyped DEF MkdirEnter, Sound, TypeOK, Commands

LEMMA RestartsTyped ==
  ASSUME Restarts, inode' \in [Ino -> Node]
  PROVE  ipwd' \in Node /\ cmd' \in Commands /\ running' \in BOOLEAN
<1>1. 0 \in Ino
  BY DirectoryAssumption DEF Ino
<1> QED
  BY <1>1, IdleIsTyped DEF Restarts

LEMMA GetDirTyped ==
  ASSUME Sound, cmd.at = "idle", NEW name, get_dir(name) # NOWHERE
  PROVE  /\ get_dir(name) \in Ino /\ inode[get_dir(name)].i_zone \in Block
         /\ inode[get_dir(name)].i_ino = get_dir(name)
         /\ data[inode[get_dir(name)].i_zone] \in [Slot -> dir_entry]
<1>1. get_dir(name) \in Live
  BY IdleFacts, GetDirInTree, TreeIsTyped
<1> QED
  BY <1>1, TreeIsTyped, ZoneFacts, SectorIsTyped

LEMMA RmdirTyped ==
  ASSUME Sound, harm = {}, NEW name \in Name \union {".", ".."},
         rmdir(name) \/ RmdirCut(name)
  PROVE  TypeOK'
<1> DEFINE nr == get_dir(name)
           node == inode[nr]
<1>1. cmd.at = "idle" /\ nr # NOWHERE
  BY DEF rmdir, RmdirCut, rmdirOf, Ready
<1>2. /\ nr \in Ino /\ node.i_zone \in Block /\ node.i_ino = nr
      /\ data[node.i_zone] \in [Slot -> dir_entry]
  BY <1>1, GetDirTyped
<1>3. PICK s \in [Slot -> dir_entry] : data' = [data EXCEPT ![node.i_zone] = s]
  BY <1>2, GivenFacts DEF rmdir, RmdirCut
<1>4. data' \in [{0} \union Block -> [Slot -> dir_entry]]
  BY <1>3 DEF Sound, TypeOK
<1>5. /\ inode_map' = inode_map \ {nr} /\ lost' = lost
      /\ free' = free \/ free' = free \union {node.i_zone}
      /\ harm' \subseteq {"self", "halfgone"}
      /\ inode' = inode \/ inode' = [inode EXCEPT ![nr] = Cleared]
  BY <1>2 DEF rmdir, RmdirCut, Freed, Self
<1>6. inode' \in [Ino -> Node] /\ free' \subseteq Block
  BY <1>2, <1>5, IdleIsTyped DEF Sound, TypeOK
<1>7. ipwd' \in Node /\ cmd' \in Commands /\ running' \in BOOLEAN
  <2>1. CASE rmdir(name)
    <3>1. ipwd' = ipwd /\ cmd' = Start("unlink", OneName(name)) /\ running' = running
      BY <2>1 DEF rmdir
    <3>2. running' \in BOOLEAN
      BY <3>1, Zenon DEF Sound, TypeOK
    <3> QED
      BY <3>1, <3>2, OneNameIsTyped DEF Sound, TypeOK
  <2>2. CASE RmdirCut(name)
    BY <1>6, <2>2, RestartsTyped DEF RmdirCut
  <2> QED
    BY <2>1, <2>2
<1> QED
  BY <1>4, <1>5, <1>6, <1>7 DEF Sound, TypeOK, Commands

LEMMA RmTyped ==
  ASSUME Sound, harm = {}, NEW name \in Name \union {".", ".."},
         rm(name) \/ RmCut(name)
  PROVE  TypeOK'
<1> DEFINE nr == get_dir(name)
           node == inode[nr]
<1>1. cmd.at = "idle" /\ nr # NOWHERE
  BY DEF rm, RmCut, rmOf, Ready
<1>2. nr \in Ino /\ node.i_zone \in Block /\ node.i_ino = nr
  BY <1>1, GetDirTyped
<1>3. PICK s \in [Slot -> dir_entry] : data' = [data EXCEPT ![node.i_zone] = s]
  BY WipedFacts DEF rm, RmCut
<1>4. data' \in [{0} \union Block -> [Slot -> dir_entry]]
  BY <1>3 DEF Sound, TypeOK
<1>5. /\ inode_map' \subseteq inode_map
      /\ free' = free \/ free' = free \union {node.i_zone}
      /\ harm' \subseteq {"rm", "halfgone"}
      /\ inode' = inode \/ inode' = [inode EXCEPT ![nr] = Cleared]
  BY <1>2 DEF rm, RmCut, Freed, Spared
<1>6. lost' = lost \/ lost' = [lost EXCEPT !.blk = @ \union {node.i_zone}]
  BY DEF rm, RmCut
<1>7. inode' \in [Ino -> Node] /\ free' \subseteq Block
      /\ inode_map' \subseteq Ino \ {LastIno + 1}
  BY <1>2, <1>5, IdleIsTyped DEF Sound, TypeOK
<1>8. lost' \in [ino : SUBSET Ino, blk : SUBSET Block]
  <2>1. \/ lost' = lost
        \/ lost' = [ino |-> lost.ino \union {}, blk |-> lost.blk \union {node.i_zone}]
    BY <1>6 DEF Sound, TypeOK
  <2>2. CASE lost' = lost
    BY <2>2 DEF Sound, TypeOK
  <2>3. CASE lost' = [ino |-> lost.ino \union {},
                      blk |-> lost.blk \union {node.i_zone}]
    BY <1>2, <2>3, LossIsTyped
  <2> QED
    BY <2>1, <2>2, <2>3
<1>9. ipwd' \in Node /\ cmd' \in Commands /\ running' \in BOOLEAN
  <2>1. CASE rm(name)
    <3>1. /\ running' = running
          /\ \/ ipwd' = inode'[ipwd.i_ino] /\ cmd' = Prompt(ipwd')
             \/ ipwd' = ipwd /\ cmd' = Start("unlink", OneName(name))
      BY <2>1 DEF rm
    <3>2. running' \in BOOLEAN
      BY <3>1, Zenon DEF Sound, TypeOK
    <3>3. ipwd.i_ino \in Ino /\ ipwd \in Node
      BY DEF Sound, TypeOK, Node
    <3> QED
      BY <1>7, <3>1, <3>2, <3>3, PromptIsTyped, OneNameIsTyped
  <2>2. CASE RmCut(name)
    BY <1>7, <2>2, RestartsTyped DEF RmCut
  <2> QED
    BY <2>1, <2>2
<1> QED
  BY <1>4, <1>5, <1>7, <1>8, <1>9 DEF Sound, TypeOK, Commands

LEMMA MadeCutTyped ==
  ASSUME Sound, harm = {}, harm' # {},
         TakeCut \/ \E name \in Name : TouchCut(name)
  PROVE  TypeOK'
<1>1. /\ free # {} /\ free' = free \ {Min(free)}
      /\ inode_map' = inode_map \union ({new_inode} \ {LastIno + 1})
      /\ Restarts /\ Drops /\ harm' = OutOfNumbers
      /\ inode' = [inode EXCEPT ![new_inode] = Made]
  BY DEF TakeCut, TouchCut, Takes
<1>2. data' \in [{0} \union Block -> [Slot -> dir_entry]]
  <2>1. CASE data' = data
    BY <2>1 DEF Sound, TypeOK
  <2>2. CASE \E name \in Name : TouchCut(name)
    BY <2>2, AppendKeeps DEF TouchCut, Ready
  <2> QED
    BY <2>1, <2>2 DEF TakeCut
<1>3. Min(free) \in Block /\ Made \in Node
  BY <1>1, FreeFacts, MadeIsTyped
<1>4. /\ inode' \in [Ino -> Node] /\ inode_map' \subseteq Ino \ {LastIno + 1}
      /\ free' \subseteq Block
  BY <1>1, <1>3, NewIsTyped DEF Sound, TypeOK
<1>5. lost' \in [ino : SUBSET Ino, blk : SUBSET Block]
  BY <1>1, <1>3, NewIsTyped, LossIsTyped DEF Drops
<1>6. ipwd' \in Node /\ cmd' \in Commands /\ running' \in BOOLEAN
  BY <1>1, <1>4, RestartsTyped
<1>7. harm' \subseteq {"numbers"}
  BY <1>1 DEF OutOfNumbers
<1> QED
  BY <1>2, <1>4, <1>5, <1>6, <1>7 DEF Sound, TypeOK, Commands

LEMMA TouchTyped ==
  ASSUME Sound, harm = {}, NEW name \in Name, touch(name)
  PROVE  TypeOK'
<1> DEFINE c == ipwd.i_ino
           file == [inode EXCEPT ![new_inode] = Taken(NORMAL_FILE, FileEntries)]
<1>1. /\ cmd.at = "idle" /\ c \in Complete /\ ipwd = inode[c]
      /\ free # {} /\ free' = free \ {Min(free)}
      /\ inode_map' = inode_map \union ({new_inode} \ {LastIno + 1})
      /\ harm' = OutOfNumbers
  BY IdleFacts DEF touch, Takes, Ready
<1>2. /\ c \in Ino /\ ipwd \in Node /\ ipwd.i_size \in 2 .. DIR_ENTRIES
      /\ ipwd.i_zone \in Block
  <2>1. c \in Live
    BY <1>1, TreeIsTyped
  <2> QED
    BY <1>1, <2>1, CwdFacts, TreeIsTyped, ZoneFacts DEF Removing
<1>3. Taken(NORMAL_FILE, FileEntries) \in Node /\ Min(free) \in Block
  BY <1>1, TakenFacts, FreeFacts, DirectoryAssumption DEF FileEntries
<1>4. inode_map' \subseteq Ino \ {LastIno + 1} /\ file \in [Ino -> Node]
  BY <1>1, <1>3, NewIsTyped DEF Sound, TypeOK
<1>5. lost' \in [ino : SUBSET Ino, blk : SUBSET Block]
  <2>1. CASE Drops
    BY <1>3, <2>1, NewIsTyped, LossIsTyped DEF Drops
  <2>2. CASE lost' = lost
    BY <2>2 DEF Sound, TypeOK
  <2> QED
    BY <2>1, <2>2 DEF touch
<1> HIDE DEF file
<1>6. inode' \in [Ino -> Node] /\ data' \in [{0} \union Block -> [Slot -> dir_entry]]
  <2>1. CASE inode' = file /\ data' = data
    BY <1>4, <2>1 DEF Sound, TypeOK
  <2>2. CASE /\ data' = Appended(name, new_inode) /\ ipwd.i_size < DIR_ENTRIES
             /\ inode' = [file EXCEPT ![c] = Grown]
    <3>1. Grown \in Node
      BY <1>2, <2>2, DirectoryAssumption DEF Grown, Node, FileEntries
    <3>2. [inode |-> new_inode, name |-> name] \in dir_entry
      BY NewIsTyped DEF dir_entry
    <3>3. ipwd.i_size + 1 \in Slot
      BY <1>2, <2>2, DirectoryAssumption DEF Slot
    <3>4. data \in [{0} \union Block -> [Slot -> dir_entry]]
      BY DEF Sound, TypeOK
    <3>5. data' \in [{0} \union Block -> [Slot -> dir_entry]]
      BY <2>2, <3>2, <3>3, <3>4 DEF Appended
    <3> QED
      BY <1>4, <2>2, <3>1, <3>5
  <2> QED
    BY <2>1, <2>2 DEF touch, file
<1>7. ipwd' \in Node /\ cmd' \in Commands
  <2>1. \/ ipwd' = inode'[c] /\ cmd' = Prompt(ipwd')
        \/ ipwd' = ipwd /\ cmd' = cmd
    BY DEF touch, file
  <2>2. CASE ipwd' = inode'[c] /\ cmd' = Prompt(ipwd')
    BY <1>2, <1>6, <2>2, PromptIsTyped
  <2>3. CASE ipwd' = ipwd /\ cmd' = cmd
    BY <2>3 DEF Sound, TypeOK, Commands
  <2> QED
    BY <2>1, <2>2, <2>3
<1>8. running' \in BOOLEAN
  BY Zenon DEF touch, Sound, TypeOK
<1>9. harm' \subseteq {"numbers"}
  BY <1>1 DEF OutOfNumbers
<1> QED
  BY <1>1, <1>4, <1>5, <1>6, <1>7, <1>8, <1>9 DEF Sound, TypeOK, Commands

LEMMA StepTyped ==
  ASSUME Sound, harm = {}, Next
  PROVE  TypeOK'
<1>1. CASE harm' = {}
  BY <1>1, StepSound DEF Sound
<1>2. CASE harm' # {}
  <2>1. CASE MkdirTake
    BY <2>1, MkdirTakeTyped
  <2>2. CASE MkdirInFile
    <3>1. /\ UNCHANGED <<inode, inode_map, data, free, ipwd, cmd, lost>>
          /\ running' = FALSE /\ harm' = {"file"}
      BY <2>2 DEF MkdirInFile, disk
    <3> QED
      BY <3>1 DEF Sound, TypeOK
  <2>3. CASE MkdirEnter
    BY <1>2, <2>3, MkdirEnterTyped
  <2>4. CASE CdUp
    <3>1. /\ UNCHANGED <<inode, inode_map, data, free, running, lost>>
          /\ ipwd' = Cleared /\ cmd' = Prompt(ipwd') /\ harm' = {"nowhere"}
      BY <1>2, <2>4 DEF CdUp, disk, iget
    <3>2. ipwd' \in Node /\ cmd' \in Commands
      BY <3>1, IdleIsTyped, PromptIsTyped
    <3> QED
      BY <3>1, <3>2 DEF Sound, TypeOK, Commands
  <2>5. CASE \E name \in Name \union {".", ".."} :
               rmdir(name) \/ rm(name) \/ RmdirCut(name) \/ RmCut(name)
    BY <2>5, RmdirTyped, RmTyped
  <2>6. CASE \E name \in Name : touch(name)
    BY <2>6, TouchTyped
  <2>7. CASE PowerCut
    <3>1. /\ UNCHANGED <<inode, inode_map, data, free>>
          /\ ipwd' = inode[0] /\ cmd' = Idle /\ running' = TRUE
          /\ harm' \subseteq {"torn", "halfgone"}
      BY <2>7 DEF PowerCut, Restarts, disk
    <3>2. lost' = lost
      BY <1>2, <2>7 DEF PowerCut
    <3>3. ipwd' \in Node
      BY <3>1, TreeIsTyped
    <3> QED
      BY <3>1, <3>2, <3>3, IdleIsTyped DEF Sound, TypeOK, Commands
  <2>8. CASE TakeCut \/ \E name \in Name : TouchCut(name)
    BY <1>2, <2>8, MadeCutTyped
  <2> QED
    BY <1>2, <2>1, <2>2, <2>3, <2>4, <2>5, <2>6, <2>7, <2>8
    DEF Next, Command, Step, Cut, mkdir_service, cd_service, RmdirRefused,
        RmdirHalts, ToRoot, ls, MkdirNoBlock, MkdirEntry, MkdirSize, MkdirDots,
        CdStep, Unlink, Shrink, PromptUp, PromptDone, BitCut
<1> QED
  BY <1>1, <1>2

(* Every value has its type as long as nothing irreparable has happened,   *)
(* and in the state in which it happens: a command in what is not a        *)
(* directory may then read beyond its sector (mkdir.cc:26).                *)
THEOREM DirectoryTypeCorrect ==
  Spec => [](harm = {} => TypeOK) /\ [][harm = {} => TypeOK']_vars
<1>1. DirectoryInv => (harm = {} => TypeOK)
  BY DEF DirectoryInv, Sound
<1>2. DirectoryInv /\ [Next]_vars => [harm = {} => TypeOK']_vars
  BY StepTyped DEF DirectoryInv
<1> QED
  BY <1>1, <1>2, DirectoryInvariance, PTL DEF Spec

(* Between commands the working directory in memory is the inode on disk   *)
(* of a live directory.                                                    *)
THEOREM CwdStaysInStep == Spec => []CwdInStep
<1>1. DirectoryInv => CwdInStep
  <2> SUFFICES ASSUME Sound, cmd.at = "idle"
               PROVE  ipwd.i_ino \in Dirs /\ ipwd = inode[ipwd.i_ino]
    BY DEF DirectoryInv, CwdInStep, Quiet
  <2>1. ipwd.i_ino \in Complete /\ ipwd = inode[ipwd.i_ino]
    BY IdleFacts
  <2> QED
    BY <2>1, TreeIsTyped, FolderFacts DEF Dirs
<1> QED
  BY <1>1, DirectoryInvariance, PTL

(* Between commands, and between two names of a path, the directories are  *)
(* those that the invariant is about.                                      *)
LEMMA QuietFacts ==
  ASSUME DirectoryInv, Quiet
  PROVE  /\ Sound /\ cmd.at \in Calm /\ Members = Live
         /\ Dirs = Folders /\ Complete = Folders
         /\ \A d \in Dirs : /\ Sectors[d] = SectorOf(d)
                            /\ SlotSets[d] = 3 .. inode[d].i_size
                            /\ inode[d].i_size \in 2 .. DIR_ENTRIES
<1>1. Sound /\ cmd.at \in Calm
  BY DEF DirectoryInv, Quiet, Calm
<1>2. Members = Live /\ Complete = Folders
  BY <1>1, CalmFacts
<1>3. Dirs = Folders
  BY <1>2 DEF Dirs, Folders, IsFolder
<1> QED
  BY <1>1, <1>2, <1>3, CalmFacts, FolderFacts DEF Sectors

(* What a directory has, it finds.                                         *)
THEOREM NamesAreFoundAgain == Spec => []NamesFound
<1>1. DirectoryInv => NamesFound
  <2> SUFFICES ASSUME DirectoryInv, Quiet, NEW d \in Dirs, NEW e \in Entries(d),
                      e.name \notin Exact
               PROVE  get_dirIn(SectorOf(d), inode[d].i_size, e.name) = e.inode
    BY DEF NamesFound
  <2> DEFINE sector == SectorOf(d)
             size == inode[d].i_size
  <2>1. /\ Sectors[d] = sector /\ SlotSets[d] = 3 .. size
        /\ size \in 2 .. DIR_ENTRIES /\ d \in Folders /\ d \in Complete
    BY QuietFacts
  <2>2. TreeOK(Members, Folders, Complete, Sectors, SlotSets)
    BY QuietFacts DEF Sound, TreeNow
  <2>3. PICK k \in 3 .. size : e = sector[k]
    BY DEF Entries
  <2>4. /\ \A m \in 3 .. size : sector[m].name \in Name \ TooLong
        /\ \A m, n \in 3 .. size :
             sector[m].name = sector[n].name => m = n \/ sector[m].name \in Exact
    BY <2>1, <2>2 DEF TreeOK, EntriesIn, NamesOnce
  <2>5. sector[1] = [inode |-> d, name |-> "."] /\ sector[2].name = ".."
    BY <2>1, <2>2 DEF TreeOK, DotsOK
  <2>6. IsSector(sector, size, d, sector[2].inode)
    BY <2>1, <2>4, <2>5 DEF IsSector
  <2> HIDE DEF sector, size
  <2>7. e.name \in Name /\ k \in Matches(sector, size, e.name)
    <3>1. k \in 1 .. size /\ e.name \in Name
      BY <2>1, <2>3, <2>4, DirectoryAssumption
    <3> QED
      BY <2>3, <3>1 DEF Matches, Ends
  <2>8. /\ Min(Matches(sector, size, e.name)) \in 3 .. size
        /\ Min(Matches(sector, size, e.name)) \in Matches(sector, size, e.name)
        /\ get_dirIn(sector, size, e.name) =
             sector[Min(Matches(sector, size, e.name))].inode
    BY <2>6, <2>7, NamesAreFound
  <2>9. sector[Min(Matches(sector, size, e.name))].name = e.name
    BY <2>8 DEF Matches
  <2>10. Min(Matches(sector, size, e.name)) = k
    BY <2>3, <2>4, <2>8, <2>9
  <2> QED
    BY <2>3, <2>8, <2>10 DEF sector, size
<1> QED
  BY <1>1, DirectoryInvariance, PTL

(* The directories form a tree.                                            *)
THEOREM TreeStaysSound == Spec => []TreeSound
<1>1. DirectoryInv => TreeSound
  <2> SUFFICES ASSUME DirectoryInv, Quiet
               PROVE  /\ 0 \in Dirs
                      /\ \A i \in Live \ {0} : Cardinality(Links(i)) = 1
                      /\ \A d \in Dirs :
                           /\ \A e \in Entries(d) :
                                e.inode \in Live \ {0} /\ e.name \in Name \ TooLong
                           /\ SectorOf(d)[1] = [inode |-> d, name |-> "."]
                           /\ SectorOf(d)[2].name = ".."
                           /\ d # 0 => \E k \in Slot : <<UpOf(d), k>> \in Links(d)
                           /\ \A k, m \in 3 .. inode[d].i_size :
                                SectorOf(d)[k].name = SectorOf(d)[m].name =>
                                  k = m \/ SectorOf(d)[k].name \in Exact
                      /\ \A S \in SUBSET (Dirs \ {0}) :
                           S # {} => \E d \in S : UpOf(d) \notin S
    BY DEF TreeSound
  <2>1. /\ Members = Live /\ Dirs = Folders /\ Complete = Dirs
        /\ \A d \in Dirs : /\ Sectors[d] = SectorOf(d)
                           /\ SlotSets[d] = 3 .. inode[d].i_size
                           /\ inode[d].i_size \in 2 .. DIR_ENTRIES
    BY QuietFacts
  <2>2. TreeOK(Live, Dirs, Dirs, Sectors, SlotSets)
    BY <2>1, QuietFacts DEF Sound, TreeNow
  <2>3. \A d \in Dirs : 3 .. inode[d].i_size \subseteq Slot
    BY <2>1, DirectoryAssumption DEF Slot
  <2>4. ASSUME NEW i \in Live \ {0}
        PROVE  Cardinality(Links(i)) = 1
    <3>1. PICK d \in Dirs : \E k \in SlotSets[d] : Sectors[d][k].inode = i
      BY <2>2 DEF TreeOK, LinkedOnce
    <3>2. PICK k \in SlotSets[d] : Sectors[d][k].inode = i
      BY <3>1
    <3>3. k \in 3 .. inode[d].i_size /\ SectorOf(d)[k].inode = i /\ k \in Slot
      BY <2>1, <2>3, <3>2
    <3>4. <<d, k>> \in Links(i)
      BY <3>3 DEF Links
    <3>5. ASSUME NEW link \in Links(i)
          PROVE  link = <<d, k>>
      <4>1. /\ link[1] \in Dirs /\ link[2] \in 3 .. inode[link[1]].i_size
            /\ SectorOf(link[1])[link[2]].inode = i /\ link = <<link[1], link[2]>>
        BY DEF Links
      <4>2. link[2] \in SlotSets[link[1]] /\ Sectors[link[1]][link[2]].inode = i
        BY <2>1, <4>1
      <4>3. link[1] = d /\ link[2] = k
        BY <2>2, <3>2, <4>1, <4>2 DEF TreeOK, LinkedOnce
      <4> QED
        BY <4>1, <4>3
    <3>6. Links(i) = {<<d, k>>}
      BY <3>4, <3>5
    <3> QED
      BY <3>6, FS_Singleton
  <2>5. ASSUME NEW d \in Dirs
        PROVE  /\ \A e \in Entries(d) :
                    e.inode \in Live \ {0} /\ e.name \in Name \ TooLong
               /\ SectorOf(d)[1] = [inode |-> d, name |-> "."]
               /\ SectorOf(d)[2].name = ".."
               /\ d # 0 => \E k \in Slot : <<UpOf(d), k>> \in Links(d)
               /\ \A k, m \in 3 .. inode[d].i_size :
                    SectorOf(d)[k].name = SectorOf(d)[m].name =>
                      k = m \/ SectorOf(d)[k].name \in Exact
    <3>1. \A e \in Entries(d) :
            e.inode \in Live \ {0} /\ e.name \in Name \ TooLong
      BY <2>1, <2>2 DEF Entries, TreeOK, EntriesIn
    <3>2. /\ SectorOf(d)[1] = [inode |-> d, name |-> "."]
          /\ SectorOf(d)[2].name = ".."
      BY <2>1, <2>2 DEF TreeOK, DotsOK
    <3>3. ASSUME d # 0
          PROVE  \E k \in Slot : <<UpOf(d), k>> \in Links(d)
      <4>1. /\ UpOf(d) \in Dirs
            /\ \E k \in SlotSets[UpOf(d)] : Sectors[UpOf(d)][k].inode = d
        BY <2>1, <2>2, <3>3 DEF TreeOK, DotsOK, UpOf
      <4>2. PICK k \in SlotSets[UpOf(d)] : Sectors[UpOf(d)][k].inode = d
        BY <4>1
      <4>3. /\ k \in 3 .. inode[UpOf(d)].i_size /\ k \in Slot
            /\ SectorOf(UpOf(d))[k].inode = d
        BY <2>1, <2>3, <4>1, <4>2
      <4> QED
        BY <4>1, <4>3 DEF Links
    <3>4. \A k, m \in 3 .. inode[d].i_size :
            SectorOf(d)[k].name = SectorOf(d)[m].name =>
              k = m \/ SectorOf(d)[k].name \in Exact
      BY <2>1, <2>2 DEF TreeOK, NamesOnce
    <3> QED
      BY <3>1, <3>2, <3>3, <3>4
  <2>6. \A S \in SUBSET (Dirs \ {0}) : S # {} => \E d \in S : UpOf(d) \notin S
    BY <2>1, <2>2 DEF TreeOK, LeadsToRoot, UpOf
  <2>7. 0 \in Dirs
    BY <2>2 DEF TreeOK
  <2> QED
    BY <2>4, <2>5, <2>6, <2>7
<1> QED
  BY <1>1, DirectoryInvariance, PTL

(* Every block is the block of one inode in use, free, or lost at a known  *)
(* place.                                                                  *)
THEOREM BlocksAreAccounted == Spec => []Accounted
<1>1. DirectoryInv => Accounted
  <2> SUFFICES ASSUME DirectoryInv, Quiet
               PROVE  LET used == {inode[i].i_zone : i \in Live}
                      IN  /\ Cardinality(used) = Cardinality(Live)
                          /\ used \union free \union lost.blk = Block
                          /\ used \cap free = {}
                          /\ (used \union free) \cap lost.blk = {}
    BY DEF Accounted
  <2> DEFINE used == {inode[i].i_zone : i \in Live}
  <2>1. Sound
    BY QuietFacts
  <2>2. /\ \A i \in Live : /\ inode[i].i_zone \in Block
                           /\ inode[i].i_zone \notin free
                           /\ inode[i].i_zone \notin lost.blk
        /\ \A i \in Live, j \in Live : inode[i].i_zone = inode[j].i_zone => i = j
        /\ free \cap lost.blk = {}
        /\ \A b \in Block : \/ b \in free \/ b \in lost.blk
                            \/ \E i \in Live : inode[i].i_zone = b
    BY <2>1 DEF Sound, Blocks, ZonesOK, Zones
  <2>3. free \subseteq Block /\ lost.blk \subseteq Block
    BY <2>1 DEF Sound, TypeOK
  <2>4. IsFiniteSet(Live)
    <3>1. Live \in SUBSET (0 .. (LastIno + 1))
      BY <2>1, TreeIsTyped DEF Ino
    <3>2. IsFiniteSet(0 .. (LastIno + 1))
      BY FS_Interval, DirectoryAssumption
    <3> QED
      BY <3>1, <3>2, FS_Subset
  <2>5. Cardinality(used) = Cardinality(Live)
    <3> DEFINE f == [i \in Live |-> inode[i].i_zone]
    <3>1. f \in [Live -> used]
      OBVIOUS
    <3>2. \A i, j \in Live : f[i] = f[j] => i = j
      BY <2>2
    <3>3. \A b \in used : \E i \in Live : f[i] = b
      OBVIOUS
    <3> HIDE DEF f, used
    <3>4. f \in Bijection(Live, used)
      BY <3>1, <3>2, <3>3 DEF Bijection, Injection, Surjection, IsInjective
    <3>5. ExistsBijection(Live, used)
      BY <3>4 DEF ExistsBijection
    <3> QED
      BY <2>4, <3>5, FS_Bijection
  <2>6. used \union free \union lost.blk = Block
    BY <2>2, <2>3
  <2>7. used \cap free = {} /\ (used \union free) \cap lost.blk = {}
    BY <2>2
  <2> HIDE DEF used
  <2> QED
    BY <2>5, <2>6, <2>7 DEF used
<1> QED
  BY <1>1, DirectoryInvariance, PTL

-----------------------------------------------------------------------------
(* The tree of names, as the abstract specification has it.                *)

Around ==
  {0, ipwd.i_ino}
    \union {e.stands : e \in {f \in AllNames : f.dir = ipwd.i_ino}}
    \union {e.dir : e \in {f \in AllNames : f.stands = ipwd.i_ino}}

LEMMA TreeStays ==
  ASSUME harm = {}, harm' = {}, NamesStay, Home' = Home, ipwd'.i_ino = ipwd.i_ino
  PROVE  UNCHANGED Tree!vars
BY DEF Tree!vars, NamesStay, Unharmed, Whereabouts

LEMMA TreeWalks ==
  ASSUME harm = {}, harm' = {}, NamesStay, Home' = Home, ipwd'.i_ino \in Around
  PROVE  Tree!Walk
BY DEF Tree!Walk, Tree!Neighbours, Tree!Below, Tree!Above, Tree!EntriesOf, Around,
       NamesStay, Unharmed, Whereabouts

LEMMA TreeArrives ==
  ASSUME harm = {}, harm' = {}, NamesStay, Home' = ipwd'.i_ino,
         ipwd'.i_ino \in Around \intersect Folders
  PROVE  Tree!Arrive
BY DEF Tree!Arrive, Tree!Neighbours, Tree!Below, Tree!Above, Tree!EntriesOf, Around,
       NamesStay, Unharmed, Whereabouts

LEMMA TreeReturns ==
  ASSUME harm = {}, harm' = {}, NamesStay, Home' = Home, ipwd'.i_ino = Home
  PROVE  Tree!Return
BY DEF Tree!Return, NamesStay, Unharmed, Whereabouts

(* A search leads to a neighbour.                                          *)
LEMMA SearchLeads ==
  ASSUME Sound, ipwd.i_ino \in Complete, cmd.at \notin Removing,
         NEW name, get_dir(name) # NOWHERE
  PROVE  get_dir(name) \in Around
<1> DEFINE d == ipwd.i_ino
           up == Cwd[2].inode
           found == Matches(Cwd, ipwd.i_size, name)
<1>1. /\ d \in Folders /\ Cwd = Sectors[d] /\ SlotSets[d] = 3 .. ipwd.i_size
      /\ ipwd.i_size \in Int /\ Cwd[1].inode = d
  BY CwdFacts, DirectoryAssumption DEF IsSector
<1>2. PICK k \in 1 .. ipwd.i_size : Cwd[k].inode = get_dir(name)
  <2>1. found # {} /\ get_dir(name) = Cwd[Min(found)].inode
    BY DEF get_dir, get_dirIn, Cwd
  <2>2. found \in SUBSET Nat /\ found \subseteq 1 .. ipwd.i_size
    BY <1>1 DEF Matches
  <2> HIDE DEF found
  <2>3. Min(found) \in 1 .. ipwd.i_size
    BY <2>1, <2>2, MinFacts
  <2> QED
    BY <2>1, <2>3
<1>3. CASE k = 1
  BY <1>1, <1>2, <1>3 DEF Around
<1>4. CASE k = 2
  <2>1. get_dir(name) = up /\ d # 0 /\ up \in Folders
    BY <1>2, <1>4, CwdFacts, TreeIsTyped
  <2>2. PICK m \in SlotSets[up] : Sectors[up][m].inode = d
    BY <1>1, <2>1 DEF Sound, TreeNow, TreeOK, DotsOK
  <2>3. Named(up, Sectors[up][m]) \in AllNames
    BY <2>1, AllNamesFacts, NamesFacts
  <2>4. Named(up, Sectors[up][m]).dir = up /\ Named(up, Sectors[up][m]).stands = d
    BY <2>2 DEF Named
  <2> QED
    BY <2>1, <2>3, <2>4 DEF Around
<1>5. CASE k \in SlotSets[d]
  <2>1. Named(d, Sectors[d][k]) \in AllNames
    BY <1>1, <1>5, AllNamesFacts, NamesFacts
  <2>2. /\ Named(d, Sectors[d][k]).dir = d
        /\ Named(d, Sectors[d][k]).stands = get_dir(name)
    BY <1>1, <1>2 DEF Named
  <2> QED
    BY <2>1, <2>2 DEF Around
<1> QED
  BY <1>1, <1>2, <1>3, <1>4, <1>5

(* One name more, one name less.                                           *)
LEMMA NamesOfMembers ==
  ASSUME Sound, NEW e \in AllNames
  PROVE  /\ e.dir \in Folders /\ e.stands \in Members \ {0}
         /\ e.name \in Name \ TooLong
         /\ \E k \in SlotSets[e.dir] : e = Named(e.dir, Sectors[e.dir][k])
<1>1. PICK d \in Folders : \E k \in SlotSets[d] : e = Named(d, Sectors[d][k])
  BY AllNamesFacts, NamesFacts
<1>2. PICK k \in SlotSets[d] : e = Named(d, Sectors[d][k])
  BY <1>1
<1>3. /\ Sectors[d][k].inode \in Members \ {0}
      /\ Sectors[d][k].name \in Name \ TooLong
  BY DEF Sound, TreeNow, TreeOK, EntriesIn
<1>4. /\ e.dir = d /\ e.stands = Sectors[d][k].inode
      /\ e.name = Sectors[d][k].name
  BY <1>2 DEF Named
<1> QED
  BY <1>2, <1>3, <1>4

LEMMA TreeGains ==
  ASSUME Sound, harm = {}, harm' = {}, NEW name, NEW i, NEW dirs,
         Gains(name, i, dirs), Home' = Home, ipwd'.i_ino = ipwd.i_ino
  PROVE  /\ i \in Ino /\ name \in Name \ TooLong
         /\ Tree!New(name, i)
         /\ Unharmed(Folders)' = Unharmed(Folders) \union dirs
         /\ i \notin Unharmed(Folders)
<1> DEFINE c == ipwd.i_ino
<1>1. /\ i \in Ino \ Members /\ c \in Folders /\ name \in Name \ TooLong
      /\ \A m \in SlotSets[c] : Sectors[c][m].name = name => name \in Exact
      /\ AllNames' = AllNames \union {[dir |-> c, name |-> name, stands |-> i]}
      /\ Folders' = Folders \union dirs
  BY DEF Gains, Named
<1>2. 0 \in Members /\ Folders \subseteq Members
  BY TreeIsTyped
<1>3. ASSUME NEW e \in AllNames, e.dir = c, e.name = name
      PROVE  name \in Exact
  <2>1. PICK k \in SlotSets[c] : e = Named(c, Sectors[c][k])
    BY <1>3, NamesOfMembers
  <2>2. Sectors[c][k].name = name
    BY <1>3, <2>1 DEF Named
  <2> QED
    BY <1>1, <2>2
<1>4. \A e \in AllNames : e.stands # i /\ e.dir # i
  BY <1>1, <1>2, NamesOfMembers
<1>5. Tree!New(name, i)
  BY <1>1, <1>2, <1>3, <1>4
  DEF Tree!New, Tree!EntriesOf, Tree!Above, Unharmed, Whereabouts
<1> QED
  BY <1>1, <1>2, <1>5 DEF Unharmed

LEMMA TreeLoses ==
  ASSUME Sound, harm = {}, harm' = {}, NEW i, Loses(i), Home = ipwd.i_ino,
         Home' = Home, ipwd'.i_ino = ipwd.i_ino
  PROVE  \E e \in Unharmed(AllNames) : Tree!Remove(e)
<1> DEFINE c == ipwd.i_ino
<1>1. PICK h \in SlotSets[c] :
        /\ Sectors[c][h].inode = i
        /\ AllNames' = AllNames \ {Named(c, Sectors[c][h])}
  BY DEF Loses
<1>2. /\ i # 0 /\ c \in Folders /\ Folders' = Folders \ {i}
      /\ i \in Folders => SlotSets[i] = {}
  BY DEF Loses
<1> DEFINE e == Named(c, Sectors[c][h])
<1>3. e \in AllNames /\ e.dir = c /\ e.stands = i
  <2>1. e \in AllNames
    BY <1>2, AllNamesFacts, NamesFacts
  <2> QED
    BY <1>1, <2>1 DEF Named
<1>4. \A f \in AllNames : f.dir # i
  BY <1>2, NamesOfMembers
<1> HIDE DEF e
<1>5. Tree!Remove(e)
  BY <1>1, <1>2, <1>3, <1>4 DEF Tree!Remove, Tree!EntriesOf, Unharmed, Whereabouts, e
<1> QED
  BY <1>3, <1>5 DEF Unharmed

(* The steps.                                                              *)
LEMMA CommandKeepsTree ==
  ASSUME Sound, harm = {}, harm' = {}, Command
  PROVE  Tree!Next \/ UNCHANGED Tree!vars
<1>1. /\ cmd.at = "idle" /\ ipwd.i_ino \in Complete /\ ipwd = inode[ipwd.i_ino]
      /\ ipwd.i_ino \in Folders /\ cmd.at \notin Removing /\ Home = ipwd.i_ino
  <2>1. cmd.at = "idle"
    BY DEF Command, Ready, mkdir_service, cd_service, RmdirRefused, RmdirHalts, rmdirOf,
           rmdir, rmOf, rm, touch, CdUp, ToRoot, ls
  <2> QED
    BY <2>1, IdleFacts, TreeIsTyped DEF Home
<1>2. ASSUME NEW line \in Lines, mkdir_service(line) \/ cd_service(line)
      PROVE  UNCHANGED Tree!vars
  <2>1. NamesStay
    BY <1>2, StartMkdir, StartCd
  <2>2. ipwd' = ipwd /\ cmd'.at # "idle" /\ cmd'.back = ipwd
    BY <1>2 DEF mkdir_service, cd_service, Start
  <2> QED
    BY <1>1, <2>1, <2>2, TreeStays DEF Home
<1>3. ASSUME NEW name \in Name \union {".", ".."}, RmdirRefused(name)
      PROVE  UNCHANGED Tree!vars
  <2>1. NamesStay
    BY <1>3, RmdirRefusedStep
  <2>2. ipwd' = ipwd /\ cmd'.at = "prompt" /\ cmd'.back = ipwd
    BY <1>1, <1>3, PromptFacts DEF RmdirRefused
  <2> QED
    BY <1>1, <2>1, <2>2, TreeStays DEF Home
<1>4. ASSUME NEW name \in Name \union {".", ".."}, RmdirHalts(name)
      PROVE  UNCHANGED Tree!vars
  <2>1. NamesStay
    BY <1>4, RmdirHaltsStep
  <2>2. ipwd' = ipwd /\ cmd' = cmd
    BY <1>4 DEF RmdirHalts
  <2> QED
    BY <2>1, <2>2, TreeStays DEF Home
<1>5. ASSUME NEW name \in Name \union {".", ".."}, rmdir(name) \/ rm(name)
      PROVE  Tree!Next
  <2>1. Loses(get_dir(name)) /\ cmd'.at = "unlink" /\ cmd'.back = ipwd
    BY <1>5, RmdirStep, RmStep
  <2>2. ipwd' = ipwd
    <3>1. CASE rmdir(name)
      BY <3>1 DEF rmdir
    <3>2. CASE rm(name)
      <4>1. Prompt(ipwd').at # "unlink"
        BY PromptFacts
      <4> QED
        BY <2>1, <3>2, <4>1 DEF rm
    <3> QED
      BY <1>5, <3>1, <3>2
  <2>3. Home' = Home
    BY <1>1, <2>1 DEF Home
  <2> QED
    BY <1>1, <2>1, <2>2, <2>3, TreeLoses DEF Tree!Next
<1>6. ASSUME NEW name \in Name, touch(name)
      PROVE  Tree!Next \/ UNCHANGED Tree!vars
  <2>1. Sound' /\ (NamesStay \/ Gains(name, new_inode, {}))
    BY <1>6, TouchStep
  <2>2. \/ ipwd' = inode'[ipwd.i_ino] /\ cmd' = Prompt(ipwd')
        \/ ipwd' = ipwd /\ cmd' = cmd
    BY <1>6 DEF touch
  <2>3. ipwd'.i_ino = ipwd.i_ino
    <3>1. ipwd.i_ino \in Folders'
      BY <1>1, <2>1 DEF NamesStay, Gains
    <3>2. ipwd.i_ino \in Live' /\ NodesOK'
      BY <2>1, <3>1 DEF Folders, Members, Sound
    <3> QED
      BY <2>2, <3>2 DEF NodesOK, NodeOK
  <2>4. Home' = Home
    BY <1>1, <2>2, <2>3, PromptFacts DEF Home
  <2>5. CASE Gains(name, new_inode, {})
    <3>1. Tree!MakeFile(name, new_inode)
      BY <1>1, <2>3, <2>4, <2>5, TreeGains DEF Tree!MakeFile, Whereabouts
    <3> QED
      BY <2>3, <2>4, <2>5, <3>1, TreeGains DEF Tree!Next
  <2> QED
    BY <2>1, <2>3, <2>4, <2>5, TreeStays
<1>7. CASE CdUp
  <2>1. NamesStay
    BY <1>7, CdUpStep
  <2>2. get_dir("..") # NOWHERE
    BY <1>7 DEF CdUp
  <2>3. get_dir("..") \in Complete /\ ipwd' = inode[get_dir("..")]
        /\ cmd' = Prompt(ipwd')
    BY <1>1, <1>7, <2>2, UpFacts DEF CdUp
  <2>4. ipwd'.i_ino = get_dir("..") /\ get_dir("..") \in Folders
    BY <2>3, TreeIsTyped
  <2>5. Home' = ipwd'.i_ino
    BY <2>3, PromptFacts DEF Home
  <2>6. get_dir("..") \in Around
    BY <1>1, <2>2, SearchLeads
  <2> QED
    BY <2>1, <2>4, <2>5, <2>6, TreeArrives DEF Tree!Next
<1>8. CASE ToRoot
  <2>1. NamesStay
    BY <1>8, ToRootStep
  <2>2. ipwd'.i_ino = 0 /\ 0 \in Folders
    BY <1>8, TreeIsTyped DEF ToRoot
  <2>3. Home' = ipwd'.i_ino
    BY <1>8, PromptFacts DEF Home, ToRoot
  <2> QED
    BY <2>1, <2>2, <2>3, TreeArrives DEF Tree!Next, Around
<1>9. CASE ls
  <2>1. NamesStay
    BY <1>9, LsStep
  <2>2. ipwd' = ipwd /\ cmd'.at = "prompt" /\ cmd'.back = ipwd
    BY <1>1, <1>9, PromptFacts DEF ls
  <2> QED
    BY <1>1, <2>1, <2>2, TreeStays DEF Home
<1> QED
  BY <1>2, <1>3, <1>4, <1>5, <1>6, <1>7, <1>8, <1>9 DEF Command

LEMMA MkdirKeepsTree ==
  ASSUME Sound, harm = {}, harm' = {},
         MkdirTake \/ MkdirNoBlock \/ MkdirEntry \/ MkdirSize \/ MkdirDots \/ MkdirEnter
  PROVE  Tree!Next \/ UNCHANGED Tree!vars
<1>1. CASE MkdirTake
  <2>1. ipwd' = ipwd /\ cmd.at = "mkdir"
    BY <1>1 DEF MkdirTake
  <2>2. cmd'.at # "idle" /\ cmd'.back = cmd.back
    BY <1>1, <2>1 DEF MkdirTake, Becomes, Sound, TypeOK
  <2>3. NamesStay
    BY <1>1, MkdirTakeStep
  <2> QED
    BY <2>1, <2>2, <2>3, TreeStays DEF Home
<1>2. CASE MkdirNoBlock
  <2>1. ipwd' = ipwd /\ cmd' = cmd
    BY <1>2 DEF MkdirNoBlock
  <2>2. NamesStay
    BY <1>2, MkdirNoBlockStep
  <2> QED
    BY <2>1, <2>2, TreeStays DEF Home
<1>3. CASE MkdirEntry
  <2>1. ipwd' = ipwd /\ cmd.at = "entry" /\ cmd' = Becomes("size")
    BY <1>3 DEF MkdirEntry
  <2>2. cmd'.at # "idle" /\ cmd'.back = cmd.back
    BY <2>1 DEF Becomes, Sound, TypeOK
  <2>3. NamesStay
    BY <1>3, MkdirEntryStep
  <2> QED
    BY <2>1, <2>2, <2>3, TreeStays DEF Home
<1>4. CASE MkdirSize
  <2>1. ipwd' = Grown /\ cmd.at = "size" /\ cmd' = Becomes("dots")
    BY <1>4 DEF MkdirSize
  <2>2. cmd'.at # "idle" /\ cmd'.back = cmd.back /\ ipwd'.i_ino = ipwd.i_ino
    BY <2>1 DEF Becomes, Grown, Node, Sound, TypeOK
  <2>3. Gains(ThisName("mkdir"), cmd.new, {cmd.new})
    BY <1>4, MkdirSizeStep
  <2>4. Home' = Home
    BY <2>1, <2>2 DEF Home
  <2>5. Tree!MakeDirectory(ThisName("mkdir"), cmd.new)
    BY <2>2, <2>3, <2>4, TreeGains DEF Tree!MakeDirectory
  <2> QED
    BY <2>2, <2>3, <2>4, <2>5, TreeGains DEF Tree!Next
<1>5. CASE MkdirDots
  <2>1. ipwd' = ipwd /\ cmd.at = "dots" /\ cmd' = Becomes("enter")
    BY <1>5 DEF MkdirDots
  <2>2. cmd'.at # "idle" /\ cmd'.back = cmd.back
    BY <2>1 DEF Becomes, Sound, TypeOK
  <2>3. NamesStay
    BY <1>5, MkdirDotsStep
  <2> QED
    BY <2>1, <2>2, <2>3, TreeStays DEF Home
<1>6. CASE MkdirEnter
  <2> DEFINE nr == get_dir(ThisName("mkdir"))
             nodes == [inode EXCEPT ![ipwd.i_ino] = ipwd]
  <2>1. /\ cmd.at = "enter" /\ ipwd.i_ino \in Complete
        /\ cmd.back.i_ino \in Complete /\ ipwd = inode[ipwd.i_ino]
    BY <1>6 DEF MkdirEnter, Sound, CwdOK
  <2>2. NamesStay
    BY <1>6, MkdirEnterStep
  <2>3. nodes = inode
    BY <2>1 DEF Sound, TypeOK
  <2>4. CASE Ended
    <3>1. ipwd' = inode[cmd.back.i_ino] /\ cmd' = Prompt(ipwd')
      BY <1>6, <2>3, <2>4 DEF MkdirEnter, Back
    <3>2. ipwd'.i_ino = cmd.back.i_ino
      BY <2>1, <3>1, TreeIsTyped
    <3>3. Home' = Home /\ ipwd'.i_ino = Home
      BY <2>1, <3>1, <3>2, PromptFacts DEF Home
    <3> QED
      BY <2>2, <3>3, TreeReturns DEF Tree!Next
  <2>5. CASE ~Ended
    <3>1. /\ nr # NOWHERE
          /\ cmd' = [Becomes("mkdir") EXCEPT !.rest = Rest]
      BY <1>6, <2>5 DEF MkdirEnter
    <3>2. nr \in Members /\ ipwd' = inode[nr]
      BY <1>6, <2>1, <2>3, <2>5, <3>1, GetDirInTree DEF MkdirEnter, Removing
    <3>3. ipwd'.i_ino = nr /\ nr \in Around
      BY <2>1, <3>1, <3>2, TreeIsTyped, SearchLeads DEF Removing
    <3>4. Home' = Home
      BY <2>1, <3>1 DEF Home, Becomes, Sound, TypeOK
    <3> QED
      BY <2>2, <3>3, <3>4, TreeWalks DEF Tree!Next
  <2> QED
    BY <2>4, <2>5
<1> QED
  BY <1>1, <1>2, <1>3, <1>4, <1>5, <1>6

LEMMA StepKeepsTree ==
  ASSUME Sound, harm = {}, harm' = {}, Step
  PROVE  Tree!Next \/ UNCHANGED Tree!vars
<1>1. CASE CdStep
  <2> DEFINE nr == get_dir(ThisName("cd"))
  <2>1. /\ cmd.at = "cd" /\ ipwd.i_ino \in Complete
        /\ ipwd' = (IF iget(nr).i_mode = DIR_FILE THEN iget(nr) ELSE inode[0])
    BY <1>1 DEF CdStep, Sound, CwdOK
  <2>2. NamesStay
    BY <1>1, CdStepStep
  <2>3. ipwd'.i_ino \in Around \intersect Folders
    <3>1. CASE iget(nr).i_mode = DIR_FILE
      <4>1. nr # NOWHERE
        BY <3>1 DEF iget, Cleared, DIR_FILE, NORMAL_FILE
      <4>2. nr \in Members /\ nr \in Around
        BY <2>1, <4>1, GetDirInTree, SearchLeads DEF Removing
      <4>3. ipwd' = inode[nr] /\ inode[nr].i_mode = DIR_FILE
        BY <2>1, <3>1, <4>1 DEF iget
      <4> QED
        BY <4>2, <4>3, TreeIsTyped DEF Folders, IsFolder
    <3>2. CASE iget(nr).i_mode # DIR_FILE
      BY <2>1, <3>2, TreeIsTyped DEF Around
    <3> QED
      BY <3>1, <3>2
  <2>4. CASE Ended
    <3>1. Home' = ipwd'.i_ino
      BY <1>1, <2>4, PromptFacts DEF CdStep, Home
    <3> QED
      BY <2>2, <2>3, <3>1, TreeArrives DEF Tree!Next
  <2>5. CASE ~Ended
    <3>1. cmd' = [cmd EXCEPT !.rest = Rest]
      BY <1>1, <2>5 DEF CdStep
    <3>2. Home' = Home
      BY <2>1, <3>1 DEF Home, Sound, TypeOK
    <3> QED
      BY <2>2, <2>3, <3>2, TreeWalks DEF Tree!Next
  <2> QED
    BY <2>4, <2>5
<1>2. CASE Unlink
  <2>1. ipwd' = ipwd /\ cmd.at = "unlink" /\ cmd' = Becomes("shrink")
    BY <1>2 DEF Unlink
  <2>2. cmd'.at # "idle" /\ cmd'.back = cmd.back
    BY <2>1 DEF Becomes, Sound, TypeOK
  <2>3. NamesStay
    BY <1>2, UnlinkStep
  <2> QED
    BY <2>1, <2>2, <2>3, TreeStays DEF Home
<1>3. CASE Shrink
  <2>1. /\ NamesStay /\ ipwd'.i_ino = cmd.back.i_ino
        /\ cmd'.back = ipwd' /\ cmd'.at = "prompt"
    BY <1>3, ShrinkStep
  <2>2. cmd.at = "shrink"
    BY <1>3 DEF Shrink
  <2>3. Home' = Home /\ ipwd'.i_ino = Home
    BY <2>1, <2>2 DEF Home
  <2> QED
    BY <2>1, <2>3, TreeReturns DEF Tree!Next
<1>4. CASE PromptUp
  <2>1. /\ cmd.at = "prompt" /\ ipwd.i_ino \in Complete /\ ipwd.i_ino # 0
        /\ ipwd' = iget(get_dir("..")) /\ cmd' = cmd
    BY <1>4 DEF PromptUp, Sound, CwdOK
  <2>2. NamesStay
    BY <1>4, PromptUpStep
  <2>3. /\ get_dir("..") \in Complete /\ get_dir("..") # NOWHERE
        /\ ipwd' = inode[get_dir("..")]
    BY <2>1, UpFacts DEF Removing
  <2>4. ipwd'.i_ino \in Around
    BY <2>1, <2>3, TreeIsTyped, SearchLeads DEF Removing
  <2> QED
    BY <2>1, <2>2, <2>4, TreeWalks DEF Tree!Next, Home
<1>5. CASE PromptDone
  <2>1. cmd.at = "prompt" /\ ipwd' = cmd.back /\ cmd'.at = "idle"
    BY <1>5 DEF PromptDone, Idle
  <2>2. NamesStay
    BY <1>5, PromptDoneStep
  <2>3. Home' = Home /\ ipwd'.i_ino = Home
    BY <2>1 DEF Home
  <2> QED
    BY <2>2, <2>3, TreeReturns DEF Tree!Next
<1>6. CASE MkdirInFile
  BY <1>6, MkdirInFileStep
<1> QED
  BY <1>1, <1>2, <1>4, <1>5, <1>6, <1>3, MkdirKeepsTree DEF Step

LEMMA CutKeepsTree ==
  ASSUME Sound, harm = {}, harm' = {}, Cut
  PROVE  Tree!Next
<1>1. Sound' /\ NamesStay
  BY CutStep
<1>2. ipwd'.i_ino = 0 /\ Home' = 0
  <2>1. ipwd' = inode'[0] /\ cmd'.at = "idle"
    BY DEF Cut, PowerCut, BitCut, TakeCut, TouchCut, RmCut, RmdirCut, Restarts, Idle
  <2>2. 0 \in Live' /\ NodesOK'
    BY <1>1 DEF Sound, TreeNow, TreeOK, Complete, Folders, Members
  <2> QED
    BY <2>1, <2>2 DEF Home, NodesOK, NodeOK
<1>3. Tree!Interrupt
  BY <1>1, <1>2 DEF Tree!Interrupt, NamesStay, Unharmed, Whereabouts
<1> QED
  BY <1>3 DEF Tree!Next

LEMMA HarmKeepsTree ==
  ASSUME harm \subseteq harm', harm' # {}
  PROVE  Tree!Next \/ UNCHANGED Tree!vars
<1>1. CASE harm = {}
  BY <1>1 DEF Tree!Next, Tree!Harm, Unharmed, Whereabouts
<1>2. CASE harm # {}
  BY <1>2 DEF Tree!vars, Unharmed, Whereabouts
<1> QED
  BY <1>1, <1>2

(* mkdir, rmdir, rm, touch, cd, ls and the prompt, cut short by power      *)
(* failures wherever it may be, do to the names what the abstract          *)
(* specification allows: a name comes or goes whole, alone and in the      *)
(* working directory, nothing that has names in it is removed, and a walk  *)
(* goes to neighbours and comes back.                                      *)
THEOREM DirectoryKeepsNames == Spec => TreeSpec
<1>1. Init => Tree!Init
  <2> SUFFICES ASSUME Init
               PROVE  Tree!Init
    OBVIOUS
  <2>1. harm = {} /\ cmd.at = "idle" /\ ipwd = inode[0] /\ inode[0].i_size = 2
    BY DirectoryAssumption DEF Init, Idle, Ino
  <2>2. Sound
    BY InitSound
  <2>3. Folders = {0}
    BY DirectoryAssumption DEF Init, Idle, Ino, Folders, IsFolder, Members, Live,
                               Pending
  <2>4. AllNames = {}
    <3>1. SlotsOf(0) = {}
      BY <2>1 DEF SlotsOf
    <3>2. NamesIn(0) = {}
      BY <3>1 DEF NamesIn
    <3> QED
      BY <2>3, <3>2 DEF AllNames
  <2>5. ipwd.i_ino = 0
    BY <2>1, <2>2, TreeIsTyped
  <2> QED
    BY <2>1, <2>3, <2>4, <2>5 DEF Tree!Init, Unharmed, Whereabouts, Home
<1>2. DirectoryInv /\ [Next]_vars => [Tree!Next]_(Tree!vars)
  <2> SUFFICES ASSUME DirectoryInv, [Next]_vars
               PROVE  Tree!Next \/ UNCHANGED Tree!vars
    OBVIOUS
  <2>1. CASE UNCHANGED vars
    <3>1. UNCHANGED <<inode, inode_map, data, free, ipwd, cmd, running, lost, harm>>
      BY <2>1 DEF vars, disk
    <3>2. Folders' = Folders /\ AllNames' = AllNames
      <4>1. Folders' = Folders
        BY <3>1 DEF Folders, IsFolder, Members, Live, Pending
      <4>2. Cwd' = Cwd /\ Hole' = Hole
        BY <3>1 DEF Cwd, Hole
      <4>3. Sectors' = Sectors /\ SlotSets' = SlotSets
        BY <3>1, <4>1, <4>2 DEF Sectors, SectorOf, SlotSets, SlotsOf
      <4> QED
        BY <4>1, <4>3, AllNamesFacts
    <3>3. Home' = Home
      BY <3>1 DEF Home
    <3> QED
      BY <3>1, <3>2, <3>3 DEF Tree!vars, Unharmed, Whereabouts
  <2>2. CASE Next /\ harm' # {}
    BY <2>2, HarmStays, HarmKeepsTree
  <2>3. CASE Next /\ harm' = {}
    <3>1. harm = {} /\ Sound
      BY <2>3, HarmStays DEF DirectoryInv
    <3> QED
      BY <2>3, <3>1, CommandKeepsTree, StepKeepsTree, CutKeepsTree DEF Next
  <2> QED
    BY <2>1, <2>2, <2>3
<1> QED
  BY <1>1, <1>2, DirectoryInvariance, PTL DEF Spec, TreeSpec, Tree!Spec

=============================================================================
