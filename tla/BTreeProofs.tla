---------------------------- MODULE BTreeProofs -----------------------------
(***************************************************************************)
(* Type correctness of BTree for every set of records and keys, every size *)
(* of pages and any number of changes and transactions: the structure of   *)
(* the two files that search, splits and rollbacks rely on.                *)
(***************************************************************************)
EXTENDS BTree, FiniteSetTheorems, SequenceTheorems, WellFoundedInduction, TLAPS

USE BTreeAssumption DEF Root, None

Entry == [key : Keys, val : Rids \union Nat]

(* Blocks are numbered from 0 on, without a gap. *)
IsFile(file) == \E n \in Nat : DOMAIN file = 0..(n - 1)

LeafPage(file, page) ==
  /\ page \in Pages /\ Len(page.recs) <= LeafCapacity
  /\ page.extra1 \in DOMAIN file \union {None}

LeafFile(file) == IsFile(file) /\ \A b \in DOMAIN file : LeafPage(file, file[b])

Children(page) == {r.val : r \in ToSet(page.recs)} \union {page.extra2}

(* A child of a page on this level: a leaf, or a page on the level below *)
IsChild(file, leaves, level, c) ==
  IF level = 0 THEN c \in leaves ELSE c \in DOMAIN file /\ file[c].extra1 = level - 1

DirPage(file, leaves, page) ==
  /\ page \in Pages /\ Len(page.recs) <= DirCapacity
  /\ page.extra1 \in Nat /\ page.extra1 <= file[Root].extra1
  /\ \A c \in Children(page) : IsChild(file, leaves, page.extra1, c)

Directory(file, leaves) ==
  IsFile(file) /\ \A b \in DOMAIN file : DirPage(file, leaves, file[b])

(* The two files of an index, or none yet *)
Index(l, d) ==
  /\ LeafFile(l) /\ Directory(d, DOMAIN l)
  /\ DOMAIN l = {} <=> DOMAIN d = {}

----------------------------------------------------------------------------
LEMMA LeastExists ==
  ASSUME NEW S, S \subseteq Nat, S # {}
  PROVE  Min(S) \in S /\ \A j \in S : Min(S) <= j
<1> DEFINE R == OpToRel(<, Nat)
<1>1. IsWellFoundedOn(R, Nat) BY NatLessThanWellFounded
<1>2. \A i, j \in Nat : j < i => <<j, i>> \in R BY DEF OpToRel
<1> HIDE DEF R
<1>3. PICK i \in S : \A j \in S : <<j, i>> \notin R BY <1>1, WFMin
<1>4. \A j \in S : ~(j < i) BY <1>2, <1>3
<1>5. \A j \in S : i <= j BY <1>4
<1> QED BY <1>5 DEF Min

LEMMA FileSize ==
  ASSUME NEW file, IsFile(file)
  PROVE  Size(file) \in Nat /\ DOMAIN file = 0..(Size(file) - 1)
<1>1. PICK n \in Nat : DOMAIN file = 0..(n - 1) BY DEF IsFile
<1>2. Cardinality(0..(n - 1)) = n BY FS_Interval
<1> QED BY <1>1, <1>2 DEF Size

(* The searches in a page return a slot, or 0. *)
LEMMA SlotTyped ==
  ASSUME NEW recs \in Seq(Entry), NEW key
  PROVE  findLeafSlot(recs, key) \in 0..Len(recs) /\ findDirSlot(recs, key) \in 0..Len(recs)
<1>1. ASSUME NEW S \in SUBSET DOMAIN recs
      PROVE  Min(S \union {Len(recs) + 1}) - 1 \in 0..Len(recs)
  <2>1. PICK T : T = S \union {Len(recs) + 1} OBVIOUS
  <2>2. T \subseteq 1..(Len(recs) + 1) /\ T \subseteq Nat /\ T # {} BY <2>1
  <2>3. Min(T) \in T BY <2>2, LeastExists
  <2> QED BY <2>1, <2>2, <2>3
<1> QED BY <1>1 DEF findLeafSlot, findDirSlot

(* A record with a smaller key than the one in a slot comes before it.       *)
LEMMA SlotBefore ==
  ASSUME NEW recs \in Seq(Entry), NEW key \in Keys, NEW s \in DOMAIN recs,
         compareVals(key, recs[s].key) < 0
  PROVE  findLeafSlot(recs, key) < s /\ findDirSlot(recs, key) < s
<1>1. Keys \subseteq Int
  <2>1. \A r \in Rids : KeyOf[r] \in Int OBVIOUS
  <2> QED BY <2>1 DEF Keys
<1>2. recs[s].key \in Int
  <2>1. recs[s] \in Entry OBVIOUS
  <2> QED BY <2>1, <1>1 DEF Entry
<1>3. compareVals(recs[s].key, key) > 0 BY <1>1, <1>2 DEF compareVals
<1>4. ASSUME NEW S \in SUBSET DOMAIN recs, s \in S
      PROVE  Min(S \union {Len(recs) + 1}) - 1 < s
  <2>1. PICK T : T = S \union {Len(recs) + 1} OBVIOUS
  <2>2. T \subseteq Nat /\ T # {} /\ s \in T BY <2>1, <1>4
  <2>3. Min(T) \in Nat /\ Min(T) <= s BY <2>2, LeastExists
  <2>4. s \in Nat OBVIOUS
  <2> QED BY <2>1, <2>3, <2>4
<1>5. findLeafSlot(recs, key) < s
  <2>1. PICK S : S = {t \in DOMAIN recs : compareVals(recs[t].key, key) >= 0} OBVIOUS
  <2>2. S \in SUBSET DOMAIN recs /\ s \in S BY <2>1, <1>3 DEF compareVals
  <2> QED BY <2>1, <2>2, <1>4 DEF findLeafSlot
<1>6. findDirSlot(recs, key) < s
  <2>1. PICK S : S = {t \in DOMAIN recs : compareVals(recs[t].key, key) > 0} OBVIOUS
  <2>2. S \in SUBSET DOMAIN recs /\ s \in S BY <2>1, <1>3
  <2> QED BY <2>1, <2>2, <1>4 DEF findDirSlot
<1> QED BY <1>5, <1>6

(* A record more *)
Longer(recs, slot, rec, new) ==
  /\ new \in Seq(Entry) /\ Len(new) = Len(recs) + 1
  /\ \A i \in 1..Len(new) :
       new[i] = IF i <= slot THEN recs[i] ELSE IF i = slot + 1 THEN rec ELSE recs[i - 1]
  /\ ToSet(new) = ToSet(recs) \union {rec}

LEMMA InsertTyped ==
  ASSUME NEW recs \in Seq(Entry), NEW slot \in 0..Len(recs), NEW rec \in Entry,
         NEW new, new = InsertAt(recs, slot + 1, rec)
  PROVE  Longer(recs, slot, rec, new)
<1>1. PICK lo : lo = SubSeq(recs, 1, slot) OBVIOUS
<1>2. PICK hi : hi = SubSeq(recs, slot + 1, Len(recs)) OBVIOUS
<1>3. \A i \in 1..Len(recs) : recs[i] \in Entry OBVIOUS
<1>4. lo \in Seq(Entry) /\ Len(lo) = slot /\ \A i \in 1..slot : lo[i] = recs[i]
  <2>1. 1 \in Int /\ slot \in Int /\ \A i \in 1..slot : recs[i] \in Entry BY <1>3
  <2> QED BY <2>1, <1>1, SubSeqProperties
<1>5. /\ hi \in Seq(Entry) /\ Len(hi) = Len(recs) - slot
      /\ \A i \in 1..Len(hi) : hi[i] = recs[slot + i]
  <2>1. slot + 1 \in Int /\ Len(recs) \in Int
        /\ \A i \in (slot + 1)..Len(recs) : recs[i] \in Entry
    BY <1>3
  <2> QED BY <2>1, <1>2, SubSeqProperties
<1>6. PICK mid : mid = lo \o <<rec>> OBVIOUS
<1>7. /\ mid \in Seq(Entry) /\ Len(mid) = slot + 1
      /\ \A i \in 1..(slot + 1) : mid[i] = IF i <= slot THEN recs[i] ELSE rec
  <2>1. <<rec>> \in Seq(Entry) /\ Len(<<rec>>) = 1 OBVIOUS
  <2> QED BY <2>1, <1>4, <1>6, ConcatProperties
<1>8. PICK made : made = mid \o hi OBVIOUS
<1>9. /\ made \in Seq(Entry) /\ Len(made) = Len(recs) + 1
      /\ \A i \in 1..Len(made) :
           made[i] = IF i <= slot THEN recs[i] ELSE IF i = slot + 1 THEN rec ELSE recs[i - 1]
  <2>1. /\ made \in Seq(Entry) /\ Len(made) = Len(mid) + Len(hi)
        /\ \A i \in 1..(Len(mid) + Len(hi)) :
             made[i] = IF i <= Len(mid) THEN mid[i] ELSE hi[i - Len(mid)]
    <3>1. mid \in Seq(Entry) /\ hi \in Seq(Entry) BY <1>5, <1>7
    <3> QED BY <3>1, <1>8, ConcatProperties
  <2>2. ASSUME NEW i \in 1..Len(made)
        PROVE  made[i] = IF i <= slot THEN recs[i] ELSE IF i = slot + 1 THEN rec ELSE recs[i - 1]
    <3>1. CASE i <= slot + 1 BY <3>1, <2>1, <1>5, <1>7
    <3>2. CASE i > slot + 1
      <4>1. i - (slot + 1) \in 1..Len(hi) /\ slot + (i - (slot + 1)) = i - 1
        <5>1. /\ Len(recs) \in Nat /\ slot \in Nat /\ slot <= Len(recs)
              /\ i \in Int /\ i <= Len(recs) + 1 /\ Len(hi) = Len(recs) - slot
          BY <2>1, <1>5, <1>7
        <5>2. i - (slot + 1) \in Int /\ i - (slot + 1) >= 1 /\ i - (slot + 1) <= Len(recs) - slot
          BY <5>1, <3>2
        <5> QED BY <5>1, <5>2
      <4>2. made[i] = hi[i - (slot + 1)] BY <3>2, <2>1, <1>5, <1>7
      <4>3. made[i] = recs[i - 1] BY <4>1, <4>2, <1>5
      <4> QED BY <3>2, <4>3
    <3> QED BY <3>1, <3>2
  <2> QED BY <2>1, <2>2, <1>5, <1>7
<1>10. ASSUME NEW r \in ToSet(made) PROVE r \in ToSet(recs) \union {rec}
  <2>1. PICK i \in 1..Len(made) : r = made[i] BY <1>9, <1>10 DEF ToSet
  <2>2. CASE i <= slot BY <2>1, <2>2, <1>9 DEF ToSet
  <2>3. CASE i = slot + 1 BY <2>1, <2>3, <1>9
  <2>4. CASE i > slot + 1
    <3>1. ~(i <= slot) /\ i # slot + 1 /\ i \in 2..(Len(recs) + 1) BY <2>4, <1>9
    <3>2. made[i] = recs[i - 1] BY <3>1, <1>9
    <3>3. PICK j : j = i - 1 OBVIOUS
    <3>4. j \in 1..Len(recs) BY <3>1, <3>3
    <3>5. r = recs[j] BY <2>1, <3>2, <3>3
    <3> QED BY <3>4, <3>5 DEF ToSet
  <2> QED BY <2>1, <2>2, <2>3, <2>4
<1>11. ToSet(recs) \union {rec} \subseteq ToSet(made)
  <2>1. ASSUME NEW i \in 1..Len(recs) PROVE recs[i] \in ToSet(made)
    <3>1. CASE i <= slot
      <4>1. i \in 1..Len(made) /\ made[i] = recs[i] BY <3>1, <1>9
      <4>2. i \in DOMAIN made BY <4>1, <1>9
      <4> QED BY <4>1, <4>2 DEF ToSet
    <3>2. CASE i > slot
      <4>1. i + 1 \in 1..Len(made) /\ ~(i + 1 <= slot) /\ i + 1 # slot + 1 /\ (i + 1) - 1 = i
        BY <3>2, <1>9
      <4>2. PICK j \in 1..Len(made) : j = i + 1 BY <4>1
      <4>3. made[j] = recs[i] BY <4>1, <4>2, <1>9
      <4>4. j \in DOMAIN made BY <4>2, <1>9
      <4> QED BY <4>3, <4>4 DEF ToSet
    <3> QED BY <3>1, <3>2
  <2>2. rec \in ToSet(made)
    <3>1. slot + 1 \in 1..Len(made) /\ made[slot + 1] = rec BY <1>9
    <3>2. PICK j : j = slot + 1 OBVIOUS
    <3>3. j \in 1..Len(made) /\ made[j] = rec BY <3>1, <3>2
    <3>4. j \in DOMAIN made BY <3>3, <1>9
    <3> QED BY <3>3, <3>4 DEF ToSet
  <2> QED BY <2>1, <2>2 DEF ToSet
<1>12. new = made
  <2>1. PICK k : k = slot + 1 OBVIOUS
  <2>2. k - 1 = slot BY <2>1
  <2>3. InsertAt(recs, k, rec) = SubSeq(recs, 1, k - 1) \o <<rec>> \o SubSeq(recs, k, Len(recs))
    BY DEF InsertAt
  <2> QED BY <2>1, <2>2, <2>3, <1>1, <1>2, <1>6, <1>8
<1> QED BY <1>9, <1>10, <1>11, <1>12 DEF Longer

(* The two halves of a page *)
Cut(recs, pos, lo, hi) ==
  /\ lo \in Seq(Entry) /\ Len(lo) = pos /\ ToSet(lo) \subseteq ToSet(recs)
  /\ hi \in Seq(Entry) /\ Len(hi) = Len(recs) - pos /\ ToSet(hi) \subseteq ToSet(recs)
  /\ \A i \in 1..pos : lo[i] = recs[i]
  /\ \A i \in 1..Len(hi) : hi[i] = recs[pos + i]
  /\ ToSet(lo) \union ToSet(hi) = ToSet(recs)

LEMMA CutTyped ==
  ASSUME NEW recs \in Seq(Entry), NEW pos \in 0..Len(recs),
         NEW lo, lo = SubSeq(recs, 1, pos), NEW hi, hi = SubSeq(recs, pos + 1, Len(recs))
  PROVE  Cut(recs, pos, lo, hi)
<1>1. \A i \in 1..Len(recs) : recs[i] \in Entry OBVIOUS
<1>2. lo \in Seq(Entry) /\ Len(lo) = pos /\ \A i \in 1..pos : lo[i] = recs[i]
  <2>1. 1 \in Int /\ pos \in Int /\ \A i \in 1..pos : recs[i] \in Entry BY <1>1
  <2> QED BY <2>1, SubSeqProperties
<1>3. /\ hi \in Seq(Entry) /\ Len(hi) = Len(recs) - pos
      /\ \A i \in 1..Len(hi) : hi[i] = recs[pos + i]
  <2>1. pos + 1 \in Int /\ Len(recs) \in Int
        /\ \A i \in (pos + 1)..Len(recs) : recs[i] \in Entry
    BY <1>1
  <2> QED BY <2>1, SubSeqProperties
<1>4. ToSet(lo) \subseteq ToSet(recs) BY <1>2 DEF ToSet
<1>5. ToSet(hi) \subseteq ToSet(recs)
  <2>1. \A i \in 1..Len(hi) : pos + i \in DOMAIN recs BY <1>3
  <2> QED BY <2>1, <1>3 DEF ToSet
<1>6. ASSUME NEW i \in DOMAIN recs PROVE recs[i] \in ToSet(lo) \union ToSet(hi)
  <2>1. CASE i <= pos
    <3>1. i \in DOMAIN lo /\ lo[i] = recs[i] BY <2>1, <1>2
    <3> QED BY <3>1 DEF ToSet
  <2>2. CASE i > pos
    <3>1. i - pos \in 1..Len(hi) /\ pos + (i - pos) = i BY <2>2, <1>3
    <3>2. i - pos \in DOMAIN hi /\ hi[i - pos] = recs[i] BY <3>1, <1>3
    <3> QED BY <3>2 DEF ToSet
  <2> QED BY <2>1, <2>2
<1>7. ToSet(recs) \subseteq ToSet(lo) \union ToSet(hi) BY <1>6 DEF ToSet
<1> QED BY <1>2, <1>3, <1>4, <1>5, <1>7 DEF Cut

----------------------------------------------------------------------------
(* What doInsert and split make of a file *)
LEMMA InsertEffect ==
  ASSUME NEW file, NEW b \in DOMAIN file, file[b] \in Pages,
         NEW slot \in 0..Len(file[b].recs), NEW rec \in Entry,
         NEW new, new = doInsert(file, b, slot, rec)
  PROVE  /\ DOMAIN new = DOMAIN file /\ \A c \in DOMAIN file \ {b} : new[c] = file[c]
         /\ new[b] \in Pages /\ Len(new[b].recs) = Len(file[b].recs) + 1
         /\ new[b].extra1 = file[b].extra1 /\ new[b].extra2 = file[b].extra2
         /\ Longer(file[b].recs, slot, rec, new[b].recs)
         /\ Children(new[b]) \subseteq Children(file[b]) \union {rec.val}
<1>1. PICK recs : recs = file[b].recs /\ recs \in Seq(Entry) BY DEF Pages, Entry
<1>2. PICK more : more = InsertAt(recs, slot + 1, rec) OBVIOUS
<1>3. Longer(recs, slot, rec, more) BY <1>1, <1>2, InsertTyped
<1>4. new = [file EXCEPT ![b].recs = more] BY <1>1, <1>2 DEF doInsert
<1>5. /\ DOMAIN new = DOMAIN file /\ \A c \in DOMAIN file \ {b} : new[c] = file[c]
      /\ new[b] = [file[b] EXCEPT !.recs = more]
  BY <1>4
<1>6. new[b] = [recs |-> more, extra1 |-> file[b].extra1, extra2 |-> file[b].extra2]
  BY <1>5 DEF Pages
<1>7. new[b] \in Pages BY <1>3, <1>6 DEF Pages, Entry, Longer
<1>8. Children(new[b]) \subseteq Children(file[b]) \union {rec.val}
  BY <1>1, <1>3, <1>6 DEF Children, Longer
<1>9. Len(new[b].recs) = Len(file[b].recs) + 1 BY <1>1, <1>3, <1>6 DEF Longer
<1> QED BY <1>1, <1>3, <1>5, <1>6, <1>7, <1>8, <1>9

Halved(file, b, pos, sibling, new, n) ==
  /\ n \in Nat /\ n \notin DOMAIN file /\ b # n
  /\ IsFile(new) /\ DOMAIN new = DOMAIN file \union {n}
  /\ \A c \in DOMAIN file \ {b} : new[c] = file[c]
  /\ new[b] = [recs |-> SubSeq(file[b].recs, 1, pos),
               extra1 |-> file[b].extra1, extra2 |-> file[b].extra2]
  /\ new[n] = [recs |-> SubSeq(file[b].recs, pos + 1, Len(file[b].recs)),
               extra1 |-> sibling, extra2 |-> None]

LEMMA SplitEffect ==
  ASSUME NEW file, IsFile(file), NEW b \in DOMAIN file, file[b] \in Pages,
         NEW pos \in 0..Len(file[b].recs), NEW sibling \in Int,
         NEW new, new = split(file, b, pos, sibling), NEW n, n = Size(file)
  PROVE  Halved(file, b, pos, sibling, new, n)
<1>1. n \in Nat /\ DOMAIN file = 0..(n - 1) BY FileSize
<1>2. PICK lo, hi : /\ lo = SubSeq(file[b].recs, 1, pos)
                    /\ hi = SubSeq(file[b].recs, pos + 1, Len(file[b].recs))
  OBVIOUS
<1>3. PICK cut, page : /\ cut = [file EXCEPT ![b].recs = lo]
                       /\ page = [recs |-> hi, extra1 |-> sibling, extra2 |-> None]
  OBVIOUS
<1>4. new = Extended(cut, page) BY <1>2, <1>3 DEF split
<1>5. DOMAIN cut = DOMAIN file /\ \A c \in DOMAIN file \ {b} : cut[c] = file[c]
  BY <1>3
<1>6. cut[b] = [recs |-> lo, extra1 |-> file[b].extra1, extra2 |-> file[b].extra2]
  BY <1>3 DEF Pages
<1>7. Size(cut) = n BY <1>5 DEF Size
<1>8. /\ DOMAIN new = DOMAIN file \union {n} /\ \A c \in DOMAIN file : new[c] = cut[c]
      /\ new[n] = page
  BY <1>1, <1>4, <1>5, <1>7 DEF Extended
<1>9. IsFile(new)
  <2>1. DOMAIN new = 0..((n + 1) - 1) BY <1>1, <1>8
  <2> QED BY <2>1, <1>1 DEF IsFile
<1>10. n \notin DOMAIN file /\ b # n BY <1>1
<1>11. \A c \in DOMAIN file \ {b} : new[c] = file[c] BY <1>5, <1>8
<1>12. new[b] = [recs |-> lo, extra1 |-> file[b].extra1, extra2 |-> file[b].extra2]
  BY <1>6, <1>8
<1>13. new[n] = [recs |-> hi, extra1 |-> sibling, extra2 |-> None] BY <1>3, <1>8
<1> QED BY <1>1, <1>2, <1>8, <1>9, <1>10, <1>11, <1>12, <1>13 DEF Halved
(* A record less *)
LEMMA RemoveTyped ==
  ASSUME NEW recs \in Seq(Entry), NEW slot \in DOMAIN recs
  PROVE  RemoveAt(recs, slot) \in Seq(Entry) /\ Len(RemoveAt(recs, slot)) = Len(recs) - 1
<1>1. PICK lo : lo = SubSeq(recs, 1, slot - 1) OBVIOUS
<1>2. PICK hi : hi = SubSeq(recs, slot + 1, Len(recs)) OBVIOUS
<1>3. slot \in 1..Len(recs) /\ slot - 1 \in 0..Len(recs) OBVIOUS
<1>4. PICK before : before = slot - 1 OBVIOUS
<1>5. lo \in Seq(Entry) /\ Len(lo) = before
  <2>1. before \in 0..Len(recs) /\ lo = SubSeq(recs, 1, before) BY <1>1, <1>3, <1>4
  <2>2. PICK up : up = SubSeq(recs, before + 1, Len(recs)) OBVIOUS
  <2>3. Cut(recs, before, lo, up) BY <2>1, <2>2, CutTyped
  <2> QED BY <2>3 DEF Cut
<1>6. hi \in Seq(Entry) /\ Len(hi) = Len(recs) - slot
  <2>1. slot \in 0..Len(recs) BY <1>3
  <2>2. PICK low : low = SubSeq(recs, 1, slot) OBVIOUS
  <2>3. Cut(recs, slot, low, hi) BY <2>1, <2>2, <1>2, CutTyped
  <2> QED BY <2>3 DEF Cut
<1>7. lo \o hi \in Seq(Entry) /\ Len(lo \o hi) = Len(lo) + Len(hi)
  BY <1>5, <1>6, ConcatProperties
<1>8. RemoveAt(recs, slot) = lo \o hi BY <1>1, <1>2 DEF RemoveAt
<1>9. Len(lo) + Len(hi) = Len(recs) - 1 BY <1>3, <1>4, <1>5, <1>6
<1> QED BY <1>7, <1>8, <1>9

----------------------------------------------------------------------------
(* A record that fits into a page leaves a file of leaves.                   *)
LEMMA LeafFits ==
  ASSUME NEW file, LeafFile(file), NEW b \in DOMAIN file, NEW rec \in Entry,
         Len(file[b].recs) + 1 <= LeafCapacity, NEW slot \in 0..Len(file[b].recs),
         NEW new, new = doInsert(file, b, slot, rec)
  PROVE  LeafFile(new) /\ DOMAIN new = DOMAIN file
<1>1. LeafPage(file, file[b]) BY DEF LeafFile
<1>2. file[b] \in Pages BY <1>1 DEF LeafPage
<1>3. /\ DOMAIN new = DOMAIN file /\ \A c \in DOMAIN file \ {b} : new[c] = file[c]
      /\ new[b] \in Pages /\ Len(new[b].recs) = Len(file[b].recs) + 1
      /\ new[b].extra1 = file[b].extra1
  BY <1>2, InsertEffect
<1>4. LeafPage(new, new[b]) BY <1>1, <1>3 DEF LeafPage
<1>5. \A c \in DOMAIN file \ {b} : LeafPage(new, new[c]) BY <1>3 DEF LeafFile, LeafPage
<1> QED BY <1>3, <1>4, <1>5 DEF LeafFile, IsFile

(* The halves of a full leaf, the upper one in a new block next in the chain *)
LeafParted(file, b, pos, new) ==
  LET n == Size(file)
      recs == file[b].recs
      lo == SubSeq(recs, 1, pos)
      hi == SubSeq(recs, pos + 1, Len(recs))
  IN /\ n \in Nat /\ n \notin DOMAIN file /\ b # n
     /\ pos \in Nat /\ 1 <= pos /\ pos < Len(recs)
     /\ pos + 1 <= LeafCapacity /\ Len(recs) - pos + 1 <= LeafCapacity
     /\ Cut(recs, pos, lo, hi)
     /\ LeafFile(new) /\ DOMAIN new = DOMAIN file \union {n}
     /\ \A c \in DOMAIN file \ {b} : new[c] = file[c]
     /\ new[b] = [recs |-> lo, extra1 |-> n, extra2 |-> file[b].extra2]
     /\ new[n] = [recs |-> hi, extra1 |-> file[b].extra1, extra2 |-> None]

LEMMA LeafParts ==
  ASSUME NEW file, LeafFile(file), NEW b \in DOMAIN file, Len(file[b].recs) = LeafCapacity,
         NEW pos, pos = Len(file[b].recs) \div 2, NEW new, new = LeafHalves(file, b)
  PROVE  LeafParted(file, b, pos, new)
<1>1. PICK page, recs : page = file[b] /\ recs = page.recs OBVIOUS
<1>2. /\ page \in Pages /\ recs \in Seq(Entry) /\ Len(recs) \in Nat
      /\ Len(recs) <= LeafCapacity /\ page.extra1 \in DOMAIN file \union {None}
  <2>1. LeafPage(file, page) BY <1>1 DEF LeafFile
  <2>2. page \in Pages /\ Len(recs) <= LeafCapacity
        /\ page.extra1 \in DOMAIN file \union {None}
    BY <2>1, <1>1 DEF LeafPage
  <2>3. recs \in Seq(Entry) BY <2>2, <1>1 DEF Pages, Entry
  <2> QED BY <2>2, <2>3
<1>3. PICK n : n = Size(file) OBVIOUS
<1>4. IsFile(file) /\ n \in Nat /\ DOMAIN file = 0..(n - 1) BY <1>3, FileSize DEF LeafFile
<1>5. /\ pos \in Nat /\ pos >= 1 /\ pos + 1 <= LeafCapacity
      /\ Len(recs) - pos + 1 <= LeafCapacity /\ Len(recs) - pos >= 1
  BY <1>1, <1>2
<1>6. PICK cut : cut = split(file, b, pos, page.extra1) OBVIOUS
<1>7. PICK lo, hi : lo = SubSeq(recs, 1, pos) /\ hi = SubSeq(recs, pos + 1, Len(recs))
  OBVIOUS
<1>8. pos \in 0..Len(recs) BY <1>2, <1>5
<1>9. /\ n \notin DOMAIN file /\ b # n
      /\ IsFile(cut) /\ DOMAIN cut = DOMAIN file \union {n}
      /\ \A c \in DOMAIN file \ {b} : cut[c] = file[c]
      /\ cut[b] = [recs |-> lo, extra1 |-> page.extra1, extra2 |-> page.extra2]
      /\ cut[n] = [recs |-> hi, extra1 |-> page.extra1, extra2 |-> None]
  <2>1. page.extra1 \in Int BY <1>2 DEF Pages
  <2>2. PICK sibling \in Int : sibling = page.extra1 BY <2>1
  <2>3. PICK at \in 0..Len(file[b].recs) : at = pos BY <1>1, <1>8
  <2>4. cut = split(file, b, at, sibling) BY <2>2, <2>3, <1>6
  <2>5. file[b] \in Pages BY <1>1, <1>2
  <2>6. Halved(file, b, at, sibling, cut, n)
    <3>1. b \in DOMAIN file /\ IsFile(file) BY <1>4
    <3> QED BY <3>1, <2>4, <2>5, <1>3, SplitEffect
  <2>7. /\ lo = SubSeq(file[b].recs, 1, at)
        /\ hi = SubSeq(file[b].recs, at + 1, Len(file[b].recs))
    BY <1>1, <1>7, <2>3
  <2> QED BY <2>2, <2>6, <2>7, <1>1 DEF Halved
<1>10. Cut(recs, pos, lo, hi)
  <2>1. recs \in Seq(Entry) BY <1>2
  <2> QED BY <2>1, <1>7, <1>8, CutTyped
<1>11. /\ lo \in Seq(Entry) /\ Len(lo) = pos
       /\ hi \in Seq(Entry) /\ Len(hi) = Len(recs) - pos
  BY <1>10 DEF Cut
<1>12. new = [cut EXCEPT ![b].extra1 = n] BY <1>1, <1>3, <1>6 DEF LeafHalves
<1>13. /\ DOMAIN new = DOMAIN file \union {n}
       /\ \A c \in DOMAIN file \ {b} : new[c] = file[c]
       /\ new[b] = [recs |-> lo, extra1 |-> n, extra2 |-> page.extra2]
       /\ new[n] = [recs |-> hi, extra1 |-> page.extra1, extra2 |-> None]
  BY <1>9, <1>12
<1>14. /\ new[b] \in Pages /\ Len(new[b].recs) = pos
       /\ new[n] \in Pages /\ Len(new[n].recs) = Len(recs) - pos
  <2>1. page.extra1 \in Int /\ page.extra2 \in Int BY <1>2 DEF Pages
  <2>2. n \in Int /\ None \in Int BY <1>4
  <2>3. lo \in Seq([key : Keys, val : Rids \union Nat])
        /\ hi \in Seq([key : Keys, val : Rids \union Nat])
    BY <1>11 DEF Entry
  <2>4. new[b] \in Pages BY <2>1, <2>2, <2>3, <1>13 DEF Pages
  <2>5. new[n] \in Pages BY <2>1, <2>2, <2>3, <1>13 DEF Pages
  <2>6. new[b].recs = lo /\ new[n].recs = hi BY <1>13
  <2> QED BY <2>4, <2>5, <2>6, <1>11
<1>15. LeafFile(new)
  <2>1. IsFile(new) BY <1>9, <1>13 DEF IsFile
  <2>2. ASSUME NEW c \in DOMAIN file \ {b} PROVE LeafPage(new, new[c])
    <3>1. new[c] = file[c] /\ DOMAIN file \subseteq DOMAIN new BY <1>13
    <3>2. LeafPage(file, file[c]) BY DEF LeafFile
    <3> QED BY <3>1, <3>2 DEF LeafPage
  <2>3. LeafPage(new, new[b])
    <3>1. new[b].extra1 = n /\ n \in DOMAIN new BY <1>13
    <3>2. Len(new[b].recs) <= LeafCapacity
      <4>1. pos <= LeafCapacity BY <1>5
      <4>2. Len(new[b].recs) = pos BY <1>14
      <4> QED BY <4>1, <4>2
    <3> QED BY <3>1, <3>2, <1>14 DEF LeafPage
  <2>4. LeafPage(new, new[n])
    <3>1. new[n].extra1 = page.extra1 BY <1>13
    <3>2. new[n].extra1 \in DOMAIN new \union {None} BY <3>1, <1>2, <1>13
    <3>3. Len(new[n].recs) <= LeafCapacity
      <4>1. Len(recs) - pos <= LeafCapacity BY <1>2, <1>5
      <4>2. Len(new[n].recs) = Len(recs) - pos BY <1>14
      <4> QED BY <4>1, <4>2
    <3> QED BY <3>2, <3>3, <1>14 DEF LeafPage
  <2> QED BY <2>1, <2>2, <2>3, <2>4, <1>13 DEF LeafFile
<1>16. pos < Len(recs) BY <1>2, <1>5
<1> QED BY <1>1, <1>3, <1>4, <1>5, <1>7, <1>9, <1>10, <1>13, <1>15, <1>16 DEF LeafParted

(* The slot for a key is in the lower half of a page whenever a key in the  *)
(* upper half is greater.                                                   *)
LEMMA SlotInHalf ==
  ASSUME NEW recs \in Seq(Entry), NEW pos \in 0..Len(recs), NEW lo, NEW hi,
         Cut(recs, pos, lo, hi), pos < Len(recs), NEW key \in Keys,
         compareVals(key, hi[1].key) < 0
  PROVE  findLeafSlot(recs, key) = findLeafSlot(lo, key)
<1>1. /\ lo \in Seq(Entry) /\ Len(lo) = pos /\ Len(hi) = Len(recs) - pos
      /\ \A i \in 1..pos : lo[i] = recs[i]
      /\ \A i \in 1..Len(hi) : hi[i] = recs[pos + i]
  BY DEF Cut
<1>2. hi[1] = recs[pos + 1] /\ pos + 1 \in DOMAIN recs
  <2>1. 1 \in 1..Len(hi) BY <1>1
  <2>2. hi[1] = recs[pos + 1] BY <2>1, <1>1
  <2>3. pos + 1 \in DOMAIN recs OBVIOUS
  <2> QED BY <2>2, <2>3
<1>3. findLeafSlot(recs, key) < pos + 1
  <2>1. PICK s \in DOMAIN recs : s = pos + 1 BY <1>2
  <2>2. compareVals(key, recs[s].key) < 0 BY <2>1, <1>2
  <2> QED BY <2>1, <2>2, SlotBefore
<1>4. PICK A : A = {s \in DOMAIN recs : compareVals(recs[s].key, key) >= 0}
                   \union {Len(recs) + 1}
  OBVIOUS
<1>5. PICK B : B = {s \in DOMAIN lo : compareVals(lo[s].key, key) >= 0} \union {Len(lo) + 1}
  OBVIOUS
<1>6. A \subseteq Nat /\ A # {} /\ B \subseteq Nat /\ B # {} BY <1>1, <1>4, <1>5
<1>7. PICK a \in Nat, c \in Nat : /\ a = Min(A) /\ a \in A /\ \A j \in A : a <= j
                                  /\ c = Min(B) /\ c \in B /\ \A j \in B : c <= j
  BY <1>6, LeastExists
<1>8. findLeafSlot(recs, key) = a - 1 /\ findLeafSlot(lo, key) = c - 1
  BY <1>4, <1>5, <1>7 DEF findLeafSlot
<1>9. a <= pos + 1 BY <1>3, <1>7, <1>8
<1>10. \A s \in 1..pos : s \in A <=> s \in B BY <1>1, <1>4, <1>5
<1>11. pos + 1 \in B /\ c <= pos + 1 BY <1>1, <1>5, <1>7
<1>12. a = c
  <2>1. CASE a = pos + 1
    <3>1. c \in 1..pos => c \in A BY <1>7, <1>10
    <3>2. c \in 1..pos => FALSE BY <3>1, <2>1, <1>7
    <3>3. c \in 1..(pos + 1) BY <1>1, <1>5, <1>7
    <3> QED BY <3>2, <3>3, <2>1
  <2>2. CASE a # pos + 1
    <3>1. a \in 1..pos BY <2>2, <1>4, <1>7, <1>9
    <3>2. a \in B BY <3>1, <1>7, <1>10
    <3>3. c <= a BY <3>2, <1>7
    <3>4. c \in 1..pos BY <3>1, <3>3, <1>1, <1>5, <1>7
    <3>5. c \in A BY <3>4, <1>7, <1>10
    <3> QED BY <3>3, <3>5, <1>7
  <2> QED BY <2>1, <2>2
<1> QED BY <1>8, <1>12

LEMMA FullLeafParts ==
  ASSUME NEW file, LeafFile(file), NEW b \in DOMAIN file, isFull(file[b], LeafCapacity),
         NEW new, new = LeafHalves(file, b)
  PROVE  \E pos : LeafParted(file, b, pos, new)
<1>1. LeafPage(file, file[b]) BY DEF LeafFile
<1>2. Len(file[b].recs) \in Nat /\ Len(file[b].recs) <= LeafCapacity
  BY <1>1 DEF LeafPage, Pages
<1>3. Len(file[b].recs) = LeafCapacity BY <1>2 DEF isFull
<1>4. PICK pos : pos = Len(file[b].recs) \div 2 OBVIOUS
<1>5. LeafParted(file, b, pos, new) BY <1>3, <1>4, LeafParts
<1> QED BY <1>5

(* LeafInsert makes room, if it must, and then puts the record into block c. *)
HasRoom(file, b, rec, base, c, handed) ==
  \/ base = file /\ c = b /\ handed = NoSplit
  \/ \E pos : /\ LeafParted(file, b, pos, base)
              /\ handed = [key |-> base[Size(file)].recs[1].key, val |-> Size(file)]
              /\ handed.key \in Keys
              /\ IF compareVals(rec.key, handed.key) < 0 THEN c = b ELSE c = Size(file)

LEMMA LeafInsertIs ==
  ASSUME NEW file, LeafFile(file), NEW b \in DOMAIN file, NEW rec \in Entry,
         NEW res, res = LeafInsert(file, b, rec)
  PROVE  \E base, c, handed, slot :
           /\ HasRoom(file, b, rec, base, c, handed)
           /\ LeafFile(base) /\ c \in DOMAIN base /\ Len(base[c].recs) + 1 <= LeafCapacity
           /\ slot = findLeafSlot(base[c].recs, rec.key) /\ slot \in 0..Len(base[c].recs)
           /\ res = [file |-> doInsert(base, c, slot, rec), split |-> handed]
<1>1. PICK page, recs : page = file[b] /\ recs = page.recs OBVIOUS
<1>2. recs \in Seq(Entry) /\ Len(recs) \in Nat /\ Len(recs) <= LeafCapacity
  <2>1. LeafPage(file, page) BY <1>1 DEF LeafFile
  <2>2. Len(recs) <= LeafCapacity BY <2>1, <1>1 DEF LeafPage
  <2>3. recs \in Seq(Entry) BY <2>1, <1>1 DEF LeafPage, Pages, Entry
  <2> QED BY <2>2, <2>3
<1>3. PICK n : n = Size(file) OBVIOUS
<1>4. PICK key \in Keys : key = rec.key BY DEF Entry
<1>5. PICK slot : slot = findLeafSlot(recs, key) OBVIOUS
<1>6. slot \in 0..Len(recs) BY <1>2, <1>5, SlotTyped
<1>7. CASE ~isFull(page, LeafCapacity)
  <2>1. Len(recs) + 1 <= LeafCapacity BY <1>1, <1>2, <1>7 DEF isFull
  <2>2. res = [file |-> doInsert(file, b, slot, rec), split |-> NoSplit]
    BY <1>1, <1>4, <1>5, <1>7 DEF LeafInsert
  <2>3. HasRoom(file, b, rec, file, b, NoSplit) BY DEF HasRoom
  <2> QED BY <2>1, <2>2, <2>3, <1>1, <1>4, <1>5, <1>6
<1>8. CASE isFull(page, LeafCapacity)
  <2>1. Len(recs) = LeafCapacity BY <1>1, <1>2, <1>8 DEF isFull
  <2>2. PICK pos : pos = Len(recs) \div 2 OBVIOUS
  <2>3. PICK halves : halves = LeafHalves(file, b) OBVIOUS
  <2>4. LeafParted(file, b, pos, halves) BY <1>1, <1>3, <2>1, <2>2, <2>3, LeafParts
  <2>5. PICK lo, hi : lo = SubSeq(recs, 1, pos) /\ hi = SubSeq(recs, pos + 1, Len(recs))
    OBVIOUS
  <2>6. /\ pos \in 0..Len(recs) /\ pos < Len(recs) /\ Cut(recs, pos, lo, hi)
        /\ halves[b].recs = lo /\ halves[n].recs = hi
        /\ pos + 1 <= LeafCapacity /\ Len(recs) - pos + 1 <= LeafCapacity
        /\ LeafFile(halves) /\ b \in DOMAIN halves /\ n \in DOMAIN halves
    BY <1>1, <1>2, <1>3, <2>4, <2>5 DEF LeafParted
  <2>7. PICK splitKey : splitKey = hi[1].key OBVIOUS
  <2>8. splitKey \in Keys
    <3>1. hi \in Seq(Entry) /\ Len(hi) >= 1 BY <2>6, <1>2 DEF Cut
    <3>2. hi[1] \in Entry BY <3>1
    <3> QED BY <3>2, <2>7 DEF Entry
  <2>9. PICK handed : handed = [key |-> splitKey, val |-> n] OBVIOUS
  <2>10. /\ handed = [key |-> halves[Size(file)].recs[1].key, val |-> Size(file)]
         /\ handed.key = splitKey
    BY <1>3, <2>6, <2>7, <2>9
  <2>11. CASE compareVals(key, splitKey) < 0
    <3>1. res = [file |-> doInsert(halves, b, slot, rec), split |-> handed]
      BY <1>1, <1>3, <1>4, <1>5, <1>8, <2>2, <2>3, <2>6, <2>7, <2>9, <2>11 DEF LeafInsert
    <3>2. slot = findLeafSlot(lo, key) BY <1>2, <1>5, <2>6, <2>7, <2>11, SlotInHalf
    <3>3. slot \in 0..Len(lo) /\ Len(lo) + 1 <= LeafCapacity
      <4>1. lo \in Seq(Entry) /\ Len(lo) = pos BY <2>6 DEF Cut
      <4> QED BY <4>1, <3>2, <2>6, SlotTyped
    <3>4. HasRoom(file, b, rec, halves, b, handed)
      BY <1>4, <2>4, <2>8, <2>10, <2>11 DEF HasRoom
    <3> QED BY <3>1, <3>2, <3>3, <3>4, <1>4, <2>6
  <2>12. CASE ~(compareVals(key, splitKey) < 0)
    <3>1. PICK late : late = findLeafSlot(hi, key) OBVIOUS
    <3>2. res = [file |-> doInsert(halves, n, late, rec), split |-> handed]
      BY <3>1, <1>1, <1>3, <1>4, <1>5, <1>8, <2>2, <2>3, <2>6, <2>7, <2>9, <2>12
      DEF LeafInsert
    <3>3. late \in 0..Len(hi) /\ Len(hi) + 1 <= LeafCapacity
      <4>1. hi \in Seq(Entry) /\ Len(hi) = Len(recs) - pos BY <2>6 DEF Cut
      <4> QED BY <4>1, <3>1, <2>6, SlotTyped
    <3>4. HasRoom(file, b, rec, halves, n, handed)
      BY <1>3, <1>4, <2>4, <2>8, <2>10, <2>12 DEF HasRoom
    <3> QED BY <3>1, <3>2, <3>3, <3>4, <1>4, <2>6
  <2> QED BY <2>11, <2>12
<1> QED BY <1>7, <1>8

(* An insertion into a leaf leaves a file of leaves: the record fits into   *)
(* the page or into one of the halves of a full page, and the sibling links *)
(* lead to blocks of the file.                                              *)
LEMMA LeafInsertTyped ==
  ASSUME NEW file, LeafFile(file), NEW b \in DOMAIN file, NEW rec \in Entry,
         NEW res, res = LeafInsert(file, b, rec)
  PROVE  /\ LeafFile(res.file) /\ DOMAIN file \subseteq DOMAIN res.file
         /\ \/ res.split = NoSplit
            \/ res.split \in [key : Keys, val : DOMAIN res.file]
<1>1. PICK base, c, handed, slot :
        /\ HasRoom(file, b, rec, base, c, handed)
        /\ LeafFile(base) /\ c \in DOMAIN base /\ Len(base[c].recs) + 1 <= LeafCapacity
        /\ slot = findLeafSlot(base[c].recs, rec.key) /\ slot \in 0..Len(base[c].recs)
        /\ res = [file |-> doInsert(base, c, slot, rec), split |-> handed]
  BY LeafInsertIs
<1>2. PICK new : new = res.file /\ new = doInsert(base, c, slot, rec) BY <1>1
<1>3. LeafFile(new) /\ DOMAIN new = DOMAIN base BY <1>1, <1>2, LeafFits
<1>4. DOMAIN file \subseteq DOMAIN base BY <1>1 DEF HasRoom, LeafParted
<1>5. handed = NoSplit \/ handed \in [key : Keys, val : DOMAIN base]
  <2>1. CASE handed = NoSplit BY <2>1
  <2>2. CASE handed # NoSplit
    <3>1. PICK pos : /\ LeafParted(file, b, pos, base)
                     /\ handed = [key |-> base[Size(file)].recs[1].key, val |-> Size(file)]
                     /\ handed.key \in Keys
      BY <2>2, <1>1 DEF HasRoom
    <3>2. Size(file) \in DOMAIN base BY <3>1 DEF LeafParted
    <3> QED BY <3>1, <3>2
  <2> QED BY <2>1, <2>2
<1> QED BY <1>1, <1>2, <1>3, <1>4, <1>5

----------------------------------------------------------------------------
(* More blocks and the old ones on the same levels *)
Grown(old, new) ==
  DOMAIN old \subseteq DOMAIN new /\ \A c \in DOMAIN old : new[c].extra1 = old[c].extra1

(* What a split hands to a page of the next level *)
Pending(file, leaves, level, rec) ==
  /\ rec \in [key : Keys, val : Nat] /\ IsChild(file, leaves, level, rec.val)
  /\ level > 0 => rec.val # Root

Inserted(file, leaves, level, res) ==
  /\ res = [file |-> res.file, split |-> res.split]
  /\ Directory(res.file, leaves) /\ Grown(file, res.file)
  /\ res.split = NoSplit \/ Pending(res.file, leaves, level + 1, res.split)

LEMMA ChildKept ==
  ASSUME NEW old, NEW new, Grown(old, new), NEW leaves, NEW more, leaves \subseteq more,
         NEW level, NEW c, IsChild(old, leaves, level, c)
  PROVE  IsChild(new, more, level, c)
BY DEF Grown, IsChild

LEMMA DirPageKept ==
  ASSUME NEW old, NEW new, Grown(old, new), Root \in DOMAIN old,
         NEW leaves, NEW more, leaves \subseteq more,
         NEW page, DirPage(old, leaves, page)
  PROVE  DirPage(new, more, page)
<1>1. \A c \in Children(page) : IsChild(new, more, page.extra1, c)
  BY ChildKept DEF DirPage
<1>2. new[Root].extra1 = old[Root].extra1 BY DEF Grown
<1> QED BY <1>1, <1>2 DEF DirPage

LEMMA GrownOnce ==
  ASSUME NEW a, NEW b, NEW c, Grown(a, b), Grown(b, c)
  PROVE  Grown(a, c)
BY DEF Grown

LEMMA RootExists ==
  ASSUME NEW file, IsFile(file), NEW b \in DOMAIN file
  PROVE  Root \in DOMAIN file
BY DEF IsFile

LEMMA ChildrenAreBlocks ==
  ASSUME NEW file, IsFile(file), NEW leaves \in SUBSET Nat,
         NEW page, DirPage(file, leaves, page), NEW c \in Children(page)
  PROVE  c \in Nat
<1>1. DOMAIN file \subseteq Nat BY DEF IsFile
<1> QED BY <1>1 DEF DirPage, IsChild

(* A record that fits into a page, and leads to a child of the page *)
LEMMA DirFits ==
  ASSUME NEW file, NEW leaves, Directory(file, leaves), NEW b \in DOMAIN file,
         NEW rec \in Entry, IsChild(file, leaves, file[b].extra1, rec.val),
         Len(file[b].recs) + 1 <= DirCapacity, NEW slot \in 0..Len(file[b].recs),
         NEW new, new = doInsert(file, b, slot, rec)
  PROVE  Directory(new, leaves) /\ Grown(file, new) /\ DOMAIN new = DOMAIN file
<1>1. DirPage(file, leaves, file[b]) /\ IsFile(file) BY DEF Directory
<1>2. file[b] \in Pages BY <1>1 DEF DirPage
<1>3. /\ DOMAIN new = DOMAIN file /\ \A c \in DOMAIN file \ {b} : new[c] = file[c]
      /\ new[b] \in Pages /\ Len(new[b].recs) = Len(file[b].recs) + 1
      /\ new[b].extra1 = file[b].extra1
      /\ Children(new[b]) \subseteq Children(file[b]) \union {rec.val}
  BY <1>2, InsertEffect
<1>4. Grown(file, new) BY <1>3 DEF Grown
<1>5. Root \in DOMAIN file BY <1>1, RootExists
<1>6. DirPage(new, leaves, new[b])
  <2>1. \A c \in Children(new[b]) : IsChild(file, leaves, file[b].extra1, c)
    BY <1>1, <1>3 DEF DirPage
  <2>2. \A c \in Children(new[b]) : IsChild(new, leaves, new[b].extra1, c)
    BY <2>1, <1>3, <1>4, ChildKept
  <2>3. new[b].extra1 <= new[Root].extra1 /\ new[b].extra1 \in Nat
    BY <1>1, <1>3, <1>4, <1>5 DEF DirPage, Grown
  <2> QED BY <2>2, <2>3, <1>3 DEF DirPage
<1>7. \A c \in DOMAIN file \ {b} : DirPage(new, leaves, new[c])
  BY <1>3, <1>4, <1>5, DirPageKept DEF Directory
<1>8. IsFile(new) BY <1>1, <1>3 DEF IsFile
<1> QED BY <1>3, <1>4, <1>6, <1>7, <1>8 DEF Directory

(* The halves of a full directory page, the upper one in a new block that no *)
(* page leads to; its first child is kept in its header.                     *)
DirParted(file, b, pos, new) ==
  LET n == Size(file)
      recs == file[b].recs
      lo == SubSeq(recs, 1, pos)
      hi == SubSeq(recs, pos + 1, Len(recs))
  IN /\ n \in Nat /\ n \notin DOMAIN file /\ b # n
     /\ pos \in Nat /\ pos >= 1 /\ pos + 1 <= DirCapacity
     /\ Len(recs) - pos + 1 <= DirCapacity /\ Len(recs) - pos >= 1
     /\ Cut(recs, pos, lo, hi) /\ UpperFirst(file, b) = hi[1] /\ hi[1] \in Entry
     /\ Tail(hi) \in Seq(Entry) /\ Len(Tail(hi)) = Len(recs) - pos - 1
     /\ DOMAIN new = DOMAIN file \union {n}
     /\ \A c \in DOMAIN file \ {b} : new[c] = file[c]
     /\ new[b] = [recs |-> lo, extra1 |-> file[b].extra1, extra2 |-> file[b].extra2]
     /\ new[n] = [recs |-> Tail(hi), extra1 |-> file[b].extra1, extra2 |-> hi[1].val]
     /\ new[b] \in Pages /\ new[n] \in Pages

(* A full directory page is halved in the middle *)
PartsDir(file, leaves, b, pos, halves) ==
  /\ Directory(file, leaves) /\ isFull(file[b], DirCapacity)
  /\ pos = Len(file[b].recs) \div 2 /\ halves = DirHalves(file, b)

LEMMA DirParts ==
  ASSUME NEW file, NEW leaves \in SUBSET Nat, NEW b \in DOMAIN file, NEW pos, NEW halves,
         PartsDir(file, leaves, b, pos, halves)
  PROVE  /\ DirParted(file, b, pos, halves)
         /\ Directory(halves, leaves) /\ Grown(file, halves)
<1>1. PICK page, recs, level : page = file[b] /\ recs = page.recs /\ level = page.extra1
  OBVIOUS
<1>2. Directory(file, leaves) /\ DirPage(file, leaves, page) BY <1>1 DEF Directory, PartsDir
<1>3. /\ page \in Pages /\ recs \in Seq(Entry) /\ Len(recs) \in Nat
      /\ Len(recs) <= DirCapacity /\ level \in Nat
  BY <1>1, <1>2 DEF DirPage, Pages, Entry
<1>4. PICK n : n = Size(file) OBVIOUS
<1>5. IsFile(file) /\ n \in Nat /\ DOMAIN file = 0..(n - 1) /\ Root \in DOMAIN file
  BY <1>2, <1>4, FileSize, RootExists DEF Directory
<1>6. Len(recs) = DirCapacity BY <1>1, <1>3 DEF isFull, PartsDir
<1>7. /\ pos \in Nat /\ pos >= 1 /\ pos + 1 <= DirCapacity
      /\ Len(recs) - pos + 1 <= DirCapacity /\ Len(recs) - pos >= 1
  BY <1>1, <1>3, <1>6 DEF PartsDir
<1>8. PICK cut : cut = split(file, b, pos, level) OBVIOUS
<1>9. PICK lo, hi : lo = SubSeq(recs, 1, pos) /\ hi = SubSeq(recs, pos + 1, Len(recs))
  OBVIOUS
<1>10. pos \in 0..Len(recs) BY <1>3, <1>7
<1>11. /\ n \notin DOMAIN file /\ b # n
       /\ IsFile(cut) /\ DOMAIN cut = DOMAIN file \union {n}
       /\ \A c \in DOMAIN file \ {b} : cut[c] = file[c]
       /\ Halved(file, b, pos, level, cut, n)
  <2>1. PICK sibling \in Int : sibling = level BY <1>3
  <2>2. PICK at \in 0..Len(file[b].recs) : at = pos BY <1>1, <1>10
  <2>3. cut = split(file, b, at, sibling) BY <2>1, <2>2, <1>8
  <2>4. file[b] \in Pages BY <1>1, <1>3
  <2>5. Halved(file, b, at, sibling, cut, n)
    <3>1. b \in DOMAIN file /\ IsFile(file) BY <1>5
    <3> QED BY <3>1, <2>3, <2>4, <1>4, SplitEffect
  <2>6. Halved(file, b, pos, level, cut, n) BY <2>1, <2>2, <2>5
  <2> QED BY <2>6 DEF Halved
<1>12. cut[b] = [recs |-> lo, extra1 |-> level, extra2 |-> page.extra2]
  <2>1. cut[b] = [recs |-> SubSeq(file[b].recs, 1, pos),
                  extra1 |-> file[b].extra1, extra2 |-> file[b].extra2]
    BY <1>11 DEF Halved
  <2> QED BY <2>1, <1>1, <1>9
<1>13. cut[n] = [recs |-> hi, extra1 |-> level, extra2 |-> None]
  <2>1. cut[n] = [recs |-> SubSeq(file[b].recs, pos + 1, Len(file[b].recs)),
                  extra1 |-> level, extra2 |-> None]
    BY <1>11 DEF Halved
  <2> QED BY <2>1, <1>1, <1>9
<1>14. /\ Cut(recs, pos, lo, hi)
       /\ lo \in Seq(Entry) /\ Len(lo) = pos /\ ToSet(lo) \subseteq ToSet(recs)
       /\ hi \in Seq(Entry) /\ Len(hi) = Len(recs) - pos /\ ToSet(hi) \subseteq ToSet(recs)
  <2>1. recs \in Seq(Entry) BY <1>3
  <2>2. Cut(recs, pos, lo, hi) BY <2>1, <1>9, <1>10, CutTyped
  <2> QED BY <2>2 DEF Cut
<1>15. PICK first : first = hi[1] OBVIOUS
<1>16. PICK rest : rest = Tail(hi) OBVIOUS
<1>17. /\ rest \in Seq(Entry) /\ Len(rest) = Len(recs) - pos - 1
       /\ ToSet(rest) \subseteq ToSet(recs)
  <2>1. hi # <<>> BY <1>7, <1>14
  <2>2. /\ rest \in Seq(Entry) /\ Len(rest) = Len(hi) - 1
        /\ \A i \in 1..Len(rest) : rest[i] = hi[i + 1]
    BY <2>1, <1>14, <1>16, HeadTailProperties
  <2>3. \A i \in 1..Len(rest) : i + 1 \in DOMAIN hi BY <2>2, <1>14
  <2>4. ToSet(rest) \subseteq ToSet(hi) BY <2>2, <2>3 DEF ToSet
  <2> QED BY <2>2, <2>4, <1>14
<1>18. first \in Entry /\ first \in ToSet(recs)
  <2>1. 1 \in DOMAIN hi BY <1>7, <1>14
  <2>2. first \in ToSet(hi) BY <2>1, <1>15 DEF ToSet
  <2> QED BY <2>1, <2>2, <1>14, <1>15
<1>19. first.val \in Nat
  <2>1. first.val \in Children(page) BY <1>18, <1>1 DEF Children
  <2> QED BY <2>1, <1>2, <1>5, ChildrenAreBlocks
<1>20. halves = [cut EXCEPT ![n].recs = Tail(@), ![n].extra2 = first.val]
  <2>1. hi[1] = recs[pos + 1]
    <3>1. 1 \in 1..Len(hi) BY <1>3, <1>7, <1>14
    <3> QED BY <3>1, <1>14 DEF Cut
  <2>2. first = UpperFirst(file, b) BY <2>1, <1>1, <1>15 DEF UpperFirst, PartsDir
  <2> QED BY <2>2, <1>1, <1>4, <1>8 DEF DirHalves, PartsDir
<1>21. PICK more, val : /\ val = first.val /\ more = [cut EXCEPT ![n].recs = Tail(@)]
                        /\ halves = [more EXCEPT ![n].extra2 = val]
  BY <1>20
<1>22. /\ DOMAIN halves = DOMAIN file \union {n}
       /\ \A c \in DOMAIN file \ {b} : halves[c] = file[c]
       /\ halves[b] = [recs |-> lo, extra1 |-> level, extra2 |-> page.extra2]
  <2>1. /\ DOMAIN more = DOMAIN file \union {n}
        /\ \A c \in DOMAIN file : more[c] = cut[c]
    BY <1>11, <1>21
  <2>2. /\ DOMAIN halves = DOMAIN file \union {n}
        /\ \A c \in DOMAIN file : halves[c] = cut[c]
    BY <2>1, <1>11, <1>21
  <2>3. halves[b] = cut[b] BY <2>2
  <2>4. \A c \in DOMAIN file \ {b} : halves[c] = file[c] BY <2>2, <1>11
  <2> QED BY <2>2, <2>3, <2>4, <1>12
<1>23. halves[n] = [recs |-> rest, extra1 |-> level, extra2 |-> first.val]
  <2>1. n \in DOMAIN cut BY <1>11
  <2>2. n \in DOMAIN more /\ more[n] = [recs |-> rest, extra1 |-> level, extra2 |-> None]
    <3>1. PICK old : old = cut[n] OBVIOUS
    <3>2. old = [recs |-> hi, extra1 |-> level, extra2 |-> None] BY <1>13, <3>1
    <3>3. rest = Tail(old.recs) BY <3>2, <1>16
    <3>4. more[n] = [old EXCEPT !.recs = Tail(old.recs)] BY <2>1, <1>21, <3>1
    <3>5. more[n] = [old EXCEPT !.recs = rest] BY <3>3, <3>4
    <3>6. [old EXCEPT !.recs = rest] = [recs |-> rest, extra1 |-> level, extra2 |-> None]
      BY <3>2
    <3>7. n \in DOMAIN more BY <2>1, <1>21
    <3> QED BY <3>5, <3>6, <3>7
  <2> QED BY <2>2, <1>21
<1>24. /\ halves[b] \in Pages /\ Len(halves[b].recs) = pos
       /\ Children(halves[b]) \subseteq Children(page)
  BY <1>14, <1>22, <1>1, <1>3 DEF Pages, Entry, Children
<1>25. /\ halves[n] \in Pages /\ Len(halves[n].recs) = Len(recs) - pos - 1
       /\ Children(halves[n]) \subseteq Children(page)
  <2>1. halves[n] \in Pages BY <1>17, <1>19, <1>23, <1>3 DEF Pages, Entry
  <2>2. Children(halves[n]) \subseteq Children(page)
    BY <1>17, <1>18, <1>23, <1>1 DEF Children
  <2> QED BY <2>1, <2>2, <1>17, <1>23
<1>26. Grown(file, halves) BY <1>22, <1>1 DEF Grown
<1>27. Directory(halves, leaves)
  <2>1. IsFile(halves) BY <1>11, <1>22 DEF IsFile
  <2>2. \A c \in DOMAIN file \ {b} : DirPage(halves, leaves, halves[c])
    BY <1>2, <1>22, <1>26, <1>5, DirPageKept DEF Directory
  <2>3. DirPage(halves, leaves, page) BY <1>26, <1>2, <1>5, DirPageKept
  <2>4. DirPage(halves, leaves, halves[b])
    BY <2>3, <1>7, <1>22, <1>24, <1>1 DEF DirPage
  <2>5. DirPage(halves, leaves, halves[n])
    BY <2>3, <1>7, <1>23, <1>25, <1>1 DEF DirPage
  <2> QED BY <2>1, <2>2, <2>4, <2>5, <1>22 DEF Directory
<1>28. DirParted(file, b, pos, halves)
  <2>1. /\ lo = SubSeq(file[b].recs, 1, pos)
        /\ hi = SubSeq(file[b].recs, pos + 1, Len(file[b].recs))
    BY <1>1, <1>9
  <2>2. UpperFirst(file, b) = hi[1] /\ hi[1] \in Entry
    <3>1. 1 \in 1..Len(hi) BY <1>3, <1>7, <1>14
    <3>2. hi[1] = recs[pos + 1] BY <3>1, <1>14 DEF Cut
    <3> QED BY <3>2, <1>1, <1>15, <1>18 DEF UpperFirst, PartsDir
  <2>3. /\ halves[b] = [recs |-> lo, extra1 |-> file[b].extra1, extra2 |-> file[b].extra2]
        /\ halves[n] = [recs |-> Tail(hi), extra1 |-> file[b].extra1, extra2 |-> hi[1].val]
    BY <1>1, <1>15, <1>16, <1>22, <1>23
  <2>4. Tail(hi) \in Seq(Entry) /\ Len(Tail(hi)) = Len(recs) - pos - 1 BY <1>16, <1>17
  <2> QED BY <2>1, <2>2, <2>3, <2>4, <1>1, <1>4, <1>5, <1>7, <1>11, <1>14, <1>22, <1>24, <1>25
      DEF DirParted
<1> QED BY <1>26, <1>27, <1>28

(* insertEntry: the record goes into the page, or into one of the halves of *)
(* a full page; the first child of the upper half is kept in its header.    *)
LEMMA EntryInserted ==
  ASSUME NEW file, NEW leaves \in SUBSET Nat, Directory(file, leaves),
         NEW b \in DOMAIN file, NEW rec, Pending(file, leaves, file[b].extra1, rec),
         NEW res, res = insertEntry(file, b, rec)
  PROVE  Inserted(file, leaves, file[b].extra1, res)
<1>1. PICK page, recs, level : page = file[b] /\ recs = page.recs /\ level = page.extra1
  OBVIOUS
<1>2. DirPage(file, leaves, page) BY <1>1 DEF Directory
<1>3. /\ page \in Pages /\ recs \in Seq(Entry) /\ Len(recs) \in Nat
      /\ Len(recs) <= DirCapacity /\ level \in Nat /\ level <= file[Root].extra1
  BY <1>1, <1>2 DEF DirPage, Pages, Entry
<1>4. PICK n : n = Size(file) OBVIOUS
<1>5. IsFile(file) /\ n \in Nat /\ DOMAIN file = 0..(n - 1) /\ Root \in DOMAIN file
  BY <1>4, FileSize, RootExists DEF Directory
<1>6. rec \in Entry BY DEF Pending, Entry
<1>7. PICK key : key = rec.key OBVIOUS
<1>8. PICK slot : slot = findDirSlot(recs, key) OBVIOUS
<1>9. slot \in 0..Len(recs) BY <1>3, <1>8, SlotTyped
<1>10. CASE ~isFull(page, DirCapacity)
  <2>1. PICK new : new = doInsert(file, b, slot, rec) OBVIOUS
  <2>2. res = [file |-> new, split |-> NoSplit]
    BY <1>1, <1>7, <1>8, <1>10, <2>1 DEF insertEntry
  <2>3. Len(recs) + 1 <= DirCapacity BY <1>1, <1>3, <1>10 DEF isFull
  <2>4. Directory(new, leaves) /\ Grown(file, new)
    BY <1>1, <1>6, <1>9, <2>1, <2>3, DirFits DEF Pending
  <2> QED BY <2>2, <2>4 DEF Inserted
<1>11. CASE isFull(page, DirCapacity)
  <2>1. Len(recs) = DirCapacity BY <1>1, <1>3, <1>11 DEF isFull
  <2>2. PICK pos, halves : pos = Len(recs) \div 2 /\ halves = DirHalves(file, b) OBVIOUS
  <2>3. DirParted(file, b, pos, halves) /\ Directory(halves, leaves) /\ Grown(file, halves)
    BY <1>1, <1>11, <2>2, DirParts DEF PartsDir
  <2>4. PICK lo, hi, first, rest :
          /\ lo = SubSeq(recs, 1, pos) /\ hi = SubSeq(recs, pos + 1, Len(recs))
          /\ first = hi[1] /\ rest = Tail(hi)
    OBVIOUS
  <2>5. /\ n \notin DOMAIN file /\ b # n
        /\ pos \in Nat /\ pos >= 1 /\ pos + 1 <= DirCapacity
        /\ Len(recs) - pos + 1 <= DirCapacity /\ Len(recs) - pos >= 1
        /\ Cut(recs, pos, lo, hi) /\ first = UpperFirst(file, b) /\ first \in Entry
        /\ rest \in Seq(Entry) /\ Len(rest) = Len(recs) - pos - 1
        /\ DOMAIN halves = DOMAIN file \union {n}
        /\ halves[b] = [recs |-> lo, extra1 |-> level, extra2 |-> page.extra2]
        /\ halves[n] = [recs |-> rest, extra1 |-> level, extra2 |-> first.val]
    BY <1>1, <1>4, <2>3, <2>4 DEF DirParted
  <2>6. halves[b].recs = lo /\ halves[n].recs = rest /\ Len(lo) = pos
        /\ halves[b].extra1 = level /\ halves[n].extra1 = level
    BY <2>5 DEF Cut
  <2>21. IsChild(halves, leaves, level, rec.val)
    BY <2>3, <1>1, ChildKept DEF Pending
  <2>22. key \in Keys /\ first.key \in Keys BY <2>5, <1>6, <1>7 DEF Entry
  <2>23. ASSUME NEW new, Directory(new, leaves), Grown(halves, new),
                res = [file |-> new, split |-> [key |-> first.key, val |-> n]]
         PROVE  Inserted(file, leaves, level, res)
    <3>1. n # Root BY <2>5, <1>5
    <3>2. n \in DOMAIN new /\ new[n].extra1 = level BY <2>23, <2>5, <2>6 DEF Grown
    <3>3. Pending(new, leaves, level + 1, [key |-> first.key, val |-> n])
      BY <3>1, <3>2, <2>22, <1>3, <1>5 DEF Pending, IsChild
    <3>4. Grown(file, new) BY <2>3, <2>23, GrownOnce
    <3> QED BY <3>3, <3>4, <2>23 DEF Inserted
  <2>24. PICK late : late = findDirSlot(rest, key) OBVIOUS
  <2>25. CASE compareVals(key, first.key) < 0
    <3>1. PICK new : new = doInsert(halves, b, slot, rec) OBVIOUS
    <3>2. res = [file |-> new, split |-> [key |-> first.key, val |-> n]]
      BY <3>1, <1>1, <1>4, <1>7, <1>8, <1>11, <2>2, <2>5, <2>25
      DEF insertEntry
    <3>3. pos + 1 \in DOMAIN recs /\ first = recs[pos + 1]
      <4>1. pos + 1 \in DOMAIN recs BY <2>5, <1>3
      <4>2. first = recs[pos + 1] BY <1>1, <2>2, <2>5 DEF UpperFirst
      <4> QED BY <4>1, <4>2
    <3>4. slot < pos + 1 BY <3>3, <1>3, <1>8, <2>22, <2>25, SlotBefore
    <3>5. slot \in 0..Len(halves[b].recs) BY <3>4, <1>9, <2>5, <2>6
    <3>6. b \in DOMAIN halves /\ Len(halves[b].recs) + 1 <= DirCapacity
          /\ IsChild(halves, leaves, halves[b].extra1, rec.val)
      BY <2>5, <2>6, <2>21
    <3>7. Directory(new, leaves) /\ Grown(halves, new)
      <4>1. PICK at \in 0..Len(halves[b].recs) : at = slot BY <3>5
      <4>2. new = doInsert(halves, b, at, rec) BY <4>1, <3>1
      <4> QED BY <4>2, <3>6, <2>3, <1>6, DirFits
    <3>8. Inserted(file, leaves, level, res) BY <3>2, <3>7, <2>23
    <3> QED BY <3>8, <1>1
  <2>26. CASE ~(compareVals(key, first.key) < 0)
    <3>1. PICK new : new = doInsert(halves, n, late, rec) OBVIOUS
    <3>2. halves[n].recs = rest BY <2>6
    <3>3. res = [file |-> new, split |-> [key |-> first.key, val |-> n]]
      BY <3>1, <3>2, <1>1, <1>4, <1>7, <1>8, <1>11, <2>2, <2>5, <2>24, <2>26
      DEF insertEntry
    <3>4. late \in 0..Len(halves[n].recs) BY <3>2, <2>5, <2>24, SlotTyped
    <3>5. n \in DOMAIN halves /\ Len(halves[n].recs) + 1 <= DirCapacity
          /\ IsChild(halves, leaves, halves[n].extra1, rec.val)
      BY <2>5, <2>6, <2>21
    <3>6. Directory(new, leaves) /\ Grown(halves, new)
      <4>1. PICK at \in 0..Len(halves[n].recs) : at = late BY <3>4
      <4>2. new = doInsert(halves, n, at, rec) BY <4>1, <3>1
      <4> QED BY <4>2, <3>5, <2>3, <1>6, DirFits
    <3>7. Inserted(file, leaves, level, res) BY <3>3, <3>6, <2>23
    <3> QED BY <3>7, <1>1
  <2> QED BY <2>25, <2>26
<1> QED BY <1>10, <1>11

(* A new root is one level above the old one, which no page leads to. *)
LEMMA NewRootTyped ==
  ASSUME NEW file, NEW leaves \in SUBSET Nat, Directory(file, leaves),
         Root \in DOMAIN file, NEW e, Pending(file, leaves, file[Root].extra1 + 1, e),
         NEW new, new = makeNewRoot(file, e)
  PROVE  Directory(new, leaves) /\ DOMAIN file \subseteq DOMAIN new
<1>1. PICK n : n = Size(file) OBVIOUS
<1>2. IsFile(file) /\ n \in Nat /\ DOMAIN file = 0..(n - 1)
  BY <1>1, FileSize DEF Directory
<1>3. PICK page : page = file[Root] OBVIOUS
<1>4. DirPage(file, leaves, page) BY <1>3 DEF Directory
<1>5. PICK level : level = page.extra1 /\ level \in Nat BY <1>4 DEF DirPage
<1>6. PICK top : top = [recs |-> <<e>>, extra1 |-> level + 1, extra2 |-> n] OBVIOUS
<1>7. PICK high : high = [file EXCEPT ![Root] = top] OBVIOUS
<1>8. new = Extended(high, page)
  <2>1. [recs |-> <<e>>, extra1 |-> page.extra1 + 1, extra2 |-> n] = top BY <1>5, <1>6
  <2>2. high = [file EXCEPT ![Root] = [recs |-> <<e>>, extra1 |-> @.extra1 + 1,
                                       extra2 |-> n]]
    BY <2>1, <1>3, <1>7
  <2> QED BY <2>2, <1>1, <1>3 DEF makeNewRoot
<1>9. /\ DOMAIN high = DOMAIN file /\ high[Root] = top
      /\ \A c \in DOMAIN file \ {Root} : high[c] = file[c]
  BY <1>7
<1>10. Size(high) = n BY <1>1, <1>9 DEF Size
<1>11. /\ DOMAIN new = DOMAIN file \union {n} /\ n \notin DOMAIN file
       /\ \A c \in DOMAIN file : new[c] = high[c]
       /\ new[n] = page
  BY <1>2, <1>8, <1>9, <1>10 DEF Extended
<1>12. \A c \in DOMAIN file \ {Root} : new[c] = file[c] BY <1>9, <1>11
<1>13. new[Root] = top /\ n # Root BY <1>9, <1>11
<1>14. IsFile(new)
  <2>1. DOMAIN new = 0..((n + 1) - 1) BY <1>2, <1>11
  <2> QED BY <2>1, <1>2 DEF IsFile
<1>15. ASSUME NEW l \in Nat, l <= level, NEW c, IsChild(file, leaves, l, c)
       PROVE  IsChild(new, leaves, l, c)
  <2>1. CASE l = 0 BY <2>1, <1>15 DEF IsChild
  <2>2. CASE l # 0
    <3>1. c \in DOMAIN file /\ file[c].extra1 = l - 1 BY <2>2, <1>15 DEF IsChild
    <3>2. c # Root BY <3>1, <1>3, <1>5, <1>15
    <3>3. new[c] = file[c] /\ c \in DOMAIN new BY <3>1, <3>2, <1>11, <1>12
    <3> QED BY <3>1, <3>3, <2>2 DEF IsChild
  <2> QED BY <2>1, <2>2
<1>16. ASSUME NEW p, DirPage(file, leaves, p) PROVE DirPage(new, leaves, p)
  <2>1. /\ p \in Pages /\ Len(p.recs) <= DirCapacity
        /\ p.extra1 \in Nat /\ p.extra1 <= level
        /\ \A c \in Children(p) : IsChild(file, leaves, p.extra1, c)
    BY <1>16, <1>3, <1>5 DEF DirPage
  <2>2. \A c \in Children(p) : IsChild(new, leaves, p.extra1, c) BY <2>1, <1>15
  <2>3. p.extra1 <= new[Root].extra1 BY <2>1, <1>5, <1>6, <1>13
  <2> QED BY <2>1, <2>2, <2>3 DEF DirPage
<1>17. DirPage(new, leaves, top)
  <2>1. e \in Entry BY DEF Pending, Entry
  <2>2. e.val \in DOMAIN file /\ file[e.val].extra1 = level /\ e.val # Root
    BY <1>3, <1>5 DEF Pending, IsChild
  <2>3. \A c \in Children(top) : c = e.val \/ c = n
    <3>1. top.recs = <<e>> /\ top.extra2 = n BY <1>6
    <3> QED BY <3>1 DEF Children, ToSet
  <2>4. IsChild(new, leaves, level + 1, e.val)
    BY <2>2, <1>5, <1>11, <1>12 DEF IsChild
  <2>5. IsChild(new, leaves, level + 1, n) BY <1>5, <1>11 DEF IsChild
  <2>6. top \in Pages /\ Len(top.recs) <= DirCapacity
    <3>1. <<e>> \in Seq(Entry) /\ Len(<<e>>) = 1 BY <2>1
    <3> QED BY <3>1, <1>2, <1>5, <1>6 DEF Pages, Entry
  <2>7. top.extra1 = level + 1 BY <1>6
  <2> QED BY <2>3, <2>4, <2>5, <2>6, <2>7, <1>5, <1>13 DEF DirPage
<1>18. \A c \in DOMAIN new : DirPage(new, leaves, new[c])
  <2>1. DirPage(new, leaves, new[n]) BY <1>4, <1>11, <1>16
  <2>2. DirPage(new, leaves, new[Root]) BY <1>13, <1>17
  <2>3. \A c \in DOMAIN file \ {Root} : DirPage(new, leaves, new[c])
    BY <1>12, <1>16 DEF Directory
  <2> QED BY <2>1, <2>2, <2>3, <1>11
<1> QED BY <1>11, <1>14, <1>18 DEF Directory

----------------------------------------------------------------------------
(* findChildBlock follows a link of the page. *)
LEMMA ChildFound ==
  ASSUME NEW page \in Pages, NEW key
  PROVE  findChildBlock(page, key) \in Children(page)
<1>1. PICK recs : recs = page.recs /\ recs \in Seq(Entry) BY DEF Pages, Entry
<1>2. PICK slot : slot = findDirSlot(recs, key) OBVIOUS
<1>3. slot \in 0..Len(recs) BY <1>1, <1>2, SlotTyped
<1>4. findChildBlock(page, key) = IF slot = 0 THEN page.extra2 ELSE recs[slot].val
  BY <1>1, <1>2 DEF findChildBlock
<1>5. CASE slot = 0 BY <1>4, <1>5 DEF Children
<1>6. CASE slot # 0
  <2>1. slot \in DOMAIN recs BY <1>1, <1>3, <1>6
  <2>2. recs[slot] \in ToSet(recs) BY <2>1 DEF ToSet
  <2> QED BY <2>2, <1>1, <1>4, <1>6 DEF Children
<1> QED BY <1>5, <1>6

(* One level down *)
LEMMA Descent ==
  ASSUME NEW file, NEW leaves, Directory(file, leaves), NEW b \in DOMAIN file, NEW key
  PROVE  LET child == findChildBlock(file[b], key) IN
         /\ file[b].extra1 \in Nat /\ file[b].extra1 <= file[Root].extra1
         /\ IsChild(file, leaves, file[b].extra1, child)
<1>1. DirPage(file, leaves, file[b]) BY DEF Directory
<1>2. file[b] \in Pages BY <1>1 DEF DirPage
<1>3. findChildBlock(file[b], key) \in Children(file[b]) BY <1>2, ChildFound
<1> QED BY <1>1, <1>3 DEF DirPage

(* The levels decrease on the way down, so search's recursion is well founded. *)
LEMMA SearchUnfolds ==
  ASSUME NEW file, NEW leaves, Directory(file, leaves), Root \in DOMAIN file, NEW key
  PROVE  \E below :
           /\ search(file, key) = below[Root]
           /\ \A b \in DOMAIN file :
                below[b] = LET child == findChildBlock(file[b], key)
                           IN IF file[b].extra1 = 0 THEN child ELSE below[child]
<1> DEFINE child(b) == findChildBlock(file[b], key)
           Step(f, b) == IF file[b].extra1 = 0 THEN child(b) ELSE f[child(b)]
           Loop(f) == f = [b \in DOMAIN file |-> Step(f, b)]
           Until(f, n) == \A b \in DOMAIN file : file[b].extra1 \in 0..(n - 1) => f[b] = Step(f, b)
           Reached(n) == \E f : Until(f, n)
<1>1. search(file, key) = (CHOOSE f : Loop(f))[Root] BY DEF search
<1>2. ASSUME NEW b \in DOMAIN file
      PROVE  /\ file[b].extra1 \in Nat /\ file[b].extra1 <= file[Root].extra1
             /\ file[b].extra1 = 0 => child(b) \in leaves
             /\ file[b].extra1 # 0 =>
                  child(b) \in DOMAIN file /\ file[child(b)].extra1 = file[b].extra1 - 1
  BY Descent DEF IsChild
<1> HIDE DEF child
<1>3. ASSUME NEW n \in Nat PROVE Reached(n)
  <2> DEFINE Bad == {m \in Nat : ~Reached(m)}
  <2> SUFFICES ASSUME Bad # {} PROVE FALSE OBVIOUS
  <2>1. PICK m : m \in Bad /\ \A i \in Bad : m <= i
    <3>1. Bad \subseteq Nat OBVIOUS
    <3> HIDE DEF Bad
    <3> QED BY <3>1, LeastExists
  <2>2. m \in Nat /\ ~Reached(m) BY <2>1
  <2>3. CASE m = 0
    <3>1. \A l : l \notin 0..(0 - 1) OBVIOUS
    <3>2. ASSUME NEW f PROVE Until(f, 0)
      <4> HIDE DEF Step
      <4> QED BY <3>1
    <3> HIDE DEF Until
    <3> QED BY <3>2, <2>2, <2>3
  <2>4. CASE m # 0
    <3>0. m \in Nat BY <2>2
    <3>1. PICK k \in Nat : k = m - 1 /\ k < m BY <3>0, <2>4
    <3>2. PICK f : Until(f, k)
      <4>1. Reached(k)
        <5> HIDE DEF Reached
        <5>1. k \notin Bad BY <2>1, <2>2, <3>1
        <5> QED BY <5>1
      <4> HIDE DEF Until
      <4> QED BY <4>1
    <3>3. PICK g : g = [b \in DOMAIN file |-> IF file[b].extra1 = k THEN Step(f, b)
                                              ELSE f[b]]
      OBVIOUS
    <3>4. ASSUME NEW b \in DOMAIN file, file[b].extra1 \in 0..(m - 1) PROVE g[b] = Step(g, b)
      <4>1. g[b] = Step(f, b)
        <5>1. \A l : l \in 0..(m - 1) => l = k \/ l \in 0..(k - 1) BY <3>0, <3>1
        <5>2. file[b].extra1 = k \/ file[b].extra1 \in 0..(k - 1) BY <5>1, <3>4
        <5> HIDE DEF Step
        <5> QED BY <5>2, <3>2, <3>3
      <4>2. Step(f, b) = Step(g, b)
        <5>1. CASE file[b].extra1 = 0 BY <5>1
        <5>2. CASE file[b].extra1 # 0
          <6>1. child(b) \in DOMAIN file /\ file[child(b)].extra1 # k
            <7>1. child(b) \in DOMAIN file /\ file[child(b)].extra1 = file[b].extra1 - 1
              BY <5>2, <1>2
            <7>2. file[child(b)].extra1 # m - 1 BY <7>1, <3>0, <3>4
            <7> QED BY <7>1, <7>2, <3>1
          <6>2. g[child(b)] = f[child(b)] BY <6>1, <3>3
          <6> QED BY <6>2, <5>2
        <5> QED BY <5>1, <5>2
      <4> QED BY <4>1, <4>2
    <3>5. Until(g, m)
      <4> HIDE DEF Step
      <4> QED BY <3>4
    <3> HIDE DEF Until
    <3> QED BY <3>5, <2>2
  <2> QED BY <2>3, <2>4
<1>4. \E g : Loop(g)
  <2>1. PICK top : top = file[Root].extra1 /\ top \in Nat BY <1>2
  <2>2. PICK f : Until(f, top + 1)
    <3>1. Reached(top + 1)
      <4> HIDE DEF Reached
      <4> QED BY <2>1, <1>3
    <3> HIDE DEF Until
    <3> QED BY <3>1
  <2>3. \A b \in DOMAIN file : f[b] = Step(f, b)
    <3>1. \A b \in DOMAIN file : file[b].extra1 \in 0..(top + 1 - 1)
      <4>1. \A b \in DOMAIN file : file[b].extra1 \in Nat /\ file[b].extra1 <= top
        BY <2>1, <1>2
      <4> QED BY <4>1, <2>1
    <3> HIDE DEF Step
    <3> QED BY <3>1, <2>1, <2>2
  <2>4. PICK g : g = [b \in DOMAIN file |-> f[b]] OBVIOUS
  <2>5. ASSUME NEW b \in DOMAIN file PROVE f[b] = Step(g, b)
    <3>1. CASE file[b].extra1 = 0 BY <3>1, <2>3
    <3>2. CASE file[b].extra1 # 0
      <4>1. g[child(b)] = f[child(b)] BY <3>2, <2>4, <1>2
      <4> QED BY <4>1, <3>2, <2>3
    <3> QED BY <3>1, <3>2
  <2>6. g = [b \in DOMAIN file |-> Step(g, b)] BY <2>4, <2>5
  <2> QED BY <2>6
<1>5. PICK below : below = (CHOOSE f : Loop(f)) /\ Loop(below) BY <1>4
<1>6. ASSUME NEW b \in DOMAIN file PROVE below[b] = Step(below, b) BY <1>5
<1>7. search(file, key) = below[Root] BY <1>1, <1>5
<1> QED BY <1>6, <1>7 DEF child

(* A search ends in a leaf, since every child is one level below its page.  *)
LEMMA SearchTyped ==
  ASSUME NEW file, NEW leaves, Directory(file, leaves), Root \in DOMAIN file, NEW key
  PROVE  search(file, key) \in leaves
<1> DEFINE child(b) == findChildBlock(file[b], key)
           Step(f, b) == IF file[b].extra1 = 0 THEN child(b) ELSE f[child(b)]
<1>1. PICK below : search(file, key) = below[Root]
                   /\ \A b \in DOMAIN file : below[b] = Step(below, b)
  BY SearchUnfolds
<1>2. ASSUME NEW b \in DOMAIN file
      PROVE  /\ file[b].extra1 \in Nat
             /\ file[b].extra1 = 0 => child(b) \in leaves
             /\ file[b].extra1 # 0 =>
                  child(b) \in DOMAIN file /\ file[child(b)].extra1 = file[b].extra1 - 1
  BY Descent DEF IsChild
<1> HIDE DEF child
<1>3. ASSUME NEW n \in Nat
      PROVE  \A b \in DOMAIN file : file[b].extra1 = n => below[b] \in leaves
  <2> DEFINE Bad == {m \in Nat : \E b \in DOMAIN file : file[b].extra1 = m
                                                        /\ below[b] \notin leaves}
  <2> SUFFICES ASSUME Bad # {} PROVE FALSE OBVIOUS
  <2>1. PICK m : m \in Bad /\ \A i \in Bad : m <= i
    <3>1. Bad \subseteq Nat OBVIOUS
    <3> HIDE DEF Bad
    <3> QED BY <3>1, LeastExists
  <2>2. PICK b \in DOMAIN file : file[b].extra1 = m /\ below[b] \notin leaves BY <2>1
  <2>3. below[b] = Step(below, b) BY <1>1
  <2>4. CASE m = 0 BY <2>2, <2>3, <2>4, <1>2
  <2>5. CASE m # 0
    <3>1. below[b] = below[child(b)] /\ child(b) \in DOMAIN file
          /\ file[child(b)].extra1 = m - 1 /\ m - 1 \in Nat
      BY <2>1, <2>2, <2>3, <2>5, <1>2
    <3>2. m - 1 \notin Bad BY <3>1, <2>1
    <3> QED BY <3>1, <3>2, <2>2
  <2> QED BY <2>4, <2>5
<1>4. below[Root] \in leaves BY <1>2, <1>3
<1> QED BY <1>1, <1>4

(* A page passes on what it has received from below, or enters it. *)
LEMMA StepTyped ==
  ASSUME NEW file, NEW leaves \in SUBSET Nat, NEW b \in DOMAIN file,
         NEW level \in Nat, level = file[b].extra1,
         NEW x, Inserted(file, leaves, level - 1, x), NEW stopped \in BOOLEAN,
         NEW res, res = IF stopped \/ x.split = NoSplit THEN [x EXCEPT !.split = NoSplit]
                        ELSE insertEntry(x.file, b, x.split)
  PROVE  Inserted(file, leaves, level, res)
<1>1. CASE stopped \/ x.split = NoSplit
  <2>1. PICK new : new = x.file OBVIOUS
  <2>2. Directory(new, leaves) /\ Grown(file, new) BY <2>1 DEF Inserted
  <2>3. PICK old : old = x.split OBVIOUS
  <2>4. x = [file |-> new, split |-> old] BY <2>1, <2>3 DEF Inserted
  <2>5. res = [x EXCEPT !.split = NoSplit] BY <1>1
  <2>6. res = [file |-> new, split |-> NoSplit] BY <2>4, <2>5
  <2> QED BY <2>2, <2>6 DEF Inserted
<1>2. CASE ~(stopped \/ x.split = NoSplit)
  <2>1. PICK new, rec : new = x.file /\ rec = x.split OBVIOUS
  <2>2. Directory(new, leaves) /\ Grown(file, new) BY <2>1 DEF Inserted
  <2>3. Pending(new, leaves, level, rec)
    <3>1. (level - 1) + 1 = level OBVIOUS
    <3> QED BY <3>1, <1>2, <2>1 DEF Inserted
  <2>4. b \in DOMAIN new /\ new[b].extra1 = level BY <2>2 DEF Grown
  <2>5. res = insertEntry(new, b, rec) BY <1>2, <2>1
  <2>6. Inserted(new, leaves, level, res)
    <3>1. Pending(new, leaves, new[b].extra1, rec) BY <2>3, <2>4
    <3>2. Inserted(new, leaves, new[b].extra1, res)
      BY <3>1, <2>2, <2>4, <2>5, EntryInserted
    <3> QED BY <3>2, <2>4
  <2>7. Grown(file, res.file) BY <2>2, <2>6, GrownOnce DEF Inserted
  <2> QED BY <2>6, <2>7 DEF Inserted
<1> QED BY <1>1, <1>2

(* What a page receives from below, and what it makes of that *)
Received(file, rec, ins, b) ==
  IF file[b].extra1 = 0 THEN [file |-> file, split |-> rec]
  ELSE ins[findChildBlock(file[b], rec.key)]

Enters(file, stop, b, x) ==
  IF file[b].extra1 >= stop \/ x.split = NoSplit THEN [x EXCEPT !.split = NoSplit]
  ELSE insertEntry(x.file, b, x.split)

(* The recursion of dir.insert *)
LEMMA InsertUnfolds ==
  ASSUME NEW file, NEW leaves, Directory(file, leaves), Root \in DOMAIN file,
         NEW rec, NEW stop, NEW res, res = DirInsert(file, rec, stop)
  PROVE  \E ins : /\ res = ins[Root]
                  /\ \A b \in DOMAIN file :
                       ins[b] = Enters(file, stop, b, Received(file, rec, ins, b))
<1> DEFINE child(b) == findChildBlock(file[b], rec.key)
           Below(f, b) == Received(file, rec, f, b)
           Enter(b, x) == Enters(file, stop, b, x)
           Step(f, b) == Enter(b, Below(f, b))
           Loop(f) == f = [b \in DOMAIN file |-> Step(f, b)]
           Until(f, n) == \A b \in DOMAIN file :
                            file[b].extra1 \in 0..(n - 1) => f[b] = Step(f, b)
           Reached(n) == \E f : Until(f, n)
<1>1. res = (CHOOSE f : Loop(f))[Root] BY DEF DirInsert, Received, Enters
<1>2. ASSUME NEW b \in DOMAIN file
      PROVE  /\ file[b].extra1 \in Nat /\ file[b].extra1 <= file[Root].extra1
             /\ file[b].extra1 # 0 =>
                  child(b) \in DOMAIN file /\ file[child(b)].extra1 = file[b].extra1 - 1
  BY Descent DEF IsChild
<1> HIDE DEF child, Enter
<1>3. ASSUME NEW n \in Nat PROVE Reached(n)
  <2> DEFINE Bad == {m \in Nat : ~Reached(m)}
  <2> SUFFICES ASSUME Bad # {} PROVE FALSE OBVIOUS
  <2>1. PICK m : m \in Bad /\ \A i \in Bad : m <= i
    <3>1. Bad \subseteq Nat OBVIOUS
    <3> HIDE DEF Bad
    <3> QED BY <3>1, LeastExists
  <2>2. m \in Nat /\ ~Reached(m) BY <2>1
  <2>3. CASE m = 0
    <3>1. \A l : l \notin 0..(0 - 1) OBVIOUS
    <3>2. ASSUME NEW f PROVE Until(f, 0)
      <4> HIDE DEF Step
      <4> QED BY <3>1
    <3> HIDE DEF Until
    <3> QED BY <3>2, <2>2, <2>3
  <2>4. CASE m # 0
    <3>1. m \in Nat BY <2>2
    <3>2. PICK k \in Nat : k = m - 1 /\ k < m BY <3>1, <2>4
    <3>3. PICK f : Until(f, k)
      <4>1. Reached(k)
        <5> HIDE DEF Reached
        <5>1. k \notin Bad BY <2>1, <2>2, <3>2
        <5> QED BY <5>1
      <4> HIDE DEF Until
      <4> QED BY <4>1
    <3>4. PICK g : g = [b \in DOMAIN file |-> IF file[b].extra1 = k THEN Step(f, b)
                                              ELSE f[b]]
      OBVIOUS
    <3>5. ASSUME NEW b \in DOMAIN file, file[b].extra1 \in 0..(m - 1) PROVE g[b] = Step(g, b)
      <4>1. g[b] = Step(f, b)
        <5>1. \A l : l \in 0..(m - 1) => l = k \/ l \in 0..(k - 1) BY <3>1, <3>2
        <5>2. file[b].extra1 = k \/ file[b].extra1 \in 0..(k - 1) BY <5>1, <3>5
        <5> HIDE DEF Step
        <5> QED BY <5>2, <3>3, <3>4
      <4>2. Below(f, b) = Below(g, b)
        <5>1. CASE file[b].extra1 = 0 BY <5>1 DEF Received
        <5>2. CASE file[b].extra1 # 0
          <6>1. child(b) \in DOMAIN file /\ file[child(b)].extra1 # k
            <7>1. child(b) \in DOMAIN file /\ file[child(b)].extra1 = file[b].extra1 - 1
              BY <5>2, <1>2
            <7>2. file[child(b)].extra1 # m - 1 BY <7>1, <3>1, <3>5
            <7> QED BY <7>1, <7>2, <3>2
          <6> HIDE DEF Step
          <6>2. g[child(b)] = f[child(b)] BY <6>1, <3>4
          <6> QED BY <6>2, <5>2 DEF Received, child
        <5> QED BY <5>1, <5>2
      <4> QED BY <4>1, <4>2
    <3>6. Until(g, m)
      <4> HIDE DEF Step
      <4> QED BY <3>5
    <3> HIDE DEF Until
    <3> QED BY <3>6, <2>2
  <2> QED BY <2>3, <2>4
<1>4. \E g : Loop(g)
  <2>1. PICK top : top = file[Root].extra1 /\ top \in Nat BY <1>2
  <2>2. PICK f : Until(f, top + 1)
    <3>1. Reached(top + 1)
      <4> HIDE DEF Reached
      <4> QED BY <2>1, <1>3
    <3> HIDE DEF Until
    <3> QED BY <3>1
  <2>3. \A b \in DOMAIN file : f[b] = Step(f, b)
    <3>1. \A b \in DOMAIN file : file[b].extra1 \in 0..(top + 1 - 1)
      <4>1. \A b \in DOMAIN file : file[b].extra1 \in Nat /\ file[b].extra1 <= top
        BY <2>1, <1>2
      <4> QED BY <4>1, <2>1
    <3> HIDE DEF Step
    <3> QED BY <3>1, <2>1, <2>2
  <2>4. PICK g : g = [b \in DOMAIN file |-> f[b]] OBVIOUS
  <2>5. ASSUME NEW b \in DOMAIN file PROVE f[b] = Step(g, b)
    <3>1. Below(f, b) = Below(g, b)
      <4>1. CASE file[b].extra1 = 0 BY <4>1 DEF Received
      <4>2. CASE file[b].extra1 # 0
        <5>1. g[child(b)] = f[child(b)] BY <4>2, <2>4, <1>2
        <5> QED BY <5>1, <4>2 DEF Received, child
      <4> QED BY <4>1, <4>2
    <3> QED BY <3>1, <2>3
  <2>6. g = [b \in DOMAIN file |-> Step(g, b)]
    <3> HIDE DEF Step
    <3> QED BY <2>4, <2>5
  <2> QED BY <2>6
<1>5. PICK ins : ins = (CHOOSE f : Loop(f)) /\ Loop(ins) BY <1>4
<1>6. ASSUME NEW b \in DOMAIN file PROVE ins[b] = Enter(b, Below(ins, b))
  <2> HIDE DEF Below
  <2> QED BY <1>5
<1>7. res = ins[Root] BY <1>1, <1>5
<1> QED BY <1>6, <1>7 DEF Enter

(* dir.insert takes the split of a leaf up to the root, or to where it      *)
(* stops, and leaves a directory.                                           *)
LEMMA DirInsertTyped ==
  ASSUME NEW file, NEW leaves \in SUBSET Nat, Directory(file, leaves),
         Root \in DOMAIN file, NEW rec, Pending(file, leaves, 0, rec),
         NEW stop, NEW res, res = DirInsert(file, rec, stop)
  PROVE  Inserted(file, leaves, file[Root].extra1, res)
<1> DEFINE child(b) == findChildBlock(file[b], rec.key)
           Below(f, b) == Received(file, rec, f, b)
           Enter(b, x) == Enters(file, stop, b, x)
<1>1. PICK ins : /\ res = ins[Root]
                 /\ \A b \in DOMAIN file : ins[b] = Enter(b, Below(ins, b))
  BY InsertUnfolds
<1>2. ASSUME NEW b \in DOMAIN file
      PROVE  /\ file[b].extra1 \in Nat
             /\ file[b].extra1 # 0 =>
                  child(b) \in DOMAIN file /\ file[child(b)].extra1 = file[b].extra1 - 1
  BY Descent DEF IsChild
<1> HIDE DEF child, Enter
<1>3. ASSUME NEW b \in DOMAIN file, NEW x, Inserted(file, leaves, file[b].extra1 - 1, x)
      PROVE  Inserted(file, leaves, file[b].extra1, Enter(b, x))
  <2>1. PICK level \in Nat : level = file[b].extra1 BY <1>2
  <2>2. PICK stopped \in BOOLEAN : stopped <=> file[b].extra1 >= stop OBVIOUS
  <2>3. PICK y : y = Enter(b, x) OBVIOUS
  <2>4. y = IF stopped \/ x.split = NoSplit THEN [x EXCEPT !.split = NoSplit]
            ELSE insertEntry(x.file, b, x.split)
    BY <2>2, <2>3 DEF Enter, Enters
  <2>5. Inserted(file, leaves, level - 1, x) BY <2>1, <1>3
  <2>6. Inserted(file, leaves, level, y) BY <2>1, <2>4, <2>5, StepTyped
  <2> QED BY <2>1, <2>3, <2>6
<1>4. ASSUME NEW n \in Nat
      PROVE  \A b \in DOMAIN file :
               file[b].extra1 = n => Inserted(file, leaves, file[b].extra1, ins[b])
  <2> DEFINE Bad == {m \in Nat : \E b \in DOMAIN file :
                       file[b].extra1 = m /\ ~Inserted(file, leaves, file[b].extra1, ins[b])}
  <2> HIDE DEF Below
  <2> SUFFICES ASSUME Bad # {} PROVE FALSE OBVIOUS
  <2>1. PICK m : m \in Bad /\ \A i \in Bad : m <= i
    <3>1. Bad \subseteq Nat OBVIOUS
    <3> HIDE DEF Bad
    <3> QED BY <3>1, LeastExists
  <2>2. PICK b \in DOMAIN file :
          file[b].extra1 = m /\ ~Inserted(file, leaves, file[b].extra1, ins[b])
    BY <2>1
  <2>3. Inserted(file, leaves, file[b].extra1 - 1, Below(ins, b))
    <3>1. CASE file[b].extra1 = 0
      <4>1. Below(ins, b) = [file |-> file, split |-> rec] BY <3>1 DEF Below, Received
      <4>2. Grown(file, file) BY DEF Grown
      <4>3. (file[b].extra1 - 1) + 1 = 0 BY <3>1
      <4> QED BY <4>1, <4>2, <4>3 DEF Inserted
    <3>2. CASE file[b].extra1 # 0
      <4>1. Below(ins, b) = ins[child(b)] BY <3>2 DEF Below, Received, child
      <4>2. /\ child(b) \in DOMAIN file /\ file[child(b)].extra1 = file[b].extra1 - 1
            /\ file[b].extra1 \in Nat
        BY <3>2, <1>2
      <4>3. m - 1 \in Nat /\ m - 1 < m
        <5>1. PICK e \in Nat : e = file[b].extra1 BY <4>2
        <5>2. e # 0 /\ m = e BY <5>1, <3>2, <2>2
        <5> QED BY <5>2
      <4>4. m - 1 \notin Bad
        <5> HIDE DEF Bad
        <5>1. m - 1 \in Bad => m <= m - 1 BY <2>1
        <5>2. ~(m <= m - 1) BY <4>3
        <5> QED BY <5>1, <5>2, Zenon
      <4>5. Inserted(file, leaves, file[child(b)].extra1, ins[child(b)])
        BY <4>2, <4>3, <4>4, <2>2
      <4> QED BY <4>1, <4>2, <4>5
    <3> QED BY <3>1, <3>2
  <2>4. Inserted(file, leaves, file[b].extra1, Enter(b, Below(ins, b))) BY <2>3, <1>3
  <2>5. ins[b] = Enter(b, Below(ins, b)) BY <1>1
  <2> QED BY <2>2, <2>4, <2>5
<1>5. Inserted(file, leaves, file[Root].extra1, ins[Root]) BY <1>2, <1>4
<1> QED BY <1>1, <1>5

----------------------------------------------------------------------------
Extension(l, d, newLeaf, newDir) ==
  /\ Index(newLeaf, newDir)
  /\ DOMAIN l \subseteq DOMAIN newLeaf /\ DOMAIN d \subseteq DOMAIN newDir

LEMMA BlocksAreNumbers ==
  ASSUME NEW file, IsFile(file)
  PROVE  DOMAIN file \in SUBSET Nat
BY DEF IsFile

(* The directory with a new root, if the old one has split and the Insert     *)
(* reaches it                                                               *)
Topped(dirs, d, stop) ==
  IF d.split # NoSplit /\ stop > dirs[Root].extra1 + 1
  THEN makeNewRoot(d.file, d.split) ELSE d.file

(* The directory after a leaf has split, or not, wherever the Insert stops *)
LEMMA LevelsInserted ==
  ASSUME NEW dirs, NEW leaves \in SUBSET Nat, Directory(dirs, leaves), Root \in DOMAIN dirs,
         NEW leafSplit, leafSplit = NoSplit \/ leafSplit \in [key : Keys, val : leaves],
         NEW stop, NEW d,
         d = IF leafSplit = NoSplit THEN [file |-> dirs, split |-> NoSplit]
             ELSE DirInsert(dirs, leafSplit, stop),
         NEW newDir, newDir = Topped(dirs, d, stop)
  PROVE  Directory(newDir, leaves) /\ DOMAIN dirs \subseteq DOMAIN newDir
<1>1. PICK grown, dirSplit : grown = d.file /\ dirSplit = d.split OBVIOUS
<1>2. PICK top : top = dirs[Root].extra1 OBVIOUS
<1>3. Inserted(dirs, leaves, top, d)
  <2>1. CASE leafSplit = NoSplit
    <3>1. d = [file |-> dirs, split |-> NoSplit] BY <2>1
    <3>2. Grown(dirs, dirs) BY DEF Grown
    <3> QED BY <3>1, <3>2 DEF Inserted
  <2>2. CASE leafSplit # NoSplit
    <3>1. d = DirInsert(dirs, leafSplit, stop) BY <2>2
    <3>2. Pending(dirs, leaves, 0, leafSplit)
      <4>1. leafSplit \in [key : Keys, val : leaves] BY <2>2
      <4>2. leafSplit.val \in leaves /\ leafSplit \in [key : Keys, val : Nat] BY <4>1
      <4> QED BY <4>2 DEF Pending, IsChild
    <3>3. Inserted(dirs, leaves, dirs[Root].extra1, d) BY <3>1, <3>2, DirInsertTyped
    <3> QED BY <3>3, <1>2
  <2> QED BY <2>1, <2>2
<1>4. /\ Directory(grown, leaves) /\ Grown(dirs, grown)
      /\ dirSplit = NoSplit \/ Pending(grown, leaves, top + 1, dirSplit)
  BY <1>1, <1>3 DEF Inserted
<1>5. Root \in DOMAIN grown /\ grown[Root].extra1 = top BY <1>2, <1>4 DEF Grown
<1>6. Directory(newDir, leaves) /\ DOMAIN grown \subseteq DOMAIN newDir
  <2>1. CASE dirSplit # NoSplit /\ stop > top + 1
    <3>1. newDir = makeNewRoot(grown, dirSplit) BY <2>1, <1>1, <1>2 DEF Topped
    <3>2. Pending(grown, leaves, grown[Root].extra1 + 1, dirSplit) BY <2>1, <1>4, <1>5
    <3> QED BY <3>1, <3>2, <1>4, <1>5, NewRootTyped
  <2>2. CASE ~(dirSplit # NoSplit /\ stop > top + 1) BY <2>2, <1>1, <1>2, <1>4 DEF Topped
  <2> QED BY <2>1, <2>2
<1> QED BY <1>4, <1>6 DEF Grown

(* More leaves to lead to *)
LEMMA DirectoryWith ==
  ASSUME NEW d, NEW leaves, Directory(d, leaves), NEW more, leaves \subseteq more
  PROVE  Directory(d, more)
<1>1. Grown(d, d) BY DEF Grown
<1>2. ASSUME NEW c \in DOMAIN d PROVE DirPage(d, more, d[c])
  <2>1. DirPage(d, leaves, d[c]) BY DEF Directory
  <2>2. Root \in DOMAIN d BY RootExists DEF Directory
  <2> QED BY <2>1, <2>2, <1>1, DirPageKept
<1> QED BY <1>2 DEF Directory

(* The parts of an Insert *)
InsertParts(f, r, stop, b, l, d, res) ==
  /\ b = search(f.dir, KeyOf[r]) /\ l = LeafInsert(f.leaf, b, [key |-> KeyOf[r], val |-> r])
  /\ d = IF l.split = NoSplit THEN [file |-> f.dir, split |-> NoSplit]
         ELSE DirInsert(f.dir, l.split, stop)
  /\ res.leaf = l.file
  /\ res.dir = Topped(f.dir, d, stop)

LEMMA InsertHasParts ==
  ASSUME NEW f, NEW r, NEW stop, NEW res, res = InsertUpTo(f, r, stop)
  PROVE  \E b, l, d : InsertParts(f, r, stop, b, l, d, res)
<1>1. PICK b : b = search(f.dir, KeyOf[r]) OBVIOUS
<1>2. PICK l : l = LeafInsert(f.leaf, b, [key |-> KeyOf[r], val |-> r]) OBVIOUS
<1>3. PICK d : d = IF l.split = NoSplit THEN [file |-> f.dir, split |-> NoSplit]
                   ELSE DirInsert(f.dir, l.split, stop)
  OBVIOUS
<1>4. res.leaf = l.file /\ res.dir = Topped(f.dir, d, stop)
  BY <1>1, <1>2, <1>3 DEF InsertUpTo, Topped
<1> QED BY <1>1, <1>2, <1>3, <1>4 DEF InsertParts

(* An Insert extends an index, wherever in the directory it stops. *)
LEMMA InsertUpToTyped ==
  ASSUME NEW f, Index(f.leaf, f.dir), DOMAIN f.leaf # {}, NEW r \in Rids, NEW stop,
         NEW res, res = InsertUpTo(f, r, stop)
  PROVE  Extension(f.leaf, f.dir, res.leaf, res.dir)
<1>1. PICK old, dirs : old = f.leaf /\ dirs = f.dir OBVIOUS
<1>2. /\ LeafFile(old) /\ IsFile(old) /\ DOMAIN old # {}
      /\ Directory(dirs, DOMAIN old) /\ IsFile(dirs) /\ DOMAIN dirs # {}
  BY <1>1 DEF Index, LeafFile, Directory
<1>3. Root \in DOMAIN dirs
  <2>1. PICK b : b \in DOMAIN dirs BY <1>2
  <2> QED BY <2>1, <1>2, RootExists
<1>4. PICK rec : rec = [key |-> KeyOf[r], val |-> r] OBVIOUS
<1>5. rec \in Entry BY <1>4 DEF Entry, Keys
<1>6. PICK b, l, d : InsertParts(f, r, stop, b, l, d, res) BY InsertHasParts
<1>7. b \in DOMAIN old BY <1>1, <1>2, <1>3, <1>6, SearchTyped DEF InsertParts
<1>8. PICK new, leafSplit : new = l.file /\ leafSplit = l.split OBVIOUS
<1>9. /\ LeafFile(new) /\ DOMAIN old \subseteq DOMAIN new
      /\ leafSplit = NoSplit \/ leafSplit \in [key : Keys, val : DOMAIN new]
  <2>1. l = LeafInsert(old, b, rec) BY <1>1, <1>4, <1>6 DEF InsertParts
  <2> QED BY <2>1, <1>2, <1>5, <1>7, <1>8, LeafInsertTyped
<1>10. PICK leaves \in SUBSET Nat : leaves = DOMAIN new /\ DOMAIN old \subseteq leaves
  BY <1>9, BlocksAreNumbers DEF LeafFile
<1>11. Directory(dirs, leaves) BY <1>2, <1>10, DirectoryWith
<1>12. PICK newDir : newDir = res.dir OBVIOUS
<1>13. Directory(newDir, leaves) /\ DOMAIN dirs \subseteq DOMAIN newDir
  <2>1. d = IF leafSplit = NoSplit THEN [file |-> dirs, split |-> NoSplit]
            ELSE DirInsert(dirs, leafSplit, stop)
    BY <1>1, <1>6, <1>8 DEF InsertParts
  <2>2. newDir = Topped(dirs, d, stop) BY <1>1, <1>6, <1>12 DEF InsertParts
  <2>3. leafSplit = NoSplit \/ leafSplit \in [key : Keys, val : leaves]
    BY <1>9, <1>10
  <2> QED BY <2>1, <2>2, <2>3, <1>3, <1>11, LevelsInserted
<1>14. Index(new, newDir)
  <2>1. DOMAIN new # {} /\ DOMAIN newDir # {} BY <1>2, <1>9, <1>13
  <2> QED BY <2>1, <1>9, <1>10, <1>13 DEF Index
<1>15. res.leaf = new BY <1>6, <1>8 DEF InsertParts
<1> QED BY <1>1, <1>9, <1>12, <1>13, <1>14, <1>15 DEF Extension

(* A leaf, or a directory page, that has split and no more *)
LEMMA LeafPartedExtends ==
  ASSUME NEW l, NEW d, Index(l, d), NEW b \in DOMAIN l, NEW pos, NEW new,
         LeafParted(l, b, pos, new)
  PROVE  Extension(l, d, new, d)
<1>1. LeafFile(new) /\ DOMAIN new = DOMAIN l \union {Size(l)} BY DEF LeafParted
<1>2. PICK old, more : old = DOMAIN l /\ more = DOMAIN new /\ old \subseteq more BY <1>1
<1>3. Directory(d, old) /\ (old = {} <=> DOMAIN d = {}) BY <1>2 DEF Index
<1>4. Directory(d, more) BY <1>2, <1>3, DirectoryWith
<1>5. old # {} /\ more # {} BY <1>2
<1> QED BY <1>1, <1>2, <1>3, <1>4, <1>5 DEF Index, Extension

LEMMA DirHalvesExtend ==
  ASSUME NEW l, NEW d, NEW newLeaf, NEW newDir, Extension(l, d, newLeaf, newDir),
         NEW b \in DOMAIN d, isFull(newDir[b], DirCapacity),
         NEW new, new = DirHalves(newDir, b)
  PROVE  Extension(l, d, newLeaf, new)
<1>1. /\ Index(newLeaf, newDir) /\ DOMAIN l \subseteq DOMAIN newLeaf
      /\ DOMAIN d \subseteq DOMAIN newDir
  BY DEF Extension
<1>2. PICK leaves \in SUBSET Nat : leaves = DOMAIN newLeaf
  BY <1>1, BlocksAreNumbers DEF Index, LeafFile
<1>3. Directory(newDir, leaves) /\ b \in DOMAIN newDir BY <1>1, <1>2 DEF Index
<1>4. Directory(new, leaves) /\ Grown(newDir, new) BY <1>3, DirParts DEF PartsDir
<1>5. DOMAIN newDir \subseteq DOMAIN new BY <1>4 DEF Grown
<1>6. LeafFile(newLeaf) /\ leaves # {} /\ DOMAIN new # {} BY <1>1, <1>2, <1>3, <1>5 DEF Index
<1> QED BY <1>1, <1>2, <1>4, <1>5, <1>6 DEF Index, Extension

(* NewIndex makes an index with one leaf. *)
LEMMA CreatedTyped ==
  /\ Index(Created.leaf, Created.dir)
  /\ DOMAIN Created.leaf # {} /\ DOMAIN Created.dir # {}
<1>1. ASSUME NEW page, NEW file, file = Extended(<<>>, page)
      PROVE  IsFile(file) /\ DOMAIN file = {0} /\ file[0] = page
  <2>1. DOMAIN <<>> = {} OBVIOUS
  <2>2. Size(<<>>) = 0 BY <2>1, FS_EmptySet DEF Size
  <2>3. DOMAIN file = {0} /\ file[0] = page BY <2>1, <2>2, <1>1 DEF Extended
  <2>4. DOMAIN file = 0..(1 - 1) BY <2>3
  <2> QED BY <2>3, <2>4 DEF IsFile
<1>2. PICK l : l = Created.leaf OBVIOUS
<1>3. PICK d : d = Created.dir OBVIOUS
<1>4. PICK page : page = [recs |-> <<>>, extra1 |-> 0, extra2 |-> 0] OBVIOUS
<1>5. l = Extended(<<>>, Formatted) /\ d = Extended(<<>>, page)
  BY <1>2, <1>3, <1>4 DEF Created
<1>6. /\ IsFile(l) /\ DOMAIN l = {0} /\ l[0] = Formatted
      /\ IsFile(d) /\ DOMAIN d = {0} /\ d[0] = page
  BY <1>1, <1>5
<1>7. LeafFile(l)
  <2>1. LeafPage(l, Formatted)
    <3>1. Formatted \in Pages /\ Len(Formatted.recs) = 0 /\ Formatted.extra1 = None
      BY DEF Formatted, Pages
    <3> QED BY <3>1 DEF LeafPage
  <2> QED BY <2>1, <1>6 DEF LeafFile
<1>8. Directory(d, DOMAIN l)
  <2>1. page \in Pages /\ Len(page.recs) = 0 /\ page.extra1 = 0
    BY <1>4 DEF Pages
  <2>2. \A c \in Children(page) : c = 0
    <3>1. page.recs = <<>> /\ page.extra2 = 0 BY <1>4
    <3> QED BY <3>1 DEF Children, ToSet
  <2>3. DirPage(d, DOMAIN l, page) BY <2>1, <2>2, <1>6 DEF DirPage, IsChild
  <2> QED BY <2>3, <1>6 DEF Directory
<1> QED BY <1>2, <1>3, <1>6, <1>7, <1>8 DEF Index

(* The index after one more Insert *)
OneMore(x, r) == [leaf |-> InsertUpTo(x, r, AllLevels(x)).leaf,
                 dir |-> InsertUpTo(x, r, AllLevels(x)).dir]

LEMMA BuiltUnfolds ==
  ASSUME NEW rids \in Seq(Rids)
  PROVE  \E f : /\ Built(rids) = f[Len(rids)] /\ f[0] = Created
                /\ \A i \in 1..Len(rids) : f[i] = OneMore(f[i-1], rids[i])
<1> DEFINE Step(f, i) == IF i = 0 THEN Created ELSE OneMore(f[i-1], rids[i])
           Loop(f) == f = [i \in 0..Len(rids) |-> Step(f, i)]
           Until(f, n) == \A i \in 0..n : f[i] = Step(f, i)
           Reached(n) == \E f : Until(f, n)
<1>1. Built(rids) = (CHOOSE f : Loop(f))[Len(rids)] BY DEF Built, OneMore
<1>2. ASSUME NEW n \in Nat PROVE Reached(n)
  <2> DEFINE Bad == {m \in Nat : ~Reached(m)}
  <2> SUFFICES ASSUME Bad # {} PROVE FALSE OBVIOUS
  <2>1. PICK m : m \in Bad /\ \A i \in Bad : m <= i
    <3>1. Bad \subseteq Nat OBVIOUS
    <3> HIDE DEF Bad
    <3> QED BY <3>1, LeastExists
  <2>2. m \in Nat /\ ~Reached(m) BY <2>1
  <2>3. CASE m = 0
    <3>1. PICK f : f = [i \in 0..0 |-> Created] OBVIOUS
    <3>2. Until(f, 0) BY <3>1
    <3> HIDE DEF Until
    <3> QED BY <3>2, <2>2, <2>3
  <2>4. CASE m # 0
    <3>1. m \in Nat BY <2>2
    <3>2. PICK k \in Nat : k = m - 1 /\ k < m BY <3>1, <2>4
    <3>3. PICK f : Until(f, k)
      <4>1. Reached(k)
        <5> HIDE DEF Reached
        <5>1. k \notin Bad BY <2>1, <2>2, <3>2
        <5> QED BY <5>1
      <4> HIDE DEF Until
      <4> QED BY <4>1
    <3>4. PICK g : g = [i \in 0..m |-> IF i = m THEN Step(f, m) ELSE f[i]] OBVIOUS
    <3>5. ASSUME NEW i \in 0..m PROVE g[i] = Step(g, i)
      <4>1. g[i] = Step(f, i)
        <5>1. i = m \/ i \in 0..k BY <3>1, <3>2
        <5> HIDE DEF Step
        <5> QED BY <5>1, <3>3, <3>4
      <4>2. i # 0 => g[i-1] = f[i-1]
        <5> HIDE DEF Step
        <5>1. i # 0 => i - 1 \in 0..m /\ i - 1 # m BY <3>1
        <5> QED BY <5>1, <3>4
      <4> QED BY <4>1, <4>2
    <3>6. Until(g, m)
      <4> HIDE DEF Step
      <4> QED BY <3>5
    <3> HIDE DEF Until
    <3> QED BY <3>6, <2>2
  <2> QED BY <2>3, <2>4
<1>3. \E g : Loop(g)
  <2>1. PICK n \in Nat : n = Len(rids) OBVIOUS
  <2>2. PICK f : Until(f, n)
    <3>1. Reached(n)
      <4> HIDE DEF Reached
      <4> QED BY <1>2
    <3> HIDE DEF Until
    <3> QED BY <3>1
  <2>3. PICK g : g = [i \in 0..n |-> f[i]] OBVIOUS
  <2>4. ASSUME NEW i \in 0..n PROVE f[i] = Step(g, i)
    <3>1. f[i] = Step(f, i)
      <4> HIDE DEF Step
      <4> QED BY <2>2
    <3>2. i # 0 => g[i-1] = f[i-1]
      <4>1. i # 0 => i - 1 \in 0..n BY <2>1
      <4> QED BY <4>1, <2>3
    <3> QED BY <3>1, <3>2
  <2>5. g = [i \in 0..n |-> Step(g, i)]
    <3> HIDE DEF Step
    <3> QED BY <2>3, <2>4
  <2> QED BY <2>1, <2>5
<1>4. PICK f : f = (CHOOSE g : Loop(g)) /\ Loop(f) BY <1>3
<1>5. PICK n \in Nat : n = Len(rids) OBVIOUS
<1>6. ASSUME NEW i \in 0..n PROVE f[i] = Step(f, i) BY <1>4, <1>5
<1>7. f[0] = Created BY <1>5, <1>6
<1>8. ASSUME NEW i \in 1..n PROVE f[i] = OneMore(f[i-1], rids[i]) BY <1>6
<1>9. Built(rids) = f[n] BY <1>1, <1>4, <1>5
<1> QED BY <1>5, <1>7, <1>8, <1>9

(* An index that a sequence of Inserts makes *)
LEMMA BuiltTyped ==
  ASSUME NEW rids \in Seq(Rids)
  PROVE  Index(Built(rids).leaf, Built(rids).dir) /\ DOMAIN Built(rids).leaf # {}
<1> DEFINE Good(x) == Index(x.leaf, x.dir) /\ DOMAIN x.leaf # {}
<1>1. PICK f : /\ Built(rids) = f[Len(rids)] /\ f[0] = Created
               /\ \A i \in 1..Len(rids) : f[i] = OneMore(f[i-1], rids[i])
  BY BuiltUnfolds
<1>2. ASSUME NEW x, Good(x), NEW i \in 1..Len(rids) PROVE Good(OneMore(x, rids[i]))
  <2>1. PICK res : res = InsertUpTo(x, rids[i], AllLevels(x)) OBVIOUS
  <2>2. rids[i] \in Rids OBVIOUS
  <2>3. PICK r \in Rids : r = rids[i] BY <2>2
  <2>4. PICK stop : stop = AllLevels(x) OBVIOUS
  <2>5. Extension(x.leaf, x.dir, res.leaf, res.dir)
    <3>1. res = InsertUpTo(x, r, stop) BY <2>1, <2>3, <2>4
    <3> QED BY <3>1, <1>2, InsertUpToTyped
  <2>6. Index(res.leaf, res.dir) /\ DOMAIN res.leaf # {} BY <2>5, <1>2 DEF Extension
  <2>7. PICK y : y = OneMore(x, rids[i]) OBVIOUS
  <2>8. y.leaf = res.leaf /\ y.dir = res.dir BY <2>1, <2>7 DEF OneMore
  <2> QED BY <2>6, <2>7, <2>8
<1>3. ASSUME NEW n \in Nat PROVE n \in 0..Len(rids) => Good(f[n])
  <2> DEFINE Bad == {m \in Nat : m \in 0..Len(rids) /\ ~Good(f[m])}
  <2> HIDE DEF Good
  <2> SUFFICES ASSUME Bad # {} PROVE FALSE OBVIOUS
  <2>1. PICK m : m \in Bad /\ \A i \in Bad : m <= i
    <3>1. Bad \subseteq Nat OBVIOUS
    <3> HIDE DEF Bad
    <3> QED BY <3>1, LeastExists
  <2>2. m \in 0..Len(rids) /\ ~Good(f[m]) BY <2>1
  <2>3. CASE m = 0
    <3>1. f[m] = Created BY <1>1, <2>3
    <3>2. Good(Created) BY CreatedTyped DEF Good
    <3> QED BY <3>1, <3>2, <2>2
  <2>4. CASE m # 0
    <3>1. m - 1 \in 0..Len(rids) /\ m \in 1..Len(rids) BY <2>2, <2>4
    <3>2. m - 1 \notin Bad
      <4> HIDE DEF Bad
      <4>1. m - 1 \in Bad => m <= m - 1 BY <2>1
      <4> QED BY <4>1, <3>1
    <3>3. Good(f[m-1]) BY <3>1, <3>2
    <3>4. Good(OneMore(f[m-1], rids[m])) BY <3>1, <3>3, <1>2
    <3>5. f[m] = OneMore(f[m-1], rids[m]) BY <3>1, <1>1
    <3> QED BY <3>4, <3>5, <2>2
  <2> QED BY <2>3, <2>4
<1>4. PICK n \in Nat : n = Len(rids) OBVIOUS
<1>5. Good(f[n])
  <2> HIDE DEF Good
  <2>1. n \in 0..Len(rids) BY <1>4
  <2> QED BY <2>1, <1>3
<1>6. Built(rids) = f[n] BY <1>1, <1>4
<1> QED BY <1>5, <1>6

----------------------------------------------------------------------------
(* The sibling links *)

(* A function from natural numbers that starts at b and follows g *)
Iterate(g, b, N) == CHOOSE f : f = [n \in 0..N |-> IF n = 0 THEN b ELSE g[f[n-1]]]

Iterated(D, g, b, N, at) ==
  at \in [0..N -> D] /\ at[0] = b /\ \A i \in 1..N : at[i] = g[at[i-1]]

LEMMA Iterates ==
  ASSUME NEW D, NEW g \in [D -> D], NEW b \in D, NEW N \in Nat,
         NEW at, at = Iterate(g, b, N)
  PROVE  Iterated(D, g, b, N, at)
<1> DEFINE Follows(f, n) == /\ f \in [0..n -> D] /\ f[0] = b
                            /\ \A i \in 1..n : f[i] = g[f[i-1]]
           Loop(f) == f = [n \in 0..N |-> IF n = 0 THEN b ELSE g[f[n-1]]]
           Bad == {n \in Nat : ~\E f : Follows(f, n)}
<1>1. Bad = {}
  <2> SUFFICES ASSUME Bad # {} PROVE FALSE OBVIOUS
  <2>1. PICK m : m \in Bad /\ \A i \in Bad : m <= i
    <3>1. Bad \subseteq Nat OBVIOUS
    <3> HIDE DEF Bad
    <3> QED BY <3>1, LeastExists
  <2>2. CASE m = 0
    <3>1. PICK f : f = [i \in 0..0 |-> b] OBVIOUS
    <3>2. Follows(f, 0) BY <3>1
    <3> QED BY <3>2, <2>1, <2>2
  <2>3. CASE m # 0
    <3>1. PICK k \in Nat : k = m - 1 /\ k < m BY <2>1, <2>3
    <3>2. k \notin Bad
      <4>1. m \in Nat BY <2>1
      <4> HIDE DEF Bad
      <4>2. k \in Bad => m <= k BY <2>1
      <4> QED BY <4>1, <4>2, <3>1
    <3>3. PICK f : Follows(f, k) BY <3>2
    <3>4. PICK h : h = [i \in 0..m |-> IF i = m THEN g[f[k]] ELSE f[i]] OBVIOUS
    <3>5. m \in Nat /\ \A i \in 0..m : i = m \/ i \in 0..k BY <2>1, <3>1
    <3>6. h \in [0..m -> D]
      <4>1. f \in [0..k -> D] /\ k \in 0..k BY <3>1, <3>3
      <4>2. g[f[k]] \in D BY <4>1
      <4>3. \A i \in 0..m : h[i] \in D BY <4>1, <4>2, <3>4, <3>5
      <4> QED BY <4>3, <3>4
    <3>7. h[0] = b BY <3>3, <3>4, <3>5, <2>3
    <3>8. ASSUME NEW i \in 1..m PROVE h[i] = g[h[i-1]]
      <4>1. i - 1 \in 0..m /\ i - 1 # m /\ i \in 0..m BY <3>5
      <4>2. h[i-1] = f[i-1] BY <4>1, <3>4
      <4>3. CASE i = m BY <4>2, <4>3, <4>1, <3>1, <3>4
      <4>4. CASE i # m
        <5>1. i \in 1..k BY <4>4, <3>1, <3>5
        <5> QED BY <5>1, <4>1, <4>2, <4>4, <3>3, <3>4
      <4> QED BY <4>3, <4>4
    <3>9. Follows(h, m) BY <3>6, <3>7, <3>8
    <3> HIDE DEF Follows
    <3> QED BY <3>9, <2>1
  <2> QED BY <2>2, <2>3
<1>2. PICK f : Follows(f, N) BY <1>1
<1>3. Loop(f)
  <2>1. \A i \in 0..N : f[i] = IF i = 0 THEN b ELSE g[f[i-1]] BY <1>2
  <2> QED BY <2>1, <1>2
<1>4. Loop(at) 
  <2>1. \E h : Loop(h) BY <1>3
  <2> HIDE DEF Loop
  <2>2. at = CHOOSE h : Loop(h) BY DEF Loop, Iterate
  <2> QED BY <2>1, <2>2
<1>5. ASSUME NEW i \in 0..N PROVE at[i] = IF i = 0 THEN b ELSE g[at[i-1]] BY <1>4
<1>6. at[0] = b BY <1>5
<1>7. ASSUME NEW i \in 1..N PROVE at[i] = g[at[i-1]] BY <1>5
<1>8. ASSUME NEW i \in 0..N PROVE at[i] \in D
  <2> DEFINE Out == {n \in 0..N : at[n] \notin D}
  <2> SUFFICES ASSUME Out # {} PROVE FALSE BY <1>8
  <2>1. PICK m : m \in Out /\ \A j \in Out : m <= j
    <3>1. Out \subseteq Nat OBVIOUS
    <3> HIDE DEF Out
    <3> QED BY <3>1, LeastExists
  <2>2. m # 0 BY <2>1, <1>6
  <2>3. m - 1 \in 0..N /\ m \in 1..N /\ ~(m <= m - 1) BY <2>1, <2>2
  <2>4. at[m-1] \in D
    <3>1. m - 1 \notin Out BY <2>1, <2>3
    <3> QED BY <3>1, <2>3
  <2>5. at[m] \in D BY <2>3, <2>4, <1>7
  <2> QED BY <2>1, <2>5
<1>9. at \in [0..N -> D] BY <1>4, <1>8
<1> QED BY <1>6, <1>7, <1>9 DEF Iterated

(* c is the blocks that the sibling links lead to from b. *)
IsChain(file, b, c) ==
  /\ c \in Seq(DOMAIN file) /\ Len(c) \in 1..(Size(file) + 1) /\ c[1] = b
  /\ \A i \in 1..(Len(c) - 1) : file[c[i]].extra1 = c[i + 1]
  /\ Len(c) <= Size(file) => file[c[Len(c)]].extra1 = None

LEMMA ChainIs ==
  ASSUME NEW file, LeafFile(file), NEW b \in DOMAIN file
  PROVE  IsChain(file, b, Chain(file, b))
<1>1. PICK N \in Nat : N = Size(file) /\ DOMAIN file = 0..(N - 1)
  BY FileSize DEF LeafFile
<1>2. PICK D : D = DOMAIN file \union {None} OBVIOUS
<1>3. PICK g : g = [c \in D |-> IF c = None THEN None ELSE file[c].extra1] OBVIOUS
<1>4. g \in [D -> D] /\ b \in D BY <1>2, <1>3 DEF LeafFile, LeafPage
<1>5. None \notin DOMAIN file BY <1>1
<1>6. PICK at : at = Iterate(g, b, N) OBVIOUS
<1>7. at \in [0..N -> D] /\ at[0] = b /\ \A n \in 1..N : at[n] = g[at[n-1]]
  <2>1. Iterated(D, g, b, N, at) BY <1>4, <1>6, Iterates
  <2> QED BY <2>1 DEF Iterated
<1>8. PICK T : T = {n \in 0..N : at[n] # None} OBVIOUS
<1>9. Chain(file, b) = SubSeq([n \in 1..(N + 1) |-> at[n-1]], 1, Cardinality(T))
  BY <1>1, <1>2, <1>3, <1>6, <1>8 DEF Chain, Iterate
<1>10. PICK m \in 1..(N + 1) : T = 0..(m - 1)
  <2>1. CASE T = 0..N
    <3>1. N + 1 \in 1..(N + 1) /\ (N + 1) - 1 = N OBVIOUS
    <3> QED BY <2>1, <3>1
  <2>2. CASE T # 0..N
    <3>1. PICK E : E = {n \in 0..N : at[n] = None} OBVIOUS
    <3>2. E # {} /\ E \subseteq Nat BY <2>2, <3>1, <1>8
    <3>3. PICK m \in E : \A n \in E : m <= n BY <3>2, LeastExists
    <3>4. m \in 0..N /\ m # 0 BY <3>1, <3>3, <1>5, <1>7
    <3>5. PICK F : F = {n \in m..N : at[n] # None} OBVIOUS
    <3>6. F = {}
      <4> SUFFICES ASSUME F # {} PROVE FALSE OBVIOUS
      <4>1. F \subseteq Nat BY <3>4, <3>5
      <4>2. PICK n \in F : \A i \in F : n <= i BY <4>1, LeastExists
      <4>3. n \in m..N /\ at[n] # None /\ at[m] = None BY <4>2, <3>1, <3>3, <3>5
      <4>4. n # m BY <4>3
      <4>5. n \in Nat /\ n - 1 \in m..N /\ n \in 1..N BY <4>3, <4>4, <3>4
      <4>6. n - 1 \notin F
        <5>1. n - 1 \in F => n <= n - 1 BY <4>2
        <5> QED BY <5>1, <4>5
      <4>7. at[n-1] = None BY <4>5, <4>6, <3>5
      <4>8. at[n] = None BY <4>5, <4>7, <1>2, <1>3, <1>7
      <4> QED BY <4>3, <4>8
    <3>7. \A n \in 0..N : n \in T <=> n < m BY <3>1, <3>3, <3>4, <3>5, <3>6, <1>8
    <3>8. T = 0..(m - 1) BY <3>4, <3>7, <1>8
    <3>9. m \in 1..(N + 1) BY <3>4
    <3> QED BY <3>8, <3>9
  <2> QED BY <2>1, <2>2
<1>11. Cardinality(T) = m
  <2>1. 0 \in Int /\ m - 1 \in Int OBVIOUS
  <2>2. Cardinality(0..(m - 1)) = (IF 0 > m - 1 THEN 0 ELSE (m - 1) - 0 + 1)
    BY <2>1, FS_Interval
  <2> QED BY <2>2, <1>10
<1>12. PICK c : c = Chain(file, b) OBVIOUS
<1>13. PICK s : s = [n \in 1..(N + 1) |-> at[n-1]] OBVIOUS
<1>14. \A n \in 1..m : s[n] = at[n-1] /\ s[n] \in DOMAIN file
  <2> SUFFICES ASSUME NEW n \in 1..m PROVE s[n] = at[n-1] /\ s[n] \in DOMAIN file
    OBVIOUS
  <2>1. n - 1 \in 0..N /\ n \in 1..(N + 1) /\ n - 1 \in 0..(m - 1) OBVIOUS
  <2>2. at[n-1] # None /\ at[n-1] \in D BY <2>1, <1>7, <1>8, <1>10
  <2> QED BY <2>1, <2>2, <1>2, <1>13
<1>15. c \in Seq(DOMAIN file) /\ Len(c) = m /\ \A n \in 1..m : c[n] = at[n-1]
  <2>1. 1 \in Int /\ m \in Int OBVIOUS
  <2>2. c = SubSeq(s, 1, m) BY <1>9, <1>11, <1>12, <1>13
  <2>3. \A n \in 1..m : s[n] \in DOMAIN file BY <1>14
  <2>4. /\ c \in Seq(DOMAIN file)
        /\ Len(c) = IF 1 <= m THEN m - 1 + 1 ELSE 0
        /\ \A n \in 1..(m - 1 + 1) : c[n] = s[1 + n - 1]
    BY <2>1, <2>2, <2>3, SubSeqProperties
  <2>5. ASSUME NEW n \in 1..m PROVE c[n] = at[n-1]
    <3>1. n \in 1..(m - 1 + 1) /\ 1 + n - 1 = n OBVIOUS
    <3> QED BY <3>1, <2>4, <1>14
  <2> QED BY <2>4, <2>5
<1>16. c[1] = b
  <2>1. 1 \in 1..m /\ 1 - 1 = 0 OBVIOUS
  <2> QED BY <2>1, <1>7, <1>15
<1>17. ASSUME NEW i \in 1..(m - 1) PROVE file[c[i]].extra1 = c[i + 1]
  <2>1. i \in 1..m /\ i + 1 \in 1..m /\ (i + 1) - 1 = i /\ i \in 1..N OBVIOUS
  <2>2. c[i] = at[i-1] /\ c[i + 1] = at[i] BY <2>1, <1>15
  <2>3. at[i] = g[at[i-1]] BY <2>1, <1>7
  <2>4. c[i] \in DOMAIN file BY <2>1, <1>15
  <2> QED BY <2>2, <2>3, <2>4, <1>2, <1>3, <1>5
<1>18. ASSUME m <= N PROVE file[c[m]].extra1 = None
  <2>1. m \in 1..N /\ m \in 0..N /\ m \notin 0..(m - 1) /\ m \in 1..m BY <1>18
  <2>2. at[m] = None BY <2>1, <1>8, <1>10
  <2>3. at[m] = g[at[m-1]] BY <2>1, <1>7
  <2>4. c[m] = at[m-1] /\ c[m] \in DOMAIN file BY <2>1, <1>15
  <2> QED BY <2>2, <2>3, <2>4, <1>2, <1>3, <1>5
<1> QED BY <1>1, <1>12, <1>15, <1>16, <1>17, <1>18 DEF IsChain

(* A set of blocks that no sibling link leaves *)
Closed(file, S) ==
  S \subseteq DOMAIN file /\ \A c \in S : file[c].extra1 \in S \union {None}

LEMMA ChainStays ==
  ASSUME NEW file, IsFile(file), NEW b, NEW c, IsChain(file, b, c),
         NEW S, Closed(file, S), b \in S
  PROVE  c \in Seq(S)
<1>1. /\ c \in Seq(DOMAIN file) /\ Len(c) \in Nat /\ c[1] = b
      /\ \A i \in 1..(Len(c) - 1) : file[c[i]].extra1 = c[i + 1]
  BY DEF IsChain
<1>2. None \notin DOMAIN file BY DEF IsFile
<1>3. PICK Out : Out = {i \in 1..Len(c) : c[i] \notin S} OBVIOUS
<1>4. Out = {}
  <2> SUFFICES ASSUME Out # {} PROVE FALSE OBVIOUS
  <2>1. Out \subseteq Nat BY <1>3
  <2>2. PICK m \in Out : \A j \in Out : m <= j BY <2>1, LeastExists
  <2>3. m \in 1..Len(c) /\ c[m] \notin S BY <2>2, <1>3
  <2>4. m # 1 BY <2>3, <1>1
  <2>5. PICK k \in 1..(Len(c) - 1) : k + 1 = m BY <2>3, <2>4, <1>1
  <2>6. k \notin Out
    <3>1. k \in Out => m <= k BY <2>2
    <3> QED BY <3>1, <2>5
  <2>7. c[k] \in S
    <3>1. k \in 1..Len(c) BY <2>5, <1>1
    <3> QED BY <3>1, <2>6, <1>3
  <2>8. file[c[k]].extra1 = c[m] BY <2>5, <1>1
  <2>9. c[m] \in DOMAIN file BY <2>3, <1>1
  <2>10. c[m] \in S BY <2>7, <2>8, <2>9, <1>2 DEF Closed
  <2> QED BY <2>3, <2>10
<1>5. \A i \in 1..Len(c) : c[i] \in S BY <1>3, <1>4
<1>6. c = [i \in 1..Len(c) |-> c[i]] BY <1>1
<1> QED BY <1>1, <1>5, <1>6

(* The blocks of the chain that begins at the first leaf *)
Linked(file, S) == 0 \in S /\ Closed(file, S)
Chained(file, S) == Linked(file, S) /\ \A T : Linked(file, T) => S \subseteq T

(* The blocks of a chain, from each of which a link leads to another of them  *)
(* if there is no last one                                                  *)
LinksIn(file, b, c, S) ==
  /\ Closed(file, S) /\ b \in S /\ S \subseteq ToSet(c)
  /\ Len(c) > Size(file) => \A x \in S : file[x].extra1 \in S

(* A chain that is longer than the file has come back to one of its blocks.  *)
LEMMA ChainCloses ==
  ASSUME NEW file, LeafFile(file), NEW b, NEW c, IsChain(file, b, c)
  PROVE  \E S : LinksIn(file, b, c, S)
<1>1. /\ c \in Seq(DOMAIN file) /\ Len(c) \in 1..(Size(file) + 1) /\ c[1] = b
      /\ \A i \in 1..(Len(c) - 1) : file[c[i]].extra1 = c[i + 1]
      /\ Len(c) <= Size(file) => file[c[Len(c)]].extra1 = None
  BY DEF IsChain
<1>2. PICK N \in Nat : N = Size(file) /\ DOMAIN file = 0..(N - 1)
  BY FileSize DEF LeafFile
<1>3. PICK len \in 1..(N + 1) : len = Len(c) BY <1>1, <1>2
<1>4. PICK S : S = {c[i] : i \in 1..len} OBVIOUS
<1>5. b \in S /\ S \subseteq DOMAIN file /\ S \subseteq ToSet(c)
  <2>1. c \in Seq(DOMAIN file) /\ DOMAIN c = 1..len BY <1>1, <1>3
  <2>2. \A i \in 1..len : c[i] \in DOMAIN file BY <2>1
  <2>3. 1 \in 1..len /\ c[1] = b BY <1>1, <1>3
  <2> QED BY <2>1, <2>2, <2>3, <1>4 DEF ToSet
<1>6. CASE len <= N
  <2>1. ASSUME NEW i \in 1..len PROVE file[c[i]].extra1 \in S \union {None}
    <3>1. CASE i = len BY <3>1, <1>1, <1>2, <1>3, <1>6
    <3>2. CASE i # len
      <4>1. i \in 1..(Len(c) - 1) /\ i + 1 \in 1..len BY <3>2, <1>3
      <4> QED BY <4>1, <1>1, <1>4
    <3> QED BY <3>1, <3>2
  <2>2. Closed(file, S) BY <2>1, <1>4, <1>5 DEF Closed
  <2>3. ~(Len(c) > Size(file)) BY <1>2, <1>3, <1>6
  <2> QED BY <2>2, <2>3, <1>5 DEF LinksIn
<1>7. CASE len = N + 1
  <2>1. PICK f : f = [i \in 1..(N + 1) |-> c[i]] OBVIOUS
  <2>2. PICK D : D = DOMAIN file OBVIOUS
  <2>3. f \in [1..(N + 1) -> D]
    <3>1. c \in Seq(D) /\ Len(c) = N + 1 BY <2>2, <1>1, <1>3, <1>7
    <3>2. \A i \in 1..Len(c) : c[i] \in D BY <3>1
    <3> QED BY <3>1, <3>2, <2>1
  <2>4. IsFiniteSet(D) /\ Cardinality(D) = N
    <3>1. 0 \in Int /\ N - 1 \in Int OBVIOUS
    <3>2. IsFiniteSet(0..(N - 1)) BY <3>1, FS_Interval
    <3> QED BY <3>2, <2>2, <1>2 DEF Size
  <2>5. PICK I : I = 1..(N + 1) OBVIOUS
  <2>6. IsFiniteSet(I) /\ Cardinality(I) = N + 1
    <3>1. 1 \in Int /\ N + 1 \in Int OBVIOUS
    <3>2. /\ IsFiniteSet(1..(N + 1))
          /\ Cardinality(1..(N + 1)) = IF 1 > N + 1 THEN 0 ELSE (N + 1) - 1 + 1
      BY <3>1, FS_Interval
    <3> QED BY <3>2, <2>5
  <2>7. Cardinality(D) < Cardinality(I) BY <2>4, <2>6
  <2>8. f \in [I -> D] BY <2>3, <2>5
  <2>9. \E x, y \in I : x # y /\ f[x] = f[y]
    BY <2>4, <2>6, <2>7, <2>8, FS_PigeonHole
  <2>10. PICK i \in 1..(N + 1), j \in 1..(N + 1) : i < j /\ c[i] = c[j]
    <3>1. PICK x \in I, y \in I : x # y /\ f[x] = f[y] BY <2>9
    <3>2. x \in 1..(N + 1) /\ y \in 1..(N + 1) /\ c[x] = c[y] BY <3>1, <2>1, <2>5
    <3>3. x < y \/ y < x BY <3>1, <3>2
    <3> QED BY <3>2, <3>3
  <2>11. PICK R : R = {c[l] : l \in 1..(j - 1)} OBVIOUS
  <2>12. b \in R /\ R \subseteq S
    <3>1. 1 \in 1..(j - 1) /\ \A l \in 1..(j - 1) : l \in 1..len BY <2>10, <1>3, <1>7
    <3> QED BY <3>1, <2>11, <1>1, <1>4
  <2>13. ASSUME NEW l \in 1..(j - 1) PROVE file[c[l]].extra1 \in R
    <3>1. l \in 1..(Len(c) - 1) BY <2>10, <1>3, <1>7
    <3>2. file[c[l]].extra1 = c[l + 1] BY <3>1, <1>1
    <3>3. CASE l + 1 = j
      <4>1. i \in 1..(j - 1) BY <2>10
      <4> QED BY <4>1, <3>2, <3>3, <2>10, <2>11
    <3>4. CASE l + 1 # j
      <4>1. l + 1 \in 1..(j - 1) BY <3>4
      <4> QED BY <4>1, <3>2, <2>11
    <3> QED BY <3>3, <3>4
  <2>14. Closed(file, R) BY <2>11, <2>12, <2>13, <1>5 DEF Closed
  <2>15. \A x \in R : file[x].extra1 \in R BY <2>11, <2>13
  <2> QED BY <2>12, <2>14, <2>15, <1>5 DEF LinksIn
<1> QED BY <1>3, <1>6, <1>7

LEMMA LeafBlocksAre ==
  ASSUME NEW file, LeafFile(file), 0 \in DOMAIN file
  PROVE  Chained(file, LeafBlocks(file))
<1>1. PICK c : c = Chain(file, 0) OBVIOUS
<1>2. IsChain(file, 0, c) BY <1>1, ChainIs
<1>3. PICK S : LinksIn(file, 0, c, S) BY <1>2, ChainCloses
<1>4. IsFile(file) BY DEF LeafFile
<1>5. ASSUME NEW T, Linked(file, T) PROVE ToSet(c) \subseteq T
  <2>1. c \in Seq(T) BY <1>2, <1>4, <1>5, ChainStays DEF Linked
  <2> QED BY <2>1 DEF ToSet
<1>6. Linked(file, S) BY <1>3 DEF Linked, LinksIn
<1>7. S = ToSet(c) BY <1>3, <1>5, <1>6 DEF LinksIn
<1> QED BY <1>1, <1>5, <1>6, <1>7 DEF Chained, LeafBlocks

LEMMA ChainedIs ==
  ASSUME NEW file, LeafFile(file), 0 \in DOMAIN file, NEW S, Chained(file, S)
  PROVE  S = LeafBlocks(file)
BY LeafBlocksAre DEF Chained

----------------------------------------------------------------------------
(* The cursor: a record that it returns is in the slot where it stops.      *)
IsStop(file, S, key, p) ==
  /\ p.block \in S
  /\ p.rid # None =>
       /\ p.slot \in DOMAIN file[p.block].recs
       /\ file[p.block].recs[p.slot].key = key /\ file[p.block].recs[p.slot].val = p.rid

IsWalk(file, S, key, walk) ==
  \E P : walk \in Seq(P) /\ walk # <<>> /\ \A p \in P : IsStop(file, S, key, p)

LEMMA FirstExists ==
  ASSUME NEW S \in SUBSET (Nat \X Nat), S # {}
  PROVE  \E p \in S : \A q \in S : p[1] < q[1] \/ (p[1] = q[1] /\ p[2] <= q[2])
<1>1. PICK A : A = {p[1] : p \in S} OBVIOUS
<1>2. A \subseteq Nat /\ A # {} BY <1>1
<1>3. PICK a \in Nat : a \in A /\ \A i \in A : a <= i BY <1>2, LeastExists
<1>4. PICK B : B = {p[2] : p \in {q \in S : q[1] = a}} OBVIOUS
<1>5. B \subseteq Nat /\ B # {} BY <1>1, <1>3, <1>4
<1>6. PICK b \in Nat : b \in B /\ \A i \in B : b <= i BY <1>5, LeastExists
<1>7. PICK p \in S : p[1] = a /\ p[2] = b BY <1>4, <1>6
<1>8. ASSUME NEW q \in S PROVE a < q[1] \/ (a = q[1] /\ b <= q[2])
  <2>1. PICK x \in Nat : x = q[1] /\ x \in A /\ a <= x BY <1>1, <1>3
  <2>2. x = a => q[2] \in B BY <2>1, <1>4
  <2>3. x = a => b <= q[2] BY <2>2, <1>6
  <2> QED BY <2>1, <2>3
<1> QED BY <1>7, <1>8

LEMMA NextStops ==
  ASSUME NEW file, LeafFile(file), NEW S, Closed(file, S), NEW b \in S,
         NEW slot, NEW key, NEW p, p = next(file, b, slot, key)
  PROVE  IsStop(file, S, key, p)
<1> DEFINE recsOf(i) == file[Chain(file, b)[i]].recs
           stops == {q \in (DOMAIN Chain(file, b)) \X (1..LeafCapacity) :
                       /\ q[2] \in DOMAIN recsOf(q[1])
                       /\ q[1] = 1 => q[2] >= slot
                       /\ compareVals(recsOf(q[1])[q[2]].key, key) >= 0}
           IsFirst(q) == \A s \in stops : q[1] < s[1] \/ (q[1] = s[1] /\ q[2] <= s[2])
           first == CHOOSE q \in stops : IsFirst(q)
<1>1. PICK blocks : blocks = Chain(file, b) OBVIOUS
<1>2. b \in DOMAIN file BY DEF Closed
<1>3. IsChain(file, b, blocks) BY <1>1, <1>2, ChainIs
<1>4. blocks \in Seq(S) /\ Len(blocks) \in Nat \ {0}
  <2>1. blocks \in Seq(S) BY <1>3, ChainStays DEF LeafFile
  <2>2. blocks \in Seq(DOMAIN file) /\ Len(blocks) >= 1
    <3>1. Size(file) \in Nat BY FileSize DEF LeafFile
    <3> QED BY <3>1, <1>3 DEF IsChain
  <2> QED BY <2>1, <2>2
<1>5. CASE stops # {}
  <2>1. PICK q : q = first OBVIOUS
  <2>2. stops \in SUBSET (Nat \X Nat)
    <3>1. DOMAIN Chain(file, b) \in SUBSET Nat BY <1>1, <1>4
    <3>2. 1..LeafCapacity \in SUBSET Nat OBVIOUS
    <3> QED BY <3>1, <3>2
  <2>3. \E s \in stops : IsFirst(s)
    <3> HIDE DEF stops
    <3> QED BY <1>5, <2>2, FirstExists
  <2>4. q \in stops
    <3> HIDE DEF stops, IsFirst
    <3> QED BY <2>1, <2>3
  <2>5. /\ q[1] \in DOMAIN blocks /\ q[2] \in DOMAIN recsOf(q[1])
        /\ recsOf(q[1]) = file[blocks[q[1]]].recs
    BY <2>4, <1>1
  <2>6. /\ p.block = blocks[q[1]] /\ p.slot = q[2]
        /\ p.rid = IF recsOf(q[1])[q[2]].key = key THEN recsOf(q[1])[q[2]].val ELSE None
    <3>1. /\ p.block = blocks[first[1]] /\ p.slot = first[2]
          /\ p.rid = IF recsOf(first[1])[first[2]].key = key
                     THEN recsOf(first[1])[first[2]].val ELSE None
      BY <1>1, <1>5 DEF next
    <3> HIDE DEF first, recsOf
    <3> QED BY <3>1, <2>1
  <2>7. blocks[q[1]] \in S BY <2>5, <1>4
  <2> HIDE DEF first, recsOf
  <2> QED BY <2>5, <2>6, <2>7 DEF IsStop
<1>6. CASE ~(stops # {})
  <2>1. p.rid = None /\ p.block = Last(blocks) BY <1>1, <1>6 DEF next
  <2>2. Last(blocks) \in S BY <1>4 DEF Last
  <2> QED BY <2>1, <2>2 DEF IsStop
<1> QED BY <1>5, <1>6

WalkStart(k) == next(leaf, Position(k).block, Position(k).slot + 1, k)
WalkOn(k, walk) ==
  IF Last(walk).rid = None THEN walk
  ELSE Append(walk, next(leaf, Last(walk).block, Last(walk).slot + 1, k))

LEMMA WalkUnfolds ==
  ASSUME NEW k
  PROVE  \E f, n : /\ n \in Nat /\ Walk(k) = f[n] /\ f[0] = <<WalkStart(k)>>
                   /\ \A i \in 1..n : f[i] = WalkOn(k, f[i-1])
<1> DEFINE Step(f, i) == IF i = 0 THEN <<WalkStart(k)>> ELSE WalkOn(k, f[i-1])
           Count == Cardinality({r \in Rids : KeyOf[r] = k})
           Loop(f) == f = [i \in 0..Count |-> Step(f, i)]
           Until(f, n) == \A i \in 0..n : f[i] = Step(f, i)
           Reached(n) == \E f : Until(f, n)
<1>1. Walk(k) = (CHOOSE f : Loop(f))[Count] BY DEF Walk, WalkStart, WalkOn
<1>2. Count \in Nat
  <2>1. IsFiniteSet({r \in Rids : KeyOf[r] = k}) BY FS_Subset
  <2> QED BY <2>1, FS_CardinalityType
<1> HIDE DEF Count
<1>3. ASSUME NEW n \in Nat PROVE Reached(n)
  <2> DEFINE Bad == {m \in Nat : ~Reached(m)}
  <2> SUFFICES ASSUME Bad # {} PROVE FALSE OBVIOUS
  <2>1. PICK m : m \in Bad /\ \A i \in Bad : m <= i
    <3>1. Bad \subseteq Nat OBVIOUS
    <3> HIDE DEF Bad
    <3> QED BY <3>1, LeastExists
  <2>2. m \in Nat /\ ~Reached(m) BY <2>1
  <2>3. CASE m = 0
    <3>1. PICK f : f = [i \in 0..0 |-> <<WalkStart(k)>>] OBVIOUS
    <3>2. Until(f, 0) BY <3>1
    <3> HIDE DEF Until
    <3> QED BY <3>2, <2>2, <2>3
  <2>4. CASE m # 0
    <3>1. m \in Nat BY <2>2
    <3>2. PICK j \in Nat : j = m - 1 /\ j < m BY <3>1, <2>4
    <3>3. PICK f : Until(f, j)
      <4>1. Reached(j)
        <5> HIDE DEF Reached
        <5>1. j \notin Bad BY <2>1, <2>2, <3>2
        <5> QED BY <5>1
      <4> HIDE DEF Until
      <4> QED BY <4>1
    <3>4. PICK g : g = [i \in 0..m |-> IF i = m THEN Step(f, m) ELSE f[i]] OBVIOUS
    <3>5. ASSUME NEW i \in 0..m PROVE g[i] = Step(g, i)
      <4>1. g[i] = Step(f, i)
        <5>1. i = m \/ i \in 0..j BY <3>1, <3>2
        <5> HIDE DEF Step
        <5> QED BY <5>1, <3>3, <3>4
      <4>2. i # 0 => g[i-1] = f[i-1]
        <5> HIDE DEF Step
        <5>1. i # 0 => i - 1 \in 0..m /\ i - 1 # m BY <3>1
        <5> QED BY <5>1, <3>4
      <4> QED BY <4>1, <4>2
    <3>6. Until(g, m)
      <4> HIDE DEF Step
      <4> QED BY <3>5
    <3> HIDE DEF Until
    <3> QED BY <3>6, <2>2
  <2> QED BY <2>3, <2>4
<1>4. \E g : Loop(g)
  <2>1. PICK n \in Nat : n = Count BY <1>2
  <2>2. PICK f : Until(f, n)
    <3>1. Reached(n)
      <4> HIDE DEF Reached
      <4> QED BY <1>3
    <3> HIDE DEF Until
    <3> QED BY <3>1
  <2>3. PICK g : g = [i \in 0..n |-> f[i]] OBVIOUS
  <2>4. ASSUME NEW i \in 0..n PROVE f[i] = Step(g, i)
    <3>1. f[i] = Step(f, i)
      <4> HIDE DEF Step
      <4> QED BY <2>2
    <3>2. i # 0 => g[i-1] = f[i-1]
      <4>1. i # 0 => i - 1 \in 0..n BY <2>1
      <4> QED BY <4>1, <2>3
    <3> QED BY <3>1, <3>2
  <2>5. g = [i \in 0..n |-> Step(g, i)]
    <3> HIDE DEF Step
    <3> QED BY <2>3, <2>4
  <2> QED BY <2>1, <2>5
<1>5. PICK f : f = (CHOOSE g : Loop(g)) /\ Loop(f) BY <1>4
<1>6. PICK n \in Nat : n = Count BY <1>2
<1>7. ASSUME NEW i \in 0..n PROVE f[i] = Step(f, i) BY <1>5, <1>6
<1>8. f[0] = <<WalkStart(k)>> BY <1>6, <1>7
<1>9. ASSUME NEW i \in 1..n PROVE f[i] = WalkOn(k, f[i-1]) BY <1>7
<1>10. Walk(k) = f[n] BY <1>1, <1>5, <1>6
<1> QED BY <1>6, <1>8, <1>9, <1>10

LEMMA WalkStops ==
  ASSUME LeafFile(leaf), NEW S, Closed(leaf, S), NEW k, search(dir, k) \in S
  PROVE  IsWalk(leaf, S, k, Walk(k))
<1>1. PICK f, n : /\ n \in Nat /\ Walk(k) = f[n] /\ f[0] = <<WalkStart(k)>>
                  /\ \A i \in 1..n : f[i] = WalkOn(k, f[i-1])
  BY WalkUnfolds
<1>2. IsWalk(leaf, S, k, <<WalkStart(k)>>)
  <2>1. PICK start : start = WalkStart(k) OBVIOUS
  <2>2. Position(k).block = search(dir, k) BY DEF Position
  <2>3. IsStop(leaf, S, k, start) BY <2>1, <2>2, NextStops DEF WalkStart
  <2>4. PICK P, w : P = {start} /\ w = <<start>> OBVIOUS
  <2>5. w \in Seq(P) /\ w # <<>> /\ \A p \in P : IsStop(leaf, S, k, p) BY <2>3, <2>4
  <2>6. IsWalk(leaf, S, k, w) BY <2>5 DEF IsWalk
  <2> QED BY <2>1, <2>4, <2>6
<1>3. ASSUME NEW w, IsWalk(leaf, S, k, w) PROVE IsWalk(leaf, S, k, WalkOn(k, w))
  <2>1. CASE Last(w).rid = None BY <2>1, <1>3 DEF WalkOn
  <2>2. CASE Last(w).rid # None
    <3>1. PICK P : w \in Seq(P) /\ w # <<>> /\ \A q \in P : IsStop(leaf, S, k, q)
      BY <1>3 DEF IsWalk
    <3>2. PICK last : last = Last(w) /\ last \in P BY <3>1 DEF Last
    <3>3. last.block \in S BY <3>1, <3>2 DEF IsStop
    <3>4. PICK p : p = next(leaf, last.block, last.slot + 1, k) OBVIOUS
    <3>5. IsStop(leaf, S, k, p) BY <3>3, <3>4, NextStops
    <3>6. PICK Q : Q = P \union {p} OBVIOUS
    <3>7. w \in Seq(Q) /\ p \in Q BY <3>1, <3>6
    <3>8. PICK v : v = Append(w, p) OBVIOUS
    <3>9. v \in Seq(Q) /\ v # <<>> BY <3>7, <3>8, AppendProperties
    <3>10. \A q \in Q : IsStop(leaf, S, k, q) BY <3>1, <3>5, <3>6
    <3>11. WalkOn(k, w) = v BY <2>2, <3>2, <3>4, <3>8 DEF WalkOn
    <3> QED BY <3>9, <3>10, <3>11 DEF IsWalk
  <2> QED BY <2>1, <2>2
<1>4. PICK Bad : Bad = {m \in 0..n : ~IsWalk(leaf, S, k, f[m])} OBVIOUS
<1>5. Bad = {}
  <2> SUFFICES ASSUME Bad # {} PROVE FALSE OBVIOUS
  <2>1. Bad \subseteq Nat BY <1>4
  <2>2. PICK m \in Bad : \A i \in Bad : m <= i BY <2>1, LeastExists
  <2>3. m \in 0..n /\ ~IsWalk(leaf, S, k, f[m]) BY <2>2, <1>4
  <2>4. m # 0 BY <2>3, <1>1, <1>2
  <2>5. m \in 1..n /\ m - 1 \in 0..n /\ ~(m <= m - 1) BY <2>3, <2>4, <1>1
  <2>6. IsWalk(leaf, S, k, f[m-1])
    <3>1. m - 1 \notin Bad BY <2>2, <2>5
    <3> QED BY <3>1, <2>5, <1>4
  <2>7. IsWalk(leaf, S, k, f[m]) BY <2>5, <2>6, <1>1, <1>3
  <2> QED BY <2>3, <2>7
<1>6. n \in 0..n BY <1>1
<1> QED BY <1>1, <1>4, <1>5, <1>6

Removed(file, b, slot) == [file EXCEPT ![b].recs = RemoveAt(@, slot)]

(* Where Delete finds its record *)
FoundAt(file, S, k, r, at) ==
  /\ at.block \in S /\ at.slot \in DOMAIN file[at.block].recs
  /\ file[at.block].recs[at.slot].key = k /\ file[at.block].recs[at.slot].val = r

LEMMA DeleteFinds ==
  ASSUME NEW file, NEW S, NEW k, NEW r \in Rids, NEW walk, IsWalk(file, S, k, walk),
         NEW found, found = {i \in DOMAIN walk : walk[i].rid = r}, found # {},
         NEW at, at = walk[Min(found)]
  PROVE  FoundAt(file, S, k, r, at)
<1>1. PICK P : walk \in Seq(P) /\ \A p \in P : IsStop(file, S, k, p) BY DEF IsWalk
<1>2. Min(found) \in found
  <2>1. found \subseteq Nat BY <1>1
  <2> QED BY <2>1, LeastExists
<1>3. at \in P /\ at.rid = r BY <1>1, <1>2
<1> QED BY <1>1, <1>3 DEF IsStop, FoundAt

(* A leaf with a record less *)
LEMMA DeleteKeeps ==
  ASSUME LeafFile(leaf), NEW b \in DOMAIN leaf, NEW slot \in DOMAIN leaf[b].recs,
         NEW new, new = Removed(leaf, b, slot)
  PROVE  LeafFile(new) /\ DOMAIN new = DOMAIN leaf
<1>1. LeafPage(leaf, leaf[b]) BY DEF LeafFile
<1>2. PICK recs : recs = leaf[b].recs OBVIOUS
<1>3. /\ leaf[b] \in Pages /\ recs \in Seq(Entry) /\ Len(recs) <= LeafCapacity
      /\ leaf[b].extra1 \in DOMAIN leaf \union {None}
  BY <1>1, <1>2 DEF LeafPage, Pages, Entry
<1>4. PICK less : less = RemoveAt(recs, slot) OBVIOUS
<1>5. less \in Seq(Entry) /\ Len(less) = Len(recs) - 1
  BY <1>2, <1>3, <1>4, RemoveTyped
<1>6. new = [leaf EXCEPT ![b].recs = less] BY <1>2, <1>4 DEF Removed
<1>7. /\ DOMAIN new = DOMAIN leaf /\ \A c \in DOMAIN leaf \ {b} : new[c] = leaf[c]
      /\ new[b] = [leaf[b] EXCEPT !.recs = less]
  BY <1>6
<1>8. new[b] = [recs |-> less, extra1 |-> leaf[b].extra1, extra2 |-> leaf[b].extra2]
  BY <1>3, <1>7 DEF Pages
<1>9. new[b] \in Pages
  <2>1. leaf[b].extra1 \in Int /\ leaf[b].extra2 \in Int BY <1>1 DEF LeafPage, Pages
  <2> QED BY <2>1, <1>5, <1>8 DEF Pages, Entry
<1>10. Len(less) <= LeafCapacity
  <2>1. Len(recs) \in Nat BY <1>3
  <2> QED BY <2>1, <1>3, <1>5
<1>11. LeafPage(new, new[b])
  <2>1. new[b].recs = less /\ new[b].extra1 = leaf[b].extra1 BY <1>8
  <2>2. new[b].extra1 \in DOMAIN new \union {None} BY <2>1, <1>3, <1>7
  <2> QED BY <2>1, <2>2, <1>9, <1>10 DEF LeafPage
<1>12. \A c \in DOMAIN leaf \ {b} : LeafPage(new, new[c])
  BY <1>7 DEF LeafFile, LeafPage
<1> QED BY <1>7, <1>11, <1>12 DEF LeafFile, IsFile

(* A rollback brings back the old pages, and zeros in those appended since. *)
LEMMA RestoredTyped ==
  ASSUME NEW oldLeaf, NEW oldDir, Index(oldLeaf, oldDir), Index(leaf, dir),
         DOMAIN oldLeaf \subseteq DOMAIN leaf, DOMAIN oldDir \subseteq DOMAIN dir,
         NEW l, l = Restored(oldLeaf, leaf), NEW d, d = Restored(oldDir, dir)
  PROVE  Index(l, d) /\ DOMAIN l = DOMAIN leaf /\ DOMAIN d = DOMAIN dir
<1>1. /\ DOMAIN l = DOMAIN leaf /\ \A c \in DOMAIN oldLeaf : l[c] = oldLeaf[c]
      /\ \A c \in DOMAIN leaf \ DOMAIN oldLeaf : l[c] = ZeroPage
  BY DEF Restored
<1>2. /\ DOMAIN d = DOMAIN dir /\ \A c \in DOMAIN oldDir : d[c] = oldDir[c]
      /\ \A c \in DOMAIN dir \ DOMAIN oldDir : d[c] = ZeroPage
  BY DEF Restored
<1>3. IsFile(l) /\ IsFile(d) BY <1>1, <1>2 DEF Index, LeafFile, Directory, IsFile
<1>4. ASSUME NEW file, IsFile(file), NEW c \in DOMAIN file PROVE Root \in DOMAIN file
  BY <1>4, RootExists
<1>5. ZeroPage \in Pages /\ Len(ZeroPage.recs) = 0 /\ ZeroPage.extra1 = 0
  BY DEF ZeroPage, Pages
<1>6. ASSUME NEW c \in DOMAIN l PROVE LeafPage(l, l[c])
  <2>1. CASE c \in DOMAIN oldLeaf
    <3>1. LeafPage(oldLeaf, oldLeaf[c]) BY <2>1 DEF Index, LeafFile
    <3> QED BY <3>1, <2>1, <1>1 DEF LeafPage
  <2>2. CASE c \notin DOMAIN oldLeaf
    <3>1. l[c] = ZeroPage BY <2>2, <1>1
    <3>2. 0 \in DOMAIN l BY <1>3, <1>4
    <3> QED BY <3>1, <3>2, <1>5 DEF LeafPage
  <2> QED BY <2>1, <2>2
<1>7. Grown(oldDir, d) BY <1>2 DEF Grown
<1>8. ASSUME NEW c \in DOMAIN d PROVE DirPage(d, DOMAIN l, d[c])
  <2>1. CASE c \in DOMAIN oldDir
    <3>1. DirPage(oldDir, DOMAIN oldLeaf, oldDir[c]) /\ IsFile(oldDir)
      BY <2>1 DEF Index, Directory
    <3>2. Root \in DOMAIN oldDir BY <3>1, <2>1, <1>4
    <3>3. PICK leaves, more : leaves = DOMAIN oldLeaf /\ more = DOMAIN l OBVIOUS
    <3>4. leaves \subseteq more BY <3>3, <1>1
    <3>5. PICK page : page = d[c] /\ page = oldDir[c] BY <2>1, <1>2
    <3>6. DirPage(d, more, page) BY <3>1, <3>2, <3>3, <3>4, <3>5, <1>7, DirPageKept
    <3> QED BY <3>3, <3>5, <3>6
  <2>2. CASE c \notin DOMAIN oldDir
    <3>1. d[c] = ZeroPage BY <2>2, <1>2
    <3>2. 0 \in DOMAIN l
      <4>1. DOMAIN leaf # {} BY <1>2 DEF Index
      <4>2. PICK e : e \in DOMAIN l BY <4>1, <1>1
      <4> QED BY <4>2, <1>3, <1>4
    <3>3. \A e \in Children(ZeroPage) : e = 0
      <4>1. ZeroPage.recs = <<>> /\ ZeroPage.extra2 = 0 BY DEF ZeroPage
      <4> QED BY <4>1 DEF Children, ToSet
    <3>4. 0 <= d[Root].extra1
      <4>1. Root \in DOMAIN d BY <1>3, <1>4
      <4>2. CASE Root \in DOMAIN oldDir
        <5>1. DirPage(oldDir, DOMAIN oldLeaf, oldDir[Root]) BY <4>2 DEF Index, Directory
        <5>2. d[Root] = oldDir[Root] BY <4>2, <1>2
        <5>3. d[Root].extra1 \in Nat BY <5>1, <5>2 DEF DirPage
        <5> QED BY <5>3
      <4>3. CASE Root \notin DOMAIN oldDir
        <5>1. d[Root] = ZeroPage BY <4>1, <4>3, <1>2
        <5> QED BY <5>1, <1>5
      <4> QED BY <4>2, <4>3
    <3>5. DirPage(d, DOMAIN l, ZeroPage) BY <3>2, <3>3, <3>4, <1>5 DEF DirPage, IsChild
    <3> QED BY <3>1, <3>5
  <2> QED BY <2>1, <2>2
<1>9. DOMAIN l = {} <=> DOMAIN d = {} BY <1>1, <1>2 DEF Index
<1> QED BY <1>1, <1>2, <1>3, <1>6, <1>8, <1>9 DEF Index, LeafFile, Directory

----------------------------------------------------------------------------
(* The files are an index, and so is what a rollback brings back, which has *)
(* no more blocks than they.                                                *)
TypeInv ==
  /\ Index(leaf, dir) /\ Index(undo.leaf, undo.dir)
  /\ DOMAIN undo.leaf \subseteq DOMAIN leaf /\ DOMAIN undo.dir \subseteq DOMAIN dir
  /\ open => DOMAIN leaf # {}

LEMMA EmptyIndex == Index(<<>>, <<>>)
<1>1. DOMAIN <<>> = {} OBVIOUS
<1>2. PICK file : file = <<>> OBVIOUS
<1>3. IsFile(file)
  <2>1. DOMAIN file = 0..(0 - 1) BY <1>2
  <2> QED BY <2>1 DEF IsFile
<1>4. DOMAIN file = {} BY <1>1, <1>2
<1>5. Index(file, file) BY <1>3, <1>4 DEF Index, LeafFile, Directory
<1> QED BY <1>2, <1>5

LEMMA InitTyped == Init => TypeInv
<1> SUFFICES ASSUME Init PROVE TypeInv OBVIOUS
<1>1. Index(undo.leaf, undo.dir)
  <2>1. CASE undo = [leaf |-> <<>>, dir |-> <<>>]
    <3>1. undo.leaf = <<>> /\ undo.dir = <<>> BY <2>1
    <3> QED BY <3>1, EmptyIndex
  <2>2. CASE \E rids \in Preloads : undo = Built(rids)
    <3>1. PICK rids \in Preloads : undo = Built(rids) BY <2>2
    <3>2. rids \in Seq(Rids) OBVIOUS
    <3> QED BY <3>1, <3>2, BuiltTyped
  <2> QED BY <2>1, <2>2 DEF Init
<1>2. leaf = undo.leaf /\ dir = undo.dir /\ open = FALSE BY DEF Init
<1> QED BY <1>1, <1>2 DEF TypeInv

(* A step of an open transaction that extends the index *)
LEMMA ExtensionKeeps ==
  ASSUME TypeInv, Extension(leaf, dir, leaf', dir'), undo' = undo,
         open' => DOMAIN leaf' # {}
  PROVE  TypeInv'
<1>1. PICK l, d, o : l = leaf' /\ d = dir' /\ o = open' OBVIOUS
<1>2. Index(l, d) /\ DOMAIN leaf \subseteq DOMAIN l /\ DOMAIN dir \subseteq DOMAIN d
  BY <1>1 DEF Extension
<1>3. /\ Index(undo.leaf, undo.dir)
      /\ DOMAIN undo.leaf \subseteq DOMAIN leaf /\ DOMAIN undo.dir \subseteq DOMAIN dir
  BY DEF TypeInv
<1>4. DOMAIN undo.leaf \subseteq DOMAIN l /\ DOMAIN undo.dir \subseteq DOMAIN d
  BY <1>2, <1>3
<1> QED BY <1>1, <1>2, <1>3, <1>4 DEF TypeInv

LEMMA NextTyped == TypeInv /\ [Next]_vars => TypeInv'
<1> SUFFICES ASSUME TypeInv, [Next]_vars PROVE TypeInv' OBVIOUS
<1>1. /\ Index(leaf, dir) /\ Index(undo.leaf, undo.dir)
      /\ DOMAIN undo.leaf \subseteq DOMAIN leaf /\ DOMAIN undo.dir \subseteq DOMAIN dir
      /\ open => DOMAIN leaf # {}
  BY DEF TypeInv
<1>2. ASSUME UNCHANGED <<leaf, dir, undo, open>> PROVE TypeInv' BY <1>2 DEF TypeInv
<1>3. ASSUME NewIndex PROVE TypeInv'
  <2>1. undo' = undo BY <1>3 DEF NewIndex
  <2>2. CASE Size(leaf) # 0
    <3>1. UNCHANGED <<leaf, dir>> BY <2>2, <1>3 DEF NewIndex, files
    <3>2. Extension(leaf, dir, leaf', dir') BY <3>1, <1>1 DEF Extension
    <3>3. DOMAIN leaf # {} BY <2>2, FS_EmptySet DEF Size
    <3> QED BY <3>1, <3>2, <3>3, <2>1, ExtensionKeeps
  <2>3. CASE Size(leaf) = 0
    <3>1. leaf' = Created.leaf /\ dir' = Created.dir BY <2>3, <1>3 DEF NewIndex
    <3>2. DOMAIN leaf = {} /\ DOMAIN dir = {}
      <4>1. IsFile(leaf) BY <1>1 DEF Index, LeafFile
      <4>2. DOMAIN leaf = 0..(0 - 1) BY <4>1, <2>3, FileSize
      <4>3. DOMAIN leaf = {} BY <4>2
      <4> QED BY <4>3, <1>1 DEF Index
    <3>3. Extension(leaf, dir, leaf', dir') /\ DOMAIN leaf' # {}
      BY <3>1, <3>2, CreatedTyped DEF Extension
    <3> QED BY <3>3, <2>1, ExtensionKeeps
  <2> QED BY <2>2, <2>3
<1>4. ASSUME NEW r \in Rids, NEW stop, CanInsert(r), undo' = undo, open' = open,
             NEW f, f = [leaf |-> leaf, dir |-> dir],
             leaf' = InsertUpTo(f, r, stop).leaf, dir' = InsertUpTo(f, r, stop).dir
      PROVE  TypeInv'
  <2>1. DOMAIN leaf # {} BY <1>1, <1>4 DEF CanInsert, CanChange
  <2>2. PICK res : res = InsertUpTo(f, r, stop) OBVIOUS
  <2>3. f.leaf = leaf /\ f.dir = dir BY <1>4
  <2>4. Extension(leaf, dir, res.leaf, res.dir)
    <3>1. Extension(f.leaf, f.dir, res.leaf, res.dir)
      BY <2>1, <2>2, <2>3, <1>1, InsertUpToTyped
    <3> QED BY <3>1, <2>3
  <2>5. leaf' = res.leaf /\ dir' = res.dir BY <2>2, <1>4
  <2>6. Extension(leaf, dir, leaf', dir') BY <2>4, <2>5
  <2>7. DOMAIN leaf' # {} BY <2>1, <2>6 DEF Extension
  <2> QED BY <2>6, <2>7, <1>4, ExtensionKeeps
<1>5. ASSUME NEW r \in Rids, Insert(r) PROVE TypeInv'
  <2>1. PICK f : f = [leaf |-> leaf, dir |-> dir] OBVIOUS
  <2>2. PICK stop : stop = dir[Root].extra1 + 2 OBVIOUS
  <2>3. /\ CanInsert(r) /\ undo' = undo /\ open' = open
        /\ leaf' = InsertUpTo(f, r, stop).leaf /\ dir' = InsertUpTo(f, r, stop).dir
    BY <2>1, <2>2, <1>5 DEF Insert, Changed
  <2> QED BY <2>1, <2>3, <1>4
<1>6. ASSUME NEW r \in Rids, NEW stop, InsertFails(r, stop) PROVE TypeInv'
  <2>1. PICK f : f = [leaf |-> leaf, dir |-> dir] OBVIOUS
  <2>2. /\ CanInsert(r) /\ undo' = undo /\ open' = open
        /\ leaf' = InsertUpTo(f, r, stop).leaf /\ dir' = InsertUpTo(f, r, stop).dir
    BY <2>1, <1>6 DEF InsertFails, Changed
  <2> QED BY <2>1, <2>2, <1>4
<1>7. ASSUME NEW r \in Rids, Delete(r) PROVE TypeInv'
  <2>1. PICK walk : walk = Walk(KeyOf[r]) OBVIOUS
  <2>2. PICK found : found = {i \in DOMAIN walk : walk[i].rid = r} OBVIOUS
  <2>3. PICK at : at = walk[Min(found)] OBVIOUS
  <2>4. LeafFile(leaf) /\ IsFile(leaf) BY <1>1 DEF Index, LeafFile
  <2>5. PICK S : S = DOMAIN leaf OBVIOUS
  <2>6. IsWalk(leaf, S, KeyOf[r], walk)
    <3>1. Closed(leaf, S) BY <2>4, <2>5 DEF Closed, LeafFile, LeafPage
    <3>2. search(dir, KeyOf[r]) \in S
      <4>1. Directory(dir, S) /\ DOMAIN dir # {}
        BY <2>5, <1>1, <1>7 DEF Index, Delete, CanChange
      <4>2. Root \in DOMAIN dir BY <4>1, RootExists DEF Directory
      <4> QED BY <4>1, <4>2, SearchTyped
    <3> QED BY <3>1, <3>2, <2>1, <2>4, WalkStops
  <2>7. /\ undo' = undo /\ dir' = dir /\ open' = open
        /\ IF found # {} THEN leaf' = Removed(leaf, at.block, at.slot) ELSE leaf' = leaf
    BY <2>1, <2>2, <2>3, <1>7 DEF Delete, Removed
  <2>8. LeafFile(leaf') /\ DOMAIN leaf' = DOMAIN leaf
    <3>1. CASE found = {} BY <3>1, <2>4, <2>7
    <3>2. CASE found # {}
      <4>1. PICK new : new = leaf' OBVIOUS
      <4>2. new = Removed(leaf, at.block, at.slot) BY <4>1, <3>2, <2>7
      <4>3. FoundAt(leaf, S, KeyOf[r], r, at) BY <3>2, <2>2, <2>3, <2>6, DeleteFinds
      <4>4. LeafFile(new) /\ DOMAIN new = DOMAIN leaf
        BY <4>2, <4>3, <2>4, <2>5, DeleteKeeps DEF FoundAt
      <4> QED BY <4>1, <4>4
    <3> QED BY <3>1, <3>2
  <2>9. Index(leaf', dir') BY <2>7, <2>8, <1>1 DEF Index
  <2>10. Extension(leaf, dir, leaf', dir') BY <2>7, <2>8, <2>9 DEF Extension
  <2> QED BY <2>7, <2>8, <2>10, <1>1, ExtensionKeeps
<1>8. ASSUME undo' = [leaf |-> leaf', dir |-> dir'], open' = FALSE, Index(leaf', dir')
      PROVE  TypeInv'
  <2>1. PICK l, d, u, o : l = leaf' /\ d = dir' /\ u = undo' /\ o = open' OBVIOUS
  <2>2. u = [leaf |-> l, dir |-> d] /\ o = FALSE /\ Index(l, d) BY <2>1, <1>8
  <2>3. u.leaf = l /\ u.dir = d BY <2>2
  <2> QED BY <2>1, <2>2, <2>3 DEF TypeInv
<1>9. ASSUME Commit PROVE TypeInv'
  BY <1>9, <1>1, <1>8 DEF Commit, EndTransaction, files
<1>10. ASSUME Rollback PROVE TypeInv'
  <2>1. PICK l, d : l = Restored(undo.leaf, leaf) /\ d = Restored(undo.dir, dir) OBVIOUS
  <2>2. PICK oldLeaf, oldDir : oldLeaf = undo.leaf /\ oldDir = undo.dir OBVIOUS
  <2>3. Index(l, d)
    <3>1. l = Restored(oldLeaf, leaf) /\ d = Restored(oldDir, dir) BY <2>1, <2>2
    <3>2. /\ Index(oldLeaf, oldDir)
          /\ DOMAIN oldLeaf \subseteq DOMAIN leaf /\ DOMAIN oldDir \subseteq DOMAIN dir
      BY <2>2, <1>1
    <3> QED BY <3>1, <3>2, <1>1, RestoredTyped
  <2>4. leaf' = l /\ dir' = d BY <2>1, <1>10 DEF Rollback
  <2>5. undo' = [leaf |-> leaf', dir |-> dir'] /\ open' = FALSE
    BY <1>10 DEF Rollback, EndTransaction
  <2> QED BY <2>3, <2>4, <2>5, <1>8
<1>11. ASSUME NEW k, BeforeFirst(k) PROVE TypeInv'
  BY <1>2, <1>11 DEF BeforeFirst, files
<1>12. ASSUME Next_ PROVE TypeInv' BY <1>2, <1>12 DEF Next_, files
<1>13. ASSUME UNCHANGED vars PROVE TypeInv' BY <1>2, <1>13 DEF vars, files
<1>14. ASSUME NEW r \in Rids, InsertFailsInLeaf(r) PROVE TypeInv'
  <2>1. PICK b, new : b = search(dir, KeyOf[r]) /\ new = LeafHalves(leaf, b) OBVIOUS
  <2>2. /\ leaf' = new /\ dir' = dir /\ undo' = undo /\ open' = open /\ open
        /\ isFull(leaf[b], LeafCapacity)
    BY <2>1, <1>14 DEF InsertFailsInLeaf, Changed, CanInsert, CanChange
  <2>3. Directory(dir, DOMAIN leaf) /\ Root \in DOMAIN dir /\ LeafFile(leaf)
    BY <2>2, <1>1, RootExists DEF Index, Directory
  <2>4. b \in DOMAIN leaf BY <2>1, <2>3, SearchTyped
  <2>5. \E pos : LeafParted(leaf, b, pos, new) BY <2>1, <2>2, <2>3, <2>4, FullLeafParts
  <2>6. Extension(leaf, dir, new, dir) BY <2>4, <2>5, <1>1, LeafPartedExtends
  <2> QED BY <2>2, <2>6, <1>1, ExtensionKeeps DEF Extension
<1>15. ASSUME NEW r \in Rids, NEW b \in DOMAIN dir, InsertFailsInDir(r, b) PROVE TypeInv'
  <2>1. PICK f, stop : f = [leaf |-> leaf, dir |-> dir] /\ stop = dir[b].extra1 OBVIOUS
  <2>2. PICK res, new : res = InsertUpTo(f, r, stop) /\ new = DirHalves(res.dir, b) OBVIOUS
  <2>3. /\ leaf' = res.leaf /\ dir' = new /\ undo' = undo /\ open' = open /\ open
        /\ isFull(res.dir[b], DirCapacity)
    BY <2>1, <2>2, <1>15 DEF InsertFailsInDir, Changed, CanInsert, CanChange
  <2>4. DOMAIN leaf # {} BY <2>3, <1>1
  <2>5. Extension(leaf, dir, res.leaf, res.dir)
    <3>1. f.leaf = leaf /\ f.dir = dir BY <2>1
    <3>2. Extension(f.leaf, f.dir, res.leaf, res.dir)
      BY <3>1, <2>2, <2>4, <1>1, InsertUpToTyped
    <3> QED BY <3>1, <3>2
  <2>6. Extension(leaf, dir, res.leaf, new) BY <2>2, <2>3, <2>5, DirHalvesExtend
  <2> QED BY <2>3, <2>4, <2>6, <1>1, ExtensionKeeps DEF Extension
<1> QED BY <1>3, <1>5, <1>6, <1>7, <1>9, <1>10, <1>11, <1>12, <1>13, <1>14, <1>15 DEF Next

(* A file is numbered without gaps, and its pages are of the right kind. *)
LEMMA TypedImpliesTypeOK == TypeInv => TypeOK
<1> SUFFICES ASSUME TypeInv PROVE TypeOK OBVIOUS
<1>1. LeafFile(leaf) /\ Directory(dir, DOMAIN leaf) BY DEF TypeInv, Index
<1>2. DOMAIN leaf = 0..Size(leaf) - 1 /\ DOMAIN dir = 0..Size(dir) - 1
  BY <1>1, FileSize DEF LeafFile, Directory
<1>3. ASSUME NEW b \in DOMAIN leaf
      PROVE  /\ leaf[b] \in Pages /\ Len(leaf[b].recs) <= LeafCapacity
             /\ leaf[b].extra1 \in DOMAIN leaf \union {None}
  BY <1>1 DEF LeafFile, LeafPage
<1>4. ASSUME NEW b \in DOMAIN dir
      PROVE  LET children == {r.val : r \in ToSet(dir[b].recs)} \union {dir[b].extra2}
             IN /\ dir[b] \in Pages /\ Len(dir[b].recs) <= DirCapacity
                /\ IF dir[b].extra1 = 0 THEN children \subseteq DOMAIN leaf
                   ELSE \A c \in children : dir[c].extra1 = dir[b].extra1 - 1
  <2>1. DirPage(dir, DOMAIN leaf, dir[b]) BY <1>1 DEF Directory
  <2>2. dir[b] \in Pages /\ Len(dir[b].recs) <= DirCapacity BY <2>1 DEF DirPage
  <2>3. PICK children : /\ children = Children(dir[b])
                        /\ \A c \in children : IsChild(dir, DOMAIN leaf, dir[b].extra1, c)
    BY <2>1 DEF DirPage
  <2>4. IF dir[b].extra1 = 0 THEN children \subseteq DOMAIN leaf
        ELSE \A c \in children : dir[c].extra1 = dir[b].extra1 - 1
    BY <2>3 DEF IsChild
  <2> QED BY <2>2, <2>3, <2>4 DEF Children
<1> QED BY <1>2, <1>3, <1>4 DEF TypeOK

(* The files of an index stay what search, Insert and the cursor take them  *)
(* for, whichever Inserts fail halfway and whatever is rolled back: no page *)
(* overflows, every link leads to a block of its file, and every child is   *)
(* one level below its page (btreePage, Index of btree/index.go).           *)
THEOREM TypeCorrect == Spec => []TypeOK
<1>1. Spec => []TypeInv BY InitTyped, NextTyped, PTL DEF Spec
<1> QED BY <1>1, TypedImpliesTypeOK, PTL
=============================================================================
