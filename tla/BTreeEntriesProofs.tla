------------------------- MODULE BTreeEntriesProofs -------------------------
(***************************************************************************)
(* BTree implements IndexEntries: whatever splits, failed Inserts and      *)
(* rollbacks have made of the two files, the leaves that the sibling links *)
(* connect hold the entries that were inserted and not deleted, and a      *)
(* search in them comes to an end.  As long as no split has parted equal   *)
(* keys, the keys are in order in both files, so that search and cursors   *)
(* find all there is and the directory has the leaves in the order of the  *)
(* links.                                                                  *)
(***************************************************************************)
EXTENDS BTreeProofs

USE BTreeAssumption DEF Root, None

(* There is an entry in the leaves of a set. *)
Has(file, S, e) == \E b \in S : \E r \in ToSet(file[b].recs) : e = <<r.key, r.val>>

(* From no set of blocks do the links only lead back into it. *)
NoCircle(file) ==
  \A U \in SUBSET DOMAIN file : (\A c \in U : file[c].extra1 \in U) => U = {}

SameLinks(file, new) ==
  DOMAIN new = DOMAIN file /\ \A c \in DOMAIN file : new[c].extra1 = file[c].extra1

LEMMA EntriesAre ==
  ASSUME NEW file, 0 \in DOMAIN file, NEW S, S = LeafBlocks(file), NEW e
  PROVE  e \in EntriesIn(file) <=> Has(file, S, e)
<1>1. file # <<>>
  <2>1. DOMAIN <<>> = {} OBVIOUS
  <2> QED BY <2>1
<1>2. EntriesIn(file) = UNION {{<<r.key, r.val>> : r \in ToSet(file[b].recs)} : b \in S}
  BY <1>1 DEF EntriesIn
<1> QED BY <1>2 DEF Has

LEMMA LinksKept ==
  ASSUME NEW file, NEW new, SameLinks(file, new)
  PROVE  /\ \A S : Chained(file, S) => Chained(new, S)
         /\ NoCircle(file) => NoCircle(new)
<1>1. \A S : Linked(file, S) <=> Linked(new, S) BY DEF SameLinks, Linked, Closed
<1>2. ASSUME NoCircle(file), NEW U \in SUBSET DOMAIN new, \A c \in U : new[c].extra1 \in U
      PROVE  U = {}
  <2>1. U \in SUBSET DOMAIN file /\ \A c \in U : file[c].extra1 \in U
    BY <1>2 DEF SameLinks
  <2> QED BY <2>1, <1>2 DEF NoCircle
<1> QED BY <1>1, <1>2 DEF Chained, NoCircle

(* A block with the upper half of a leaf comes next to it in the chain. *)
LEMMA ChainParted ==
  ASSUME NEW file, LeafFile(file), NEW S, Chained(file, S), NEW b \in S,
         NEW pos, NEW new, LeafParted(file, b, pos, new), NEW n, n = Size(file)
  PROVE  Chained(new, S \union {n}) /\ (NoCircle(file) => NoCircle(new))
<1>1. /\ n \notin DOMAIN file /\ n # None /\ DOMAIN new = DOMAIN file \union {n}
      /\ \A c \in DOMAIN file \ {b} : new[c].extra1 = file[c].extra1
      /\ new[b].extra1 = n /\ new[n].extra1 = file[b].extra1
  BY DEF LeafParted
<1>2. \A c \in DOMAIN file : file[c].extra1 \in DOMAIN file \union {None}
  BY DEF LeafFile, LeafPage
<1>3. 0 \in S /\ S \subseteq DOMAIN file /\ \A c \in S : file[c].extra1 \in S \union {None}
  BY DEF Chained, Linked, Closed
<1>4. Linked(new, S \union {n})
  <2>1. ASSUME NEW c \in S \union {n} PROVE new[c].extra1 \in (S \union {n}) \union {None}
    BY <1>1, <1>3
  <2> QED BY <2>1, <1>1, <1>3 DEF Linked, Closed
<1>5. ASSUME NEW U, Linked(new, U) PROVE S \union {n} \subseteq U
  <2>1. 0 \in U /\ U \subseteq DOMAIN new /\ \A c \in U : new[c].extra1 \in U \union {None}
    BY <1>5 DEF Linked, Closed
  <2>2. PICK V : V = U \ {n} OBVIOUS
  <2>3. 0 \in V /\ V \subseteq DOMAIN file BY <2>1, <2>2, <1>1, <1>3
  <2>4. ASSUME NEW c \in V PROVE file[c].extra1 \in V \union {None}
    <3>1. file[c].extra1 \in DOMAIN file \union {None} BY <2>3, <1>2
    <3>2. file[c].extra1 \in U \union {None}
      <4>1. CASE c # b BY <4>1, <2>1, <2>2, <2>3, <1>1
      <4>2. CASE c = b
        <5>1. n \in U BY <4>2, <2>1, <2>2, <1>1
        <5> QED BY <5>1, <4>2, <2>1, <1>1
      <4> QED BY <4>1, <4>2
    <3> QED BY <3>1, <3>2, <2>2, <1>1
  <2>5. Linked(file, V) BY <2>3, <2>4 DEF Linked, Closed
  <2>6. S \subseteq V BY <2>5 DEF Chained
  <2>7. n \in U BY <2>1, <2>2, <2>6, <1>1
  <2> QED BY <2>2, <2>6, <2>7
<1>6. ASSUME NoCircle(file), NEW U \in SUBSET DOMAIN new, \A c \in U : new[c].extra1 \in U
      PROVE  U = {}
  <2>1. PICK V : V = U \ {n} OBVIOUS
  <2>2. V \in SUBSET DOMAIN file BY <2>1, <1>1
  <2>3. ASSUME NEW c \in V PROVE file[c].extra1 \in V
    <3>1. file[c].extra1 # n BY <2>2, <1>1, <1>2
    <3>2. file[c].extra1 \in U
      <4>1. CASE c # b BY <4>1, <2>1, <2>2, <1>1, <1>6
      <4>2. CASE c = b
        <5>1. n \in U BY <4>2, <2>1, <1>1, <1>6
        <5> QED BY <5>1, <4>2, <1>1, <1>6
      <4> QED BY <4>1, <4>2
    <3> QED BY <3>1, <3>2, <2>1
  <2>4. V = {} BY <2>2, <2>3, <1>6 DEF NoCircle
  <2>5. n \notin U
    <3>1. n \in U => new[n].extra1 = n BY <2>1, <2>4, <1>6
    <3>2. file[b].extra1 # n BY <1>1, <1>2, <1>3
    <3> QED BY <3>1, <3>2, <1>1
  <2> QED BY <2>1, <2>4, <2>5
<1>7. NoCircle(file) => NoCircle(new) BY <1>6 DEF NoCircle
<1> QED BY <1>4, <1>5, <1>7 DEF Chained

LEMMA PartedHas ==
  ASSUME NEW file, LeafFile(file), NEW S, Chained(file, S), NEW b \in S,
         NEW pos, NEW base, LeafParted(file, b, pos, base), NEW n, n = Size(file),
         NEW T, T = S \union {n}
  PROVE  \A e : Has(base, T, e) <=> Has(file, S, e)
<1>1. PICK recs, lo, hi : /\ recs = file[b].recs /\ lo = SubSeq(recs, 1, pos)
                          /\ hi = SubSeq(recs, pos + 1, Len(recs))
  OBVIOUS
<1>2. /\ base[b].recs = lo /\ base[n].recs = hi /\ n \notin DOMAIN file
      /\ ToSet(lo) \union ToSet(hi) = ToSet(recs)
      /\ \A x \in DOMAIN file \ {b} : base[x] = file[x]
  BY <1>1 DEF LeafParted, Cut
<1>3. S \subseteq DOMAIN file BY DEF Chained, Linked, Closed
<1>4. ASSUME NEW e, Has(base, T, e) PROVE Has(file, S, e)
  <2>1. PICK x \in T : \E r \in ToSet(base[x].recs) : e = <<r.key, r.val>>
    BY <1>4 DEF Has
  <2>2. PICK r \in ToSet(base[x].recs) : e = <<r.key, r.val>> BY <2>1
  <2>3. CASE x = b \/ x = n
    <3>1. r \in ToSet(recs) BY <2>2, <2>3, <1>2
    <3> QED BY <3>1, <2>2, <1>1 DEF Has
  <2>4. CASE ~(x = b \/ x = n)
    <3>1. x \in S /\ base[x] = file[x] BY <2>4, <1>2, <1>3
    <3> QED BY <3>1, <2>2 DEF Has
  <2> QED BY <2>3, <2>4
<1>5. ASSUME NEW e, Has(file, S, e) PROVE Has(base, T, e)
  <2>1. PICK x \in S : \E r \in ToSet(file[x].recs) : e = <<r.key, r.val>>
    BY <1>5 DEF Has
  <2>2. PICK r \in ToSet(file[x].recs) : e = <<r.key, r.val>> BY <2>1
  <2>3. CASE x = b
    <3>1. r \in ToSet(base[b].recs) \/ r \in ToSet(base[n].recs)
      BY <2>2, <2>3, <1>1, <1>2
    <3>2. b \in T /\ n \in T OBVIOUS
    <3> QED BY <3>1, <3>2, <2>2 DEF Has
  <2>4. CASE x # b
    <3>1. x \in T /\ base[x] = file[x] BY <2>4, <1>2, <1>3
    <3> QED BY <3>1, <2>2 DEF Has
  <2> QED BY <2>3, <2>4
<1> QED BY <1>4, <1>5

(* What LeafInsert makes of a chain of leaves S, before it enters the record *)
Ready(file, S, base, T, c, handed) ==
  /\ Chained(base, T) /\ S \subseteq T /\ c \in T
  /\ handed = NoSplit \/ handed \in [key : Keys, val : T]
  /\ \A e : Has(base, T, e) <=> Has(file, S, e)
  /\ NoCircle(file) => NoCircle(base)

LEMMA RoomIsReady ==
  ASSUME NEW file, LeafFile(file), NEW S, Chained(file, S), NEW b \in S, NEW rec \in Entry,
         NEW base, NEW c, NEW handed, HasRoom(file, b, rec, base, c, handed)
  PROVE  \E T : Ready(file, S, base, T, c, handed)
<1>1. CASE base = file /\ c = b /\ handed = NoSplit
  <2>1. Ready(file, S, base, S, c, handed) BY <1>1 DEF Ready
  <2> QED BY <2>1
<1>2. CASE ~(base = file /\ c = b /\ handed = NoSplit)
  <2>1. PICK n : n = Size(file) OBVIOUS
  <2>2. PICK pos :
          /\ LeafParted(file, b, pos, base)
          /\ handed = [key |-> base[n].recs[1].key, val |-> n]
          /\ handed.key \in Keys
          /\ IF compareVals(rec.key, handed.key) < 0 THEN c = b ELSE c = n
    BY <1>2, <2>1 DEF HasRoom
  <2>3. PICK T : T = S \union {n} OBVIOUS
  <2>4. Chained(base, T) /\ (NoCircle(file) => NoCircle(base))
    BY <2>1, <2>2, <2>3, ChainParted
  <2>5. handed \in [key : Keys, val : T] BY <2>2, <2>3
  <2>6. c \in T BY <2>2, <2>3
  <2>7. \A e : Has(base, T, e) <=> Has(file, S, e) BY <2>1, <2>2, <2>3, PartedHas
  <2>8. S \subseteq T BY <2>3
  <2> QED BY <2>4, <2>5, <2>6, <2>7, <2>8 DEF Ready
<1> QED BY <1>1, <1>2

(* The chain after an Insert: one entry more *)
Entered(file, S, rec, new, T, leafSplit) ==
  /\ Chained(new, T) /\ S \subseteq T
  /\ leafSplit = NoSplit \/ leafSplit \in [key : Keys, val : T]
  /\ \A e : Has(new, T, e) <=> (Has(file, S, e) \/ e = <<rec.key, rec.val>>)
  /\ NoCircle(file) => NoCircle(new)

LEMMA LeafInsertEnters ==
  ASSUME NEW file, LeafFile(file), NEW S, Chained(file, S), NEW b \in S, NEW rec \in Entry,
         NEW res, res = LeafInsert(file, b, rec)
  PROVE  \E T : Entered(file, S, rec, res.file, T, res.split)
<1>1. b \in DOMAIN file BY DEF Chained, Linked, Closed
<1>2. PICK base, c, handed, slot :
        /\ HasRoom(file, b, rec, base, c, handed)
        /\ LeafFile(base) /\ c \in DOMAIN base /\ Len(base[c].recs) + 1 <= LeafCapacity
        /\ slot = findLeafSlot(base[c].recs, rec.key) /\ slot \in 0..Len(base[c].recs)
        /\ res = [file |-> doInsert(base, c, slot, rec), split |-> handed]
  BY <1>1, LeafInsertIs
<1>3. PICK T : Ready(file, S, base, T, c, handed) BY <1>2, RoomIsReady
<1>4. PICK new : new = doInsert(base, c, slot, rec) OBVIOUS
<1>5. base[c] \in Pages BY <1>2 DEF LeafFile, LeafPage
<1>6. /\ DOMAIN new = DOMAIN base /\ \A x \in DOMAIN base \ {c} : new[x] = base[x]
      /\ new[c].extra1 = base[c].extra1
      /\ Longer(base[c].recs, slot, rec, new[c].recs)
  BY <1>2, <1>4, <1>5, InsertEffect
<1>7. ToSet(new[c].recs) = ToSet(base[c].recs) \union {rec} BY <1>6 DEF Longer
<1>8. SameLinks(base, new) BY <1>6 DEF SameLinks
<1>9. Chained(new, T) /\ (NoCircle(base) => NoCircle(new)) BY <1>3, <1>8, LinksKept DEF Ready
<1>10. T \subseteq DOMAIN base /\ c \in T BY <1>3 DEF Ready, Chained, Linked, Closed
<1>11. ASSUME NEW e PROVE Has(new, T, e) <=> (Has(base, T, e) \/ e = <<rec.key, rec.val>>)
  <2>1. ASSUME Has(new, T, e) PROVE Has(base, T, e) \/ e = <<rec.key, rec.val>>
    <3>1. PICK x \in T : \E r \in ToSet(new[x].recs) : e = <<r.key, r.val>> BY <2>1 DEF Has
    <3>2. PICK r \in ToSet(new[x].recs) : e = <<r.key, r.val>> BY <3>1
    <3>3. r \in ToSet(base[x].recs) \/ r = rec BY <3>2, <1>6, <1>7, <1>10
    <3> QED BY <3>2, <3>3 DEF Has
  <2>2. ASSUME Has(base, T, e) PROVE Has(new, T, e)
    <3>1. PICK x \in T : \E r \in ToSet(base[x].recs) : e = <<r.key, r.val>>
      BY <2>2 DEF Has
    <3>2. PICK r \in ToSet(base[x].recs) : e = <<r.key, r.val>> BY <3>1
    <3>3. r \in ToSet(new[x].recs) BY <3>2, <1>6, <1>7, <1>10
    <3> QED BY <3>2, <3>3 DEF Has
  <2>3. ASSUME e = <<rec.key, rec.val>> PROVE Has(new, T, e)
    <3>1. rec \in ToSet(new[c].recs) /\ c \in T BY <1>7, <1>10
    <3> QED BY <3>1, <2>3 DEF Has
  <2> QED BY <2>1, <2>2, <2>3
<1>12. res.file = new /\ res.split = handed BY <1>2, <1>4
<1>13. Entered(file, S, rec, new, T, handed) BY <1>3, <1>9, <1>11 DEF Ready, Entered
<1> QED BY <1>12, <1>13

(* The directory leads to no other leaves than those of the chain. *)
Tree(l, d) == Index(l, d) /\ 0 \in DOMAIN l /\ Directory(d, LeafBlocks(l))

LEMMA TreeIs ==
  ASSUME NEW l, NEW d, Tree(l, d)
  PROVE  /\ LeafFile(l) /\ Chained(l, LeafBlocks(l)) /\ LeafBlocks(l) \in SUBSET Nat
         /\ Root \in DOMAIN d
<1>1. LeafFile(l) /\ 0 \in DOMAIN l BY DEF Tree, Index
<1>2. Chained(l, LeafBlocks(l)) BY <1>1, LeafBlocksAre
<1>3. LeafBlocks(l) \subseteq DOMAIN l BY <1>2 DEF Chained, Linked, Closed
<1>4. DOMAIN l \subseteq Nat BY <1>1 DEF LeafFile, IsFile
<1>5. Root \in DOMAIN d
  <2>1. DOMAIN d # {} /\ IsFile(d) BY <1>1 DEF Tree, Index, Directory
  <2>2. PICK b : b \in DOMAIN d BY <2>1
  <2> QED BY <2>1, <2>2, RootExists
<1> QED BY <1>1, <1>2, <1>3, <1>4, <1>5

(* One entry more, and still no circle *)
OneEntered(file, r, new) ==
  /\ EntriesIn(new) = EntriesIn(file) \union {<<KeyOf[r], r>>}
  /\ NoCircle(file) => NoCircle(new)

LEMMA InsertUpToEnters ==
  ASSUME NEW f, Tree(f.leaf, f.dir), NEW r \in Rids, NEW stop,
         NEW res, res = InsertUpTo(f, r, stop)
  PROVE  Tree(res.leaf, res.dir) /\ OneEntered(f.leaf, r, res.leaf)
<1>1. PICK old, dirs, S : old = f.leaf /\ dirs = f.dir /\ S = LeafBlocks(old) OBVIOUS
<1>2. Tree(old, dirs) BY <1>1
<1>3. /\ LeafFile(old) /\ Chained(old, S) /\ S \in SUBSET Nat /\ Root \in DOMAIN dirs
      /\ Index(old, dirs) /\ Directory(dirs, S) /\ 0 \in DOMAIN old
  BY <1>1, <1>2, TreeIs DEF Tree
<1>4. PICK rec : rec = [key |-> KeyOf[r], val |-> r] OBVIOUS
<1>5. rec \in Entry BY <1>4 DEF Entry, Keys
<1>6. PICK b, l, d : InsertParts(f, r, stop, b, l, d, res) BY InsertHasParts
<1>7. b \in S BY <1>1, <1>3, <1>6, SearchTyped DEF InsertParts
<1>8. PICK new, leafSplit : new = l.file /\ leafSplit = l.split OBVIOUS
<1>9. l = LeafInsert(old, b, rec) BY <1>1, <1>4, <1>6 DEF InsertParts
<1>10. LeafFile(new) /\ DOMAIN old \subseteq DOMAIN new
  <2>1. b \in DOMAIN old BY <1>3, <1>7 DEF Chained, Linked, Closed
  <2> QED BY <2>1, <1>3, <1>5, <1>8, <1>9, LeafInsertTyped
<1>11. PICK T : Entered(old, S, rec, new, T, leafSplit)
  BY <1>3, <1>5, <1>7, <1>8, <1>9, LeafInsertEnters
<1>12. /\ Chained(new, T) /\ S \subseteq T
       /\ leafSplit = NoSplit \/ leafSplit \in [key : Keys, val : T]
       /\ \A e : Has(new, T, e) <=> (Has(old, S, e) \/ e = <<rec.key, rec.val>>)
       /\ NoCircle(old) => NoCircle(new)
  BY <1>11 DEF Entered
<1>13. 0 \in DOMAIN new BY <1>3, <1>10
<1>14. T = LeafBlocks(new) BY <1>10, <1>12, <1>13, ChainedIs
<1>15. T \in SUBSET Nat
  <2>1. DOMAIN new \in SUBSET Nat BY <1>10, BlocksAreNumbers DEF LeafFile
  <2> QED BY <2>1, <1>12 DEF Chained, Linked, Closed
<1>16. PICK newDir : newDir = res.dir OBVIOUS
<1>17. Directory(newDir, T)
  <2>1. /\ d = IF leafSplit = NoSplit THEN [file |-> dirs, split |-> NoSplit]
               ELSE DirInsert(dirs, leafSplit, stop)
        /\ newDir = Topped(dirs, d, stop)
    BY <1>1, <1>6, <1>8, <1>16 DEF InsertParts
  <2>2. Directory(dirs, T) BY <1>3, <1>12, DirectoryWith
  <2>3. leafSplit = NoSplit \/ leafSplit \in [key : Keys, val : T] BY <1>12
  <2> QED BY <2>1, <2>2, <2>3, <1>3, <1>15, LevelsInserted
<1>18. res.leaf = new BY <1>6, <1>8 DEF InsertParts
<1>19. Tree(new, newDir)
  <2>1. Extension(f.leaf, f.dir, res.leaf, res.dir)
    <3>1. Index(f.leaf, f.dir) /\ DOMAIN f.leaf # {} BY <1>1, <1>3
    <3> QED BY <3>1, InsertUpToTyped
  <2>2. Index(new, newDir) BY <2>1, <1>16, <1>18 DEF Extension
  <2> QED BY <2>2, <1>13, <1>14, <1>17 DEF Tree
<1>20. EntriesIn(new) = EntriesIn(old) \union {<<KeyOf[r], r>>}
  <2>1. ASSUME NEW e PROVE e \in EntriesIn(new) <=> e \in EntriesIn(old) \union {<<KeyOf[r], r>>}
    <3>1. e \in EntriesIn(new) <=> Has(new, T, e) BY <1>13, <1>14, EntriesAre
    <3>2. e \in EntriesIn(old) <=> Has(old, S, e) BY <1>1, <1>3, EntriesAre
    <3>3. rec.key = KeyOf[r] /\ rec.val = r BY <1>4
    <3> QED BY <3>1, <3>2, <3>3, <1>12
  <2> QED BY <2>1
<1>21. OneEntered(old, r, new) BY <1>12, <1>20 DEF OneEntered
<1> QED BY <1>1, <1>16, <1>18, <1>19, <1>21

(* A leaf that has split and no more; nor does a directory page take part. *)
LEMMA PartedIsTree ==
  ASSUME NEW l, NEW d, Tree(l, d), NEW b \in LeafBlocks(l),
         NEW pos, NEW new, LeafParted(l, b, pos, new)
  PROVE  /\ Tree(new, d) /\ EntriesIn(new) = EntriesIn(l)
         /\ NoCircle(l) => NoCircle(new)
<1>1. PICK S, n, T : S = LeafBlocks(l) /\ n = Size(l) /\ T = S \union {n} OBVIOUS
<1>2. /\ LeafFile(l) /\ Chained(l, S) /\ Index(l, d) /\ Directory(d, S) /\ 0 \in DOMAIN l
  BY <1>1, TreeIs DEF Tree
<1>3. b \in DOMAIN l BY <1>1, <1>2 DEF Chained, Linked, Closed
<1>4. Index(new, d) BY <1>2, <1>3, LeafPartedExtends DEF Extension
<1>5. Chained(new, T) /\ (NoCircle(l) => NoCircle(new)) BY <1>1, <1>2, ChainParted
<1>6. LeafFile(new) /\ 0 \in DOMAIN new BY <1>2 DEF LeafParted
<1>7. T = LeafBlocks(new) BY <1>5, <1>6, ChainedIs
<1>8. Directory(d, T) BY <1>1, <1>2, DirectoryWith
<1>9. \A e : Has(new, T, e) <=> Has(l, S, e) BY <1>1, <1>2, PartedHas
<1>10. \A e : e \in EntriesIn(new) <=> Has(new, T, e) BY <1>6, <1>7, EntriesAre
<1>11. \A e : e \in EntriesIn(l) <=> Has(l, S, e) BY <1>1, <1>2, EntriesAre
<1>12. EntriesIn(new) = EntriesIn(l) BY <1>9, <1>10, <1>11
<1> QED BY <1>4, <1>5, <1>6, <1>7, <1>8, <1>12 DEF Tree

LEMMA HalvedIsTree ==
  ASSUME NEW l, NEW d, Tree(l, d), NEW b \in DOMAIN d, isFull(d[b], DirCapacity),
         NEW new, new = DirHalves(d, b)
  PROVE  Tree(l, new)
<1>1. PICK S : S = LeafBlocks(l) OBVIOUS
<1>2. /\ LeafFile(l) /\ S \in SUBSET Nat /\ Index(l, d) /\ Directory(d, S) /\ 0 \in DOMAIN l
  BY <1>1, TreeIs DEF Tree
<1>3. DOMAIN l \in SUBSET Nat BY <1>2, BlocksAreNumbers DEF LeafFile
<1>4. PICK pos : pos = Len(d[b].recs) \div 2 OBVIOUS
<1>5. Directory(new, S) /\ Grown(d, new) BY <1>2, <1>4, DirParts DEF PartsDir
<1>6. Directory(new, DOMAIN l) BY <1>2, <1>3, <1>4, DirParts DEF PartsDir, Index
<1>7. DOMAIN new # {} BY <1>5 DEF Grown
<1>8. Index(l, new) BY <1>2, <1>6, <1>7 DEF Index
<1> QED BY <1>1, <1>2, <1>5, <1>8 DEF Tree

(* Of a file with one page, and of one with zeros only *)
LEMMA FirstLeaf ==
  ASSUME NEW file, LeafFile(file), 0 \in DOMAIN file, file[0].extra1 \in {0, None}
  PROVE  LeafBlocks(file) = {0}
<1>1. Linked(file, {0}) BY DEF Linked, Closed
<1>2. \A T : Linked(file, T) => {0} \subseteq T BY DEF Linked
<1>3. Chained(file, {0}) BY <1>1, <1>2 DEF Chained
<1> QED BY <1>3, ChainedIs

LEMMA NoRecords ==
  ASSUME NEW file, LeafFile(file), 0 \in DOMAIN file, file[0].extra1 \in {0, None},
         file[0].recs = <<>>
  PROVE  EntriesIn(file) = {}
<1>1. PICK S : S = {0} /\ S = LeafBlocks(file) BY FirstLeaf
<1>2. ToSet(<<>>) = {} BY DEF ToSet
<1>3. \A e : ~Has(file, S, e) BY <1>1, <1>2 DEF Has
<1>4. \A e : e \in EntriesIn(file) <=> Has(file, S, e) BY <1>1, EntriesAre
<1> QED BY <1>3, <1>4

LEMMA CreatedIs ==
  /\ Tree(Created.leaf, Created.dir) /\ EntriesIn(Created.leaf) = {}
  /\ NoCircle(Created.leaf)
<1>1. PICK l, d : l = Created.leaf /\ d = Created.dir OBVIOUS
<1>2. Index(l, d) BY <1>1, CreatedTyped
<1>3. l = Extended(<<>>, Formatted) BY <1>1 DEF Created
<1>4. DOMAIN l = {0} /\ l[0] = Formatted
  <2>1. DOMAIN <<>> = {} OBVIOUS
  <2>2. Size(<<>>) = 0 BY <2>1, FS_EmptySet DEF Size
  <2> QED BY <2>1, <2>2, <1>3 DEF Extended
<1>5. Formatted.extra1 = None /\ Formatted.recs = <<>> BY DEF Formatted
<1>6. LeafFile(l) BY <1>2 DEF Index
<1>7. LeafBlocks(l) = {0} /\ EntriesIn(l) = {} BY <1>4, <1>5, <1>6, FirstLeaf, NoRecords
<1>8. Tree(l, d)
  <2>1. Directory(d, {0}) BY <1>2, <1>4 DEF Index
  <2> QED BY <2>1, <1>2, <1>4, <1>7 DEF Tree
<1>9. NoCircle(l) BY <1>4, <1>5 DEF NoCircle
<1> QED BY <1>1, <1>7, <1>8, <1>9

LEMMA BuiltIs ==
  ASSUME NEW rids \in Seq(Rids)
  PROVE  LET b == Built(rids)
         IN /\ Tree(b.leaf, b.dir) /\ NoCircle(b.leaf)
            /\ EntriesIn(b.leaf) \subseteq {<<KeyOf[r], r>> : r \in Rids}
<1> DEFINE Records == {<<KeyOf[r], r>> : r \in Rids}
           Good(x) == /\ Tree(x.leaf, x.dir) /\ NoCircle(x.leaf)
                      /\ EntriesIn(x.leaf) \subseteq Records
<1>1. PICK f : /\ Built(rids) = f[Len(rids)] /\ f[0] = Created
               /\ \A i \in 1..Len(rids) : f[i] = OneMore(f[i-1], rids[i])
  BY BuiltUnfolds
<1>2. ASSUME NEW x, Good(x), NEW i \in 1..Len(rids) PROVE Good(OneMore(x, rids[i]))
  <2>1. PICK r \in Rids : r = rids[i] OBVIOUS
  <2>2. PICK stop : stop = AllLevels(x) OBVIOUS
  <2>3. PICK res : res = InsertUpTo(x, r, stop) OBVIOUS
  <2>4. Tree(res.leaf, res.dir) /\ OneEntered(x.leaf, r, res.leaf)
    BY <2>3, <1>2, InsertUpToEnters
  <2>5. PICK y : y = OneMore(x, rids[i]) OBVIOUS
  <2>6. y.leaf = res.leaf /\ y.dir = res.dir BY <2>1, <2>2, <2>3, <2>5 DEF OneMore
  <2>7. <<KeyOf[r], r>> \in Records OBVIOUS
  <2>8. Good(y) BY <2>4, <2>6, <2>7, <1>2 DEF OneEntered
  <2> QED BY <2>5, <2>8
<1> HIDE DEF Good
<1>3. PICK Bad : Bad = {m \in 0..Len(rids) : ~Good(f[m])} OBVIOUS
<1>4. Bad = {}
  <2> SUFFICES ASSUME Bad # {} PROVE FALSE OBVIOUS
  <2>1. Bad \subseteq Nat BY <1>3
  <2>2. PICK m \in Bad : \A i \in Bad : m <= i BY <2>1, LeastExists
  <2>3. m \in 0..Len(rids) /\ ~Good(f[m]) BY <2>2, <1>3
  <2>4. Good(Created) BY CreatedIs DEF Good
  <2>5. m # 0 BY <2>3, <2>4, <1>1
  <2>6. PICK k \in 1..Len(rids) : k = m BY <2>3, <2>5
  <2>7. k - 1 \in 0..Len(rids) /\ ~(m <= k - 1) BY <2>6
  <2>8. Good(f[k-1])
    <3>1. k - 1 \notin Bad BY <2>2, <2>7
    <3> QED BY <3>1, <2>7, <1>3
  <2>9. Good(OneMore(f[k-1], rids[k])) BY <2>8, <1>2
  <2> QED BY <2>3, <2>6, <2>9, <1>1
<1>5. Good(Built(rids))
  <2>1. Len(rids) \in 0..Len(rids) OBVIOUS
  <2> QED BY <2>1, <1>1, <1>3, <1>4
<1> QED BY <1>5 DEF Good

----------------------------------------------------------------------------
LEMMA RemoveTakes ==
  ASSUME NEW recs \in Seq(Entry), NEW slot \in DOMAIN recs, NEW new, new = RemoveAt(recs, slot)
  PROVE  /\ ToSet(new) \subseteq ToSet(recs)
         /\ ToSet(recs) \subseteq ToSet(new) \union {recs[slot]}
<1>1. slot \in 1..Len(recs) /\ slot \in 0..Len(recs) OBVIOUS
<1>2. PICK before \in 0..Len(recs) : before = slot - 1 BY <1>1
<1>3. PICK lo, up, low, hi : /\ lo = SubSeq(recs, 1, before)
                             /\ up = SubSeq(recs, before + 1, Len(recs))
                             /\ low = SubSeq(recs, 1, slot)
                             /\ hi = SubSeq(recs, slot + 1, Len(recs))
  OBVIOUS
<1>4. Cut(recs, before, lo, up) /\ Cut(recs, slot, low, hi) BY <1>1, <1>3, CutTyped
<1>5. /\ lo \in Seq(Entry) /\ Len(lo) = before /\ \A i \in 1..before : lo[i] = recs[i]
      /\ hi \in Seq(Entry) /\ Len(hi) = Len(recs) - slot
      /\ \A i \in 1..Len(hi) : hi[i] = recs[slot + i]
      /\ ToSet(lo) \subseteq ToSet(recs) /\ ToSet(hi) \subseteq ToSet(recs)
  BY <1>4 DEF Cut
<1>6. new = lo \o hi BY <1>2, <1>3 DEF RemoveAt
<1>7. PICK made : made = lo \o hi OBVIOUS
<1>8. /\ made \in Seq(Entry) /\ Len(made) = Len(lo) + Len(hi)
      /\ \A i \in 1..(Len(lo) + Len(hi)) :
           made[i] = IF i <= Len(lo) THEN lo[i] ELSE hi[i - Len(lo)]
  <2>1. lo \in Seq(Entry) /\ hi \in Seq(Entry) BY <1>5
  <2> QED BY <2>1, <1>7, ConcatProperties
<1>9. ASSUME NEW x \in ToSet(made) PROVE x \in ToSet(recs)
  <2>1. PICK i \in 1..Len(made) : x = made[i] BY <1>8 DEF ToSet
  <2>2. CASE i <= Len(lo)
    <3>1. x = lo[i] /\ i \in DOMAIN lo BY <2>1, <2>2, <1>5, <1>8
    <3> QED BY <3>1, <1>5 DEF ToSet
  <2>3. CASE ~(i <= Len(lo))
    <3>1. PICK j : j = i - Len(lo) OBVIOUS
    <3>2. x = hi[j] /\ j \in DOMAIN hi BY <3>1, <2>1, <2>3, <1>5, <1>8
    <3> QED BY <3>2, <1>5 DEF ToSet
  <2> QED BY <2>2, <2>3
<1>10. ASSUME NEW i \in DOMAIN recs, i # slot PROVE recs[i] \in ToSet(made)
  <2>1. CASE i < slot
    <3>1. i \in 1..before BY <2>1, <1>1, <1>2
    <3>2. i \in DOMAIN made /\ made[i] = recs[i] BY <3>1, <1>5, <1>8
    <3> QED BY <3>2 DEF ToSet
  <2>2. CASE i > slot
    <3>1. PICK j \in 1..Len(made) : j = i - 1
      <4>1. i - 1 \in 1..Len(made) BY <2>2, <1>2, <1>5, <1>8
      <4> QED BY <4>1
    <3>2. PICK k \in 1..Len(hi) : k = i - slot
      <4>1. i - slot \in 1..Len(hi) BY <2>2, <1>5
      <4> QED BY <4>1
    <3>3. hi[k] = recs[i]
      <4>1. slot + k = i BY <3>2
      <4> QED BY <4>1, <1>5
    <3>4. made[j] = hi[k]
      <4>1. /\ i \in Int /\ slot \in Int /\ before = slot - 1
            /\ Len(lo) = before /\ Len(made) = Len(lo) + Len(hi)
        <5>1. DOMAIN recs = 1..Len(recs) /\ Len(recs) \in Nat OBVIOUS
        <5>2. i \in Int /\ slot \in Int BY <5>1
        <5>3. before = slot - 1 BY <1>2
        <5>4. Len(lo) = before BY <1>5
        <5>5. Len(made) = Len(lo) + Len(hi) BY <1>8
        <5> QED BY <5>2, <5>3, <5>4, <5>5
      <4>2. ~(j <= Len(lo)) BY <2>2, <3>1, <4>1
      <4>3. j - Len(lo) = k BY <3>1, <3>2, <4>1
      <4>4. j \in 1..(Len(lo) + Len(hi)) BY <3>1, <4>1
      <4> QED BY <4>2, <4>3, <4>4, <1>8
    <3>5. j \in DOMAIN made BY <3>1, <1>8
    <3> QED BY <3>3, <3>4, <3>5 DEF ToSet
  <2> QED BY <2>1, <2>2, <1>10
<1>11. ToSet(recs) \subseteq ToSet(made) \union {recs[slot]} BY <1>10 DEF ToSet
<1> QED BY <1>6, <1>7, <1>9, <1>11

(* Delete takes an entry out of the chain, or one of several copies of it. *)
LEMMA RemovedIs ==
  ASSUME NEW d, Tree(leaf, d), NEW S, S = LeafBlocks(leaf),
         NEW k, NEW r, NEW at, FoundAt(leaf, S, k, r, at),
         NEW new, new = Removed(leaf, at.block, at.slot)
  PROVE  /\ Tree(new, d) /\ (NoCircle(leaf) => NoCircle(new))
         /\ <<k, r>> \in EntriesIn(leaf)
         /\ EntriesIn(new) = EntriesIn(leaf) \/ EntriesIn(new) = EntriesIn(leaf) \ {<<k, r>>}
<1>1. /\ LeafFile(leaf) /\ Chained(leaf, S) /\ 0 \in DOMAIN leaf
      /\ Index(leaf, d) /\ Directory(d, S)
  BY TreeIs DEF Tree
<1>2. PICK b, slot, recs : b = at.block /\ slot = at.slot /\ recs = leaf[b].recs OBVIOUS
<1>3. /\ b \in S /\ slot \in DOMAIN recs /\ recs[slot].key = k /\ recs[slot].val = r
  BY <1>2 DEF FoundAt
<1>4. S \subseteq DOMAIN leaf BY <1>1 DEF Chained, Linked, Closed
<1>5. LeafFile(new) /\ DOMAIN new = DOMAIN leaf
  BY <1>1, <1>2, <1>3, <1>4, DeleteKeeps
<1>6. leaf[b] \in Pages /\ recs \in Seq(Entry)
  BY <1>1, <1>2, <1>3, <1>4 DEF LeafFile, LeafPage, Pages, Entry
<1>7. PICK less : less = RemoveAt(recs, slot) OBVIOUS
<1>8. new = [leaf EXCEPT ![b].recs = less] BY <1>2, <1>7 DEF Removed
<1>9. /\ \A c \in DOMAIN leaf \ {b} : new[c] = leaf[c]
      /\ new[b] = [leaf[b] EXCEPT !.recs = less]
  BY <1>3, <1>4, <1>8
<1>10. new[b] = [recs |-> less, extra1 |-> leaf[b].extra1, extra2 |-> leaf[b].extra2]
  BY <1>6, <1>9 DEF Pages
<1>11. SameLinks(leaf, new) BY <1>5, <1>9, <1>10 DEF SameLinks
<1>12. Chained(new, S) /\ (NoCircle(leaf) => NoCircle(new)) BY <1>1, <1>11, LinksKept
<1>13. S = LeafBlocks(new) BY <1>1, <1>5, <1>12, ChainedIs
<1>14. Tree(new, d)
  <2>1. Index(new, d) BY <1>1, <1>5 DEF Index
  <2> QED BY <2>1, <1>1, <1>5, <1>13 DEF Tree
<1>15. /\ ToSet(less) \subseteq ToSet(recs)
       /\ ToSet(recs) \subseteq ToSet(less) \union {recs[slot]}
  BY <1>3, <1>6, <1>7, RemoveTakes
<1>16. ASSUME NEW e, Has(new, S, e) PROVE Has(leaf, S, e)
  <2>1. PICK x \in S : \E q \in ToSet(new[x].recs) : e = <<q.key, q.val>>
    BY <1>16 DEF Has
  <2>2. PICK q \in ToSet(new[x].recs) : e = <<q.key, q.val>> BY <2>1
  <2>3. q \in ToSet(leaf[x].recs) BY <2>2, <1>2, <1>4, <1>9, <1>10, <1>15
  <2> QED BY <2>2, <2>3 DEF Has
<1>17. ASSUME NEW e, Has(leaf, S, e), e # <<k, r>> PROVE Has(new, S, e)
  <2>1. PICK x \in S : \E q \in ToSet(leaf[x].recs) : e = <<q.key, q.val>>
    BY <1>17 DEF Has
  <2>2. PICK q \in ToSet(leaf[x].recs) : e = <<q.key, q.val>> BY <2>1
  <2>3. q \in ToSet(new[x].recs)
    <3>1. CASE x = b
      <4>1. q # recs[slot] BY <2>2, <1>3, <1>17
      <4>2. q \in ToSet(less) BY <4>1, <3>1, <2>2, <1>2, <1>15
      <4> QED BY <4>2, <3>1, <1>10
    <3>2. CASE x # b BY <3>2, <2>2, <1>4, <1>9
    <3> QED BY <3>1, <3>2
  <2> QED BY <2>2, <2>3 DEF Has
<1>18. PICK e0 : e0 = <<k, r>> OBVIOUS
<1>19. Has(leaf, S, e0)
  <2>1. recs[slot] \in ToSet(leaf[b].recs) BY <1>2, <1>3 DEF ToSet
  <2> QED BY <2>1, <1>3, <1>18 DEF Has
<1>20. \A e : e \in EntriesIn(new) <=> Has(new, S, e) BY <1>1, <1>5, <1>13, EntriesAre
<1>21. \A e : e \in EntriesIn(leaf) <=> Has(leaf, S, e) BY <1>1, EntriesAre
<1>22. EntriesIn(new) = EntriesIn(leaf) \/ EntriesIn(new) = EntriesIn(leaf) \ {e0}
  <2>1. EntriesIn(new) \subseteq EntriesIn(leaf) BY <1>16, <1>20, <1>21
  <2>2. EntriesIn(leaf) \ {e0} \subseteq EntriesIn(new) BY <1>17, <1>18, <1>20, <1>21
  <2> QED BY <2>1, <2>2
<1> QED BY <1>12, <1>14, <1>18, <1>19, <1>21, <1>22

----------------------------------------------------------------------------
(* A file that has not been made yet, or a tree *)
Stored(l, d) == IF DOMAIN l = {} THEN l = <<>> ELSE Tree(l, d)

LEMMA NoEntries == EntriesIn(<<>>) = {}
BY DEF EntriesIn

(* A rollback brings back the tree as it was; the zeros that it leaves in the *)
(* blocks appended since are in the chain only if there was no tree.        *)
LEMMA RestoredIs ==
  ASSUME NEW oldLeaf, NEW oldDir, Index(oldLeaf, oldDir), Stored(oldLeaf, oldDir),
         Index(leaf, dir), DOMAIN leaf # {},
         DOMAIN oldLeaf \subseteq DOMAIN leaf, DOMAIN oldDir \subseteq DOMAIN dir,
         NEW l, l = Restored(oldLeaf, leaf), NEW d, d = Restored(oldDir, dir)
  PROVE  /\ Tree(l, d) /\ EntriesIn(l) = EntriesIn(oldLeaf)
         /\ oldLeaf # <<>> /\ NoCircle(oldLeaf) => NoCircle(l)
<1>1. Index(l, d) /\ DOMAIN l = DOMAIN leaf /\ DOMAIN d = DOMAIN dir BY RestoredTyped
<1>2. /\ \A c \in DOMAIN oldLeaf : l[c] = oldLeaf[c]
      /\ \A c \in DOMAIN leaf \ DOMAIN oldLeaf : l[c] = ZeroPage
  BY DEF Restored
<1>3. /\ \A c \in DOMAIN oldDir : d[c] = oldDir[c]
      /\ \A c \in DOMAIN dir \ DOMAIN oldDir : d[c] = ZeroPage
  BY DEF Restored
<1>4. LeafFile(l) /\ 0 \in DOMAIN l
  <2>1. LeafFile(l) /\ DOMAIN l # {} BY <1>1 DEF Index
  <2>2. PICK c : c \in DOMAIN l BY <2>1
  <2> QED BY <2>1, <2>2, RootExists DEF LeafFile
<1>5. ZeroPage.extra1 = 0 /\ ZeroPage.recs = <<>> BY DEF ZeroPage
<1>6. CASE DOMAIN oldLeaf = {}
  <2>1. oldLeaf = <<>> BY <1>6 DEF Stored
  <2>2. l[0] = ZeroPage BY <1>1, <1>2, <1>4, <1>6
  <2>3. LeafBlocks(l) = {0} BY <2>2, <1>4, <1>5, FirstLeaf
  <2>4. EntriesIn(l) = {} BY <2>2, <1>4, <1>5, NoRecords
  <2>5. \A c \in DOMAIN d : d[c] = ZeroPage BY <1>1, <1>3, <1>6 DEF Index
  <2>6. ASSUME NEW c \in DOMAIN d PROVE DirPage(d, {0}, d[c])
    <3>1. DirPage(d, DOMAIN l, ZeroPage) BY <2>5, <1>1 DEF Index, Directory
    <3>2. \A x \in Children(ZeroPage) : x = 0
      <4>1. ZeroPage.recs = <<>> /\ ZeroPage.extra2 = 0 BY DEF ZeroPage
      <4> QED BY <4>1 DEF Children, ToSet
    <3>3. DirPage(d, {0}, ZeroPage) BY <3>1, <3>2, <1>5 DEF DirPage, IsChild
    <3> QED BY <3>3, <2>5
  <2>7. Directory(d, {0}) BY <2>6, <1>1 DEF Index, Directory
  <2>8. Tree(l, d) BY <2>3, <2>7, <1>1, <1>4 DEF Tree
  <2> QED BY <2>1, <2>4, <2>8, NoEntries
<1>7. CASE DOMAIN oldLeaf # {}
  <2>1. Tree(oldLeaf, oldDir) BY <1>7 DEF Stored
  <2>2. PICK S : S = LeafBlocks(oldLeaf) OBVIOUS
  <2>3. /\ LeafFile(oldLeaf) /\ Chained(oldLeaf, S) /\ 0 \in DOMAIN oldLeaf
        /\ Directory(oldDir, S) /\ S \in SUBSET Nat /\ Root \in DOMAIN oldDir
    BY <2>1, <2>2, TreeIs DEF Tree
  <2>4. 0 \in S /\ S \subseteq DOMAIN oldLeaf BY <2>3 DEF Chained, Linked, Closed
  <2>5. \A c \in DOMAIN oldLeaf : oldLeaf[c].extra1 \in DOMAIN oldLeaf \union {None}
    BY <2>3 DEF LeafFile, LeafPage
  <2>6. Linked(l, S)
    BY <2>3, <2>4, <1>1, <1>2 DEF Chained, Linked, Closed
  <2>7. ASSUME NEW U, Linked(l, U) PROVE S \subseteq U
    <3>1. PICK V : V = U \intersect DOMAIN oldLeaf OBVIOUS
    <3>2. ASSUME NEW c \in V PROVE oldLeaf[c].extra1 \in V \union {None}
      <4>1. l[c] = oldLeaf[c] BY <3>1, <1>2
      <4>2. l[c].extra1 \in U \union {None} BY <3>1, <2>7 DEF Linked, Closed
      <4> QED BY <4>1, <4>2, <3>1, <2>5
    <3>3. Linked(oldLeaf, V)
      <4>1. 0 \in V BY <3>1, <2>3, <2>7 DEF Linked
      <4> QED BY <4>1, <3>1, <3>2 DEF Linked, Closed
    <3> QED BY <3>1, <3>3, <2>3 DEF Chained
  <2>8. S = LeafBlocks(l)
    <3>1. Chained(l, S) BY <2>6, <2>7 DEF Chained
    <3> QED BY <3>1, <1>4, ChainedIs
  <2>9. Directory(d, S)
    <3>1. Grown(oldDir, d) BY <1>1, <1>3 DEF Grown
    <3>2. ASSUME NEW c \in DOMAIN d PROVE DirPage(d, S, d[c])
      <4>1. CASE c \in DOMAIN oldDir
        <5>1. PICK page : page = d[c] /\ page = oldDir[c] BY <4>1, <1>3
        <5>2. DirPage(oldDir, S, page) BY <4>1, <5>1, <2>3 DEF Directory
        <5>3. DirPage(d, S, page) BY <5>2, <3>1, <2>3, DirPageKept
        <5> QED BY <5>1, <5>3
      <4>2. CASE c \notin DOMAIN oldDir
        <5>1. d[c] = ZeroPage BY <4>2, <1>1, <1>3
        <5>2. DirPage(d, DOMAIN l, ZeroPage) BY <5>1, <1>1 DEF Index, Directory
        <5>3. \A x \in Children(ZeroPage) : x = 0
          <6>1. ZeroPage.recs = <<>> /\ ZeroPage.extra2 = 0 BY DEF ZeroPage
          <6> QED BY <6>1 DEF Children, ToSet
        <5>4. DirPage(d, S, ZeroPage) BY <5>2, <5>3, <1>5, <2>4 DEF DirPage, IsChild
        <5> QED BY <5>1, <5>4
      <4> QED BY <4>1, <4>2
    <3> QED BY <3>2, <1>1 DEF Index, Directory
  <2>10. Tree(l, d) BY <2>8, <2>9, <1>1, <1>4 DEF Tree
  <2>11. EntriesIn(l) = EntriesIn(oldLeaf)
    <3>1. \A e : Has(l, S, e) <=> Has(oldLeaf, S, e) BY <2>4, <1>2 DEF Has
    <3>2. \A e : e \in EntriesIn(l) <=> Has(l, S, e) BY <2>8, <1>4, EntriesAre
    <3>3. \A e : e \in EntriesIn(oldLeaf) <=> Has(oldLeaf, S, e) BY <2>2, <2>3, EntriesAre
    <3> QED BY <3>1, <3>2, <3>3
  <2>12. ASSUME NoCircle(oldLeaf), NEW U \in SUBSET DOMAIN l, \A c \in U : l[c].extra1 \in U
         PROVE  U = {}
    <3>1. PICK V : V = U \intersect DOMAIN oldLeaf OBVIOUS
    <3>2. ASSUME NEW c \in V PROVE oldLeaf[c].extra1 \in V
      <4>1. l[c] = oldLeaf[c] /\ l[c].extra1 \in U BY <3>1, <1>2, <2>12
      <4>2. None \notin U BY <1>4 DEF LeafFile, IsFile
      <4> QED BY <4>1, <4>2, <3>1, <2>5
    <3>3. V = {} BY <3>1, <3>2, <2>12 DEF NoCircle
    <3>4. 0 \notin U BY <3>1, <3>3, <2>3
    <3>5. ASSUME NEW c \in U PROVE FALSE
      <4>1. l[c] = ZeroPage BY <3>1, <3>3, <1>1, <1>2
      <4> QED BY <4>1, <3>4, <1>5, <2>12
    <3> QED BY <3>5
  <2> QED BY <2>10, <2>11, <2>12 DEF NoCircle
<1> QED BY <1>6, <1>7

----------------------------------------------------------------------------
(* The inductive invariant: the directory never leads out of the chain, also *)
(* when an Insert has failed, and the chain ends unless the files were made  *)
(* by a transaction that has rolled back.                                   *)
TreeInv ==
  /\ TypeInv
  /\ Stored(leaf, dir) /\ Stored(undo.leaf, undo.dir)
  /\ ~creationUndone => NoCircle(leaf) /\ NoCircle(undo.leaf)

AbstractStep == [Abstract!Next]_<<Entries, EntriesIn(undo.leaf)>>

LEMMA EmptyHasNoCircle == NoCircle(<<>>)
BY DEF NoCircle

LEMMA StoredTree ==
  ASSUME NEW l, NEW d, Tree(l, d)
  PROVE  Stored(l, d)
BY DEF Stored, Tree

LEMMA InitIs == Init => TreeInv /\ Abstract!Init
<1> SUFFICES ASSUME Init PROVE TreeInv /\ Abstract!Init OBVIOUS
<1>1. PICK l, d : l = undo.leaf /\ d = undo.dir /\ leaf = l /\ dir = d BY DEF Init
<1>2. /\ Stored(l, d) /\ NoCircle(l)
      /\ EntriesIn(l) \subseteq {<<KeyOf[r], r>> : r \in Rids}
  <2>1. CASE undo = [leaf |-> <<>>, dir |-> <<>>]
    <3>1. l = <<>> BY <2>1, <1>1
    <3>2. DOMAIN <<>> = {} OBVIOUS
    <3> QED BY <3>1, <3>2, NoEntries, EmptyHasNoCircle DEF Stored
  <2>2. CASE \E rids \in Preloads : undo = Built(rids)
    <3>1. PICK rids \in Preloads : undo = Built(rids) BY <2>2
    <3>2. rids \in Seq(Rids) OBVIOUS
    <3>3. PICK b : b = Built(rids) OBVIOUS
    <3>4. /\ Tree(b.leaf, b.dir) /\ NoCircle(b.leaf)
          /\ EntriesIn(b.leaf) \subseteq {<<KeyOf[r], r>> : r \in Rids}
      BY <3>2, <3>3, BuiltIs
    <3> QED BY <3>1, <3>3, <3>4, <1>1, StoredTree
  <2> QED BY <2>1, <2>2 DEF Init
<1>3. TreeInv BY <1>1, <1>2, InitTyped DEF TreeInv
<1>4. Entries \subseteq {<<KeyOf[r], r>> : r \in Rids} /\ EntriesIn(undo.leaf) = Entries
  BY <1>1, <1>2 DEF Entries
<1> QED BY <1>3, <1>4 DEF Abstract!Init

(* What an Insert enters, wherever in the directory it stops, is its entry. *)
LEMMA InsertStep ==
  ASSUME TreeInv, NEW r \in Rids, NEW stop, CanInsert(r), TypeInv',
         undo' = undo, creationUndone' = creationUndone,
         NEW f, f = [leaf |-> leaf, dir |-> dir],
         NEW res, res = InsertUpTo(f, r, stop), leaf' = res.leaf,
         \/ dir' = res.dir
         \/ \E b \in DOMAIN dir : /\ isFull(res.dir[b], DirCapacity)
                                  /\ dir' = DirHalves(res.dir, b)
  PROVE  TreeInv' /\ Abstract!Insert
<1>1. f.leaf = leaf /\ f.dir = dir OBVIOUS
<1>2. Tree(f.leaf, f.dir)
  <2>1. DOMAIN leaf # {} BY DEF CanInsert, CanChange, TreeInv, TypeInv
  <2> QED BY <2>1, <1>1 DEF TreeInv, Stored
<1>3. Tree(res.leaf, res.dir) /\ OneEntered(f.leaf, r, res.leaf) BY <1>2, InsertUpToEnters
<1>4. Tree(leaf', dir')
  <2>1. CASE dir' = res.dir BY <2>1, <1>3
  <2>2. CASE dir' # res.dir
    <3>1. PICK b \in DOMAIN dir : isFull(res.dir[b], DirCapacity) /\ dir' = DirHalves(res.dir, b)
      BY <2>2
    <3>2. Index(f.leaf, f.dir) /\ DOMAIN f.leaf # {} BY <1>2 DEF Tree
    <3>3. Extension(f.leaf, f.dir, res.leaf, res.dir) BY <3>2, InsertUpToTyped
    <3>4. b \in DOMAIN res.dir BY <3>3, <1>1 DEF Extension
    <3> QED BY <3>1, <3>4, <1>3, HalvedIsTree
  <2> QED BY <2>1, <2>2
<1>5. Stored(leaf', dir') BY <1>4, StoredTree
<1>6. TreeInv' BY <1>1, <1>3, <1>5 DEF TreeInv, OneEntered
<1>7. EntriesIn(leaf') = EntriesIn(leaf) \union {<<KeyOf[r], r>>}
  BY <1>1, <1>3 DEF OneEntered
<1>8. <<KeyOf[r], r>> \in {<<KeyOf[q], q>> : q \in Rids} \ EntriesIn(leaf)
  BY DEF CanInsert, Entries
<1>9. Entries' \in {Entries \union {e} : e \in {<<KeyOf[q], q>> : q \in Rids} \ Entries}
  BY <1>7, <1>8 DEF Entries
<1> QED BY <1>6, <1>9 DEF Abstract!Insert

LEMMA NextStep == TreeInv /\ TypeInv' /\ [Next]_vars => TreeInv' /\ AbstractStep
<1> SUFFICES ASSUME TreeInv, TypeInv', [Next]_vars PROVE TreeInv' /\ AbstractStep
  OBVIOUS
<1>1. /\ TypeInv /\ Stored(leaf, dir) /\ Stored(undo.leaf, undo.dir)
      /\ ~creationUndone => NoCircle(leaf) /\ NoCircle(undo.leaf)
  BY DEF TreeInv
<1>2. open => Tree(leaf, dir) BY <1>1 DEF TypeInv, Stored
<1>3. ASSUME UNCHANGED <<leaf, dir, undo, creationUndone>>
      PROVE  TreeInv' /\ AbstractStep
  <2>1. TreeInv' BY <1>3 DEF TreeInv
  <2>2. UNCHANGED <<Entries, EntriesIn(undo.leaf)>> BY <1>3 DEF Entries
  <2> QED BY <2>1, <2>2 DEF AbstractStep
<1>4. ASSUME NewIndex PROVE TreeInv' /\ AbstractStep
  <2>1. CASE Size(leaf) # 0
    <3>1. UNCHANGED <<leaf, dir, undo, creationUndone>> BY <2>1, <1>4 DEF NewIndex, files
    <3> QED BY <3>1, <1>3
  <2>2. CASE Size(leaf) = 0
    <3>1. /\ leaf' = Created.leaf /\ dir' = Created.dir
          /\ undo' = undo /\ creationUndone' = creationUndone
      BY <2>2, <1>4 DEF NewIndex
    <3>2. leaf = <<>>
      <4>1. IsFile(leaf) BY <1>1 DEF TypeInv, Index, LeafFile
      <4>2. DOMAIN leaf = 0..(0 - 1) BY <4>1, <2>2, FileSize
      <4>3. DOMAIN leaf = {} BY <4>2
      <4> QED BY <4>3, <1>1 DEF Stored
    <3>3. Stored(leaf', dir') /\ NoCircle(leaf') /\ EntriesIn(leaf') = {}
      BY <3>1, CreatedIs, StoredTree
    <3>4. TreeInv' BY <3>1, <3>3, <1>1 DEF TreeInv
    <3>5. UNCHANGED <<Entries, EntriesIn(undo.leaf)>>
      BY <3>1, <3>2, <3>3, NoEntries DEF Entries
    <3> QED BY <3>4, <3>5 DEF AbstractStep
  <2> QED BY <2>1, <2>2
<1>5. ASSUME NEW r \in Rids, Insert(r) PROVE TreeInv' /\ AbstractStep
  <2>1. PICK f : f = [leaf |-> leaf, dir |-> dir] OBVIOUS
  <2>2. PICK stop, res : stop = dir[Root].extra1 + 2 /\ res = InsertUpTo(f, r, stop) OBVIOUS
  <2>3. /\ CanInsert(r) /\ undo' = undo /\ creationUndone' = creationUndone
        /\ leaf' = res.leaf /\ dir' = res.dir
    BY <2>1, <2>2, <1>5 DEF Insert, Changed
  <2>4. TreeInv' /\ Abstract!Insert BY <2>1, <2>2, <2>3, InsertStep
  <2> QED BY <2>4 DEF AbstractStep, Abstract!Next
<1>6. ASSUME NEW r \in Rids, NEW stop, InsertFails(r, stop) PROVE TreeInv' /\ AbstractStep
  <2>1. PICK f : f = [leaf |-> leaf, dir |-> dir] OBVIOUS
  <2>2. PICK res : res = InsertUpTo(f, r, stop) OBVIOUS
  <2>3. /\ CanInsert(r) /\ undo' = undo /\ creationUndone' = creationUndone
        /\ leaf' = res.leaf /\ dir' = res.dir
    BY <2>1, <2>2, <1>6 DEF InsertFails, Changed
  <2>4. TreeInv' /\ Abstract!Insert BY <2>1, <2>2, <2>3, InsertStep
  <2> QED BY <2>4 DEF AbstractStep, Abstract!Next
<1>7. ASSUME NEW r \in Rids, Delete(r) PROVE TreeInv' /\ AbstractStep
  <2>1. PICK walk : walk = Walk(KeyOf[r]) OBVIOUS
  <2>2. PICK found : found = {i \in DOMAIN walk : walk[i].rid = r} OBVIOUS
  <2>3. PICK at : at = walk[Min(found)] OBVIOUS
  <2>4. /\ undo' = undo /\ dir' = dir /\ creationUndone' = creationUndone
        /\ IF found # {} THEN leaf' = Removed(leaf, at.block, at.slot) ELSE leaf' = leaf
    BY <2>1, <2>2, <2>3, <1>7 DEF Delete, Removed
  <2>5. CASE found = {} BY <2>4, <2>5, <1>3
  <2>6. CASE found # {}
    <3>1. Tree(leaf, dir) BY <1>2, <1>7 DEF Delete, CanChange
    <3>2. PICK S : S = LeafBlocks(leaf) OBVIOUS
    <3>3. LeafFile(leaf) /\ Chained(leaf, S) /\ Directory(dir, S) /\ Root \in DOMAIN dir
      BY <3>1, <3>2, TreeIs DEF Tree
    <3>4. IsWalk(leaf, S, KeyOf[r], walk)
      <4>1. search(dir, KeyOf[r]) \in S BY <3>3, SearchTyped
      <4>2. Closed(leaf, S) BY <3>3 DEF Chained, Linked
      <4> QED BY <4>1, <4>2, <3>3, <2>1, WalkStops
    <3>5. FoundAt(leaf, S, KeyOf[r], r, at) BY <3>4, <2>2, <2>3, <2>6, DeleteFinds
    <3>6. PICK new : new = Removed(leaf, at.block, at.slot) OBVIOUS
    <3>7. PICK k, d : k = KeyOf[r] /\ d = dir OBVIOUS
    <3>8. /\ Tree(new, d) /\ (NoCircle(leaf) => NoCircle(new))
          /\ <<k, r>> \in EntriesIn(leaf)
          /\ EntriesIn(new) = EntriesIn(leaf) \/ EntriesIn(new) = EntriesIn(leaf) \ {<<k, r>>}
      BY <3>1, <3>2, <3>5, <3>6, <3>7, RemovedIs
    <3>9. leaf' = new /\ dir' = d BY <2>4, <2>6, <3>6, <3>7
    <3>10. Stored(leaf', dir') BY <3>8, <3>9, StoredTree
    <3>11. TreeInv' BY <3>8, <3>9, <3>10, <2>4, <1>1 DEF TreeInv
    <3>12. CASE EntriesIn(new) = EntriesIn(leaf)
      <4>1. UNCHANGED <<Entries, EntriesIn(undo.leaf)>>
        BY <3>9, <3>12, <2>4 DEF Entries
      <4> QED BY <4>1, <3>11 DEF AbstractStep
    <3>13. CASE EntriesIn(new) = EntriesIn(leaf) \ {<<k, r>>}
      <4>1. Entries' \in {Entries \ {e} : e \in Entries}
        BY <3>8, <3>9, <3>13 DEF Entries
      <4>2. Abstract!Delete BY <4>1, <2>4 DEF Abstract!Delete
      <4> QED BY <4>2, <3>11 DEF AbstractStep, Abstract!Next
    <3> QED BY <3>8, <3>12, <3>13
  <2> QED BY <2>5, <2>6
<1>8. ASSUME Commit PROVE TreeInv' /\ AbstractStep
  <2>1. /\ leaf' = leaf /\ dir' = dir /\ creationUndone' = creationUndone
        /\ undo' = [leaf |-> leaf, dir |-> dir]
    BY <1>8 DEF Commit, EndTransaction, files
  <2>2. undo'.leaf = leaf /\ undo'.dir = dir BY <2>1
  <2>3. TreeInv' BY <2>1, <2>2, <1>1 DEF TreeInv
  <2>4. Entries' = Entries /\ EntriesIn(undo.leaf)' = Entries BY <2>1, <2>2 DEF Entries
  <2>5. Abstract!Commit BY <2>4 DEF Abstract!Commit
  <2> QED BY <2>3, <2>5 DEF AbstractStep, Abstract!Next
<1>9. ASSUME Rollback PROVE TreeInv' /\ AbstractStep
  <2>1. PICK l, d : l = Restored(undo.leaf, leaf) /\ d = Restored(undo.dir, dir) OBVIOUS
  <2>2. PICK oldLeaf, oldDir : oldLeaf = undo.leaf /\ oldDir = undo.dir OBVIOUS
  <2>3. /\ Tree(l, d) /\ EntriesIn(l) = EntriesIn(oldLeaf)
        /\ oldLeaf # <<>> /\ NoCircle(oldLeaf) => NoCircle(l)
    <3>1. l = Restored(oldLeaf, leaf) /\ d = Restored(oldDir, dir) BY <2>1, <2>2
    <3>2. /\ Index(oldLeaf, oldDir) /\ Stored(oldLeaf, oldDir) /\ Index(leaf, dir)
          /\ DOMAIN oldLeaf \subseteq DOMAIN leaf /\ DOMAIN oldDir \subseteq DOMAIN dir
      BY <2>2, <1>1 DEF TypeInv
    <3>3. DOMAIN leaf # {} BY <1>1, <1>9 DEF Rollback, EndTransaction, TypeInv
    <3> QED BY <3>1, <3>2, <3>3, RestoredIs
  <2>4. /\ leaf' = l /\ dir' = d /\ undo' = [leaf |-> l, dir |-> d]
        /\ creationUndone' = (creationUndone \/ oldLeaf = <<>>)
    BY <2>1, <2>2, <1>9 DEF Rollback, EndTransaction
  <2>5. undo'.leaf = l /\ undo'.dir = d BY <2>4
  <2>6. Stored(l, d) BY <2>3, StoredTree
  <2>7. ~creationUndone' => NoCircle(l) BY <2>2, <2>3, <2>4, <1>1
  <2>8. TreeInv' BY <2>4, <2>5, <2>6, <2>7 DEF TreeInv
  <2>9. Entries' = EntriesIn(undo.leaf) /\ EntriesIn(undo.leaf)' = EntriesIn(undo.leaf)
    BY <2>2, <2>3, <2>4, <2>5 DEF Entries
  <2>10. Abstract!Rollback BY <2>9 DEF Abstract!Rollback
  <2> QED BY <2>8, <2>10 DEF AbstractStep, Abstract!Next
<1>10. ASSUME NEW k, BeforeFirst(k) PROVE TreeInv' /\ AbstractStep
  BY <1>3, <1>10 DEF BeforeFirst, files
<1>11. ASSUME Next_ PROVE TreeInv' /\ AbstractStep BY <1>3, <1>11 DEF Next_, files
<1>12. ASSUME NEW r \in Rids, InsertFailsInLeaf(r) PROVE TreeInv' /\ AbstractStep
  <2>1. PICK l, d, b : l = leaf /\ d = dir /\ b = search(dir, KeyOf[r]) OBVIOUS
  <2>2. /\ open /\ isFull(l[b], LeafCapacity) /\ leaf' = LeafHalves(l, b) /\ dir' = d
        /\ undo' = undo /\ creationUndone' = creationUndone
    BY <2>1, <1>12 DEF InsertFailsInLeaf, Changed, CanInsert, CanChange
  <2>3. Tree(l, d) BY <2>1, <2>2, <1>2
  <2>4. LeafFile(l) /\ Chained(l, LeafBlocks(l)) /\ b \in LeafBlocks(l)
    <3>1. /\ LeafFile(l) /\ Chained(l, LeafBlocks(l)) /\ LeafBlocks(l) \in SUBSET Nat
          /\ Root \in DOMAIN d /\ Directory(d, LeafBlocks(l))
      BY <2>3, TreeIs DEF Tree
    <3> QED BY <3>1, <2>1, SearchTyped
  <2>5. b \in DOMAIN l BY <2>4 DEF Chained, Linked, Closed
  <2>6. PICK new : new = LeafHalves(l, b) OBVIOUS
  <2>7. PICK pos : LeafParted(l, b, pos, new) BY <2>2, <2>4, <2>5, <2>6, FullLeafParts
  <2>8. /\ Tree(new, d) /\ EntriesIn(new) = EntriesIn(l)
        /\ NoCircle(l) => NoCircle(new)
    BY <2>3, <2>4, <2>7, PartedIsTree
  <2>9. leaf' = new /\ dir' = d BY <2>2, <2>6
  <2>10. Stored(leaf', dir') BY <2>8, <2>9, StoredTree
  <2>11. TreeInv' BY <2>1, <2>2, <2>8, <2>9, <2>10, <1>1 DEF TreeInv
  <2>12. UNCHANGED <<Entries, EntriesIn(undo.leaf)>> BY <2>1, <2>2, <2>8, <2>9 DEF Entries
  <2> QED BY <2>11, <2>12 DEF AbstractStep
<1>13. ASSUME NEW r \in Rids, NEW b \in DOMAIN dir, InsertFailsInDir(r, b)
       PROVE  TreeInv' /\ AbstractStep
  <2>1. PICK f : f = [leaf |-> leaf, dir |-> dir] OBVIOUS
  <2>2. PICK stop, res : stop = dir[b].extra1 /\ res = InsertUpTo(f, r, stop) OBVIOUS
  <2>3. /\ CanInsert(r) /\ undo' = undo /\ creationUndone' = creationUndone
        /\ leaf' = res.leaf /\ isFull(res.dir[b], DirCapacity)
        /\ dir' = DirHalves(res.dir, b)
    BY <2>1, <2>2, <1>13 DEF InsertFailsInDir, Changed
  <2>4. TreeInv' /\ Abstract!Insert BY <2>1, <2>2, <2>3, InsertStep
  <2> QED BY <2>4 DEF AbstractStep, Abstract!Next
<1>14. ASSUME UNCHANGED vars PROVE TreeInv' /\ AbstractStep BY <1>3, <1>14 DEF vars, files
<1> QED
  BY <1>4, <1>5, <1>6, <1>7, <1>8, <1>9, <1>10, <1>11, <1>12, <1>13, <1>14 DEF Next

LEMMA TreeInvariant == Spec => [](TypeInv /\ TreeInv)
<1>1. TreeInv => TypeInv BY DEF TreeInv
<1>2. Spec => []TypeInv BY InitTyped, NextTyped, PTL DEF Spec
<1> QED BY <1>1, <1>2, InitIs, NextStep, PTL DEF Spec

(* Every Insert that changes the files adds its entry, one that fails in the *)
(* directory too; a Delete takes at most its own away; splits, cursors and   *)
(* the creation of the files change nothing, and a rollback brings back what *)
(* the last commit has left, zeroed blocks or not (Index.Insert,             *)
(* Index.Delete, btreePage.split, Transaction.Rollback).                     *)
THEOREM Refinement == Spec => ImplementsIndexEntries
<1>1. Init => Abstract!Init BY InitIs
<1>2. TreeInv /\ TypeInv' /\ [Next]_vars => AbstractStep BY NextStep
<1> QED
  BY <1>1, <1>2, TreeInvariant, PTL
     DEF Spec, AbstractStep, ImplementsIndexEntries, Abstract!Spec, Abstract!vars

(* The sibling links never run in a circle, whatever is split and rolled back, *)
(* unless the transaction that made the files has rolled back: a search for  *)
(* a key comes to an end (btreeLeaf.next, Index.Next).                       *)
THEOREM SearchesEnd == Spec => []SearchEnds
<1>1. TreeInv => SearchEnds
  <2> SUFFICES ASSUME TreeInv, open, ~creationUndone PROVE ~Circular(leaf, 0)
    BY DEF SearchEnds
  <2>1. Tree(leaf, dir) /\ NoCircle(leaf) BY DEF TreeInv, TypeInv, Stored
  <2>2. LeafFile(leaf) /\ 0 \in DOMAIN leaf BY <2>1, TreeIs DEF Tree
  <2>3. PICK c : c = Chain(leaf, 0) OBVIOUS
  <2>4. IsChain(leaf, 0, c) BY <2>2, <2>3, ChainIs
  <2>5. PICK S : LinksIn(leaf, 0, c, S) BY <2>2, <2>4, ChainCloses
  <2>6. Len(c) > Size(leaf) => S = {} BY <2>1, <2>5 DEF LinksIn, Closed, NoCircle
  <2> QED BY <2>3, <2>5, <2>6 DEF LinksIn, Circular
<1> QED BY <1>1, TreeInvariant, PTL

-----------------------------------------------------------------------------
(* The order of the keys.  Every page of the directory, and every leaf, has  *)
(* a range of keys; the ranges are ghosts, which the lemmas give and no      *)
(* variable holds.  RD gives the range of a page of the directory, RL that   *)
(* of a leaf.                                                                *)

(* s records come before the first one with a greater key. *)
IsSlot(recs, k, s) ==
  /\ s \in 0..Len(recs)
  /\ \A i \in 1..s : recs[i].key <= k
  /\ s < Len(recs) => recs[s + 1].key > k

LEMMA KeysAreIntegers == \A e \in Entry : e.key \in Int
<1>1. \A r \in Rids : KeyOf[r] \in Int OBVIOUS
<1> QED BY <1>1 DEF Keys, Entry

LEMMA SlotIs ==
  ASSUME NEW recs \in Seq(Entry), NEW k \in Int
  PROVE  IsSlot(recs, k, findDirSlot(recs, k))
<1>1. \A i \in 1..Len(recs) : recs[i].key \in Int BY KeysAreIntegers
<1>2. PICK T : T = {s \in DOMAIN recs : compareVals(recs[s].key, k) > 0}
                   \union {Len(recs) + 1}
  OBVIOUS
<1>3. T \subseteq Nat /\ T # {} /\ T \subseteq 1..(Len(recs) + 1) BY <1>2
<1>4. PICK m \in 1..(Len(recs) + 1) : m = Min(T) /\ m \in T /\ \A j \in T : m <= j
  BY <1>3, LeastExists
<1>5. findDirSlot(recs, k) = m - 1 BY <1>2, <1>4 DEF findDirSlot
<1>6. \A i \in 1..Len(recs) : i \in T <=> recs[i].key > k
  BY <1>1, <1>2 DEF compareVals
<1>7. PICK s \in 0..Len(recs) : s = m - 1 BY <1>4
<1>8. ASSUME NEW i \in 1..s PROVE recs[i].key <= k
  <2>1. i \in 1..Len(recs) /\ i < m BY <1>7
  <2>2. i \notin T BY <2>1, <1>4
  <2> QED BY <2>1, <2>2, <1>1, <1>6
<1>9. s < Len(recs) => recs[s + 1].key > k
  <2>1. s < Len(recs) => m \in 1..Len(recs) /\ s + 1 = m BY <1>7
  <2> QED BY <2>1, <1>4, <1>6
<1> QED BY <1>5, <1>7, <1>8, <1>9 DEF IsSlot

LEMMA SlotOnce ==
  ASSUME NEW recs \in Seq(Entry), NEW k \in Int, NEW s, IsSlot(recs, k, s)
  PROVE  findDirSlot(recs, k) = s
<1>1. \A i \in 1..Len(recs) : recs[i].key \in Int BY KeysAreIntegers
<1>2. PICK t : t = findDirSlot(recs, k) OBVIOUS
<1>3. IsSlot(recs, k, t) BY <1>2, SlotIs
<1>4. s \in 0..Len(recs) /\ t \in 0..Len(recs) BY <1>3 DEF IsSlot
<1>5. ~(s < t)
  <2> SUFFICES ASSUME s < t PROVE FALSE OBVIOUS
  <2>1. s + 1 \in 1..t /\ s < Len(recs) /\ s + 1 \in 1..Len(recs) BY <1>4
  <2> QED BY <2>1, <1>1, <1>3 DEF IsSlot
<1>6. ~(t < s)
  <2> SUFFICES ASSUME t < s PROVE FALSE OBVIOUS
  <2>1. t + 1 \in 1..s /\ t < Len(recs) /\ t + 1 \in 1..Len(recs) BY <1>4
  <2> QED BY <2>1, <1>1, <1>3 DEF IsSlot
<1> QED BY <1>2, <1>4, <1>5, <1>6

LEMMA SlotGrows ==
  ASSUME NEW recs \in Seq(Entry), NEW j \in Int, NEW k \in Int, j <= k
  PROVE  findDirSlot(recs, j) <= findDirSlot(recs, k)
<1>1. \A i \in 1..Len(recs) : recs[i].key \in Int BY KeysAreIntegers
<1>2. PICK s, t : s = findDirSlot(recs, j) /\ t = findDirSlot(recs, k) OBVIOUS
<1>3. IsSlot(recs, j, s) /\ IsSlot(recs, k, t) BY <1>2, SlotIs
<1>4. s \in 0..Len(recs) /\ t \in 0..Len(recs) BY <1>3 DEF IsSlot
<1>5. ~(t < s)
  <2> SUFFICES ASSUME t < s PROVE FALSE OBVIOUS
  <2>1. t + 1 \in 1..s /\ t < Len(recs) /\ t + 1 \in 1..Len(recs) BY <1>4
  <2> QED BY <2>1, <1>1, <1>3 DEF IsSlot
<1> QED BY <1>2, <1>4, <1>5

(* The child of a page to the right of the record in a slot *)
ChildAt(page, s) == IF s = 0 THEN page.extra2 ELSE page.recs[s].val

(* The keys own that a page is searched for are shared out to its children:  *)
(* sub gives each child those that lead to it, the key of its record among   *)
(* them.                                                                     *)
Fit(page, own, sub) ==
  /\ \A s \in 0..Len(page.recs) :
       /\ sub[ChildAt(page, s)] = {k \in own : findDirSlot(page.recs, k) = s}
       /\ sub[ChildAt(page, s)] # {}
  /\ \A i \in 1..Len(page.recs) : page.recs[i].key \in sub[ChildAt(page, i)]

(* R is M with the keys of c from K on gone to n. *)
Half(M, R, c, n, K) ==
  /\ DOMAIN M = DOMAIN R /\ c \in DOMAIN R /\ n \in DOMAIN R /\ c # n
  /\ K \in M[c] /\ M[c] \in SUBSET Int
  /\ M[n] = {} /\ R[c] # {}
  /\ R[c] = {k \in M[c] : k < K} /\ R[n] = {k \in M[c] : k >= K}
  /\ \A x \in DOMAIN R \ {c, n} : R[x] = M[x]

LEMMA ChildFor ==
  ASSUME NEW page \in Pages, NEW k \in Int
  PROVE  /\ findDirSlot(page.recs, k) \in 0..Len(page.recs)
         /\ findChildBlock(page, k) = ChildAt(page, findDirSlot(page.recs, k))
<1>1. page.recs \in Seq(Entry) BY DEF Pages, Entry
<1>2. IsSlot(page.recs, k, findDirSlot(page.recs, k)) BY <1>1, SlotIs
<1> QED BY <1>2 DEF IsSlot, findChildBlock, ChildAt

(* Different slots have different children. *)
LEMMA ChildrenDiffer ==
  ASSUME NEW page, NEW own, NEW sub, Fit(page, own, sub),
         NEW s \in 0..Len(page.recs), NEW t \in 0..Len(page.recs),
         ChildAt(page, s) = ChildAt(page, t)
  PROVE  s = t
<1>1. PICK k : k \in sub[ChildAt(page, s)] BY DEF Fit
<1>2. findDirSlot(page.recs, k) = s BY <1>1 DEF Fit
<1>3. findDirSlot(page.recs, k) = t BY <1>1 DEF Fit
<1> QED BY <1>2, <1>3

(* The slot for a key after a record has been entered in the slot of its own *)
LEMMA SlotAfterInsert ==
  ASSUME NEW recs \in Seq(Entry), NEW rec \in Entry, NEW s, s = findDirSlot(recs, rec.key),
         NEW new, Longer(recs, s, rec, new), NEW k \in Int
  PROVE  findDirSlot(new, k) = IF k < rec.key THEN findDirSlot(recs, k)
                               ELSE findDirSlot(recs, k) + 1
<1>1. \A i \in 1..Len(recs) : recs[i].key \in Int BY KeysAreIntegers
<1>2. PICK K \in Int : K = rec.key BY KeysAreIntegers
<1>3. IsSlot(recs, K, s) BY <1>2, SlotIs
<1>4. PICK t : t = findDirSlot(recs, k) OBVIOUS
<1>5. IsSlot(recs, k, t) BY <1>4, SlotIs
<1>6. s \in 0..Len(recs) /\ t \in 0..Len(recs) /\ Len(recs) \in Nat BY <1>3, <1>5 DEF IsSlot
<1>7. /\ new \in Seq(Entry) /\ Len(new) = Len(recs) + 1
      /\ \A i \in 1..Len(new) :
           new[i] = IF i <= s THEN recs[i] ELSE IF i = s + 1 THEN rec ELSE recs[i - 1]
  BY DEF Longer
<1>8. CASE k < K
  <2>1. t <= s
    <3>1. findDirSlot(recs, k) <= findDirSlot(recs, K) BY <1>8, SlotGrows
    <3> QED BY <3>1, <1>2, <1>4
  <2>2. \A i \in 1..t : new[i].key <= k
    <3>1. \A i \in 1..t : i \in 1..Len(new) /\ i <= s BY <2>1, <1>6, <1>7
    <3> QED BY <3>1, <1>5, <1>7 DEF IsSlot
  <2>3. new[t + 1].key > k
    <3>1. t + 1 \in 1..Len(new) BY <1>6, <1>7
    <3>2. CASE t < s
      <4>1. t + 1 <= s /\ t < Len(recs) BY <3>2, <1>6
      <4>2. new[t + 1] = recs[t + 1] BY <3>1, <4>1, <1>7
      <4> QED BY <4>1, <4>2, <1>5 DEF IsSlot
    <3>3. CASE t = s
      <4>1. new[t + 1] = rec BY <3>1, <3>3, <1>6, <1>7
      <4> QED BY <4>1, <1>2, <1>8
    <3> QED BY <3>2, <3>3, <2>1, <1>6
  <2>4. t \in 0..Len(new) BY <1>6, <1>7
  <2>5. IsSlot(new, k, t) BY <2>2, <2>3, <2>4 DEF IsSlot
  <2>6. findDirSlot(new, k) = t BY <2>5, <1>7, SlotOnce
  <2> QED BY <2>6, <1>2, <1>4, <1>8
<1>9. CASE ~(k < K)
  <2>1. s <= t
    <3>1. K <= k BY <1>9
    <3>2. findDirSlot(recs, K) <= findDirSlot(recs, k) BY <3>1, SlotGrows
    <3> QED BY <3>2, <1>2, <1>4
  <2>2. ASSUME NEW i \in 1..(t + 1) PROVE new[i].key <= k
    <3>1. i \in 1..Len(new) BY <1>6, <1>7
    <3>2. CASE i <= s
      <4>1. new[i] = recs[i] /\ i \in 1..t BY <3>1, <3>2, <2>1, <1>6, <1>7
      <4> QED BY <4>1, <1>5 DEF IsSlot
    <3>3. CASE i = s + 1
      <4>1. new[i] = rec BY <3>1, <3>3, <1>6, <1>7
      <4> QED BY <4>1, <1>2, <1>9
    <3>4. CASE i > s + 1
      <4>1. new[i] = recs[i - 1] /\ i - 1 \in 1..t BY <3>1, <3>4, <1>6, <1>7
      <4> QED BY <4>1, <1>5 DEF IsSlot
    <3> QED BY <3>2, <3>3, <3>4, <1>6
  <2>3. ASSUME t + 1 < Len(new) PROVE new[(t + 1) + 1].key > k
    <3>1. (t + 1) + 1 \in 1..Len(new) /\ t < Len(recs) /\ ~((t + 1) + 1 <= s)
          /\ (t + 1) + 1 # s + 1 /\ ((t + 1) + 1) - 1 = t + 1
      BY <2>1, <2>3, <1>6, <1>7
    <3>2. new[(t + 1) + 1] = recs[t + 1] BY <3>1, <1>7
    <3> QED BY <3>1, <3>2, <1>5 DEF IsSlot
  <2>4. t + 1 \in 0..Len(new) BY <1>6, <1>7
  <2>5. IsSlot(new, k, t + 1) BY <2>2, <2>3, <2>4 DEF IsSlot
  <2>6. findDirSlot(new, k) = t + 1 BY <2>5, <1>7, SlotOnce
  <2> QED BY <2>6, <1>2, <1>4, <1>9
<1> QED BY <1>8, <1>9

(* Fit looks at the children of the page only. *)
LEMMA FitWith ==
  ASSUME NEW page, NEW own, NEW sub, Fit(page, own, sub), NEW other,
         \A s \in 0..Len(page.recs) : other[ChildAt(page, s)] = sub[ChildAt(page, s)],
         Len(page.recs) \in Nat
  PROVE  Fit(page, own, other)
<1>1. \A i \in 1..Len(page.recs) : i \in 0..Len(page.recs) OBVIOUS
<1> QED BY <1>1 DEF Fit

(* A page that was not searched for K does not lead to what has been split. *)
LEMMA FitElsewhere ==
  ASSUME NEW page, NEW own, NEW M, Fit(page, own, M), Len(page.recs) \in Nat,
         NEW R, NEW c, NEW n, NEW K, Half(M, R, c, n, K), K \notin own,
         \A s \in 0..Len(page.recs) : ChildAt(page, s) \in DOMAIN R
  PROVE  Fit(page, own, R)
<1>1. ASSUME NEW s \in 0..Len(page.recs)
      PROVE  R[ChildAt(page, s)] = M[ChildAt(page, s)]
  <2>1. PICK x : x = ChildAt(page, s) OBVIOUS
  <2>2. x \in DOMAIN R /\ M[x] = {k \in own : findDirSlot(page.recs, k) = s} /\ M[x] # {}
    BY <2>1 DEF Fit
  <2>3. K \notin M[x] BY <2>2
  <2>4. x # c /\ x # n BY <2>2, <2>3 DEF Half
  <2>5. R[x] = M[x] BY <2>2, <2>4 DEF Half
  <2> QED BY <2>1, <2>5
<1> QED BY <1>1, FitWith

(* How the slots of keys change when a record comes after slot s0 *)
LEMMA NewSlots ==
  ASSUME NEW s0 \in Int, NEW K \in Int, NEW k \in Int, NEW t \in Int, NEW s \in Int,
         NEW p, p = IF k < K THEN t ELSE t + 1, IF k < K THEN t <= s0 ELSE s0 <= t
  PROVE  /\ s < s0 => (p = s <=> t = s)
         /\ s = s0 => (p = s <=> t = s /\ k < K)
         /\ s = s0 + 1 => (p = s <=> t = s0 /\ k >= K)
         /\ s > s0 + 1 => (p = s <=> t = s - 1)
<1>1. CASE k < K BY <1>1
<1>2. CASE k >= K BY <1>2
<1> QED BY <1>1, <1>2

(* The parent of a split page after it has got the record of the new one *)
LEMMA FitInsert ==
  ASSUME NEW page \in Pages, NEW own \in SUBSET Int, NEW M, Fit(page, own, M),
         NEW R, NEW c, NEW n, NEW rec \in Entry, rec.val = n,
         Half(M, R, c, n, rec.key), rec.key \in own,
         \A s \in 0..Len(page.recs) :
           /\ ChildAt(page, s) \in DOMAIN R
           /\ rec.key \in M[ChildAt(page, s)] => ChildAt(page, s) = c,
         NEW new \in Pages, new.extra2 = page.extra2,
         Longer(page.recs, findDirSlot(page.recs, rec.key), rec, new.recs)
  PROVE  Fit(new, own, R)
<1>1. PICK recs, more : recs = page.recs /\ more = new.recs OBVIOUS
<1>2. recs \in Seq(Entry) /\ more \in Seq(Entry) /\ Len(recs) \in Nat
  BY <1>1 DEF Pages, Entry
<1>3. PICK K \in Int : K = rec.key BY KeysAreIntegers
<1>4. PICK s0 : s0 = findDirSlot(recs, K) OBVIOUS
<1>5. s0 \in 0..Len(recs)
  <2>1. IsSlot(recs, K, s0) BY <1>2, <1>4, SlotIs
  <2> QED BY <2>1 DEF IsSlot
<1>6. Longer(recs, s0, rec, more) BY <1>1, <1>3, <1>4
<1>7. /\ Len(more) = Len(recs) + 1
      /\ \A i \in 1..Len(more) :
           more[i] = IF i <= s0 THEN recs[i] ELSE IF i = s0 + 1 THEN rec ELSE recs[i - 1]
  BY <1>6 DEF Longer
<1>8. \A k \in Int : findDirSlot(more, k) = IF k < K THEN findDirSlot(recs, k)
                                            ELSE findDirSlot(recs, k) + 1
  BY <1>2, <1>3, <1>4, <1>6, SlotAfterInsert
<1>9. \A k \in Int : findDirSlot(recs, k) \in 0..Len(recs)
  <2>1. \A k \in Int : IsSlot(recs, k, findDirSlot(recs, k)) BY <1>2, SlotIs
  <2> QED BY <2>1 DEF IsSlot
<1>10. \A k \in Int : /\ k < K => findDirSlot(recs, k) <= s0
                      /\ k >= K => s0 <= findDirSlot(recs, k)
  BY <1>2, <1>4, SlotGrows
<1>11. /\ \A s \in 0..Len(recs) : M[ChildAt(page, s)] = {k \in own : findDirSlot(recs, k) = s}
                                  /\ M[ChildAt(page, s)] # {}
       /\ \A i \in 1..Len(recs) : recs[i].key \in M[ChildAt(page, i)]
  BY <1>1 DEF Fit
<1>12. /\ DOMAIN M = DOMAIN R /\ c # n /\ K \in M[c] /\ M[n] = {} /\ R[c] # {}
       /\ R[c] = {k \in M[c] : k < K} /\ R[n] = {k \in M[c] : k >= K}
       /\ \A x \in DOMAIN R \ {c, n} : R[x] = M[x]
  BY <1>3 DEF Half
<1>13. ChildAt(page, s0) = c
  <2>1. K \in M[ChildAt(page, s0)] BY <1>1, <1>3, <1>4, <1>5, <1>11
  <2> QED BY <2>1, <1>1, <1>3, <1>5
<1>14. ASSUME NEW s \in 0..Len(recs), s # s0
       PROVE  R[ChildAt(page, s)] = M[ChildAt(page, s)]
  <2>1. PICK x : x = ChildAt(page, s) OBVIOUS
  <2>2. x # c
    <3>1. Fit(page, own, M) /\ s \in 0..Len(page.recs) /\ s0 \in 0..Len(page.recs)
      BY <1>1, <1>5
    <3> QED BY <3>1, <2>1, <1>13, <1>14, ChildrenDiffer
  <2>3. x \in DOMAIN R /\ M[x] # {} BY <2>1, <1>1, <1>11
  <2> QED BY <2>1, <2>2, <2>3, <1>12
<1>15. \A s \in 0..Len(more) :
         ChildAt(new, s) = IF s <= s0 THEN ChildAt(page, s)
                           ELSE IF s = s0 + 1 THEN n ELSE ChildAt(page, s - 1)
  <2> SUFFICES ASSUME NEW s \in 0..Len(more)
               PROVE  ChildAt(new, s) = IF s <= s0 THEN ChildAt(page, s)
                                        ELSE IF s = s0 + 1 THEN n ELSE ChildAt(page, s - 1)
    OBVIOUS
  <2>1. CASE s = 0 BY <2>1, <1>5 DEF ChildAt
  <2>2. CASE s # 0
    <3>1. s \in 1..Len(more) /\ ChildAt(new, s) = more[s].val BY <2>2, <1>1, <1>7 DEF ChildAt
    <3>2. CASE s <= s0 BY <3>1, <3>2, <2>2, <1>1, <1>7 DEF ChildAt
    <3>3. CASE s = s0 + 1 BY <3>1, <3>3, <1>5, <1>7
    <3>4. CASE s > s0 + 1
      <4>1. more[s] = recs[s - 1] /\ s - 1 # 0 BY <3>1, <3>4, <1>5, <1>7
      <4>2. ChildAt(new, s) = ChildAt(page, s - 1) BY <3>1, <4>1, <1>1 DEF ChildAt
      <4> QED BY <4>2, <3>4, <1>5
    <3> QED BY <3>2, <3>3, <3>4, <1>5
  <2> QED BY <2>1, <2>2
<1>16. ASSUME NEW k \in own
       PROVE  \E t \in 0..Len(recs) :
                /\ findDirSlot(recs, k) = t
                /\ findDirSlot(more, k) = IF k < K THEN t ELSE t + 1
                /\ IF k < K THEN t <= s0 ELSE s0 <= t
  <2>1. k \in Int OBVIOUS
  <2>2. PICK t \in 0..Len(recs) : findDirSlot(recs, k) = t BY <2>1, <1>9
  <2>3. findDirSlot(more, k) = IF k < K THEN t ELSE t + 1 BY <2>1, <2>2, <1>8
  <2>4. IF k < K THEN t <= s0 ELSE s0 <= t BY <2>1, <2>2, <1>10
  <2> QED BY <2>2, <2>3, <2>4
<1>17. ASSUME NEW s \in 0..Len(more)
       PROVE  /\ R[ChildAt(new, s)] = {k \in own : findDirSlot(more, k) = s}
              /\ R[ChildAt(new, s)] # {}
  <2>1. CASE s < s0
    <3>1. s \in 0..Len(recs) /\ ChildAt(new, s) = ChildAt(page, s) BY <2>1, <1>5, <1>15
    <3>2. R[ChildAt(new, s)] = {k \in own : findDirSlot(recs, k) = s}
          /\ R[ChildAt(new, s)] # {}
      BY <3>1, <2>1, <1>11, <1>14
    <3>3. ASSUME NEW k \in own
          PROVE  findDirSlot(more, k) = s <=> findDirSlot(recs, k) = s
      <4>1. PICK t \in 0..Len(recs) :
              /\ findDirSlot(recs, k) = t
              /\ findDirSlot(more, k) = IF k < K THEN t ELSE t + 1
              /\ IF k < K THEN t <= s0 ELSE s0 <= t
        BY <1>16
      <4>2. s0 \in Int /\ k \in Int /\ t \in Int /\ s \in Int BY <1>2, <1>5
      <4> QED BY <4>1, <4>2, <2>1, NewSlots
    <3> QED BY <3>2, <3>3
  <2>2. CASE s = s0
    <3>1. ChildAt(new, s) = c BY <2>2, <1>13, <1>15, <1>5
    <3>2. M[c] = {k \in own : findDirSlot(recs, k) = s} BY <2>2, <1>5, <1>11, <1>13
    <3>3. ASSUME NEW k \in own
          PROVE  findDirSlot(more, k) = s <=> findDirSlot(recs, k) = s /\ k < K
      <4>1. PICK t \in 0..Len(recs) :
              /\ findDirSlot(recs, k) = t
              /\ findDirSlot(more, k) = IF k < K THEN t ELSE t + 1
              /\ IF k < K THEN t <= s0 ELSE s0 <= t
        BY <1>16
      <4>2. s0 \in Int /\ k \in Int /\ t \in Int /\ s \in Int BY <1>2, <1>5
      <4> QED BY <4>1, <4>2, <2>2, NewSlots
    <3> QED BY <3>1, <3>2, <3>3, <1>12
  <2>3. CASE s = s0 + 1
    <3>1. ChildAt(new, s) = n BY <2>3, <1>15, <1>5
    <3>2. M[c] = {k \in own : findDirSlot(recs, k) = s0} BY <1>5, <1>11, <1>13
    <3>3. ASSUME NEW k \in own
          PROVE  findDirSlot(more, k) = s <=> findDirSlot(recs, k) = s0 /\ k >= K
      <4>1. PICK t \in 0..Len(recs) :
              /\ findDirSlot(recs, k) = t
              /\ findDirSlot(more, k) = IF k < K THEN t ELSE t + 1
              /\ IF k < K THEN t <= s0 ELSE s0 <= t
        BY <1>16
      <4>2. s0 \in Int /\ k \in Int /\ t \in Int /\ s \in Int BY <1>2, <1>5
      <4> QED BY <4>1, <4>2, <2>3, NewSlots
    <3>4. K \in R[n] BY <1>12
    <3> QED BY <3>1, <3>2, <3>3, <3>4, <1>12
  <2>4. CASE s > s0 + 1
    <3>1. s - 1 \in 0..Len(recs) /\ s - 1 # s0 /\ ChildAt(new, s) = ChildAt(page, s - 1)
      BY <2>4, <1>5, <1>7, <1>15
    <3>2. R[ChildAt(new, s)] = {k \in own : findDirSlot(recs, k) = s - 1}
          /\ R[ChildAt(new, s)] # {}
      BY <3>1, <1>11, <1>14
    <3>3. ASSUME NEW k \in own
          PROVE  findDirSlot(more, k) = s <=> findDirSlot(recs, k) = s - 1
      <4>1. PICK t \in 0..Len(recs) :
              /\ findDirSlot(recs, k) = t
              /\ findDirSlot(more, k) = IF k < K THEN t ELSE t + 1
              /\ IF k < K THEN t <= s0 ELSE s0 <= t
        BY <1>16
      <4>2. s0 \in Int /\ k \in Int /\ t \in Int /\ s \in Int BY <1>2, <1>5
      <4> QED BY <4>1, <4>2, <2>4, NewSlots
    <3> QED BY <3>2, <3>3
  <2> QED BY <2>1, <2>2, <2>3, <2>4, <1>5, <1>7
<1>18. ASSUME NEW i \in 1..Len(more) PROVE more[i].key \in R[ChildAt(new, i)]
  <2>1. CASE i < s0
    <3>1. i \in 1..Len(recs) /\ more[i] = recs[i] /\ i # s0 BY <2>1, <1>5, <1>7
    <3>2. ChildAt(new, i) = ChildAt(page, i)
      <4>1. i \in 0..Len(more) /\ i <= s0 BY <2>1, <1>5
      <4> QED BY <4>1, <1>15
    <3> QED BY <3>1, <3>2, <1>11, <1>14
  <2>2. CASE i = s0
    <3>1. i \in 1..Len(recs) /\ more[i] = recs[i] BY <2>2, <1>5, <1>7
    <3>2. ChildAt(new, i) = c BY <2>2, <1>7, <1>13, <1>15
    <3>3. recs[i].key \in M[c] BY <3>1, <2>2, <1>11, <1>13
    <3>4. recs[i].key < K
      <4>1. IsSlot(recs, K, s0) BY <1>2, <1>4, SlotIs
      <4>2. recs[i].key <= K BY <4>1, <2>2, <3>1 DEF IsSlot
      <4>3. recs[i].key # K
        <5>1. PICK y : y \in R[c] BY <1>12
        <5>2. y \in M[c] /\ y < K /\ y \in Int BY <5>1, <1>12 DEF Half
        <5>3. findDirSlot(recs, y) = s0 BY <5>2, <1>5, <1>11, <1>13
        <5>4. IsSlot(recs, y, s0) BY <5>2, <5>3, <1>2, SlotIs
        <5>5. recs[i].key <= y BY <5>4, <2>2, <3>1 DEF IsSlot
        <5> QED BY <5>2, <5>5
      <4> QED BY <4>1, <4>2, <4>3, <3>3 DEF Half
    <3> QED BY <3>1, <3>2, <3>3, <3>4, <1>12
  <2>3. CASE i = s0 + 1
    <3>1. more[i] = rec /\ ChildAt(new, i) = n BY <2>3, <1>5, <1>7, <1>15
    <3> QED BY <3>1, <1>3, <1>12
  <2>4. CASE i > s0 + 1
    <3>1. /\ i - 1 \in 1..Len(recs) /\ i - 1 # s0 /\ more[i] = recs[i - 1]
          /\ ChildAt(new, i) = ChildAt(page, i - 1)
      BY <2>4, <1>5, <1>7, <1>15
    <3> QED BY <3>1, <1>11, <1>14
  <2> QED BY <2>1, <2>2, <2>3, <2>4, <1>5
<1> QED BY <1>1, <1>17, <1>18 DEF Fit

(* The halves of a page: the keys from K on lead to the upper one. *)
Parted(page, own, M, K, lower, upper) ==
  /\ K \in own
  /\ Fit(lower, {k \in own : k < K}, M) /\ Fit(upper, {k \in own : k >= K}, M)
  /\ \A s \in 0..Len(lower.recs) :
       \E t \in 0..Len(page.recs) : ChildAt(lower, s) = ChildAt(page, t)
  /\ \A s \in 0..Len(upper.recs) :
       \E t \in 0..Len(page.recs) : ChildAt(upper, s) = ChildAt(page, t)
  /\ \E k \in own : k < K

LEMMA FitParted ==
  ASSUME NEW page \in Pages, NEW own \in SUBSET Int, NEW M, Fit(page, own, M),
         NEW pos \in 0..Len(page.recs), pos < Len(page.recs), NEW lo, NEW hi,
         Cut(page.recs, pos, lo, hi),
         NEW lower, lower.recs = lo, lower.extra2 = page.extra2,
         NEW upper, upper.recs = Tail(hi), upper.extra2 = hi[1].val
  PROVE  Parted(page, own, M, hi[1].key, lower, upper)
<1>1. PICK recs, rest : recs = page.recs /\ rest = Tail(hi) OBVIOUS
<1>2. recs \in Seq(Entry) /\ Len(recs) \in Nat BY <1>1 DEF Pages, Entry
<1>3. /\ lo \in Seq(Entry) /\ Len(lo) = pos /\ \A i \in 1..pos : lo[i] = recs[i]
      /\ hi \in Seq(Entry) /\ Len(hi) = Len(recs) - pos
      /\ \A i \in 1..Len(hi) : hi[i] = recs[pos + i]
  BY <1>1 DEF Cut
<1>4. pos \in Nat /\ pos < Len(recs) BY <1>1
<1>5. /\ rest \in Seq(Entry) /\ Len(rest) = Len(recs) - pos - 1
      /\ \A i \in 1..Len(rest) : rest[i] = recs[pos + 1 + i]
  <2>1. hi # <<>> BY <1>2, <1>3, <1>4
  <2>2. /\ rest \in Seq(Entry) /\ Len(rest) = Len(hi) - 1
        /\ \A i \in 1..Len(rest) : rest[i] = hi[i + 1]
    BY <2>1, <1>1, <1>3, HeadTailProperties
  <2>3. \A i \in 1..Len(rest) : i + 1 \in 1..Len(hi) /\ pos + (i + 1) = pos + 1 + i
    BY <2>2, <1>3, <1>4
  <2> QED BY <2>2, <2>3, <1>3
<1>6. hi[1] = recs[pos + 1] /\ pos + 1 \in 1..Len(recs)
  <2>1. 1 \in 1..Len(hi) BY <1>2, <1>3, <1>4
  <2> QED BY <2>1, <1>2, <1>3, <1>4
<1>7. \A i \in 1..Len(recs) : recs[i].key \in Int BY <1>2, KeysAreIntegers
<1>8. PICK K \in Int : K = hi[1].key BY <1>6, <1>7
<1>9. /\ \A s \in 0..Len(recs) : M[ChildAt(page, s)] = {k \in own : findDirSlot(recs, k) = s}
                                 /\ M[ChildAt(page, s)] # {}
      /\ \A i \in 1..Len(recs) : recs[i].key \in M[ChildAt(page, i)]
  BY <1>1 DEF Fit
<1>10. K \in own /\ findDirSlot(recs, K) = pos + 1
  <2>1. PICK i \in 1..Len(recs) : i = pos + 1 BY <1>6
  <2>2. K \in M[ChildAt(page, i)] /\ i \in 0..Len(recs) BY <2>1, <1>6, <1>8, <1>9
  <2> QED BY <2>1, <2>2, <1>9
<1>11. ASSUME NEW k \in own
       PROVE  \E t \in 0..Len(recs) :
                /\ findDirSlot(recs, k) = t
                /\ IF k < K THEN t <= pos /\ findDirSlot(lo, k) = t
                   ELSE t >= pos + 1 /\ findDirSlot(rest, k) = t - (pos + 1)
  <2>1. k \in Int OBVIOUS
  <2>2. PICK t : t = findDirSlot(recs, k) OBVIOUS
  <2>3. IsSlot(recs, k, t) BY <2>1, <2>2, <1>2, SlotIs
  <2>4. /\ t \in 0..Len(recs) /\ \A i \in 1..t : recs[i].key <= k
        /\ t < Len(recs) => recs[t + 1].key > k
    BY <2>3 DEF IsSlot
  <2>5. CASE k < K
    <3>1. t <= pos
      <4> SUFFICES ASSUME t > pos PROVE FALSE BY <2>4, <1>4
      <4>1. pos + 1 \in 1..t BY <2>4, <1>4
      <4>2. recs[pos + 1].key <= k BY <4>1, <2>4
      <4> QED BY <4>2, <2>1, <2>5, <1>6, <1>8
    <3>2. \A i \in 1..t : lo[i].key <= k
      <4>1. \A i \in 1..t : i \in 1..pos BY <3>1, <2>4, <1>4
      <4> QED BY <4>1, <2>4, <1>3
    <3>3. t < Len(lo) => lo[t + 1].key > k
      <4>1. t < Len(lo) => t + 1 \in 1..pos /\ t < Len(recs) BY <2>4, <1>3, <1>4
      <4> QED BY <4>1, <2>4, <1>3
    <3>4. t \in 0..Len(lo) BY <3>1, <2>4, <1>3, <1>4
    <3>5. IsSlot(lo, k, t) BY <3>2, <3>3, <3>4 DEF IsSlot
    <3>6. findDirSlot(lo, k) = t BY <3>5, <2>1, <1>3, SlotOnce
    <3> QED BY <3>1, <3>6, <2>2, <2>4, <2>5
  <2>6. CASE ~(k < K)
    <3>1. t >= pos + 1
      <4>1. findDirSlot(recs, K) <= findDirSlot(recs, k)
        <5>1. K <= k BY <2>1, <2>6
        <5> QED BY <5>1, <2>1, <1>2, SlotGrows
      <4> QED BY <4>1, <2>2, <1>10
    <3>2. PICK u \in 0..Len(rest) : u = t - (pos + 1)
      <4>1. t - (pos + 1) \in 0..Len(rest) BY <3>1, <2>4, <1>4, <1>5
      <4> QED BY <4>1
    <3>3. \A i \in 1..u : rest[i].key <= k
      <4>1. \A i \in 1..u : i \in 1..Len(rest) /\ pos + 1 + i \in 1..t
        BY <3>2, <2>4, <1>4, <1>5
      <4> QED BY <4>1, <2>4, <1>5
    <3>4. u < Len(rest) => rest[u + 1].key > k
      <4>1. u < Len(rest) =>
              u + 1 \in 1..Len(rest) /\ pos + 1 + (u + 1) = t + 1 /\ t < Len(recs)
        BY <3>2, <2>4, <1>4, <1>5
      <4> QED BY <4>1, <2>4, <1>5
    <3>5. IsSlot(rest, k, u) BY <3>3, <3>4 DEF IsSlot
    <3>6. findDirSlot(rest, k) = u BY <3>5, <2>1, <1>5, SlotOnce
    <3> QED BY <3>1, <3>2, <3>6, <2>2, <2>4, <2>6
  <2> QED BY <2>5, <2>6
<1>12. \A s \in 0..Len(lo) : s \in 0..Len(recs) /\ ChildAt(lower, s) = ChildAt(page, s)
  <2>1. ASSUME NEW s \in 0..Len(lo)
        PROVE  s \in 0..Len(recs) /\ ChildAt(lower, s) = ChildAt(page, s)
    <3>1. CASE s = 0 BY <3>1, <1>2 DEF ChildAt
    <3>2. CASE s # 0
      <4>1. s \in 1..pos /\ s \in 0..Len(recs) BY <3>2, <1>3, <1>4
      <4> QED BY <4>1, <3>2, <1>1, <1>3 DEF ChildAt
    <3> QED BY <3>1, <3>2
  <2> QED BY <2>1
<1>13. \A s \in 0..Len(rest) :
         s + pos + 1 \in 0..Len(recs) /\ ChildAt(upper, s) = ChildAt(page, s + pos + 1)
  <2>1. ASSUME NEW s \in 0..Len(rest)
        PROVE  s + pos + 1 \in 0..Len(recs) /\ ChildAt(upper, s) = ChildAt(page, s + pos + 1)
    <3>1. s + pos + 1 \in 0..Len(recs) /\ s + pos + 1 # 0 BY <1>4, <1>5
    <3>2. ChildAt(page, s + pos + 1) = recs[s + pos + 1].val BY <3>1, <1>1 DEF ChildAt
    <3>3. CASE s = 0
      <4>1. s + pos + 1 = pos + 1 BY <3>3, <1>4
      <4> QED BY <4>1, <3>1, <3>2, <3>3, <1>6 DEF ChildAt
    <3>4. CASE s # 0
      <4>1. s \in 1..Len(rest) /\ pos + 1 + s = s + pos + 1 BY <3>4, <1>4, <1>5
      <4>2. rest[s] = recs[s + pos + 1] BY <4>1, <1>5
      <4> QED BY <4>2, <3>1, <3>2, <3>4, <1>1 DEF ChildAt
    <3> QED BY <3>3, <3>4
  <2> QED BY <2>1
<1>14. PICK below, above : below = {k \in own : k < K} /\ above = {k \in own : k >= K} OBVIOUS
<1>15. Fit(lower, below, M)
  <2>1. ASSUME NEW s \in 0..Len(lo)
        PROVE  M[ChildAt(lower, s)] = {k \in below : findDirSlot(lo, k) = s}
               /\ M[ChildAt(lower, s)] # {}
    <3>1. M[ChildAt(lower, s)] = {k \in own : findDirSlot(recs, k) = s}
          /\ M[ChildAt(lower, s)] # {}
      BY <1>9, <1>12
    <3>2. ASSUME NEW k \in own
          PROVE  findDirSlot(recs, k) = s <=> k < K /\ findDirSlot(lo, k) = s
      <4>1. PICK t \in 0..Len(recs) :
              /\ findDirSlot(recs, k) = t
              /\ IF k < K THEN t <= pos /\ findDirSlot(lo, k) = t
                 ELSE t >= pos + 1 /\ findDirSlot(rest, k) = t - (pos + 1)
        BY <1>11
      <4>2. s <= pos /\ s \in Nat BY <1>3, <1>4
      <4> QED BY <4>1, <4>2, <1>4
    <3> QED BY <3>1, <3>2, <1>14
  <2>2. ASSUME NEW i \in 1..Len(lo) PROVE lo[i].key \in M[ChildAt(lower, i)]
    <3>1. i \in 1..Len(recs) /\ lo[i] = recs[i] /\ ChildAt(lower, i) = ChildAt(page, i)
      BY <1>3, <1>4, <1>12
    <3> QED BY <3>1, <1>9
  <2> QED BY <2>1, <2>2 DEF Fit
<1>16. Fit(upper, above, M)
  <2>1. ASSUME NEW s \in 0..Len(rest)
        PROVE  M[ChildAt(upper, s)] = {k \in above : findDirSlot(rest, k) = s}
               /\ M[ChildAt(upper, s)] # {}
    <3>1. PICK v \in 0..Len(recs) : v = s + pos + 1 /\ ChildAt(upper, s) = ChildAt(page, v)
      BY <1>13
    <3>2. M[ChildAt(upper, s)] = {k \in own : findDirSlot(recs, k) = v}
          /\ M[ChildAt(upper, s)] # {}
      BY <3>1, <1>9
    <3>3. ASSUME NEW k \in own
          PROVE  findDirSlot(recs, k) = v <=> k >= K /\ findDirSlot(rest, k) = s
      <4>1. PICK t \in 0..Len(recs) :
              /\ findDirSlot(recs, k) = t
              /\ IF k < K THEN t <= pos /\ findDirSlot(lo, k) = t
                 ELSE t >= pos + 1 /\ findDirSlot(rest, k) = t - (pos + 1)
        BY <1>11
      <4>2. k \in Int OBVIOUS
      <4> QED BY <4>1, <4>2, <3>1, <1>4
    <3> QED BY <3>2, <3>3, <1>14
  <2>2. ASSUME NEW i \in 1..Len(rest) PROVE rest[i].key \in M[ChildAt(upper, i)]
    <3>1. i \in 0..Len(rest) OBVIOUS
    <3>2. PICK v \in 1..Len(recs) : v = i + pos + 1 /\ ChildAt(upper, i) = ChildAt(page, v)
      <4>1. i + pos + 1 \in 1..Len(recs) BY <1>4, <1>5
      <4> QED BY <3>1, <4>1, <1>13
    <3>3. rest[i] = recs[v]
      <4>1. pos + 1 + i = v BY <3>2, <1>4
      <4> QED BY <4>1, <1>5
    <3> QED BY <3>2, <3>3, <1>9
  <2>3. upper.recs = rest BY <1>1
  <2>4. ASSUME NEW s \in 0..Len(upper.recs)
        PROVE  /\ M[ChildAt(upper, s)] = {k \in above : findDirSlot(upper.recs, k) = s}
               /\ M[ChildAt(upper, s)] # {}
    <3>1. s \in 0..Len(rest) BY <2>3
    <3>2. M[ChildAt(upper, s)] = {k \in above : findDirSlot(rest, k) = s} BY <2>1, <3>1
    <3>3. M[ChildAt(upper, s)] # {} BY <2>1, <3>1
    <3> QED BY <3>2, <3>3, <2>3, Zenon
  <2>5. \A i \in 1..Len(upper.recs) : upper.recs[i].key \in M[ChildAt(upper, i)]
    BY <2>2, <2>3
  <2> QED BY <2>4, <2>5 DEF Fit
<1>17. \E k \in own : k < K
  <2>1. 0 \in 0..Len(recs) BY <1>2
  <2>2. PICK k \in own : findDirSlot(recs, k) = 0 BY <2>1, <1>9
  <2>3. PICK t \in 0..Len(recs) :
          /\ findDirSlot(recs, k) = t
          /\ IF k < K THEN t <= pos /\ findDirSlot(lo, k) = t
             ELSE t >= pos + 1 /\ findDirSlot(rest, k) = t - (pos + 1)
    BY <1>11
  <2>4. t = 0 /\ ~(t >= pos + 1) BY <2>2, <2>3, <1>4
  <2>5. k < K BY <2>3, <2>4
  <2> QED BY <2>5
<1>18. \A s \in 0..Len(rest) : \E t \in 0..Len(recs) : ChildAt(upper, s) = ChildAt(page, t)
  BY <1>13
<1>19. \A s \in 0..Len(lo) : \E t \in 0..Len(recs) : ChildAt(lower, s) = ChildAt(page, t)
  BY <1>12
<1> QED BY <1>1, <1>8, <1>10, <1>14, <1>15, <1>16, <1>17, <1>18, <1>19 DEF Parted

(* The halves of a full page *)
HalvesAre(file, b, pos, lo, hi, n, halves) ==
  /\ n \in Nat /\ n \notin DOMAIN file
  /\ pos \in 1..Len(file[b].recs) /\ pos < Len(file[b].recs)
  /\ Cut(file[b].recs, pos, lo, hi)
  /\ DOMAIN halves = DOMAIN file \union {n}
  /\ \A x \in DOMAIN file \ {b} : halves[x] = file[x]
  /\ halves[b] = [recs |-> lo, extra1 |-> file[b].extra1, extra2 |-> file[b].extra2]
  /\ halves[n] = [recs |-> Tail(hi), extra1 |-> file[b].extra1, extra2 |-> hi[1].val]
  /\ halves[b] \in Pages /\ halves[n] \in Pages

(* What insertEntry makes of a full page: its halves, and the record in one *)
HalvesMade(file, b, rec, res, pos, lo, hi, n, halves) ==
  /\ HalvesAre(file, b, pos, lo, hi, n, halves)
  /\ LET c == IF rec.key < hi[1].key THEN b ELSE n
     IN res = [file |-> doInsert(halves, c, findDirSlot(halves[c].recs, rec.key), rec),
               split |-> [key |-> hi[1].key, val |-> n]]

EntryParts(file, b, rec, res) ==
  \/ res = [file |-> doInsert(file, b, findDirSlot(file[b].recs, rec.key), rec),
            split |-> NoSplit]
  \/ \E pos, lo, hi, n, halves : HalvesMade(file, b, rec, res, pos, lo, hi, n, halves)

LEMMA SlotInLower ==
  ASSUME NEW recs \in Seq(Entry), NEW pos \in 0..Len(recs), NEW lo, NEW hi,
         Cut(recs, pos, lo, hi), pos < Len(recs), NEW key \in Int, key < hi[1].key
  PROVE  findDirSlot(recs, key) = findDirSlot(lo, key)
<1>1. /\ lo \in Seq(Entry) /\ Len(lo) = pos /\ \A i \in 1..pos : lo[i] = recs[i]
      /\ hi \in Seq(Entry) /\ Len(hi) = Len(recs) - pos
      /\ \A i \in 1..Len(hi) : hi[i] = recs[pos + i]
  BY DEF Cut
<1>2. hi[1] = recs[pos + 1] /\ pos + 1 \in 1..Len(recs)
  <2>1. 1 \in 1..Len(hi) BY <1>1
  <2> QED BY <2>1, <1>1
<1>3. \A i \in 1..Len(recs) : recs[i].key \in Int BY KeysAreIntegers
<1>4. PICK t : t = findDirSlot(recs, key) OBVIOUS
<1>5. IsSlot(recs, key, t) BY <1>4, SlotIs
<1>6. /\ t \in 0..Len(recs) /\ \A i \in 1..t : recs[i].key <= key
      /\ t < Len(recs) => recs[t + 1].key > key
  BY <1>5 DEF IsSlot
<1>7. t <= pos
  <2>1. t \in Nat /\ pos \in Nat BY <1>6
  <2>2. ASSUME t > pos PROVE FALSE
    <3>1. pos + 1 \in 1..t BY <2>1, <2>2
    <3>2. recs[pos + 1].key <= key BY <3>1, <1>6
    <3> QED BY <3>2, <1>2, <1>3
  <2> QED BY <2>1, <2>2
<1>8. \A i \in 1..t : lo[i].key <= key
  <2>1. \A i \in 1..t : i \in 1..pos BY <1>6, <1>7
  <2> QED BY <2>1, <1>1, <1>6
<1>9. t < Len(lo) => lo[t + 1].key > key
  <2>1. t < Len(lo) => t + 1 \in 1..pos /\ t < Len(recs) BY <1>1, <1>6
  <2> QED BY <2>1, <1>1, <1>6
<1>10. t \in 0..Len(lo) BY <1>1, <1>6, <1>7
<1>11. IsSlot(lo, key, t) BY <1>8, <1>9, <1>10 DEF IsSlot
<1> QED BY <1>1, <1>4, <1>11, SlotOnce

LEMMA DirPageIs ==
  ASSUME NEW d, NEW leaves, Directory(d, leaves), NEW x \in DOMAIN d
  PROVE  /\ d[x] \in Pages /\ d[x].recs \in Seq(Entry) /\ Len(d[x].recs) \in Nat
         /\ d[x].extra1 \in Nat /\ d[x].extra1 <= d[Root].extra1
<1>1. DirPage(d, leaves, d[x]) BY DEF Directory
<1>2. d[x] \in Pages BY <1>1 DEF DirPage
<1>3. d[x].recs \in Seq(Entry) BY <1>2 DEF Pages, Entry
<1> QED BY <1>1, <1>2, <1>3 DEF DirPage

LEMMA HalvesKnown ==
  ASSUME NEW file, NEW leaves \in SUBSET Nat, Directory(file, leaves),
         NEW b \in DOMAIN file, isFull(file[b], DirCapacity),
         NEW halves, halves = DirHalves(file, b), NEW n, n = Size(file)
  PROVE  \E pos, lo, hi : /\ HalvesAre(file, b, pos, lo, hi, n, halves)
                          /\ hi[1] = UpperFirst(file, b) /\ hi[1] \in Entry
<1>1. PICK pos : pos = Len(file[b].recs) \div 2 OBVIOUS
<1>2. DirParted(file, b, pos, halves) BY <1>1, DirParts DEF PartsDir
<1>3. PICK recs : recs = file[b].recs OBVIOUS
<1>4. PICK lo, hi : lo = SubSeq(recs, 1, pos) /\ hi = SubSeq(recs, pos + 1, Len(recs))
  OBVIOUS
<1>5. /\ n \in Nat /\ n \notin DOMAIN file
      /\ pos \in Nat /\ pos >= 1 /\ Len(recs) - pos >= 1
      /\ Cut(recs, pos, lo, hi) /\ UpperFirst(file, b) = hi[1] /\ hi[1] \in Entry
      /\ DOMAIN halves = DOMAIN file \union {n}
      /\ \A c \in DOMAIN file \ {b} : halves[c] = file[c]
      /\ halves[b] = [recs |-> lo, extra1 |-> file[b].extra1, extra2 |-> file[b].extra2]
      /\ halves[n] = [recs |-> Tail(hi), extra1 |-> file[b].extra1, extra2 |-> hi[1].val]
      /\ halves[b] \in Pages /\ halves[n] \in Pages
  BY <1>2, <1>3, <1>4 DEF DirParted
<1>6. Len(recs) \in Nat BY <1>3, DirPageIs
<1>7. pos \in 1..Len(recs) /\ pos < Len(recs) BY <1>5, <1>6
<1>8. HalvesAre(file, b, pos, lo, hi, n, halves) BY <1>3, <1>5, <1>7 DEF HalvesAre
<1> QED BY <1>5, <1>8

LEMMA EntryIs ==
  ASSUME NEW file, NEW leaves \in SUBSET Nat, Directory(file, leaves),
         NEW b \in DOMAIN file, NEW rec \in Entry, NEW res, res = insertEntry(file, b, rec)
  PROVE  EntryParts(file, b, rec, res)
<1>1. PICK page, recs : page = file[b] /\ recs = page.recs OBVIOUS
<1>2. recs \in Seq(Entry) BY <1>1, DirPageIs
<1>3. PICK n : n = Size(file) OBVIOUS
<1>4. PICK key \in Int : key = rec.key BY KeysAreIntegers
<1>5. PICK slot : slot = findDirSlot(recs, key) OBVIOUS
<1>6. CASE ~isFull(page, DirCapacity)
  <2>1. res = [file |-> doInsert(file, b, slot, rec), split |-> NoSplit]
    BY <1>1, <1>4, <1>5, <1>6 DEF insertEntry
  <2> QED BY <2>1, <1>1, <1>4, <1>5 DEF EntryParts
<1>7. CASE isFull(page, DirCapacity)
  <2>1. PICK halves : halves = DirHalves(file, b) OBVIOUS
  <2>2. PICK pos, lo, hi : /\ HalvesAre(file, b, pos, lo, hi, n, halves)
                           /\ hi[1] = UpperFirst(file, b) /\ hi[1] \in Entry
    BY <2>1, <1>1, <1>3, <1>7, HalvesKnown
  <2>3. PICK first : first = hi[1] OBVIOUS
  <2>4. first = UpperFirst(file, b) /\ first.key \in Int BY <2>2, <2>3, KeysAreIntegers
  <2>5. /\ pos \in 1..Len(recs) /\ pos < Len(recs) /\ Cut(recs, pos, lo, hi)
        /\ halves[b].recs = lo
    BY <2>2, <1>1 DEF HalvesAre
  <2>6. PICK split_ : split_ = [key |-> first.key, val |-> n] OBVIOUS
  <2>7. PICK c : c = IF key < first.key THEN b ELSE n OBVIOUS
  <2>8. res = [file |-> doInsert(halves, c, findDirSlot(halves[c].recs, key), rec),
               split |-> split_]
    <3>1. CASE key < first.key
      <4>1. compareVals(key, first.key) < 0 BY <3>1, <2>4 DEF compareVals
      <4>2. res = [file |-> doInsert(halves, b, slot, rec), split |-> split_]
        BY <4>1, <1>1, <1>3, <1>4, <1>5, <1>7, <2>1, <2>4, <2>6 DEF insertEntry
      <4>3. slot = findDirSlot(lo, key)
        <5>1. Len(recs) \in Nat BY <1>2
        <5>2. pos \in 0..Len(recs) /\ pos < Len(recs) BY <2>5, <5>1
        <5>3. key < hi[1].key BY <3>1, <2>3
        <5> QED BY <5>2, <5>3, <2>5, <1>2, <1>5, SlotInLower
      <4>4. c = b BY <3>1, <2>7
      <4> QED BY <4>2, <4>3, <4>4, <2>5
    <3>2. CASE ~(key < first.key)
      <4>1. ~(compareVals(key, first.key) < 0) BY <3>2, <2>4 DEF compareVals
      <4>2. c = n BY <3>2, <2>7
      <4>3. PICK late : late = findDirSlot(halves[n].recs, key) OBVIOUS
      <4>4. res = [file |-> doInsert(halves, n, late, rec), split |-> split_]
        BY <4>1, <4>3, <1>1, <1>3, <1>4, <1>7, <2>1, <2>4, <2>6 DEF insertEntry
      <4> QED BY <4>2, <4>3, <4>4
    <3> QED BY <3>1, <3>2
  <2>9. c = (IF rec.key < hi[1].key THEN b ELSE n) BY <1>4, <2>3, <2>7
  <2>10. res = [file |-> doInsert(halves, c, findDirSlot(halves[c].recs, rec.key), rec),
                split |-> [key |-> hi[1].key, val |-> n]]
    BY <1>4, <2>3, <2>6, <2>8
  <2>11. HalvesMade(file, b, rec, res, pos, lo, hi, n, halves)
    BY <2>2, <2>9, <2>10 DEF HalvesMade
  <2> QED BY <2>11 DEF EntryParts
<1> QED BY <1>6, <1>7

(* The keys that lead to the children of a page: leaves, or directory pages *)
Sub(page, RD, RL) == IF page.extra1 = 0 THEN RL ELSE RD

(* A key leads to at most one page of a level. *)
Shares(d, RD) ==
  /\ RD \in [DOMAIN d -> SUBSET Int]
  /\ \A a, b \in DOMAIN d :
       a # b /\ d[a].extra1 = d[b].extra1 => RD[a] \intersect RD[b] = {}

(* The directory d leads with every key to a leaf, with those of RL[b] to b, *)
(* by way of the pages that RD gives the key to.                             *)
Ranked(d, RD, RL) ==
  /\ Shares(d, RD) /\ RD[Root] = Int
  /\ \A b \in DOMAIN d : RD[b] # {} => Fit(d[b], RD[b], Sub(d[b], RD, RL))

(* A page c, or a leaf, has been split, and the pages of this level do not   *)
(* know it yet: with every key they lead to where M says.                    *)
Due(d, RD, RL, level, M, c, rec) ==
  /\ Shares(d, RD)
  /\ Half(M, IF level = 0 THEN RL ELSE RD, c, rec.val, rec.key)
  /\ IF level > d[Root].extra1 THEN c = Root /\ M[Root] = Int ELSE RD[Root] = Int
  /\ \A b \in DOMAIN d :
       RD[b] # {} =>
         Fit(d[b], RD[b], IF d[b].extra1 = level THEN M ELSE Sub(d[b], RD, RL))

(* After the record of a split has been entered in block b, or passed on: the *)
(* pages above are as they were.                                             *)
Passed(d, RD, RL, level, b, res) ==
  \E RD2 :
    /\ \A x \in DOMAIN d : d[x].extra1 > level => res.file[x] = d[x] /\ RD2[x] = RD[x]
    /\ IF res.split = NoSplit THEN Ranked(res.file, RD2, RL)
       ELSE \E M2 : Due(res.file, RD2, RL, level + 1, M2, b, res.split)

LEMMA ChildLevel ==
  ASSUME NEW d, NEW leaves, Directory(d, leaves), NEW x \in DOMAIN d,
         NEW s \in 0..Len(d[x].recs)
  PROVE  IsChild(d, leaves, d[x].extra1, ChildAt(d[x], s))
<1>1. DirPage(d, leaves, d[x]) BY DEF Directory
<1>2. d[x] \in Pages BY <1>1 DEF DirPage
<1>3. ChildAt(d[x], s) \in Children(d[x])
  <2>1. CASE s = 0 BY <2>1 DEF ChildAt, Children
  <2>2. CASE s # 0
    <3>1. d[x].recs \in Seq(Entry) BY <1>2 DEF Pages, Entry
    <3>2. s \in DOMAIN d[x].recs BY <3>1, <2>2
    <3>3. d[x].recs[s] \in ToSet(d[x].recs) BY <3>2 DEF ToSet
    <3> QED BY <3>3, <2>2 DEF ChildAt, Children
  <2> QED BY <2>1, <2>2
<1> QED BY <1>1, <1>3 DEF DirPage

(* What leads to the pages of the level below matters only. *)
LEMMA FitMoved ==
  ASSUME NEW d, NEW RL, Directory(d, DOMAIN RL), NEW x \in DOMAIN d, NEW own,
         NEW RD, Fit(d[x], own, Sub(d[x], RD, RL)), NEW other,
         \A y \in DOMAIN d : d[y].extra1 = d[x].extra1 - 1 => other[y] = RD[y]
  PROVE  Fit(d[x], own, Sub(d[x], other, RL))
<1>1. CASE d[x].extra1 = 0 BY <1>1 DEF Sub
<1>2. CASE d[x].extra1 # 0
  <2>1. Fit(d[x], own, RD) BY <1>2 DEF Sub
  <2>2. ASSUME NEW s \in 0..Len(d[x].recs)
        PROVE  other[ChildAt(d[x], s)] = RD[ChildAt(d[x], s)]
    <3>1. IsChild(d, DOMAIN RL, d[x].extra1, ChildAt(d[x], s)) BY ChildLevel
    <3> QED BY <3>1, <1>2 DEF IsChild
  <2>3. Len(d[x].recs) \in Nat BY DirPageIs
  <2>4. Fit(d[x], own, other) BY <2>1, <2>2, <2>3, FitWith
  <2> QED BY <2>4, <1>2 DEF Sub
<1> QED BY <1>1, <1>2

(* Where the record of a split is to be entered *)
AtParent(d, RD, RL, level, M, c, rec, b) ==
  /\ Directory(d, DOMAIN RL) /\ DOMAIN RL \in SUBSET Nat
  /\ Due(d, RD, RL, level, M, c, rec)
  /\ Pending(d, DOMAIN RL, level, rec)
  /\ b \in DOMAIN d /\ d[b].extra1 = level /\ RD[b] # {}
  /\ \E s \in 0..Len(d[b].recs) : c = ChildAt(d[b], s)
  /\ level = d[Root].extra1 => b = Root

(* What follows for the pages of that level, before the split and after it *)
ParentFits(d, RD, RL, M, c, rec, b, R) ==
  /\ R = Sub(d[b], RD, RL)
  /\ Half(M, R, c, rec.val, rec.key) /\ rec \in Entry
  /\ Fit(d[b], RD[b], M) /\ rec.key \in RD[b] /\ RD[b] \in SUBSET Int
  /\ \A s \in 0..Len(d[b].recs) :
       /\ ChildAt(d[b], s) \in DOMAIN R
       /\ rec.key \in M[ChildAt(d[b], s)] => ChildAt(d[b], s) = c
  /\ \A x \in DOMAIN d \ {b} :
       d[x].extra1 = d[b].extra1 /\ RD[x] # {} => Fit(d[x], RD[x], R)

LEMMA ParentReady ==
  ASSUME NEW d, NEW RD, NEW RL, NEW level, NEW M, NEW c, NEW rec, NEW b,
         AtParent(d, RD, RL, level, M, c, rec, b)
  PROVE  \E R : ParentFits(d, RD, RL, M, c, rec, b, R)
<1>1. PICK R : R = Sub(d[b], RD, RL) OBVIOUS
<1>2. /\ Directory(d, DOMAIN RL) /\ Shares(d, RD) /\ Pending(d, DOMAIN RL, level, rec)
      /\ b \in DOMAIN d /\ d[b].extra1 = level /\ RD[b] # {}
      /\ Half(M, R, c, rec.val, rec.key)
      /\ \A x \in DOMAIN d :
           RD[x] # {} => Fit(d[x], RD[x], IF d[x].extra1 = level THEN M ELSE Sub(d[x], RD, RL))
  BY <1>1 DEF AtParent, Due, Sub
<1>3. rec \in Entry BY <1>2 DEF Pending, Entry
<1>4. PICK K \in Int : K = rec.key BY <1>3, KeysAreIntegers
<1>5. PICK s0 \in 0..Len(d[b].recs) : c = ChildAt(d[b], s0) BY DEF AtParent
<1>6. Fit(d[b], RD[b], M) BY <1>2
<1>7. RD \in [DOMAIN d -> SUBSET Int] BY <1>2 DEF Shares
<1>8. K \in RD[b]
  <2>1. K \in M[c] BY <1>2, <1>4 DEF Half
  <2> QED BY <2>1, <1>5, <1>6 DEF Fit
<1>9. ASSUME NEW x \in DOMAIN d, d[x].extra1 = level, NEW s \in 0..Len(d[x].recs)
      PROVE  ChildAt(d[x], s) \in DOMAIN R
  <2>1. IsChild(d, DOMAIN RL, level, ChildAt(d[x], s)) BY <1>2, <1>9, ChildLevel
  <2> QED BY <2>1, <1>1, <1>2, <1>7 DEF IsChild, Sub
<1>10. ASSUME NEW s \in 0..Len(d[b].recs), K \in M[ChildAt(d[b], s)]
       PROVE  ChildAt(d[b], s) = c
  <2>1. findDirSlot(d[b].recs, K) = s BY <1>6, <1>10 DEF Fit
  <2>2. K \in M[ChildAt(d[b], s0)] BY <1>2, <1>4, <1>5 DEF Half
  <2>3. findDirSlot(d[b].recs, K) = s0 BY <1>6, <2>2 DEF Fit
  <2> QED BY <2>1, <2>3, <1>5
<1>11. ASSUME NEW x \in DOMAIN d \ {b}, d[x].extra1 = d[b].extra1, RD[x] # {}
       PROVE  Fit(d[x], RD[x], R)
  <2>1. Fit(d[x], RD[x], M) BY <1>2, <1>11
  <2>2. rec.key \notin RD[x]
    <3>1. RD[x] \intersect RD[b] = {} BY <1>2, <1>11 DEF Shares
    <3> QED BY <3>1, <1>4, <1>8
  <2>3. Len(d[x].recs) \in Nat BY <1>2, DirPageIs
  <2>4. \A s \in 0..Len(d[x].recs) : ChildAt(d[x], s) \in DOMAIN R BY <1>2, <1>9, <1>11
  <2> QED BY <2>1, <2>2, <2>3, <2>4, <1>2, FitElsewhere
<1>12. \A s \in 0..Len(d[b].recs) : ChildAt(d[b], s) \in DOMAIN R BY <1>2, <1>9
<1>13. \A s \in 0..Len(d[b].recs) : rec.key \in M[ChildAt(d[b], s)] => ChildAt(d[b], s) = c
  BY <1>4, <1>10
<1>14. rec.key \in RD[b] /\ RD[b] \in SUBSET Int BY <1>2, <1>4, <1>7, <1>8
<1>15. ParentFits(d, RD, RL, M, c, rec, b, R)
  BY <1>1, <1>2, <1>3, <1>6, <1>11, <1>12, <1>13, <1>14 DEF ParentFits
<1> QED BY <1>15

(* A page that a record is due in *)
Awaits(page, own, M, R, c, rec) ==
  /\ page \in Pages /\ own \in SUBSET Int /\ rec \in Entry
  /\ Fit(page, own, M) /\ Half(M, R, c, rec.val, rec.key) /\ rec.key \in own
  /\ \A s \in 0..Len(page.recs) :
       /\ ChildAt(page, s) \in DOMAIN R
       /\ rec.key \in M[ChildAt(page, s)] => ChildAt(page, s) = c

(* A page with the record in the slot for its key *)
LEMMA RecordFits ==
  ASSUME NEW d, NEW b \in DOMAIN d, NEW own, NEW M, NEW R, NEW c, NEW rec,
         Awaits(d[b], own, M, R, c, rec),
         NEW new, new = doInsert(d, b, findDirSlot(d[b].recs, rec.key), rec)
  PROVE  /\ DOMAIN new = DOMAIN d /\ \A x \in DOMAIN d \ {b} : new[x] = d[x]
         /\ new[b].extra1 = d[b].extra1
         /\ Fit(new[b], own, R)
<1>1. PICK slot : slot = findDirSlot(d[b].recs, rec.key) OBVIOUS
<1>2. d[b] \in Pages /\ own \in SUBSET Int /\ rec \in Entry BY DEF Awaits
<1>3. d[b].recs \in Seq(Entry) /\ rec.key \in Int BY <1>2, KeysAreIntegers DEF Pages, Entry
<1>4. slot \in 0..Len(d[b].recs)
  <2>1. IsSlot(d[b].recs, rec.key, slot) BY <1>1, <1>3, SlotIs
  <2> QED BY <2>1 DEF IsSlot
<1>5. /\ DOMAIN new = DOMAIN d /\ \A x \in DOMAIN d \ {b} : new[x] = d[x]
      /\ new[b] \in Pages
      /\ new[b].extra1 = d[b].extra1 /\ new[b].extra2 = d[b].extra2
      /\ Longer(d[b].recs, slot, rec, new[b].recs)
  BY <1>1, <1>2, <1>4, InsertEffect
<1>6. PICK page, more, n : page = d[b] /\ more = new[b] /\ n = rec.val OBVIOUS
<1>7. Fit(more, own, R)
  <2>1. Half(M, R, c, n, rec.key) /\ rec.val = n /\ rec.key \in own BY <1>6 DEF Awaits
  <2>2. Fit(page, own, M) /\ page \in Pages /\ more \in Pages
        /\ more.extra2 = page.extra2
    BY <1>5, <1>6 DEF Awaits
  <2>3. Longer(page.recs, findDirSlot(page.recs, rec.key), rec, more.recs)
    BY <1>1, <1>5, <1>6
  <2>4. \A s \in 0..Len(page.recs) :
          /\ ChildAt(page, s) \in DOMAIN R
          /\ rec.key \in M[ChildAt(page, s)] => ChildAt(page, s) = c
    BY <1>6 DEF Awaits
  <2> QED BY <2>1, <2>2, <2>3, <2>4, <1>2, FitInsert
<1> QED BY <1>5, <1>6, <1>7

(* The parent has room for the record. *)
LEMMA RoomInParent ==
  ASSUME NEW d, NEW RD, NEW RL, NEW level \in Nat, NEW M, NEW c, NEW rec, NEW b,
         AtParent(d, RD, RL, level, M, c, rec, b),
         NEW new, new = doInsert(d, b, findDirSlot(d[b].recs, rec.key), rec),
         NEW res, res = [file |-> new, split |-> NoSplit]
  PROVE  Passed(d, RD, RL, level, b, res)
<1>1. PICK R : ParentFits(d, RD, RL, M, c, rec, b, R) BY ParentReady
<1>2. /\ Directory(d, DOMAIN RL) /\ Shares(d, RD) /\ b \in DOMAIN d /\ d[b].extra1 = level
      /\ IF level > d[Root].extra1 THEN c = Root /\ M[Root] = Int ELSE RD[Root] = Int
      /\ \A x \in DOMAIN d :
           RD[x] # {} => Fit(d[x], RD[x], IF d[x].extra1 = level THEN M ELSE Sub(d[x], RD, RL))
  BY DEF AtParent, Due
<1>3. d[b] \in Pages /\ level <= d[Root].extra1 /\ d[Root].extra1 \in Nat
  <2>1. d[b] \in Pages /\ level <= d[Root].extra1 BY <1>2, DirPageIs
  <2>2. Root \in DOMAIN d BY <1>2, RootExists DEF Directory
  <2> QED BY <2>1, <2>2, <1>2, DirPageIs
<1>4. /\ DOMAIN new = DOMAIN d /\ \A x \in DOMAIN d \ {b} : new[x] = d[x]
      /\ new[b].extra1 = d[b].extra1 /\ Fit(new[b], RD[b], R)
  <2>1. Awaits(d[b], RD[b], M, R, c, rec) BY <1>1, <1>3 DEF ParentFits, Awaits
  <2> QED BY <2>1, <1>2, RecordFits
<1>5. RD[Root] = Int BY <1>2, <1>3
<1>6. Shares(new, RD)
  <2>1. \A x \in DOMAIN d : new[x].extra1 = d[x].extra1 BY <1>4
  <2> QED BY <2>1, <1>2, <1>4 DEF Shares
<1>7. ASSUME NEW x \in DOMAIN new, RD[x] # {} PROVE Fit(new[x], RD[x], Sub(new[x], RD, RL))
  <2>1. CASE x = b
    <3>1. Sub(new[b], RD, RL) = R BY <1>1, <1>4 DEF Sub, ParentFits
    <3> QED BY <3>1, <2>1, <1>4
  <2>2. CASE x # b /\ d[x].extra1 = level
    <3>1. new[x] = d[x] /\ x \in DOMAIN d \ {b} BY <2>2, <1>4
    <3>2. Sub(d[x], RD, RL) = R BY <2>2, <1>1, <1>2 DEF Sub, ParentFits
    <3>3. Fit(d[x], RD[x], R) BY <3>1, <2>2, <1>1, <1>2, <1>7 DEF ParentFits
    <3> QED BY <3>1, <3>2, <3>3
  <2>3. CASE x # b /\ d[x].extra1 # level
    <3>1. new[x] = d[x] /\ x \in DOMAIN d BY <2>3, <1>4
    <3>2. Fit(d[x], RD[x], Sub(d[x], RD, RL)) BY <3>1, <2>3, <1>2, <1>7
    <3> QED BY <3>1, <3>2
  <2> QED BY <2>1, <2>2, <2>3
<1>8. Ranked(new, RD, RL) BY <1>5, <1>6, <1>7 DEF Ranked
<1>9. \A x \in DOMAIN d : d[x].extra1 > level => new[x] = d[x]
  <2>1. \A x \in DOMAIN d : d[x].extra1 > level => x # b BY <1>2
  <2> QED BY <2>1, <1>4
<1>10. res.file = new /\ res.split = NoSplit OBVIOUS
<1> QED BY <1>8, <1>9, <1>10 DEF Passed

(* The ranges of a page and of the new one that has taken its upper half *)
Divided(D, RD, b, n, K) ==
  [x \in D |-> IF x = b THEN {k \in RD[b] : k < K}
               ELSE IF x = n THEN {k \in RD[b] : k >= K} ELSE RD[x]]

Merged(D, RD, n) == [x \in D |-> IF x = n THEN {} ELSE RD[x]]

LEMMA DividedIsHalf ==
  ASSUME NEW D, NEW RD, NEW b \in D, NEW n \in D, b # n, NEW K \in RD[b],
         RD[b] \in SUBSET Int, \E k \in RD[b] : k < K
  PROVE  Half(Merged(D, RD, n), Divided(D, RD, b, n, K), b, n, K)
BY DEF Half, Merged, Divided

(* A half of a page, the one that gets the record or the other *)
LEMMA HalfPage ==
  ASSUME NEW page, NEW own, NEW M, NEW R, NEW c, NEW rec,
         Awaits(page, own, M, R, c, rec),
         NEW half \in Pages, NEW part \in SUBSET Int, Fit(half, part, M),
         \A s \in 0..Len(half.recs) :
           \E t \in 0..Len(page.recs) : ChildAt(half, s) = ChildAt(page, t)
  PROVE  IF rec.key \in part THEN Awaits(half, part, M, R, c, rec) ELSE Fit(half, part, R)
<1>1. /\ rec \in Entry /\ Half(M, R, c, rec.val, rec.key)
      /\ \A s \in 0..Len(page.recs) :
           /\ ChildAt(page, s) \in DOMAIN R
           /\ rec.key \in M[ChildAt(page, s)] => ChildAt(page, s) = c
  BY DEF Awaits
<1>2. \A s \in 0..Len(half.recs) :
        /\ ChildAt(half, s) \in DOMAIN R
        /\ rec.key \in M[ChildAt(half, s)] => ChildAt(half, s) = c
  BY <1>1
<1>3. Len(half.recs) \in Nat BY DEF Pages
<1>4. rec.key \in part => Awaits(half, part, M, R, c, rec) BY <1>1, <1>2 DEF Awaits
<1>5. rec.key \notin part => Fit(half, part, R) BY <1>1, <1>2, <1>3, FitElsewhere
<1> QED BY <1>4, <1>5

(* What the halves of the parent, with the record in one of them, lead to *)
HalvesFit(d, RD, RL, b, n, K, new) ==
  /\ n \in Nat /\ n \notin DOMAIN d /\ K \in RD[b] /\ K \in Int /\ \E k \in RD[b] : k < K
  /\ DOMAIN new = DOMAIN d \union {n} /\ \A x \in DOMAIN d \ {b} : new[x] = d[x]
  /\ new[b].extra1 = d[b].extra1 /\ new[n].extra1 = d[b].extra1
  /\ Fit(new[b], {k \in RD[b] : k < K}, Sub(d[b], RD, RL))
  /\ Fit(new[n], {k \in RD[b] : k >= K}, Sub(d[b], RD, RL))

LEMMA HalvesInParent ==
  ASSUME NEW d, NEW RD, NEW RL, NEW M, NEW c, NEW rec, NEW b \in DOMAIN d, d[b] \in Pages,
         NEW R, ParentFits(d, RD, RL, M, c, rec, b, R),
         NEW res, NEW pos, NEW lo, NEW hi, NEW n, NEW halves,
         HalvesMade(d, b, rec, res, pos, lo, hi, n, halves)
  PROVE  /\ HalvesFit(d, RD, RL, b, n, hi[1].key, res.file)
         /\ res.split = [key |-> hi[1].key, val |-> n]
<1>1. PICK page, own, lower, upper, K : /\ page = d[b] /\ own = RD[b]
                                        /\ lower = halves[b] /\ upper = halves[n]
                                        /\ K = hi[1].key
  OBVIOUS
<1>2. /\ n \in Nat /\ n \notin DOMAIN d /\ b # n
      /\ pos \in 1..Len(page.recs) /\ pos < Len(page.recs) /\ Cut(page.recs, pos, lo, hi)
      /\ DOMAIN halves = DOMAIN d \union {n}
      /\ \A x \in DOMAIN d \ {b} : halves[x] = d[x]
  BY <1>1 DEF HalvesMade, HalvesAre
<1>3. /\ lower.recs = lo /\ lower.extra1 = page.extra1 /\ lower.extra2 = page.extra2
      /\ upper.recs = Tail(hi) /\ upper.extra1 = page.extra1 /\ upper.extra2 = hi[1].val
      /\ lower \in Pages /\ upper \in Pages
  BY <1>1 DEF HalvesMade, HalvesAre
<1>4. R = Sub(page, RD, RL) /\ Awaits(page, own, M, R, c, rec)
  BY <1>1 DEF ParentFits, Awaits
<1>5. own \in SUBSET Int /\ Fit(page, own, M) /\ page \in Pages BY <1>4 DEF Awaits
<1>6. Parted(page, own, M, K, lower, upper)
  <2>1. Len(page.recs) \in Nat BY <1>5 DEF Pages
  <2>2. pos \in 0..Len(page.recs) BY <1>2, <2>1
  <2> QED BY <2>2, <1>1, <1>2, <1>3, <1>5, FitParted
<1>7. PICK below, above : below = {k \in own : k < K} /\ above = {k \in own : k >= K} OBVIOUS
<1>8. /\ K \in own /\ Fit(lower, below, M) /\ Fit(upper, above, M)
      /\ \A s \in 0..Len(lower.recs) :
           \E t \in 0..Len(page.recs) : ChildAt(lower, s) = ChildAt(page, t)
      /\ \A s \in 0..Len(upper.recs) :
           \E t \in 0..Len(page.recs) : ChildAt(upper, s) = ChildAt(page, t)
      /\ \E k \in own : k < K
  BY <1>6, <1>7 DEF Parted
<1>9. below \in SUBSET Int /\ above \in SUBSET Int BY <1>5, <1>7
<1>10. IF rec.key \in below THEN Awaits(lower, below, M, R, c, rec) ELSE Fit(lower, below, R)
  <2>1. /\ Awaits(page, own, M, R, c, rec) /\ lower \in Pages /\ below \in SUBSET Int
        /\ Fit(lower, below, M)
    BY <1>3, <1>4, <1>8, <1>9
  <2>2. \A s \in 0..Len(lower.recs) :
          \E t \in 0..Len(page.recs) : ChildAt(lower, s) = ChildAt(page, t)
    BY <1>8
  <2> QED BY <2>1, <2>2, HalfPage
<1>11. IF rec.key \in above THEN Awaits(upper, above, M, R, c, rec) ELSE Fit(upper, above, R)
  <2>1. /\ Awaits(page, own, M, R, c, rec) /\ upper \in Pages /\ above \in SUBSET Int
        /\ Fit(upper, above, M)
    BY <1>3, <1>4, <1>8, <1>9
  <2>2. \A s \in 0..Len(upper.recs) :
          \E t \in 0..Len(page.recs) : ChildAt(upper, s) = ChildAt(page, t)
    BY <1>8
  <2> QED BY <2>1, <2>2, HalfPage
<1>12. rec.key \in own /\ rec.key \in Int /\ K \in Int
  <2>1. rec.key \in own BY <1>4 DEF Awaits
  <2> QED BY <2>1, <1>5, <1>8
<1>13. PICK to : to = IF rec.key < K THEN b ELSE n OBVIOUS
<1>14. res = [file |-> doInsert(halves, to, findDirSlot(halves[to].recs, rec.key), rec),
              split |-> [key |-> K, val |-> n]]
  BY <1>1, <1>13 DEF HalvesMade
<1>15. PICK new : new = res.file OBVIOUS
<1>16. new = doInsert(halves, to, findDirSlot(halves[to].recs, rec.key), rec)
  BY <1>14, <1>15
<1>17. b \in DOMAIN halves /\ n \in DOMAIN halves BY <1>2
<1>18. /\ DOMAIN new = DOMAIN halves /\ \A x \in DOMAIN d \ {b} : new[x] = d[x]
       /\ new[b].extra1 = page.extra1 /\ new[n].extra1 = page.extra1
       /\ Fit(new[b], below, R) /\ Fit(new[n], above, R)
  <2>1. CASE rec.key < K
    <3>1. to = b /\ rec.key \in below /\ rec.key \notin above
      BY <2>1, <1>7, <1>12, <1>13
    <3>2. Awaits(halves[b], below, M, R, c, rec) /\ Fit(upper, above, R)
      BY <3>1, <1>1, <1>10, <1>11
    <3>3. new = doInsert(halves, b, findDirSlot(halves[b].recs, rec.key), rec)
      BY <3>1, <1>16
    <3>4. /\ DOMAIN new = DOMAIN halves /\ \A x \in DOMAIN halves \ {b} : new[x] = halves[x]
          /\ new[b].extra1 = halves[b].extra1 /\ Fit(new[b], below, R)
      BY <3>2, <3>3, <1>17, RecordFits
    <3>5. new[n] = upper BY <3>4, <1>1, <1>2
    <3> QED BY <3>2, <3>4, <3>5, <1>1, <1>2, <1>3
  <2>2. CASE ~(rec.key < K)
    <3>1. to = n /\ rec.key \in above /\ rec.key \notin below
      BY <2>2, <1>7, <1>12, <1>13
    <3>2. Awaits(halves[n], above, M, R, c, rec) /\ Fit(lower, below, R)
      BY <3>1, <1>1, <1>10, <1>11
    <3>3. new = doInsert(halves, n, findDirSlot(halves[n].recs, rec.key), rec)
      BY <3>1, <1>16
    <3>4. /\ DOMAIN new = DOMAIN halves /\ \A x \in DOMAIN halves \ {n} : new[x] = halves[x]
          /\ new[n].extra1 = halves[n].extra1 /\ Fit(new[n], above, R)
      BY <3>2, <3>3, <1>17, RecordFits
    <3>5. new[b] = lower BY <3>4, <1>1, <1>2
    <3> QED BY <3>2, <3>4, <3>5, <1>1, <1>2, <1>3
  <2> QED BY <2>1, <2>2
<1>19. HalvesFit(d, RD, RL, b, n, K, new)
  BY <1>1, <1>2, <1>4, <1>7, <1>8, <1>12, <1>18 DEF HalvesFit
<1> QED BY <1>1, <1>14, <1>15, <1>19

(* The parent is full: it is split in its turn. *)
LEMMA ParentParted ==
  ASSUME NEW d, NEW RD, NEW RL, NEW level \in Nat, NEW M, NEW c, NEW rec, NEW b,
         AtParent(d, RD, RL, level, M, c, rec, b),
         NEW n, NEW K, NEW res, HalvesFit(d, RD, RL, b, n, K, res.file),
         Directory(res.file, DOMAIN RL), res.split = [key |-> K, val |-> n]
  PROVE  Passed(d, RD, RL, level, b, res)
<1>1. PICK R : ParentFits(d, RD, RL, M, c, rec, b, R) BY ParentReady
<1>2. /\ Directory(d, DOMAIN RL) /\ Shares(d, RD) /\ b \in DOMAIN d /\ d[b].extra1 = level
      /\ IF level > d[Root].extra1 THEN c = Root /\ M[Root] = Int ELSE RD[Root] = Int
      /\ \A x \in DOMAIN d :
           RD[x] # {} => Fit(d[x], RD[x], IF d[x].extra1 = level THEN M ELSE Sub(d[x], RD, RL))
      /\ level = d[Root].extra1 => b = Root
  BY DEF AtParent, Due
<1>3. PICK new : new = res.file OBVIOUS
<1>4. /\ n \in Nat /\ n \notin DOMAIN d /\ K \in RD[b] /\ K \in Int /\ \E k \in RD[b] : k < K
      /\ DOMAIN new = DOMAIN d \union {n} /\ \A x \in DOMAIN d \ {b} : new[x] = d[x]
      /\ new[b].extra1 = level /\ new[n].extra1 = level
      /\ Fit(new[b], {k \in RD[b] : k < K}, Sub(d[b], RD, RL))
      /\ Fit(new[n], {k \in RD[b] : k >= K}, Sub(d[b], RD, RL))
  BY <1>2, <1>3 DEF HalvesFit
<1>5. PICK RD2, M2 : RD2 = Divided(DOMAIN new, RD, b, n, K) /\ M2 = Merged(DOMAIN new, RD, n)
  OBVIOUS
<1>6. /\ RD2[b] = {k \in RD[b] : k < K} /\ RD2[n] = {k \in RD[b] : k >= K}
      /\ M2[n] = {}
  BY <1>2, <1>4, <1>5 DEF Divided, Merged
<1>7. \A x \in DOMAIN d \ {b} : RD2[x] = RD[x] BY <1>4, <1>5 DEF Divided
<1>8. \A x \in DOMAIN d : M2[x] = RD[x] BY <1>4, <1>5 DEF Merged
<1>9. RD \in [DOMAIN d -> SUBSET Int] /\ RD[b] \in SUBSET Int BY <1>2 DEF Shares
<1>10. Directory(new, DOMAIN RL) BY <1>3
<1>11. d[Root].extra1 \in Nat /\ level <= d[Root].extra1 /\ Root \in DOMAIN d /\ n # Root
       /\ \A x \in DOMAIN d : d[x].extra1 \in Nat
  <2>1. Root \in DOMAIN d BY <1>2, RootExists DEF Directory
  <2> QED BY <2>1, <1>2, <1>4, DirPageIs
<1>12. \A x \in DOMAIN d : new[x].extra1 = d[x].extra1 BY <1>2, <1>4
<1>13. RD[Root] = Int BY <1>2, <1>11
<1>14. Half(M2, RD2, b, n, K)
  <2>1. b \in DOMAIN new /\ n \in DOMAIN new /\ b # n BY <1>2, <1>4
  <2> QED BY <2>1, <1>4, <1>5, <1>9, DividedIsHalf
<1>15. Shares(new, RD2)
  <2>1. RD2 \in [DOMAIN new -> SUBSET Int] BY <1>4, <1>5, <1>9 DEF Divided
  <2>2. ASSUME NEW x \in DOMAIN new, NEW y \in DOMAIN new, x # y, new[x].extra1 = new[y].extra1
        PROVE  RD2[x] \intersect RD2[y] = {}
    <3>1. CASE x \in {b, n} /\ y \in {b, n}
      <4>1. RD2[b] \intersect RD2[n] = {} BY <1>4, <1>6, <1>9
      <4> QED BY <4>1, <3>1, <2>2
    <3>2. CASE x \in {b, n} /\ y \notin {b, n}
      <4>1. y \in DOMAIN d /\ d[y].extra1 = d[b].extra1 /\ b # y
        BY <3>2, <2>2, <1>2, <1>4, <1>12
      <4>2. RD[b] \intersect RD[y] = {} BY <4>1, <1>2 DEF Shares
      <4>3. RD2[y] = RD[y] /\ RD2[x] \subseteq RD[b] BY <3>2, <4>1, <1>6, <1>7
      <4> QED BY <4>2, <4>3
    <3>3. CASE x \notin {b, n} /\ y \in {b, n}
      <4>1. x \in DOMAIN d /\ d[x].extra1 = d[b].extra1 /\ b # x
        BY <3>3, <2>2, <1>2, <1>4, <1>12
      <4>2. RD[b] \intersect RD[x] = {} BY <4>1, <1>2 DEF Shares
      <4>3. RD2[x] = RD[x] /\ RD2[y] \subseteq RD[b] BY <3>3, <4>1, <1>6, <1>7
      <4> QED BY <4>2, <4>3
    <3>4. CASE x \notin {b, n} /\ y \notin {b, n}
      <4>1. x \in DOMAIN d /\ y \in DOMAIN d /\ d[x].extra1 = d[y].extra1
        BY <3>4, <2>2, <1>4, <1>12
      <4>2. RD[x] \intersect RD[y] = {} BY <4>1, <2>2, <1>2 DEF Shares
      <4> QED BY <3>4, <4>1, <4>2, <1>7
    <3> QED BY <3>1, <3>2, <3>3, <3>4
  <2> QED BY <2>1, <2>2 DEF Shares
<1>16. IF level + 1 > new[Root].extra1 THEN b = Root /\ M2[Root] = Int ELSE RD2[Root] = Int
  <2>1. new[Root].extra1 = d[Root].extra1 /\ M2[Root] = Int BY <1>8, <1>11, <1>12, <1>13
  <2>2. level # d[Root].extra1 => b # Root BY <1>2
  <2>3. b # Root => RD2[Root] = Int BY <1>7, <1>11, <1>13
  <2> QED BY <2>1, <2>2, <2>3, <1>2, <1>11
<1>17. \A y \in DOMAIN new : new[y].extra1 # level => RD2[y] = RD[y]
  BY <1>4, <1>7
<1>18. ASSUME NEW x \in DOMAIN new, new[x].extra1 # level + 1, NEW own,
              Fit(new[x], own, Sub(new[x], RD, RL))
       PROVE  Fit(new[x], own, Sub(new[x], RD2, RL))
  <2>1. new[x].extra1 \in Nat BY <1>10, DirPageIs
  <2>2. \A y \in DOMAIN new : new[y].extra1 = new[x].extra1 - 1 => RD2[y] = RD[y]
    BY <2>1, <1>17, <1>18
  <2> QED BY <2>2, <1>10, <1>18, FitMoved
<1>19. ASSUME NEW x \in DOMAIN new, RD2[x] # {}
       PROVE  Fit(new[x], RD2[x], IF new[x].extra1 = level + 1 THEN M2
                                  ELSE Sub(new[x], RD2, RL))
  <2>1. CASE x \in {b, n}
    <3>1. Sub(new[x], RD, RL) = Sub(d[b], RD, RL) /\ new[x].extra1 # level + 1
      BY <2>1, <1>2, <1>4 DEF Sub
    <3>2. Fit(new[x], RD2[x], Sub(new[x], RD, RL)) BY <2>1, <3>1, <1>4, <1>6
    <3> QED BY <3>1, <3>2, <1>18
  <2>2. CASE x \notin {b, n}
    <3>1. /\ x \in DOMAIN d \ {b} /\ new[x] = d[x] /\ RD2[x] = RD[x] /\ RD[x] # {}
          /\ d[x].extra1 \in Nat
      BY <2>2, <1>4, <1>7, <1>11, <1>19
    <3>2. CASE d[x].extra1 = level
      <4>1. Fit(d[x], RD[x], R) BY <3>1, <3>2, <1>1, <1>2 DEF ParentFits
      <4>2. R = Sub(d[x], RD, RL) BY <3>2, <1>1, <1>2 DEF ParentFits, Sub
      <4>3. new[x].extra1 # level + 1 BY <3>1, <3>2
      <4> QED BY <3>1, <4>1, <4>2, <4>3, <1>18
    <3>3. CASE d[x].extra1 = level + 1
      <4>1. d[x].extra1 # 0 /\ d[x].extra1 # level BY <3>3
      <4>2. Fit(d[x], RD[x], RD) BY <3>1, <4>1, <1>2 DEF Sub
      <4>3. ASSUME NEW s \in 0..Len(d[x].recs)
            PROVE  M2[ChildAt(d[x], s)] = RD[ChildAt(d[x], s)]
        <5>1. IsChild(d, DOMAIN RL, d[x].extra1, ChildAt(d[x], s)) BY <3>1, <1>2, ChildLevel
        <5> QED BY <5>1, <4>1, <1>8 DEF IsChild
      <4>4. Len(d[x].recs) \in Nat BY <3>1, <1>2, DirPageIs
      <4>5. Fit(d[x], RD[x], M2) BY <4>2, <4>3, <4>4, FitWith
      <4> QED BY <3>1, <3>3, <4>5
    <3>4. CASE d[x].extra1 # level /\ d[x].extra1 # level + 1
      <4>1. Fit(d[x], RD[x], Sub(d[x], RD, RL)) BY <3>1, <3>4, <1>2
      <4> QED BY <3>1, <3>4, <4>1, <1>18
    <3> QED BY <3>2, <3>3, <3>4
  <2> QED BY <2>1, <2>2
<1>20. Due(new, RD2, RL, level + 1, M2, b, res.split)
  <2>1. level + 1 # 0 /\ res.split.val = n /\ res.split.key = K OBVIOUS
  <2> QED BY <2>1, <1>14, <1>15, <1>16, <1>19 DEF Due
<1>21. \A x \in DOMAIN d : d[x].extra1 > level => new[x] = d[x] /\ RD2[x] = RD[x]
  <2>1. \A x \in DOMAIN d : d[x].extra1 > level => x # b BY <1>2
  <2> QED BY <2>1, <1>4, <1>7
<1>22. res.split # NoSplit BY <1>4 DEF NoSplit
<1> QED BY <1>3, <1>20, <1>21, <1>22 DEF Passed

LEMMA EntryPassed ==
  ASSUME NEW d, NEW RD, NEW RL, NEW level \in Nat, NEW M, NEW c, NEW rec, NEW b,
         AtParent(d, RD, RL, level, M, c, rec, b),
         NEW res, res = insertEntry(d, b, rec)
  PROVE  Passed(d, RD, RL, level, b, res)
<1>1. PICK leaves \in SUBSET Nat : leaves = DOMAIN RL BY DEF AtParent
<1>2. /\ Directory(d, leaves) /\ b \in DOMAIN d /\ d[b].extra1 = level
      /\ Pending(d, leaves, d[b].extra1, rec)
  BY <1>1 DEF AtParent
<1>3. rec \in Entry BY <1>2 DEF Pending, Entry
<1>4. Inserted(d, leaves, d[b].extra1, res) BY <1>2, EntryInserted
<1>5. Directory(res.file, DOMAIN RL) BY <1>1, <1>4 DEF Inserted
<1>6. EntryParts(d, b, rec, res) BY <1>2, <1>3, EntryIs
<1>7. CASE res = [file |-> doInsert(d, b, findDirSlot(d[b].recs, rec.key), rec),
                  split |-> NoSplit]
  <2>1. PICK new : new = doInsert(d, b, findDirSlot(d[b].recs, rec.key), rec) OBVIOUS
  <2>2. res = [file |-> new, split |-> NoSplit] BY <1>7, <2>1
  <2> QED BY <2>1, <2>2, RoomInParent
<1>8. CASE \E pos, lo, hi, n, halves : HalvesMade(d, b, rec, res, pos, lo, hi, n, halves)
  <2>1. PICK pos, lo, hi, n, halves : HalvesMade(d, b, rec, res, pos, lo, hi, n, halves)
    BY <1>8
  <2>2. PICK R : ParentFits(d, RD, RL, M, c, rec, b, R) BY ParentReady
  <2>3. d[b] \in Pages BY <1>2, DirPageIs
  <2>4. /\ HalvesFit(d, RD, RL, b, n, hi[1].key, res.file)
        /\ res.split = [key |-> hi[1].key, val |-> n]
    BY <2>1, <2>2, <2>3, <1>2, HalvesInParent
  <2> QED BY <2>4, <1>5, ParentParted
<1> QED BY <1>6, <1>7, <1>8 DEF EntryParts

(* The leaf that a search ends in has a key that is not greater in its range. *)
Reaches(d, RL) ==
  \A k \in Int : /\ search(d, k) \in DOMAIN RL
                 /\ \E x \in RL[search(d, k)] : x <= k

Below(range, k) == \E x \in range : x <= k

(* With a key not below its range a page leads to a child of which the same  *)
(* is true.                                                                  *)
LEMMA FitLow ==
  ASSUME NEW page \in Pages, NEW own \in SUBSET Int, NEW sub, Fit(page, own, sub),
         NEW k \in Int, Below(own, k)
  PROVE  Below(sub[findChildBlock(page, k)], k)
<1>1. page.recs \in Seq(Entry) BY DEF Pages, Entry
<1>2. PICK s : s = findDirSlot(page.recs, k) OBVIOUS
<1>3. s \in 0..Len(page.recs) /\ findChildBlock(page, k) = ChildAt(page, s)
  BY <1>2, ChildFor
<1>4. PICK x \in own : x <= k BY DEF Below
<1>5. PICK t : t = findDirSlot(page.recs, x) OBVIOUS
<1>6. t \in 0..Len(page.recs) BY <1>4, <1>5, ChildFor
<1>7. t <= s BY <1>1, <1>2, <1>4, <1>5, SlotGrows
<1>8. CASE t = s
  <2>1. x \in sub[ChildAt(page, s)] BY <1>3, <1>4, <1>5, <1>8 DEF Fit
  <2> QED BY <2>1, <1>3, <1>4 DEF Below
<1>9. CASE t # s
  <2>1. s \in 1..Len(page.recs) BY <1>3, <1>6, <1>7, <1>9
  <2>2. page.recs[s].key \in sub[ChildAt(page, s)] BY <2>1 DEF Fit
  <2>3. IsSlot(page.recs, k, s) BY <1>1, <1>2, SlotIs
  <2>4. page.recs[s].key <= k BY <2>1, <2>3 DEF IsSlot
  <2> QED BY <2>2, <2>4, <1>3 DEF Below
<1> QED BY <1>8, <1>9

(* The lower half of a range goes on to be reached. *)
LEMMA HalfLow ==
  ASSUME NEW M, NEW R, NEW c, NEW n, NEW K \in Int, Half(M, R, c, n, K),
         NEW x \in DOMAIN R, NEW k \in Int, Below(M[x], k)
  PROVE  Below(R[x], k)
<1>1. PICK y \in M[x] : y <= k BY DEF Below
<1>2. CASE x \notin {c, n}
  <2>1. R[x] = M[x] BY <1>2 DEF Half
  <2> QED BY <2>1, <1>1 DEF Below
<1>3. CASE x = n BY <1>1, <1>3 DEF Half
<1>4. CASE x = c
  <2>1. M[c] \in SUBSET Int /\ R[c] = {j \in M[c] : j < K} /\ R[c] # {} BY DEF Half
  <2>2. PICK z : z \in R[c] BY <2>1
  <2>3. z \in Int /\ z < K /\ y \in Int BY <2>1, <2>2, <1>1, <1>4
  <2>4. CASE y < K
    <3>1. y \in R[c] BY <2>1, <2>4, <1>1, <1>4
    <3> QED BY <3>1, <1>1, <1>4 DEF Below
  <2>5. CASE ~(y < K)
    <3>1. z <= k BY <2>3, <2>5, <1>1
    <3> QED BY <3>1, <2>2, <1>4 DEF Below
  <2> QED BY <2>4, <2>5
<1> QED BY <1>2, <1>3, <1>4

(* The keys from that of a record on are not below the range of its child. *)
LowChildren(page, sub) ==
  \A s \in 1..Len(page.recs) : \A k \in Int :
    page.recs[s].key <= k => Below(sub[ChildAt(page, s)], k)

LEMMA FitChildren ==
  ASSUME NEW page \in Pages, NEW own, NEW sub, Fit(page, own, sub)
  PROVE  LowChildren(page, sub)
<1> SUFFICES ASSUME NEW s \in 1..Len(page.recs), NEW k \in Int, page.recs[s].key <= k
             PROVE  Below(sub[ChildAt(page, s)], k)
  BY DEF LowChildren
<1>1. page.recs[s].key \in sub[ChildAt(page, s)] BY DEF Fit
<1> QED BY <1>1 DEF Below

(* Every page leads on with the keys that are not below its range. *)
Low(d, RD, RL) ==
  /\ RD \in [DOMAIN d -> SUBSET Int]
  /\ \A k \in Int : Below(RD[Root], k)
  /\ \A b \in DOMAIN d : \A k \in Int :
       Below(RD[b], k) => Below(Sub(d[b], RD, RL)[findChildBlock(d[b], k)], k)
  /\ \A b \in DOMAIN d : RD[b] # {} => LowChildren(d[b], Sub(d[b], RD, RL))

LEMMA LowReaches ==
  ASSUME NEW d, NEW RD, NEW RL, Directory(d, DOMAIN RL), Root \in DOMAIN d, Low(d, RD, RL)
  PROVE  Reaches(d, RL)
<1> SUFFICES ASSUME NEW k \in Int
             PROVE  search(d, k) \in DOMAIN RL /\ Below(RL[search(d, k)], k)
  BY DEF Reaches, Below
<1> DEFINE child(b) == findChildBlock(d[b], k)
           Step(f, b) == IF d[b].extra1 = 0 THEN child(b) ELSE f[child(b)]
<1>1. PICK below : search(d, k) = below[Root]
                   /\ \A b \in DOMAIN d : below[b] = Step(below, b)
  BY SearchUnfolds
<1>2. ASSUME NEW b \in DOMAIN d
      PROVE  /\ d[b].extra1 \in Nat
             /\ d[b].extra1 # 0 =>
                  child(b) \in DOMAIN d /\ d[child(b)].extra1 = d[b].extra1 - 1
  BY Descent DEF IsChild
<1>3. ASSUME NEW b \in DOMAIN d, Below(RD[b], k)
      PROVE  IF d[b].extra1 = 0 THEN Below(RL[child(b)], k) ELSE Below(RD[child(b)], k)
  BY <1>3 DEF Low, Sub
<1> HIDE DEF child
<1>4. ASSUME NEW n \in Nat
      PROVE  \A b \in DOMAIN d : d[b].extra1 = n /\ Below(RD[b], k) => Below(RL[below[b]], k)
  <2> DEFINE Bad == {m \in Nat : \E b \in DOMAIN d :
                       d[b].extra1 = m /\ Below(RD[b], k) /\ ~Below(RL[below[b]], k)}
  <2> SUFFICES ASSUME Bad # {} PROVE FALSE OBVIOUS
  <2>1. PICK m : m \in Bad /\ \A i \in Bad : m <= i
    <3>1. Bad \subseteq Nat OBVIOUS
    <3> HIDE DEF Bad
    <3> QED BY <3>1, LeastExists
  <2>2. PICK b \in DOMAIN d : d[b].extra1 = m /\ Below(RD[b], k) /\ ~Below(RL[below[b]], k)
    BY <2>1
  <2>3. below[b] = Step(below, b) BY <1>1
  <2>4. CASE m = 0 BY <2>2, <2>3, <2>4, <1>3
  <2>5. CASE m # 0
    <3>1. below[b] = below[child(b)] /\ child(b) \in DOMAIN d
          /\ d[child(b)].extra1 = m - 1 /\ m - 1 \in Nat
      BY <2>1, <2>2, <2>3, <2>5, <1>2
    <3>2. Below(RD[child(b)], k) BY <2>2, <2>5, <1>3
    <3>3. m - 1 \notin Bad BY <3>1, <2>1
    <3> QED BY <3>1, <3>2, <3>3, <2>2
  <2> QED BY <2>4, <2>5
<1>5. Below(RD[Root], k) BY DEF Low
<1>6. Below(RL[below[Root]], k) BY <1>2, <1>4, <1>5
<1>7. search(d, k) \in DOMAIN RL BY SearchTyped
<1> QED BY <1>1, <1>6, <1>7

LEMMA RankedLow ==
  ASSUME NEW d, NEW RD, NEW RL, Directory(d, DOMAIN RL), Root \in DOMAIN d, Ranked(d, RD, RL)
  PROVE  Low(d, RD, RL)
<1>1. RD \in [DOMAIN d -> SUBSET Int] /\ RD[Root] = Int BY DEF Ranked, Shares
<1>2. \A k \in Int : Below(RD[Root], k)
  <2>1. \A k \in Int : k <= k OBVIOUS
  <2> QED BY <2>1, <1>1 DEF Below
<1>3. ASSUME NEW b \in DOMAIN d, NEW k \in Int, Below(RD[b], k)
      PROVE  Below(Sub(d[b], RD, RL)[findChildBlock(d[b], k)], k)
  <2>1. RD[b] # {} BY <1>3 DEF Below
  <2>2. Fit(d[b], RD[b], Sub(d[b], RD, RL)) BY <2>1 DEF Ranked
  <2>3. d[b] \in Pages BY DirPageIs
  <2> QED BY <2>2, <2>3, <1>1, <1>3, FitLow
<1>4. ASSUME NEW b \in DOMAIN d, RD[b] # {}
      PROVE  LowChildren(d[b], Sub(d[b], RD, RL))
  <2>1. Fit(d[b], RD[b], Sub(d[b], RD, RL)) BY <1>4 DEF Ranked
  <2>2. d[b] \in Pages BY DirPageIs
  <2> QED BY <2>1, <2>2, FitChildren
<1> QED BY <1>1, <1>2, <1>3, <1>4 DEF Low

Leads(d, RL) == \E RD : Low(d, RD, RL)

(* A page of the directory that has been cut in the middle, and the upper     *)
(* half not entered above it: what led to that half leads to the last child   *)
(* of the lower one.                                                         *)
LEMMA HalvesLead ==
  ASSUME NEW d, NEW RL, Directory(d, DOMAIN RL), DOMAIN RL \in SUBSET Nat, Root \in DOMAIN d,
         Leads(d, RL), NEW b \in DOMAIN d, isFull(d[b], DirCapacity),
         NEW new, new = DirHalves(d, b)
  PROVE  Reaches(new, RL)
<1>1. PICK RD : Low(d, RD, RL) BY DEF Leads
<1>2. PICK n : n = Size(d) OBVIOUS
<1>3. PICK leaves \in SUBSET Nat : leaves = DOMAIN RL OBVIOUS
<1>4. PICK pos, lo, hi : HalvesAre(d, b, pos, lo, hi, n, new)
  BY <1>2, <1>3, HalvesKnown
<1>5. /\ n \notin DOMAIN d /\ pos \in 1..Len(d[b].recs)
      /\ Cut(d[b].recs, pos, lo, hi)
      /\ DOMAIN new = DOMAIN d \union {n}
      /\ \A x \in DOMAIN d \ {b} : new[x] = d[x]
      /\ new[b].recs = lo /\ new[b].extra1 = d[b].extra1 /\ new[b].extra2 = d[b].extra2
      /\ new[b] \in Pages
  BY <1>4 DEF HalvesAre
<1>6. PICK page, lower : page = d[b] /\ lower = new[b] OBVIOUS
<1>7. page.recs \in Seq(Entry) /\ Len(page.recs) \in Nat BY <1>6, DirPageIs
<1>8. /\ lo \in Seq(Entry) /\ Len(lo) = pos /\ \A i \in 1..pos : lo[i] = page.recs[i]
      /\ pos \in Nat /\ pos >= 1 /\ pos <= Len(page.recs)
  BY <1>5, <1>6, <1>7 DEF Cut
<1>9. Directory(new, DOMAIN RL) /\ Root \in DOMAIN new
  <2>1. PICK half : half = Len(d[b].recs) \div 2 OBVIOUS
  <2>2. Directory(new, leaves) BY <2>1, <1>3, DirParts DEF PartsDir
  <2> QED BY <2>2, <1>3, <1>5
<1>10. PICK RD2 : RD2 = Merged(DOMAIN new, RD, n) OBVIOUS
<1>11. /\ RD2 \in [DOMAIN new -> SUBSET Int] /\ RD2[n] = {}
       /\ \A x \in DOMAIN d : RD2[x] = RD[x]
  BY <1>1, <1>5, <1>10 DEF Merged, Low
<1>12. \A x \in DOMAIN d : new[x].extra1 = d[x].extra1 BY <1>5
<1>13. ASSUME NEW x \in DOMAIN d, NEW s \in 0..Len(d[x].recs)
       PROVE  Sub(new[x], RD2, RL)[ChildAt(d[x], s)] = Sub(d[x], RD, RL)[ChildAt(d[x], s)]
  <2>1. IsChild(d, DOMAIN RL, d[x].extra1, ChildAt(d[x], s)) BY ChildLevel
  <2>2. CASE d[x].extra1 = 0 BY <2>2, <1>12 DEF Sub
  <2>3. CASE d[x].extra1 # 0
    <3>1. ChildAt(d[x], s) \in DOMAIN d BY <2>1, <2>3 DEF IsChild
    <3> QED BY <3>1, <2>3, <1>11, <1>12 DEF Sub
  <2> QED BY <2>2, <2>3
<1>14. \A t \in 0..pos : ChildAt(lower, t) = ChildAt(page, t)
  BY <1>5, <1>6, <1>8 DEF ChildAt
<1>15. ASSUME NEW x \in DOMAIN d, NEW k \in Int, NEW s, s = findDirSlot(d[x].recs, k),
              Below(RD[x], k)
       PROVE  s \in 0..Len(d[x].recs) /\ Below(Sub(d[x], RD, RL)[ChildAt(d[x], s)], k)
  <2>1. d[x] \in Pages BY DirPageIs
  <2>2. s \in 0..Len(d[x].recs) /\ findChildBlock(d[x], k) = ChildAt(d[x], s)
    BY <2>1, <1>15, ChildFor
  <2> QED BY <2>2, <1>1, <1>15 DEF Low
<1>16. ASSUME NEW x \in DOMAIN d, RD[x] # {}
       PROVE  LowChildren(d[x], Sub(d[x], RD, RL))
  BY <1>1, <1>16 DEF Low
<1>17. ASSUME NEW k \in Int, NEW s \in 0..Len(page.recs), IsSlot(page.recs, k, s),
              NEW t, t = IF s <= pos THEN s ELSE pos
       PROVE  findDirSlot(lo, k) = t
  <2>1. /\ t \in 0..pos /\ t <= s
        /\ \A i \in 1..s : page.recs[i].key <= k
        /\ s < Len(page.recs) => page.recs[s + 1].key > k
    BY <1>8, <1>17 DEF IsSlot
  <2>2. ASSUME NEW i \in 1..t PROVE lo[i].key <= k
    <3>1. i \in 1..s /\ i \in 1..pos BY <2>1, <1>8
    <3> QED BY <3>1, <2>1, <1>8
  <2>3. t < Len(lo) => lo[t + 1].key > k
    <3>1. t < pos => t = s /\ t + 1 \in 1..pos /\ s < Len(page.recs) BY <2>1, <1>8, <1>17
    <3> QED BY <3>1, <2>1, <1>8
  <2>4. IsSlot(lo, k, t) BY <2>1, <2>2, <2>3, <1>8 DEF IsSlot
  <2> QED BY <2>4, <1>8, SlotOnce
<1>18. ASSUME NEW k \in Int, Below(RD[b], k)
       PROVE  Below(Sub(lower, RD2, RL)[findChildBlock(lower, k)], k)
  <2>1. PICK s : s = findDirSlot(page.recs, k) OBVIOUS
  <2>2. s \in 0..Len(page.recs) /\ Below(Sub(page, RD, RL)[ChildAt(page, s)], k)
    BY <2>1, <1>6, <1>15, <1>18
  <2>3. IsSlot(page.recs, k, s) BY <2>1, <1>7, SlotIs
  <2>4. PICK t : t = IF s <= pos THEN s ELSE pos OBVIOUS
  <2>5. findDirSlot(lo, k) = t BY <2>2, <2>3, <2>4, <1>17
  <2>6. t \in 0..pos /\ t \in 0..Len(page.recs) BY <2>2, <2>4, <1>8
  <2>7. findChildBlock(lower, k) = ChildAt(page, t)
    <3>1. findChildBlock(lower, k) = ChildAt(lower, t) BY <2>5, <1>5, <1>6, ChildFor
    <3> QED BY <3>1, <2>6, <1>14
  <2>8. Below(Sub(page, RD, RL)[ChildAt(page, t)], k)
    <3>1. CASE s <= pos BY <3>1, <2>2, <2>4
    <3>2. CASE ~(s <= pos)
      <4>1. t = pos /\ t \in 1..Len(page.recs) /\ t \in 1..s BY <3>2, <2>2, <2>4, <1>8
      <4>2. page.recs[t].key <= k BY <4>1, <2>3 DEF IsSlot
      <4>3. RD[b] # {} BY <1>18 DEF Below
      <4>4. LowChildren(page, Sub(page, RD, RL)) BY <4>3, <1>6, <1>16
      <4> QED BY <4>1, <4>2, <4>4 DEF LowChildren
    <3> QED BY <3>1, <3>2
  <2>9. Sub(lower, RD2, RL)[ChildAt(page, t)] = Sub(page, RD, RL)[ChildAt(page, t)]
    BY <2>6, <1>6, <1>13
  <2> QED BY <2>7, <2>8, <2>9
<1>19. ASSUME NEW x \in DOMAIN new, NEW k \in Int, Below(RD2[x], k)
       PROVE  Below(Sub(new[x], RD2, RL)[findChildBlock(new[x], k)], k)
  <2>1. x \in DOMAIN d /\ Below(RD[x], k)
    <3>1. x # n BY <1>11, <1>19 DEF Below
    <3> QED BY <3>1, <1>5, <1>11, <1>19
  <2>2. CASE x = b BY <2>1, <2>2, <1>6, <1>18
  <2>3. CASE x # b
    <3>1. new[x] = d[x] BY <2>1, <2>3, <1>5
    <3>2. PICK s : s = findDirSlot(d[x].recs, k) OBVIOUS
    <3>3. s \in 0..Len(d[x].recs) /\ Below(Sub(d[x], RD, RL)[ChildAt(d[x], s)], k)
      BY <3>2, <2>1, <1>15
    <3>4. findChildBlock(new[x], k) = ChildAt(d[x], s)
      <4>1. d[x] \in Pages BY <2>1, DirPageIs
      <4> QED BY <4>1, <3>1, <3>2, ChildFor
    <3> QED BY <3>3, <3>4, <2>1, <1>13
  <2> QED BY <2>2, <2>3
<1>20. ASSUME NEW x \in DOMAIN new, RD2[x] # {}
       PROVE  LowChildren(new[x], Sub(new[x], RD2, RL))
  <2>1. x \in DOMAIN d /\ RD[x] # {} BY <1>5, <1>11, <1>20
  <2>2. LowChildren(d[x], Sub(d[x], RD, RL)) BY <2>1, <1>16
  <2>3. ASSUME NEW s \in 1..Len(new[x].recs)
        PROVE  /\ s \in 1..Len(d[x].recs) /\ new[x].recs[s] = d[x].recs[s]
               /\ ChildAt(new[x], s) = ChildAt(d[x], s)
    <3>1. CASE x # b
      <4>1. new[x] = d[x] BY <3>1, <2>1, <1>5
      <4> QED BY <4>1
    <3>2. CASE x = b
      <4>1. s \in 1..pos /\ s \in 0..pos BY <3>2, <1>5, <1>8
      <4> QED BY <4>1, <3>2, <1>5, <1>6, <1>8, <1>14
    <3> QED BY <3>1, <3>2
  <2>4. ASSUME NEW s \in 1..Len(new[x].recs), NEW k \in Int, new[x].recs[s].key <= k
        PROVE  Below(Sub(new[x], RD2, RL)[ChildAt(new[x], s)], k)
    <3>1. /\ s \in 1..Len(d[x].recs) /\ new[x].recs[s] = d[x].recs[s]
          /\ ChildAt(new[x], s) = ChildAt(d[x], s)
      BY <2>3
    <3>2. Below(Sub(d[x], RD, RL)[ChildAt(d[x], s)], k)
      BY <3>1, <2>2, <2>4 DEF LowChildren
    <3>3. s \in 0..Len(d[x].recs) BY <3>1
    <3> QED BY <3>1, <3>2, <3>3, <2>1, <1>13
  <2> QED BY <2>4 DEF LowChildren
<1>21. \A k \in Int : Below(RD2[Root], k) BY <1>1, <1>11 DEF Low
<1>22. Low(new, RD2, RL) BY <1>11, <1>19, <1>20, <1>21 DEF Low
<1> QED BY <1>9, <1>22, LowReaches

(* A split that the pages above do not know yet does no harm to a search. *)
LEMMA DueLow ==
  ASSUME NEW d, NEW RD, NEW RL, Directory(d, DOMAIN RL), Root \in DOMAIN d,
         NEW level \in Nat, NEW M, NEW c, NEW rec \in Entry,
         Due(d, RD, RL, level, M, c, rec)
  PROVE  Low(d, RD, RL)
<1>1. /\ RD \in [DOMAIN d -> SUBSET Int]
      /\ Half(M, IF level = 0 THEN RL ELSE RD, c, rec.val, rec.key)
      /\ IF level > d[Root].extra1 THEN c = Root /\ M[Root] = Int ELSE RD[Root] = Int
      /\ \A b \in DOMAIN d :
           RD[b] # {} =>
             Fit(d[b], RD[b], IF d[b].extra1 = level THEN M ELSE Sub(d[b], RD, RL))
  BY DEF Due, Shares
<1>2. PICK K \in Int : K = rec.key BY KeysAreIntegers
<1>3. d[Root].extra1 \in Nat BY DirPageIs
<1>4. \A k \in Int : Below(Int, k)
  <2>1. \A k \in Int : k <= k OBVIOUS
  <2> QED BY <2>1 DEF Below
<1>5. ASSUME NEW k \in Int PROVE Below(RD[Root], k)
  <2>1. CASE ~(level > d[Root].extra1) BY <2>1, <1>1, <1>4
  <2>2. CASE level > d[Root].extra1
    <3>1. Half(M, RD, c, rec.val, K) BY <2>2, <1>1, <1>2, <1>3
    <3>2. Below(M[Root], k) BY <2>2, <1>1, <1>4
    <3> QED BY <3>1, <3>2, <1>1, HalfLow
  <2> QED BY <2>1, <2>2
<1>6. ASSUME NEW b \in DOMAIN d, NEW k \in Int, Below(RD[b], k)
      PROVE  Below(Sub(d[b], RD, RL)[findChildBlock(d[b], k)], k)
  <2>1. RD[b] # {} BY <1>6 DEF Below
  <2>2. d[b] \in Pages BY DirPageIs
  <2>3. RD[b] \in SUBSET Int BY <1>1
  <2>4. PICK child : child = findChildBlock(d[b], k) OBVIOUS
  <2>5. CASE d[b].extra1 # level
    <3>1. Fit(d[b], RD[b], Sub(d[b], RD, RL)) BY <2>1, <2>5, <1>1
    <3> QED BY <3>1, <2>2, <2>3, <1>6, FitLow
  <2>6. CASE d[b].extra1 = level
    <3>1. Fit(d[b], RD[b], M) BY <2>1, <2>6, <1>1
    <3>2. Below(M[child], k) BY <3>1, <2>2, <2>3, <2>4, <1>6, FitLow
    <3>3. PICK R : R = Sub(d[b], RD, RL) OBVIOUS
    <3>4. Half(M, R, c, rec.val, K) BY <3>3, <2>6, <1>1, <1>2 DEF Sub
    <3>5. IsChild(d, DOMAIN RL, level, child) BY <2>4, <2>6, Descent
    <3>6. child \in DOMAIN R BY <3>3, <3>5, <2>6, <1>1 DEF IsChild, Sub
    <3> QED BY <3>2, <3>3, <3>4, <3>6, <2>4, HalfLow
  <2> QED BY <2>5, <2>6
<1>7. ASSUME NEW b \in DOMAIN d, RD[b] # {}
      PROVE  LowChildren(d[b], Sub(d[b], RD, RL))
  <2>1. d[b] \in Pages BY DirPageIs
  <2>2. CASE d[b].extra1 # level
    <3>1. Fit(d[b], RD[b], Sub(d[b], RD, RL)) BY <1>7, <2>2, <1>1
    <3> QED BY <3>1, <2>1, FitChildren
  <2>3. CASE d[b].extra1 = level
    <3>1. Fit(d[b], RD[b], M) BY <1>7, <2>3, <1>1
    <3>2. LowChildren(d[b], M) BY <3>1, <2>1, FitChildren
    <3>3. PICK R : R = Sub(d[b], RD, RL) OBVIOUS
    <3>4. Half(M, R, c, rec.val, K) BY <3>3, <2>3, <1>1, <1>2 DEF Sub
    <3>5. ASSUME NEW s \in 1..Len(d[b].recs), NEW k \in Int, d[b].recs[s].key <= k
          PROVE  Below(R[ChildAt(d[b], s)], k)
      <4>1. PICK child : child = ChildAt(d[b], s) OBVIOUS
      <4>2. Below(M[child], k) BY <3>2, <3>5, <4>1 DEF LowChildren
      <4>3. s \in 0..Len(d[b].recs) OBVIOUS
      <4>4. IsChild(d, DOMAIN RL, level, child) BY <4>1, <4>3, <2>3, ChildLevel
      <4>5. child \in DOMAIN R BY <3>3, <4>4, <2>3, <1>1 DEF IsChild, Sub
      <4> QED BY <3>4, <4>1, <4>2, <4>5, HalfLow
    <3> QED BY <3>3, <3>5 DEF LowChildren
  <2> QED BY <2>2, <2>3
<1> QED BY <1>1, <1>5, <1>6, <1>7 DEF Low

LEMMA RankedSearch ==
  ASSUME NEW d, NEW RD, NEW RL, Directory(d, DOMAIN RL), Root \in DOMAIN d, Ranked(d, RD, RL),
         NEW k \in Int
  PROVE  search(d, k) \in DOMAIN RL /\ k \in RL[search(d, k)]
<1> DEFINE child(b) == findChildBlock(d[b], k)
           Step(f, b) == IF d[b].extra1 = 0 THEN child(b) ELSE f[child(b)]
<1>1. PICK below : search(d, k) = below[Root]
                   /\ \A b \in DOMAIN d : below[b] = Step(below, b)
  BY SearchUnfolds
<1>2. ASSUME NEW b \in DOMAIN d
      PROVE  /\ d[b].extra1 \in Nat
             /\ d[b].extra1 # 0 =>
                  child(b) \in DOMAIN d /\ d[child(b)].extra1 = d[b].extra1 - 1
  BY Descent DEF IsChild
<1>3. ASSUME NEW b \in DOMAIN d, k \in RD[b]
      PROVE  IF d[b].extra1 = 0 THEN k \in RL[child(b)] ELSE k \in RD[child(b)]
  <2>1. Fit(d[b], RD[b], Sub(d[b], RD, RL)) BY <1>3 DEF Ranked
  <2>2. d[b] \in Pages BY DirPageIs
  <2>3. PICK s : s = findDirSlot(d[b].recs, k) OBVIOUS
  <2>4. s \in 0..Len(d[b].recs) /\ child(b) = ChildAt(d[b], s) BY <2>2, <2>3, ChildFor
  <2>5. k \in Sub(d[b], RD, RL)[child(b)] BY <2>1, <2>3, <2>4, <1>3 DEF Fit
  <2> QED BY <2>5 DEF Sub
<1> HIDE DEF child
<1>4. ASSUME NEW n \in Nat
      PROVE  \A b \in DOMAIN d : d[b].extra1 = n /\ k \in RD[b] => k \in RL[below[b]]
  <2> DEFINE Bad == {m \in Nat : \E b \in DOMAIN d :
                       d[b].extra1 = m /\ k \in RD[b] /\ k \notin RL[below[b]]}
  <2> SUFFICES ASSUME Bad # {} PROVE FALSE OBVIOUS
  <2>1. PICK m : m \in Bad /\ \A i \in Bad : m <= i
    <3>1. Bad \subseteq Nat OBVIOUS
    <3> HIDE DEF Bad
    <3> QED BY <3>1, LeastExists
  <2>2. PICK b \in DOMAIN d : d[b].extra1 = m /\ k \in RD[b] /\ k \notin RL[below[b]]
    BY <2>1
  <2>3. below[b] = Step(below, b) BY <1>1
  <2>4. CASE m = 0 BY <2>2, <2>3, <2>4, <1>3
  <2>5. CASE m # 0
    <3>1. below[b] = below[child(b)] /\ child(b) \in DOMAIN d
          /\ d[child(b)].extra1 = m - 1 /\ m - 1 \in Nat
      BY <2>1, <2>2, <2>3, <2>5, <1>2
    <3>2. k \in RD[child(b)] BY <2>2, <2>5, <1>3
    <3>3. m - 1 \notin Bad BY <3>1, <2>1
    <3> QED BY <3>1, <3>2, <3>3, <2>2
  <2> QED BY <2>4, <2>5
<1>5. k \in RD[Root] BY DEF Ranked
<1>6. k \in RL[below[Root]] BY <1>2, <1>4, <1>5
<1>7. search(d, k) \in DOMAIN RL BY SearchTyped
<1> QED BY <1>1, <1>6, <1>7

(* What a page of a level receives from below, when its child c was split or  *)
(* nothing was                                                               *)
Handed(d, RD, RL, stop, level, c, x) ==
  /\ Inserted(d, DOMAIN RL, level - 1, x)
  /\ \E RD2 :
       /\ \A y \in DOMAIN d : d[y].extra1 >= level => x.file[y] = d[y] /\ RD2[y] = RD[y]
       /\ IF x.split = NoSplit
          THEN /\ Leads(x.file, RL)
               /\ stop > d[Root].extra1 => Ranked(x.file, RD2, RL)
          ELSE \E M : Due(x.file, RD2, RL, level, M, c, x.split)

(* A page on the way to the leaf that has been split, and the next one on it *)
OnPath(d, RD, RL, level, b, c) ==
  /\ Directory(d, DOMAIN RL) /\ DOMAIN RL \in SUBSET Nat /\ Root \in DOMAIN d
  /\ Shares(d, RD) /\ RD[Root] = Int
  /\ b \in DOMAIN d /\ d[b].extra1 = level /\ RD[b] # {}
  /\ \E s \in 0..Len(d[b].recs) : c = ChildAt(d[b], s)

LEMMA StepHanded ==
  ASSUME NEW d, NEW RD, NEW RL, NEW level \in Nat, NEW b, NEW c, NEW stop \in Int,
         OnPath(d, RD, RL, level, b, c),
         NEW x, Handed(d, RD, RL, stop, level, c, x),
         NEW res, res = IF level >= stop \/ x.split = NoSplit THEN [x EXCEPT !.split = NoSplit]
                        ELSE insertEntry(x.file, b, x.split)
  PROVE  Handed(d, RD, RL, stop, level + 1, b, res)
<1>1. /\ Directory(d, DOMAIN RL) /\ Root \in DOMAIN d /\ Shares(d, RD) /\ RD[Root] = Int
      /\ b \in DOMAIN d /\ d[b].extra1 = level /\ RD[b] # {}
  BY DEF OnPath
<1>2. PICK leaves \in SUBSET Nat : leaves = DOMAIN RL BY DEF OnPath
<1>3. Inserted(d, leaves, level - 1, x) BY <1>2 DEF Handed
<1>4. Inserted(d, leaves, level, res)
  <2>1. PICK stopped \in BOOLEAN : stopped <=> level >= stop OBVIOUS
  <2>2. res = IF stopped \/ x.split = NoSplit THEN [x EXCEPT !.split = NoSplit]
              ELSE insertEntry(x.file, b, x.split)
    BY <2>1
  <2> QED BY <2>2, <1>1, <1>3, StepTyped
<1>5. Inserted(d, DOMAIN RL, (level + 1) - 1, res)
  <2>1. (level + 1) - 1 = level OBVIOUS
  <2> QED BY <2>1, <1>2, <1>4
<1>6. PICK RD2 :
        /\ \A y \in DOMAIN d : d[y].extra1 >= level => x.file[y] = d[y] /\ RD2[y] = RD[y]
        /\ IF x.split = NoSplit
           THEN /\ Leads(x.file, RL)
                /\ stop > d[Root].extra1 => Ranked(x.file, RD2, RL)
           ELSE \E M : Due(x.file, RD2, RL, level, M, c, x.split)
  BY DEF Handed
<1>7. /\ Directory(x.file, DOMAIN RL) /\ Grown(d, x.file) /\ Root \in DOMAIN x.file
      /\ x.file[Root].extra1 = d[Root].extra1
  BY <1>1, <1>2, <1>3 DEF Inserted, Grown
<1>8. d[Root].extra1 \in Nat /\ level <= d[Root].extra1 /\ \A y \in DOMAIN d : d[y].extra1 \in Nat
  BY <1>1, DirPageIs
<1>9. \A y \in DOMAIN d : d[y].extra1 >= level + 1 => d[y].extra1 >= level BY <1>8
<1>10. CASE x.split = NoSplit
  <2>1. res.file = x.file /\ res.split = NoSplit
    <3>1. x = [file |-> x.file, split |-> x.split] BY <1>3 DEF Inserted
    <3>2. res = [x EXCEPT !.split = NoSplit] BY <1>10
    <3> QED BY <3>1, <3>2
  <2> QED BY <2>1, <1>5, <1>6, <1>9, <1>10 DEF Handed
<1>11. CASE x.split # NoSplit /\ level >= stop
  <2>1. res.file = x.file /\ res.split = NoSplit
    <3>1. x = [file |-> x.file, split |-> x.split] BY <1>3 DEF Inserted
    <3>2. res = [x EXCEPT !.split = NoSplit] BY <1>11
    <3> QED BY <3>1, <3>2
  <2>2. PICK M : Due(x.file, RD2, RL, level, M, c, x.split) BY <1>6, <1>11
  <2>3. x.split \in Entry BY <1>3, <1>11 DEF Inserted, Pending, Entry
  <2>4. Leads(x.file, RL) BY <2>2, <2>3, <1>7, DueLow DEF Leads
  <2>5. ~(stop > d[Root].extra1) BY <1>8, <1>11
  <2> QED BY <2>1, <2>4, <2>5, <1>5, <1>6, <1>9 DEF Handed
<1>12. CASE x.split # NoSplit /\ ~(level >= stop)
  <2>1. PICK M : Due(x.file, RD2, RL, level, M, c, x.split) BY <1>6, <1>12
  <2>2. res = insertEntry(x.file, b, x.split) BY <1>12
  <2>3. x.file[b] = d[b] /\ RD2[b] = RD[b] /\ b \in DOMAIN x.file
    BY <1>1, <1>6, <1>7 DEF Grown
  <2>4. level = d[Root].extra1 => b = Root
    <3>1. ASSUME level = d[Root].extra1, b # Root PROVE FALSE
      <4>1. RD[b] \intersect RD[Root] = {} BY <3>1, <1>1 DEF Shares
      <4>2. RD[b] \in SUBSET Int BY <1>1 DEF Shares
      <4> QED BY <4>1, <4>2, <1>1
    <3> QED BY <3>1
  <2>5. Pending(x.file, DOMAIN RL, level, x.split)
    <3>1. Pending(x.file, leaves, (level - 1) + 1, x.split) BY <1>3, <1>12 DEF Inserted
    <3>2. (level - 1) + 1 = level OBVIOUS
    <3> QED BY <3>1, <3>2, <1>2
  <2>6. \E s \in 0..Len(x.file[b].recs) : c = ChildAt(x.file[b], s) BY <2>3 DEF OnPath
  <2>7. AtParent(x.file, RD2, RL, level, M, c, x.split, b)
    BY <2>1, <2>3, <2>4, <2>5, <2>6, <1>1, <1>2, <1>7 DEF AtParent
  <2>8. Passed(x.file, RD2, RL, level, b, res) BY <2>2, <2>7, EntryPassed
  <2>9. PICK RD3 :
          /\ \A y \in DOMAIN x.file :
               x.file[y].extra1 > level => res.file[y] = x.file[y] /\ RD3[y] = RD2[y]
          /\ IF res.split = NoSplit THEN Ranked(res.file, RD3, RL)
             ELSE \E M2 : Due(res.file, RD3, RL, level + 1, M2, b, res.split)
    BY <2>8 DEF Passed
  <2>10. ASSUME NEW y \in DOMAIN d, d[y].extra1 >= level + 1
         PROVE  res.file[y] = d[y] /\ RD3[y] = RD[y]
    <3>1. x.file[y] = d[y] /\ RD2[y] = RD[y] BY <2>10, <1>6, <1>9
    <3>2. y \in DOMAIN x.file /\ x.file[y].extra1 > level
      BY <3>1, <2>10, <1>7, <1>8 DEF Grown
    <3> QED BY <3>1, <3>2, <2>9
  <2>11. res.split = NoSplit => Leads(res.file, RL) /\ Ranked(res.file, RD3, RL)
    <3>1. ASSUME res.split = NoSplit PROVE Leads(res.file, RL) /\ Ranked(res.file, RD3, RL)
      <4>1. Ranked(res.file, RD3, RL) BY <3>1, <2>9
      <4>2. Directory(res.file, DOMAIN RL) /\ Root \in DOMAIN res.file
        BY <1>1, <1>2, <1>4 DEF Inserted, Grown
      <4> QED BY <4>1, <4>2, RankedLow DEF Leads
    <3> QED BY <3>1
  <2> QED BY <2>9, <2>10, <2>11, <1>5 DEF Handed
<1> QED BY <1>10, <1>11, <1>12

(* A leaf c has been split; the directory knows its lower half only. *)
LeafDue(d, RD, RL, M, c, rec) ==
  /\ Directory(d, DOMAIN RL) /\ DOMAIN RL \in SUBSET Nat /\ Root \in DOMAIN d
  /\ RD[Root] = Int /\ Due(d, RD, RL, 0, M, c, rec) /\ Pending(d, DOMAIN RL, 0, rec)
  /\ \A x \in DOMAIN RL : rec.key \in M[x] => x = c

LEMMA PathHanded ==
  ASSUME NEW d, NEW RD, NEW RL, NEW M, NEW c, NEW rec, LeafDue(d, RD, RL, M, c, rec),
         NEW stop \in Int, NEW res, res = DirInsert(d, rec, stop)
  PROVE  Handed(d, RD, RL, stop, d[Root].extra1 + 1, Root, res)
<1> DEFINE child(b) == findChildBlock(d[b], rec.key)
           Got(f, b) == Received(d, rec, f, b)
           Enter(b, x) == Enters(d, stop, b, x)
<1>1. /\ Directory(d, DOMAIN RL) /\ DOMAIN RL \in SUBSET Nat /\ Root \in DOMAIN d
      /\ RD[Root] = Int /\ Shares(d, RD) /\ RD \in [DOMAIN d -> SUBSET Int]
      /\ Due(d, RD, RL, 0, M, c, rec) /\ Pending(d, DOMAIN RL, 0, rec)
      /\ \A x \in DOMAIN RL : rec.key \in M[x] => x = c
  BY DEF LeafDue, Due, Shares
<1>2. PICK ins : /\ res = ins[Root]
                 /\ \A b \in DOMAIN d : ins[b] = Enter(b, Got(ins, b))
  BY <1>1, InsertUnfolds
<1>3. PICK K \in Int : K = rec.key
  <2>1. rec \in Entry BY <1>1 DEF Pending, Entry
  <2> QED BY <2>1, KeysAreIntegers
<1>4. ASSUME NEW b \in DOMAIN d
      PROVE  /\ d[b].extra1 \in Nat
             /\ d[b].extra1 # 0 =>
                  child(b) \in DOMAIN d /\ d[child(b)].extra1 = d[b].extra1 - 1
  BY <1>1, Descent DEF IsChild
<1>5. ASSUME NEW b \in DOMAIN d, K \in RD[b]
      PROVE  /\ OnPath(d, RD, RL, d[b].extra1, b, child(b))
             /\ IF d[b].extra1 = 0 THEN child(b) = c ELSE K \in RD[child(b)]
  <2>1. Fit(d[b], RD[b], IF d[b].extra1 = 0 THEN M ELSE Sub(d[b], RD, RL))
    BY <1>1, <1>5 DEF Due
  <2>2. Fit(d[b], RD[b], IF d[b].extra1 = 0 THEN M ELSE RD) BY <2>1 DEF Sub
  <2>3. d[b] \in Pages BY <1>1, DirPageIs
  <2>4. PICK s : s = findDirSlot(d[b].recs, K) OBVIOUS
  <2>5. s \in 0..Len(d[b].recs) /\ child(b) = ChildAt(d[b], s)
    BY <2>3, <2>4, <1>3, ChildFor
  <2>6. IF d[b].extra1 = 0 THEN K \in M[child(b)] ELSE K \in RD[child(b)]
    BY <2>2, <2>4, <2>5, <1>5 DEF Fit
  <2>7. OnPath(d, RD, RL, d[b].extra1, b, child(b)) BY <2>5, <1>1, <1>5 DEF OnPath
  <2>8. d[b].extra1 = 0 => child(b) \in DOMAIN RL
    <3>1. IsChild(d, DOMAIN RL, d[b].extra1, child(b)) BY <2>5, <1>1, ChildLevel
    <3> QED BY <3>1 DEF IsChild
  <2> QED BY <2>6, <2>7, <2>8, <1>1, <1>3
<1> HIDE DEF child, Enter
<1>6. ASSUME NEW b \in DOMAIN d, K \in RD[b], NEW x,
             Handed(d, RD, RL, stop, d[b].extra1, child(b), x)
      PROVE  Handed(d, RD, RL, stop, d[b].extra1 + 1, b, Enter(b, x))
  <2>1. PICK level \in Nat : level = d[b].extra1 BY <1>4
  <2>2. PICK y, a : y = Enter(b, x) /\ a = child(b) OBVIOUS
  <2>3. y = IF level >= stop \/ x.split = NoSplit THEN [x EXCEPT !.split = NoSplit]
            ELSE insertEntry(x.file, b, x.split)
    BY <2>1, <2>2 DEF Enter, Enters
  <2>4. OnPath(d, RD, RL, level, b, a) BY <2>1, <2>2, <1>5, <1>6
  <2>5. Handed(d, RD, RL, stop, level, a, x) BY <2>1, <2>2, <1>6
  <2>6. Handed(d, RD, RL, stop, level + 1, b, y) BY <2>3, <2>4, <2>5, StepHanded
  <2> QED BY <2>1, <2>2, <2>6
<1>7. ASSUME NEW n \in Nat
      PROVE  \A b \in DOMAIN d : d[b].extra1 = n /\ K \in RD[b] =>
               Handed(d, RD, RL, stop, d[b].extra1 + 1, b, ins[b])
  <2> DEFINE Bad == {m \in Nat : \E b \in DOMAIN d : d[b].extra1 = m /\ K \in RD[b]
                       /\ ~Handed(d, RD, RL, stop, d[b].extra1 + 1, b, ins[b])}
  <2> HIDE DEF Got
  <2> SUFFICES ASSUME Bad # {} PROVE FALSE OBVIOUS
  <2>1. PICK m : m \in Bad /\ \A i \in Bad : m <= i
    <3>1. Bad \subseteq Nat OBVIOUS
    <3> HIDE DEF Bad
    <3> QED BY <3>1, LeastExists
  <2>2. PICK b \in DOMAIN d : d[b].extra1 = m /\ K \in RD[b]
                              /\ ~Handed(d, RD, RL, stop, d[b].extra1 + 1, b, ins[b])
    BY <2>1
  <2>3. Handed(d, RD, RL, stop, d[b].extra1, child(b), Got(ins, b))
    <3>1. CASE d[b].extra1 = 0
      <4>1. PICK x : x = [file |-> d, split |-> rec] OBVIOUS
      <4>2. Got(ins, b) = x BY <3>1, <4>1 DEF Got, Received, child
      <4>3. Inserted(d, DOMAIN RL, 0 - 1, x)
        <5>1. Grown(d, d) BY DEF Grown
        <5>2. (0 - 1) + 1 = 0 OBVIOUS
        <5> QED BY <5>1, <5>2, <4>1, <1>1 DEF Inserted
      <4>4. x.split # NoSplit BY <4>1, <1>1 DEF Pending, NoSplit
      <4>5. child(b) = c BY <3>1, <2>2, <1>5
      <4>6. Due(x.file, RD, RL, 0, M, c, x.split) BY <4>1, <1>1
      <4>7. Handed(d, RD, RL, stop, 0, c, x) BY <4>1, <4>3, <4>4, <4>6 DEF Handed
      <4> QED BY <3>1, <4>2, <4>5, <4>7
    <3>2. CASE d[b].extra1 # 0
      <4>1. Got(ins, b) = ins[child(b)] BY <3>2 DEF Got, Received, child
      <4>2. /\ child(b) \in DOMAIN d /\ d[child(b)].extra1 = d[b].extra1 - 1
            /\ d[b].extra1 \in Nat /\ K \in RD[child(b)]
        BY <3>2, <2>2, <1>4, <1>5
      <4>3. m - 1 \in Nat /\ m - 1 < m BY <4>2, <3>2, <2>2
      <4>4. m - 1 \notin Bad
        <5> HIDE DEF Bad
        <5>1. m - 1 \in Bad => m <= m - 1 BY <2>1
        <5>2. m \in Nat BY <4>2, <2>2
        <5> QED BY <5>1, <5>2, <4>3
      <4>5. Handed(d, RD, RL, stop, d[child(b)].extra1 + 1, child(b), ins[child(b)])
        BY <4>2, <4>3, <4>4, <2>2
      <4>6. d[child(b)].extra1 + 1 = d[b].extra1 BY <4>2
      <4> QED BY <4>1, <4>5, <4>6
    <3> QED BY <3>1, <3>2
  <2>4. Handed(d, RD, RL, stop, d[b].extra1 + 1, b, Enter(b, Got(ins, b)))
    BY <2>2, <2>3, <1>6
  <2>5. ins[b] = Enter(b, Got(ins, b)) BY <1>2
  <2> QED BY <2>2, <2>4, <2>5
<1>8. K \in RD[Root] /\ d[Root].extra1 \in Nat BY <1>1, <1>3, <1>4
<1>9. Handed(d, RD, RL, stop, d[Root].extra1 + 1, Root, ins[Root]) BY <1>1, <1>7, <1>8
<1> QED BY <1>2, <1>9

(* The old root and the half of it make way for a new one above them. *)
LEMMA NewRootRanked ==
  ASSUME NEW d, NEW RD, NEW RL, Directory(d, DOMAIN RL), DOMAIN RL \in SUBSET Nat,
         Root \in DOMAIN d, NEW M, NEW e, NEW level, level = d[Root].extra1 + 1,
         Pending(d, DOMAIN RL, level, e), Due(d, RD, RL, level, M, Root, e),
         NEW new, new = makeNewRoot(d, e)
  PROVE  \E RD2 : Ranked(new, RD2, RL)
<1>1. PICK n : n = Size(d) OBVIOUS
<1>2. IsFile(d) /\ n \in Nat /\ DOMAIN d = 0..(n - 1)
  BY <1>1, FileSize DEF Directory
<1>3. PICK page : page = d[Root] OBVIOUS
<1>4. level \in Nat /\ level > 0 /\ level > d[Root].extra1 /\ page \in Pages
      /\ page.extra1 = level - 1 /\ \A x \in DOMAIN d : d[x].extra1 \in Nat /\ d[x].extra1 < level
  BY <1>3, DirPageIs
<1>5. PICK top : top = [recs |-> <<e>>, extra1 |-> level, extra2 |-> n] OBVIOUS
<1>6. PICK high : high = [d EXCEPT ![Root] = top] OBVIOUS
<1>7. new = Extended(high, page)
  <2>1. [recs |-> <<e>>, extra1 |-> page.extra1 + 1, extra2 |-> n] = top BY <1>3, <1>5
  <2>2. high = [d EXCEPT ![Root] = [recs |-> <<e>>, extra1 |-> @.extra1 + 1,
                                    extra2 |-> n]]
    BY <2>1, <1>3, <1>6
  <2> QED BY <2>2, <1>1, <1>3 DEF makeNewRoot
<1>8. /\ DOMAIN high = DOMAIN d /\ high[Root] = top
      /\ \A c \in DOMAIN d \ {Root} : high[c] = d[c]
  BY <1>6
<1>9. Size(high) = n BY <1>1, <1>8 DEF Size
<1>10. /\ DOMAIN new = DOMAIN d \union {n} /\ n \notin DOMAIN d
       /\ \A c \in DOMAIN d : new[c] = high[c]
       /\ new[n] = page
  BY <1>2, <1>7, <1>8, <1>9 DEF Extended
<1>11. \A c \in DOMAIN d \ {Root} : new[c] = d[c] BY <1>8, <1>10
<1>12. new[Root] = top /\ n # Root BY <1>8, <1>10
<1>13. PICK K \in Int : K = e.key
  <2>1. e \in Entry BY DEF Pending, Entry
  <2> QED BY <2>1, KeysAreIntegers
<1>14. e.val \in DOMAIN d /\ e.val # Root /\ e.val # n /\ d[e.val].extra1 = level - 1
       /\ e \in Entry
  <2>1. e.val \in DOMAIN d /\ e.val # Root /\ d[e.val].extra1 = level - 1
    BY <1>4 DEF Pending, IsChild
  <2> QED BY <2>1, <1>10 DEF Pending, Entry
<1>15. /\ Shares(d, RD) /\ Half(M, RD, Root, e.val, K) /\ M[Root] = Int
       /\ RD \in [DOMAIN d -> SUBSET Int]
       /\ \A b \in DOMAIN d : RD[b] # {} => Fit(d[b], RD[b], Sub(d[b], RD, RL))
  <2>1. \A b \in DOMAIN d : d[b].extra1 # level BY <1>4
  <2>2. /\ Shares(d, RD)
        /\ Half(M, IF level = 0 THEN RL ELSE RD, Root, e.val, e.key)
        /\ IF level > d[Root].extra1 THEN M[Root] = Int ELSE RD[Root] = Int
        /\ \A b \in DOMAIN d : RD[b] # {} =>
             Fit(d[b], RD[b], IF d[b].extra1 = level THEN M ELSE Sub(d[b], RD, RL))
    BY DEF Due
  <2>3. Half(M, RD, Root, e.val, K) BY <2>2, <1>4, <1>13
  <2>4. M[Root] = Int BY <2>2, <1>4
  <2>5. ASSUME NEW b \in DOMAIN d, RD[b] # {} PROVE Fit(d[b], RD[b], Sub(d[b], RD, RL))
    BY <2>1, <2>2, <2>5
  <2>6. RD \in [DOMAIN d -> SUBSET Int] BY <2>2 DEF Shares
  <2> QED BY <2>2, <2>3, <2>4, <2>5, <2>6
<1>16. RD[Root] = {k \in Int : k < K} /\ RD[e.val] = {k \in Int : k >= K}
  BY <1>15 DEF Half
<1>17. PICK RD2 : RD2 = [x \in DOMAIN new |-> IF x = Root THEN Int
                                              ELSE IF x = n THEN RD[Root] ELSE RD[x]]
  OBVIOUS
<1>18. /\ RD2[Root] = Int /\ RD2[n] = RD[Root] /\ Root \in DOMAIN new
       /\ \A x \in DOMAIN d \ {Root} : RD2[x] = RD[x]
       /\ RD2 \in [DOMAIN new -> SUBSET Int]
  BY <1>10, <1>12, <1>15, <1>17
<1>19. new[n].extra1 = level - 1 /\ new[Root].extra1 = level
       /\ \A x \in DOMAIN d \ {Root} : new[x].extra1 = d[x].extra1 /\ new[x].extra1 < level
  BY <1>4, <1>5, <1>10, <1>11, <1>12
<1>20. Shares(new, RD2)
  <2>1. ASSUME NEW x \in DOMAIN new, NEW y \in DOMAIN new, x # y, new[x].extra1 = new[y].extra1
        PROVE  RD2[x] \intersect RD2[y] = {}
    <3>1. x # Root /\ y # Root
      <4>1. \A z \in DOMAIN new \ {Root} : new[z].extra1 < level
        BY <1>4, <1>10, <1>19
      <4>2. ~(level < level) BY <1>4
      <4> QED BY <4>1, <4>2, <2>1, <1>19
    <3>2. CASE x # n /\ y # n
      <4>1. x \in DOMAIN d \ {Root} /\ y \in DOMAIN d \ {Root} BY <3>1, <3>2, <1>10
      <4>2. RD[x] \intersect RD[y] = {} BY <4>1, <2>1, <1>15, <1>19 DEF Shares
      <4> QED BY <4>1, <4>2, <1>18
    <3>3. CASE x = n
      <4>1. y \in DOMAIN d \ {Root} /\ d[y].extra1 = level - 1
        BY <3>1, <3>3, <2>1, <1>10, <1>19
      <4>2. RD[Root] \intersect RD[y] = {}
        BY <4>1, <1>2, <1>3, <1>4, <1>15, RootExists DEF Shares
      <4> QED BY <4>1, <4>2, <3>3, <1>18
    <3>4. CASE y = n
      <4>1. x \in DOMAIN d \ {Root} /\ d[x].extra1 = level - 1
        BY <3>1, <3>4, <2>1, <1>10, <1>19
      <4>2. RD[Root] \intersect RD[x] = {}
        BY <4>1, <1>2, <1>3, <1>4, <1>15, RootExists DEF Shares
      <4> QED BY <4>1, <4>2, <3>4, <1>18
    <3> QED BY <3>2, <3>3, <3>4
  <2> QED BY <2>1, <1>18 DEF Shares
<1>21. Fit(new[Root], Int, RD2)
  <2>1. /\ new[Root].recs = <<e>> /\ new[Root].extra2 = n /\ Len(new[Root].recs) = 1
        /\ new[Root].recs[1] = e /\ new[Root].recs \in Seq(Entry)
    BY <1>5, <1>12, <1>14
  <2>2. ASSUME NEW k \in Int PROVE findDirSlot(new[Root].recs, k) = IF k < K THEN 0 ELSE 1
    <3>1. CASE k < K
      <4>1. IsSlot(new[Root].recs, k, 0) BY <3>1, <2>1, <1>13 DEF IsSlot
      <4> QED BY <3>1, <4>1, <2>1, SlotOnce
    <3>2. CASE ~(k < K)
      <4>1. \A i \in 1..1 : i = 1 OBVIOUS
      <4>2. \A i \in 1..1 : new[Root].recs[i].key <= k BY <4>1, <3>2, <2>1, <1>13
      <4>3. 1 \in 0..Len(new[Root].recs) /\ ~(1 < Len(new[Root].recs)) BY <2>1
      <4>4. IsSlot(new[Root].recs, k, 1) BY <4>2, <4>3 DEF IsSlot
      <4> QED BY <3>2, <4>4, <2>1, SlotOnce
    <3> QED BY <3>1, <3>2
  <2>3. ChildAt(new[Root], 0) = n /\ ChildAt(new[Root], 1) = e.val BY <2>1 DEF ChildAt
  <2>4. RD2[n] = {k \in Int : k < K} /\ RD2[e.val] = {k \in Int : k >= K}
    BY <1>14, <1>16, <1>18
  <2>5. RD2[n] = {k \in Int : findDirSlot(new[Root].recs, k) = 0} BY <2>2, <2>4
  <2>6. RD2[e.val] = {k \in Int : findDirSlot(new[Root].recs, k) = 1} BY <2>2, <2>4
  <2>7. RD2[n] # {} /\ K \in RD2[e.val]
    <3>1. RD[Root] # {} BY <1>15 DEF Half
    <3> QED BY <3>1, <2>4, <1>18
  <2>8. \A s \in 0..Len(new[Root].recs) : s = 0 \/ s = 1 BY <2>1
  <2>9. \A s \in 1..Len(new[Root].recs) : s = 1 BY <2>1
  <2>10. \A s \in 0..Len(new[Root].recs) :
           /\ RD2[ChildAt(new[Root], s)] = {k \in Int : findDirSlot(new[Root].recs, k) = s}
           /\ RD2[ChildAt(new[Root], s)] # {}
    BY <2>3, <2>5, <2>6, <2>7, <2>8
  <2>11. \A i \in 1..Len(new[Root].recs) :
           new[Root].recs[i].key \in RD2[ChildAt(new[Root], i)]
    BY <2>1, <2>3, <2>7, <2>9, <1>13
  <2> QED BY <2>10, <2>11 DEF Fit
<1>22. ASSUME NEW x \in DOMAIN d, RD[x] # {} PROVE Fit(d[x], RD[x], Sub(d[x], RD2, RL))
  <2>1. Fit(d[x], RD[x], Sub(d[x], RD, RL)) BY <1>15, <1>22
  <2>2. ASSUME NEW y \in DOMAIN d, d[y].extra1 = d[x].extra1 - 1 PROVE RD2[y] = RD[y]
    <3>1. y # Root
      <4>1. d[x].extra1 \in Int /\ d[x].extra1 < level /\ d[Root].extra1 = level - 1
        BY <1>3, <1>4
      <4> QED BY <4>1, <2>2, <1>4
    <3> QED BY <3>1, <1>18
  <2> QED BY <2>1, <2>2, FitMoved
<1>23. ASSUME NEW x \in DOMAIN new, RD2[x] # {} PROVE Fit(new[x], RD2[x], Sub(new[x], RD2, RL))
  <2>1. CASE x = Root
    <3>1. Sub(new[Root], RD2, RL) = RD2 BY <1>4, <1>19 DEF Sub
    <3> QED BY <3>1, <2>1, <1>18, <1>21
  <2>2. CASE x = n
    <3>1. new[x] = d[Root] /\ RD2[x] = RD[Root] BY <2>2, <1>3, <1>10, <1>18
    <3> QED BY <3>1, <1>22, <1>23
  <2>3. CASE x # Root /\ x # n
    <3>1. x \in DOMAIN d /\ new[x] = d[x] /\ RD2[x] = RD[x] BY <2>3, <1>10, <1>11, <1>18
    <3> QED BY <3>1, <1>22, <1>23
  <2> QED BY <2>1, <2>2, <2>3
<1> QED BY <1>18, <1>20, <1>23 DEF Ranked

(* After an Insert in the levels below stop every search still goes to a leaf *)
(* that has the key, or lies to its left; if no level was left out it has it. *)
LEMMA LevelsRanked ==
  ASSUME NEW dirs, NEW RD, NEW RL, NEW M, NEW c, NEW rec, LeafDue(dirs, RD, RL, M, c, rec),
         NEW stop \in Int, NEW d, d = DirInsert(dirs, rec, stop),
         NEW newDir, newDir = Topped(dirs, d, stop)
  PROVE  /\ Leads(newDir, RL)
         /\ stop > dirs[Root].extra1 + 1 => \E RD2 : Ranked(newDir, RD2, RL)
<1>1. PICK level : level = dirs[Root].extra1 + 1 OBVIOUS
<1>2. /\ DOMAIN RL \in SUBSET Nat /\ Root \in DOMAIN dirs /\ Directory(dirs, DOMAIN RL)
      /\ dirs[Root].extra1 \in Nat /\ level \in Nat
  <2>1. DOMAIN RL \in SUBSET Nat /\ Root \in DOMAIN dirs /\ Directory(dirs, DOMAIN RL)
    BY DEF LeafDue
  <2> QED BY <2>1, <1>1, DirPageIs
<1>3. Handed(dirs, RD, RL, stop, level, Root, d) BY <1>1, PathHanded
<1>4. PICK RD2 : IF d.split = NoSplit
                 THEN /\ Leads(d.file, RL)
                      /\ stop > dirs[Root].extra1 => Ranked(d.file, RD2, RL)
                 ELSE \E N : Due(d.file, RD2, RL, level, N, Root, d.split)
  BY <1>3 DEF Handed
<1>5. Inserted(dirs, DOMAIN RL, level - 1, d) BY <1>3 DEF Handed
<1>6. /\ Directory(d.file, DOMAIN RL) /\ Root \in DOMAIN d.file
      /\ d.file[Root].extra1 + 1 = level
  BY <1>1, <1>2, <1>5 DEF Inserted, Grown
<1>7. CASE d.split = NoSplit
  <2>1. newDir = d.file BY <1>7 DEF Topped
  <2>2. stop > dirs[Root].extra1 + 1 => stop > dirs[Root].extra1 BY <1>2
  <2> QED BY <2>1, <2>2, <1>4, <1>7
<1>8. CASE d.split # NoSplit
  <2>1. PICK N : Due(d.file, RD2, RL, level, N, Root, d.split) BY <1>4, <1>8
  <2>2. Pending(d.file, DOMAIN RL, level, d.split)
    <3>1. (level - 1) + 1 = level BY <1>2
    <3> QED BY <3>1, <1>5, <1>8 DEF Inserted
  <2>3. d.split \in Entry BY <2>2 DEF Pending, Entry
  <2>4. CASE ~(stop > dirs[Root].extra1 + 1)
    <3>1. newDir = d.file BY <2>4 DEF Topped
    <3>2. Leads(d.file, RL) BY <2>1, <2>3, <1>2, <1>6, DueLow DEF Leads
    <3> QED BY <3>1, <3>2, <2>4
  <2>5. CASE stop > dirs[Root].extra1 + 1
    <3>1. newDir = makeNewRoot(d.file, d.split) BY <2>5, <1>8 DEF Topped
    <3>2. PICK RD3 : Ranked(newDir, RD3, RL) BY <3>1, <2>1, <2>2, <1>2, <1>6, NewRootRanked
    <3>3. PICK leaves \in SUBSET Nat : leaves = DOMAIN RL BY <1>2
    <3>4. Directory(newDir, leaves) /\ DOMAIN d.file \subseteq DOMAIN newDir
      BY <3>1, <3>3, <2>2, <1>6, NewRootTyped
    <3>5. Leads(newDir, RL) BY <3>2, <3>3, <3>4, <1>6, RankedLow DEF Leads
    <3> QED BY <3>2, <3>5
  <2> QED BY <2>4, <2>5
<1> QED BY <1>7, <1>8

(* s records come before the first one with a key that is not smaller. *)
IsLeafSlot(recs, k, s) ==
  /\ s \in 0..Len(recs)
  /\ \A i \in 1..s : recs[i].key < k
  /\ s < Len(recs) => recs[s + 1].key >= k

LEMMA LeafSlotIs ==
  ASSUME NEW recs \in Seq(Entry), NEW k \in Int
  PROVE  IsLeafSlot(recs, k, findLeafSlot(recs, k))
<1>1. \A i \in 1..Len(recs) : recs[i].key \in Int BY KeysAreIntegers
<1>2. PICK T : T = {s \in DOMAIN recs : compareVals(recs[s].key, k) >= 0}
                   \union {Len(recs) + 1}
  OBVIOUS
<1>3. T \subseteq Nat /\ T # {} /\ T \subseteq 1..(Len(recs) + 1) BY <1>2
<1>4. PICK m \in 1..(Len(recs) + 1) : m = Min(T) /\ m \in T /\ \A j \in T : m <= j
  BY <1>3, LeastExists
<1>5. findLeafSlot(recs, k) = m - 1 BY <1>2, <1>4 DEF findLeafSlot
<1>6. \A i \in 1..Len(recs) : i \in T <=> recs[i].key >= k
  BY <1>1, <1>2 DEF compareVals
<1>7. PICK s \in 0..Len(recs) : s = m - 1 BY <1>4
<1>8. ASSUME NEW i \in 1..s PROVE recs[i].key < k
  <2>1. i \in 1..Len(recs) /\ i < m BY <1>7
  <2>2. i \notin T BY <2>1, <1>4
  <2> QED BY <2>1, <2>2, <1>1, <1>6
<1>9. s < Len(recs) => recs[s + 1].key >= k
  <2>1. s < Len(recs) => m \in 1..Len(recs) /\ s + 1 = m BY <1>7
  <2> QED BY <2>1, <1>4, <1>6
<1> QED BY <1>5, <1>7, <1>8, <1>9 DEF IsLeafSlot

Sorted(recs) == \A i, j \in 1..Len(recs) : i < j => recs[i].key <= recs[j].key

KeysWithin(recs, range) == \A r \in ToSet(recs) : r.key \in range

LEMMA SortedInsert ==
  ASSUME NEW recs \in Seq(Entry), Sorted(recs), NEW rec \in Entry,
         NEW s, s = findLeafSlot(recs, rec.key), NEW new, Longer(recs, s, rec, new)
  PROVE  Sorted(new)
<1>1. \A i \in 1..Len(recs) : recs[i].key \in Int BY KeysAreIntegers
<1>2. PICK K \in Int : K = rec.key BY KeysAreIntegers
<1>3. IsLeafSlot(recs, K, s) BY <1>2, LeafSlotIs
<1>4. s \in 0..Len(recs) /\ Len(recs) \in Nat BY <1>3 DEF IsLeafSlot
<1>5. /\ Len(new) = Len(recs) + 1
      /\ \A i \in 1..Len(new) :
           new[i] = IF i <= s THEN recs[i] ELSE IF i = s + 1 THEN rec ELSE recs[i - 1]
  BY DEF Longer
<1>6. ASSUME NEW i \in 1..Len(recs), i <= s PROVE recs[i].key < K
  <2>1. i \in 1..s BY <1>4, <1>6
  <2> QED BY <2>1, <1>3 DEF IsLeafSlot
<1>7. ASSUME NEW i \in 1..Len(recs), i > s PROVE recs[i].key >= K
  <2>1. s < Len(recs) /\ s + 1 \in 1..Len(recs) BY <1>4, <1>7
  <2>2. recs[s + 1].key >= K BY <2>1, <1>3 DEF IsLeafSlot
  <2>3. CASE i = s + 1 BY <2>2, <2>3
  <2>4. CASE i # s + 1
    <3>1. s + 1 < i BY <2>4, <1>4, <1>7
    <3>2. recs[s + 1].key <= recs[i].key BY <3>1, <2>1 DEF Sorted
    <3> QED BY <3>2, <2>1, <2>2, <1>1
  <2> QED BY <2>3, <2>4
<1>8. ASSUME NEW i \in 1..Len(new), NEW j \in 1..Len(new), i < j
      PROVE  new[i].key <= new[j].key
  <2>1. CASE j <= s
    <3>1. i \in 1..Len(recs) /\ j \in 1..Len(recs) /\ i <= s BY <2>1, <1>4, <1>5, <1>8
    <3>2. new[i] = recs[i] /\ new[j] = recs[j] BY <3>1, <2>1, <1>5
    <3> QED BY <3>1, <3>2, <1>8 DEF Sorted
  <2>2. CASE j = s + 1
    <3>1. i \in 1..Len(recs) /\ i <= s /\ ~(j <= s) BY <2>2, <1>4, <1>5, <1>8
    <3>2. new[i] = recs[i] /\ new[j] = rec BY <3>1, <2>2, <1>5
    <3>3. recs[i].key < K /\ recs[i].key \in Int BY <3>1, <1>1, <1>6
    <3> QED BY <3>2, <3>3, <1>2
  <2>3. CASE j > s + 1
    <3>1. j - 1 \in 1..Len(recs) /\ j - 1 > s /\ ~(j <= s) /\ j # s + 1
      BY <2>3, <1>4, <1>5
    <3>2. new[j] = recs[j - 1] BY <3>1, <1>5
    <3>3. recs[j - 1].key >= K /\ recs[j - 1].key \in Int BY <3>1, <1>1, <1>7
    <3>4. CASE i <= s
      <4>1. i \in 1..Len(recs) /\ new[i] = recs[i] BY <3>4, <1>4, <1>5
      <4>2. recs[i].key < K /\ recs[i].key \in Int BY <3>4, <4>1, <1>1, <1>6
      <4> QED BY <4>1, <4>2, <3>2, <3>3
    <3>5. CASE i = s + 1
      <4>1. new[i] = rec BY <3>5, <1>4, <1>5
      <4> QED BY <4>1, <3>2, <3>3, <1>2
    <3>6. CASE i > s + 1
      <4>1. i - 1 \in 1..Len(recs) /\ i - 1 < j - 1 /\ ~(i <= s) /\ i # s + 1
        BY <3>6, <1>4, <1>5, <1>8
      <4>2. new[i] = recs[i - 1] BY <4>1, <1>5
      <4>3. recs[i - 1].key <= recs[j - 1].key BY <4>1, <3>1 DEF Sorted
      <4> QED BY <4>2, <4>3, <3>2
    <3> QED BY <3>4, <3>5, <3>6, <1>4
  <2> QED BY <2>1, <2>2, <2>3, <1>4
<1> QED BY <1>8 DEF Sorted

Under(a, b) == \A x \in a, y \in b : x < y

(* The leaves of a chain have ranges that grow from one to the next. *)
Ordered(l, S, R) ==
  /\ DOMAIN R = S /\ R \in [S -> SUBSET Int]
  /\ \A b \in S : /\ R[b] # {} /\ Sorted(l[b].recs) /\ KeysWithin(l[b].recs, R[b])
                  /\ l[b].extra1 \notin {None, 0} => Under(R[b], R[l[b].extra1])

(* A record is entered in the leaf whose range has its key. *)
LEMMA OrderedInsert ==
  ASSUME NEW l, LeafFile(l), NEW S \in SUBSET DOMAIN l, NEW R, Ordered(l, S, R),
         NEW b \in S, NEW rec \in Entry, rec.key \in R[b],
         NEW new, new = doInsert(l, b, findLeafSlot(l[b].recs, rec.key), rec)
  PROVE  /\ Ordered(new, S, R)
         /\ \A x \in S : ToSet(l[x].recs) \subseteq ToSet(new[x].recs)
<1>1. PICK s : s = findLeafSlot(l[b].recs, rec.key) OBVIOUS
<1>2. l[b] \in Pages /\ l[b].recs \in Seq(Entry) /\ b \in DOMAIN l
  BY DEF LeafFile, LeafPage, Pages, Entry
<1>3. s \in 0..Len(l[b].recs)
  <2>1. rec.key \in Int BY KeysAreIntegers
  <2>2. IsLeafSlot(l[b].recs, rec.key, s) BY <2>1, <1>1, <1>2, LeafSlotIs
  <2> QED BY <2>2 DEF IsLeafSlot
<1>4. /\ DOMAIN new = DOMAIN l /\ \A c \in DOMAIN l \ {b} : new[c] = l[c]
      /\ new[b].extra1 = l[b].extra1 /\ Longer(l[b].recs, s, rec, new[b].recs)
  BY <1>1, <1>2, <1>3, InsertEffect
<1>5. Sorted(new[b].recs)
  <2>1. Sorted(l[b].recs) BY DEF Ordered
  <2> QED BY <2>1, <1>1, <1>2, <1>4, SortedInsert
<1>6. ToSet(new[b].recs) = ToSet(l[b].recs) \union {rec} BY <1>4 DEF Longer
<1>7. KeysWithin(new[b].recs, R[b])
  <2>1. KeysWithin(l[b].recs, R[b]) BY DEF Ordered
  <2> QED BY <2>1, <1>6 DEF KeysWithin
<1>8. ASSUME NEW c \in S
      PROVE  /\ R[c] # {} /\ Sorted(new[c].recs) /\ KeysWithin(new[c].recs, R[c])
             /\ new[c].extra1 \notin {None, 0} => Under(R[c], R[new[c].extra1])
             /\ ToSet(l[c].recs) \subseteq ToSet(new[c].recs)
  <2>1. /\ R[c] # {} /\ Sorted(l[c].recs) /\ KeysWithin(l[c].recs, R[c])
        /\ l[c].extra1 \notin {None, 0} => Under(R[c], R[l[c].extra1])
    BY DEF Ordered
  <2>2. CASE c = b BY <2>1, <2>2, <1>4, <1>5, <1>6, <1>7
  <2>3. CASE c # b
    <3>1. new[c] = l[c] BY <2>3, <1>4
    <3> QED BY <3>1, <2>1
  <2> QED BY <2>2, <2>3
<1>9. DOMAIN R = S /\ R \in [S -> SUBSET Int] BY DEF Ordered
<1> QED BY <1>8, <1>9 DEF Ordered

(* A leaf that was split into b and n, between the keys below K and the rest *)
Parts(R, M, R2, S, b, n, K) ==
  /\ Half(M, R2, b, n, K) /\ \A x \in S : M[x] = R[x]
  /\ n \notin S /\ n \in Nat /\ K \in Keys

(* The halves of a leaf that was parted between different keys *)
Apart(l, S, R, b, pos, new, n, K) ==
  /\ LeafFile(l) /\ S \in SUBSET DOMAIN l /\ Closed(l, S) /\ 0 \in S /\ b \in S
  /\ Ordered(l, S, R) /\ LeafParted(l, b, pos, new)
  /\ n = Size(l) /\ K = new[n].recs[1].key
  /\ \A r \in ToSet(new[b].recs) : r.key # K

LEMMA OrderedParted ==
  ASSUME NEW l, NEW S, NEW R, NEW b, NEW pos, NEW new, NEW n, NEW K,
         Apart(l, S, R, b, pos, new, n, K)
  PROVE  \E M, R2 : Ordered(new, S \union {n}, R2) /\ Parts(R, M, R2, S, b, n, K)
<1> USE DEF Apart
<1>1. PICK recs, lo, hi : recs = l[b].recs /\ lo = new[b].recs /\ hi = new[n].recs OBVIOUS
<1>2. /\ n \in Nat /\ n \notin DOMAIN l /\ b # n
      /\ pos \in Nat /\ 1 <= pos /\ pos < Len(recs) /\ Cut(recs, pos, lo, hi)
      /\ DOMAIN new = DOMAIN l \union {n} /\ \A c \in DOMAIN l \ {b} : new[c] = l[c]
      /\ new[b].extra1 = n /\ new[n].extra1 = l[b].extra1
  BY <1>1 DEF LeafParted
<1>3. recs \in Seq(Entry) /\ Len(recs) \in Nat
  <2>1. l[b] \in Pages BY DEF LeafFile, LeafPage
  <2> QED BY <2>1, <1>1 DEF Pages, Entry
<1>4. /\ lo \in Seq(Entry) /\ Len(lo) = pos /\ ToSet(lo) \subseteq ToSet(recs)
      /\ hi \in Seq(Entry) /\ Len(hi) = Len(recs) - pos /\ ToSet(hi) \subseteq ToSet(recs)
      /\ \A i \in 1..pos : lo[i] = recs[i]
      /\ \A i \in 1..Len(hi) : hi[i] = recs[pos + i]
  BY <1>2 DEF Cut
<1>5. /\ DOMAIN R = S /\ R \in [S -> SUBSET Int] /\ R[b] # {}
      /\ Sorted(recs) /\ KeysWithin(recs, R[b])
      /\ l[b].extra1 \notin {None, 0} => Under(R[b], R[l[b].extra1])
  BY <1>1 DEF Ordered
<1>6. \A i \in 1..Len(recs) : recs[i].key \in Int BY <1>3, KeysAreIntegers
<1>7. 1 \in 1..Len(hi) /\ pos + 1 \in 1..Len(recs) /\ hi[1] = recs[pos + 1] /\ K = hi[1].key
      /\ K \in Int
  <2>1. 1 \in 1..Len(hi) /\ pos + 1 \in 1..Len(recs) BY <1>2, <1>3, <1>4
  <2> QED BY <2>1, <1>1, <1>4, <1>6
<1>8. Sorted(lo) /\ \A r \in ToSet(lo) : r.key < K
  <2>1. ASSUME NEW i \in 1..Len(lo), NEW j \in 1..Len(lo), i < j PROVE lo[i].key <= lo[j].key
    <3>1. i \in 1..Len(recs) /\ j \in 1..Len(recs) /\ lo[i] = recs[i] /\ lo[j] = recs[j]
      BY <1>2, <1>3, <1>4
    <3> QED BY <3>1, <2>1, <1>5 DEF Sorted
  <2>2. ASSUME NEW r \in ToSet(lo) PROVE r.key < K
    <3>1. PICK i \in 1..Len(lo) : r = lo[i] BY <1>4 DEF ToSet
    <3>2. i \in 1..Len(recs) /\ i < pos + 1 /\ lo[i] = recs[i] BY <1>2, <1>3, <1>4
    <3>3. recs[i].key <= recs[pos + 1].key BY <3>2, <1>5, <1>7 DEF Sorted
    <3>4. r.key # K BY <1>1
    <3>5. r.key \in Int /\ r.key <= K BY <3>1, <3>2, <3>3, <1>6, <1>7
    <3> QED BY <3>4, <3>5, <1>7
  <2> QED BY <2>1, <2>2 DEF Sorted
<1>9. Sorted(hi) /\ \A r \in ToSet(hi) : r.key >= K
  <2>1. ASSUME NEW i \in 1..Len(hi), NEW j \in 1..Len(hi), i < j PROVE hi[i].key <= hi[j].key
    <3>1. pos + i \in 1..Len(recs) /\ pos + j \in 1..Len(recs) /\ pos + i < pos + j
          /\ hi[i] = recs[pos + i] /\ hi[j] = recs[pos + j]
      BY <2>1, <1>2, <1>3, <1>4
    <3> QED BY <3>1, <1>5 DEF Sorted
  <2>2. ASSUME NEW r \in ToSet(hi) PROVE r.key >= K
    <3>1. PICK i \in 1..Len(hi) : r = hi[i] BY <1>4 DEF ToSet
    <3>2. hi[i].key \in Int BY <3>1, <1>4, KeysAreIntegers
    <3>3. CASE i = 1 BY <3>1, <3>2, <3>3, <1>7
    <3>4. CASE i # 1
      <4>1. 1 < i BY <3>1, <3>4
      <4>2. hi[1].key <= hi[i].key BY <4>1, <2>1, <1>7
      <4> QED BY <4>2, <3>1, <3>2, <1>7
    <3> QED BY <3>3, <3>4
  <2> QED BY <2>1, <2>2 DEF Sorted
<1>10. PICK D : D = S \union {n} OBVIOUS
<1>11. PICK M : M = [x \in D |-> IF x = n THEN {} ELSE R[x]] OBVIOUS
<1>12. PICK R2 : R2 = [x \in D |-> IF x = b THEN {k \in R[b] : k < K}
                                   ELSE IF x = n THEN {k \in R[b] : k >= K} ELSE R[x]]
  OBVIOUS
<1>13. n \notin S /\ n # 0 /\ b \in D /\ n \in D BY <1>2, <1>10
<1>14. /\ R2[b] = {k \in R[b] : k < K} /\ R2[n] = {k \in R[b] : k >= K}
       /\ \A x \in S \ {b} : R2[x] = R[x]
       /\ \A x \in S : M[x] = R[x] /\ M[n] = {} /\ R[b] \in SUBSET Int
       /\ DOMAIN R2 = D /\ DOMAIN M = D /\ R2 \in [D -> SUBSET Int]
  <2>1. R \in [S -> SUBSET Int] /\ b \in S /\ R[b] \in SUBSET Int BY <1>2, <1>5
  <2>2. b # n BY <2>1, <1>13
  <2>3. DOMAIN R2 = D /\ DOMAIN M = D BY <1>11, <1>12
  <2>4. R2[b] = {k \in R[b] : k < K} BY <1>12, <1>13
  <2>5. R2[n] = {k \in R[b] : k >= K} BY <2>2, <1>12, <1>13
  <2>6. ASSUME NEW x \in S \ {b} PROVE R2[x] = R[x]
    <3>1. x \in D /\ x # b /\ x # n BY <1>10, <1>13
    <3> QED BY <3>1, <1>12
  <2>7. M[n] = {} BY <1>11, <1>13
  <2>8. ASSUME NEW x \in S PROVE M[x] = R[x]
    <3>1. x \in D /\ x # n BY <1>10, <1>13
    <3> QED BY <3>1, <1>11
  <2>9. R2 \in [D -> SUBSET Int]
    <3>1. R2[b] \in SUBSET Int /\ R2[n] \in SUBSET Int BY <2>1, <2>4, <2>5
    <3>2. ASSUME NEW x \in D PROVE R2[x] \in SUBSET Int
      <4>1. CASE x \in {b, n} BY <4>1, <3>1
      <4>2. CASE x \notin {b, n}
        <5>1. x \in S \ {b} BY <4>2, <1>10
        <5>2. R[x] \in SUBSET Int BY <5>1, <2>1
        <5> QED BY <5>1, <5>2, <2>6
      <4> QED BY <4>1, <4>2
    <3>3. R2 = [x \in D |-> R2[x]] BY <2>3, <1>12
    <3> QED BY <3>2, <3>3
  <2> QED BY <2>1, <2>3, <2>4, <2>5, <2>6, <2>7, <2>8, <2>9
<1>15. K \in R[b] /\ \E k \in R[b] : k < K
  <2>1. hi[1] \in ToSet(hi) /\ lo[1] \in ToSet(lo)
    <3>1. 1 \in DOMAIN lo /\ 1 \in DOMAIN hi BY <1>2, <1>4, <1>7
    <3> QED BY <3>1 DEF ToSet
  <2>2. hi[1] \in ToSet(recs) /\ lo[1] \in ToSet(recs) BY <2>1, <1>4
  <2>3. hi[1].key \in R[b] /\ lo[1].key \in R[b] BY <2>2, <1>5 DEF KeysWithin
  <2>4. lo[1].key < K BY <2>1, <1>8
  <2>5. K = hi[1].key BY <1>7
  <2> QED BY <2>3, <2>4, <2>5
<1>16. Half(M, R2, b, n, K)
  <2>1. M[b] = R[b] /\ M[b] \in SUBSET Int /\ K \in M[b] BY <1>14, <1>15
  <2>2. DOMAIN M = DOMAIN R2 /\ b \in DOMAIN R2 /\ n \in DOMAIN R2 /\ b # n /\ M[n] = {}
    BY <1>2, <1>13, <1>14
  <2>3. R2[b] # {} BY <1>14, <1>15
  <2>4. \A x \in DOMAIN R2 \ {b, n} : R2[x] = M[x] BY <1>10, <1>14
  <2>5. R2[b] = {k \in M[b] : k < K} /\ R2[n] = {k \in M[b] : k >= K} BY <2>1, <1>14
  <2> QED BY <2>1, <2>2, <2>3, <2>4, <2>5 DEF Half
<1>17. R2[b] # {} /\ R2[n] # {} /\ R2[b] \subseteq R[b] /\ R2[n] \subseteq R[b]
  <2>1. K >= K BY <1>7
  <2> QED BY <2>1, <1>14, <1>15
<1>18. KeysWithin(lo, R2[b]) /\ KeysWithin(hi, R2[n])
  BY <1>4, <1>5, <1>8, <1>9, <1>14 DEF KeysWithin
<1>19. Under(R2[b], R2[n])
  <2>1. \A x, y \in Int : x < K /\ y >= K => x < y BY <1>7
  <2> QED BY <2>1, <1>14 DEF Under
<1>20. ASSUME NEW x \in S, l[x].extra1 \notin {None, 0}
       PROVE  /\ l[x].extra1 \in S /\ l[x].extra1 # n
              /\ R2[l[x].extra1] \subseteq R[l[x].extra1] /\ Under(R[x], R[l[x].extra1])
  <2>1. l[x].extra1 \in S BY <1>20 DEF Closed
  <2>2. Under(R[x], R[l[x].extra1]) BY <1>20 DEF Ordered
  <2> QED BY <2>1, <2>2, <1>13, <1>14, <1>17
<1>21. ASSUME NEW x \in D
       PROVE  /\ R2[x] # {} /\ Sorted(new[x].recs) /\ KeysWithin(new[x].recs, R2[x])
              /\ new[x].extra1 \notin {None, 0} => Under(R2[x], R2[new[x].extra1])
  <2>1. CASE x = b BY <2>1, <1>1, <1>2, <1>8, <1>17, <1>18, <1>19
  <2>2. CASE x = n
    <3>1. ASSUME l[b].extra1 \notin {None, 0} PROVE Under(R2[n], R2[l[b].extra1])
      BY <3>1, <1>17, <1>20 DEF Under
    <3> QED BY <3>1, <2>2, <1>1, <1>2, <1>9, <1>17, <1>18
  <2>3. CASE x # b /\ x # n
    <3>1. x \in S \ {b} /\ new[x] = l[x] /\ R2[x] = R[x] BY <2>3, <1>2, <1>10, <1>14
    <3>2. R[x] # {} /\ Sorted(l[x].recs) /\ KeysWithin(l[x].recs, R[x])
      BY <3>1 DEF Ordered
    <3>3. ASSUME l[x].extra1 \notin {None, 0} PROVE Under(R2[x], R2[l[x].extra1])
      BY <3>1, <3>3, <1>20 DEF Under
    <3> QED BY <3>1, <3>2, <3>3
  <2> QED BY <2>1, <2>2, <2>3
<1>22. Ordered(new, D, R2) BY <1>14, <1>21 DEF Ordered
<1>23. K \in Keys
  <2>1. hi[1] \in Entry BY <1>4, <1>7
  <2> QED BY <2>1, <1>7 DEF Entry
<1>24. Parts(R, M, R2, S, b, n, K) BY <1>2, <1>13, <1>14, <1>16, <1>23 DEF Parts
<1> QED BY <1>10, <1>22, <1>24

(* A search that goes on from a slot of block b is going to come to record e *)
(* if e has its key: e is in b, at the slot or after it, or the range of b   *)
(* does not lie above it.                                                    *)
AheadOf(l, S, R, b, slot, e) ==
  \E c \in S : \E t \in 1..Len(l[c].recs) :
    /\ l[c].recs[t] = e
    /\ IF c = b THEN t >= slot ELSE Below(R[b], e.key)

KeepsAhead(l, S, R, new, T, R2) ==
  /\ S \subseteq T
  /\ \A b \in S, slot \in Nat, e \in Entry :
       AheadOf(l, S, R, b, slot, e) => AheadOf(new, T, R2, b, slot, e)

LEMMA AheadInsert ==
  ASSUME NEW l, LeafFile(l), NEW S \in SUBSET DOMAIN l, NEW R,
         NEW c \in S, NEW rec \in Entry, NEW s \in 0..Len(l[c].recs),
         NEW new, new = doInsert(l, c, s, rec)
  PROVE  KeepsAhead(l, S, R, new, S, R)
<1>1. l[c] \in Pages /\ l[c].recs \in Seq(Entry) /\ c \in DOMAIN l
  BY DEF LeafFile, LeafPage, Pages, Entry
<1>2. /\ \A x \in DOMAIN l \ {c} : new[x] = l[x]
      /\ Longer(l[c].recs, s, rec, new[c].recs)
  BY <1>1, InsertEffect
<1>3. /\ Len(new[c].recs) = Len(l[c].recs) + 1 /\ Len(l[c].recs) \in Nat
      /\ \A i \in 1..Len(new[c].recs) :
           new[c].recs[i] = IF i <= s THEN l[c].recs[i] ELSE IF i = s + 1 THEN rec
                            ELSE l[c].recs[i - 1]
  BY <1>1, <1>2 DEF Longer
<1>4. ASSUME NEW b \in S, NEW slot \in Nat, NEW e \in Entry, AheadOf(l, S, R, b, slot, e)
      PROVE  AheadOf(new, S, R, b, slot, e)
  <2>1. PICK a \in S : \E t \in 1..Len(l[a].recs) :
          l[a].recs[t] = e /\ IF a = b THEN t >= slot ELSE Below(R[b], e.key)
    BY <1>4 DEF AheadOf
  <2>2. PICK t \in 1..Len(l[a].recs) :
          l[a].recs[t] = e /\ IF a = b THEN t >= slot ELSE Below(R[b], e.key)
    BY <2>1
  <2>3. CASE a # c
    <3>1. new[a] = l[a] BY <2>3, <1>2
    <3> QED BY <3>1, <2>2 DEF AheadOf
  <2>4. CASE a = c
    <3>1. CASE t <= s
      <4>1. t \in 1..Len(l[c].recs) /\ l[c].recs[t] = e BY <2>2, <2>4
      <4>2. t \in 1..Len(new[c].recs) BY <4>1, <1>3
      <4>3. new[c].recs[t] = e BY <4>1, <4>2, <3>1, <1>3
      <4> QED BY <4>2, <4>3, <2>2, <2>4 DEF AheadOf
    <3>2. CASE ~(t <= s)
      <4>1. PICK u \in Nat : u = t + 1 OBVIOUS
      <4>2. u \in 1..Len(new[c].recs) /\ ~(u <= s) /\ u # s + 1 /\ u - 1 = t
        BY <4>1, <3>2, <2>4, <1>3
      <4>3. new[c].recs[u] = e BY <4>2, <2>2, <2>4, <1>3
      <4>4. t >= slot => u >= slot BY <4>1
      <4> QED BY <4>2, <4>3, <4>4, <2>2, <2>4 DEF AheadOf
    <3> QED BY <3>1, <3>2
  <2> QED BY <2>3, <2>4
<1> QED BY <1>4 DEF KeepsAhead

LEMMA AheadParted ==
  ASSUME NEW l, NEW S, NEW R, NEW b, NEW pos, NEW new, NEW n, NEW K,
         Apart(l, S, R, b, pos, new, n, K),
         NEW M, NEW R2, Ordered(new, S \union {n}, R2), Parts(R, M, R2, S, b, n, K)
  PROVE  KeepsAhead(l, S, R, new, S \union {n}, R2)
<1>1. PICK recs, lo, hi, T : recs = l[b].recs /\ lo = new[b].recs /\ hi = new[n].recs
                             /\ T = S \union {n}
  OBVIOUS
<1>2. /\ n \in Nat /\ n \notin DOMAIN l /\ b # n
      /\ pos \in Nat /\ 1 <= pos /\ pos < Len(recs) /\ Cut(recs, pos, lo, hi)
      /\ \A c \in DOMAIN l \ {b} : new[c] = l[c]
  BY <1>1 DEF LeafParted, Apart
<1>3. recs \in Seq(Entry) /\ Len(recs) \in Nat
  <2>1. b \in DOMAIN l /\ LeafFile(l) BY DEF Apart
  <2>2. l[b] \in Pages BY <2>1 DEF LeafFile, LeafPage
  <2> QED BY <2>2, <1>1 DEF Pages, Entry
<1>4. /\ Len(lo) = pos /\ Len(hi) = Len(recs) - pos
      /\ \A i \in 1..pos : lo[i] = recs[i]
      /\ \A i \in 1..Len(hi) : hi[i] = recs[pos + i]
  BY <1>2 DEF Cut
<1>5. /\ Half(M, R2, b, n, K) /\ K \in Int /\ \A x \in S : M[x] = R[x]
      /\ DOMAIN R2 = T /\ S \subseteq T /\ n \notin S /\ b \in S
  BY <1>1 DEF Parts, Half, Ordered, Apart
<1>6. ASSUME NEW x \in S, NEW k \in Int, Below(R[x], k) PROVE Below(R2[x], k)
  <2>1. Below(M[x], k) /\ x \in DOMAIN R2 BY <1>5, <1>6
  <2> QED BY <2>1, <1>5, HalfLow
<1>7. ASSUME NEW r \in ToSet(hi) PROVE Below(R2[b], r.key)
  <2>1. KeysWithin(hi, R2[n]) BY <1>1, <1>5 DEF Ordered
  <2>2. r.key \in R2[n] BY <2>1, <1>7 DEF KeysWithin
  <2>3. R2[b] # {} /\ R2[b] = {k \in M[b] : k < K} /\ R2[n] = {k \in M[b] : k >= K}
        /\ M[b] \in SUBSET Int
    BY <1>5 DEF Half
  <2>4. PICK x : x \in R2[b] BY <2>3
  <2>5. x \in Int /\ x < K /\ r.key \in Int /\ r.key >= K BY <2>2, <2>3, <2>4
  <2>6. x <= r.key BY <2>5, <1>5
  <2> QED BY <2>4, <2>6 DEF Below
<1>8. ASSUME NEW x \in S, NEW slot \in Nat, NEW e \in Entry, AheadOf(l, S, R, x, slot, e)
      PROVE  AheadOf(new, T, R2, x, slot, e)
  <2>1. PICK a \in S : \E t \in 1..Len(l[a].recs) :
          l[a].recs[t] = e /\ IF a = x THEN t >= slot ELSE Below(R[x], e.key)
    BY <1>8 DEF AheadOf
  <2>2. PICK t \in 1..Len(l[a].recs) :
          l[a].recs[t] = e /\ IF a = x THEN t >= slot ELSE Below(R[x], e.key)
    BY <2>1
  <2>3. e.key \in Int BY KeysAreIntegers
  <2>4. a # x => Below(R2[x], e.key) BY <2>2, <2>3, <1>6
  <2>5. CASE a # b
    <3>1. new[a] = l[a] /\ a \in T
      <4>1. a \in DOMAIN l BY DEF Apart
      <4> QED BY <4>1, <2>5, <1>2, <1>5
    <3> QED BY <3>1, <2>2, <2>4 DEF AheadOf
  <2>6. CASE a = b /\ t <= pos
    <3>1. t \in 1..Len(lo) /\ lo[t] = e BY <2>2, <2>6, <1>1, <1>2, <1>3, <1>4
    <3> QED BY <3>1, <2>2, <2>4, <2>6, <1>1, <1>5 DEF AheadOf
  <2>7. CASE a = b /\ ~(t <= pos)
    <3>1. PICK u \in Nat : u = t - pos BY <2>7, <1>2
    <3>2. u \in 1..Len(hi) /\ pos + u = t BY <3>1, <2>7, <1>1, <1>2, <1>3, <1>4
    <3>3. hi[u] = e BY <3>2, <2>2, <2>7, <1>1, <1>4
    <3>4. hi \in Seq(Entry) BY <1>2 DEF Cut
    <3>5. e \in ToSet(hi) BY <3>2, <3>3, <3>4 DEF ToSet
    <3>6. Below(R2[x], e.key)
      <4>1. CASE x = b BY <4>1, <3>5, <1>7
      <4>2. CASE x # b BY <4>2, <2>4, <2>7
      <4> QED BY <4>1, <4>2
    <3>7. n \in T /\ n # x BY <1>1, <1>5
    <3> QED BY <3>2, <3>3, <3>6, <3>7, <1>1 DEF AheadOf
  <2> QED BY <2>5, <2>6, <2>7
<1>9. KeepsAhead(l, S, R, new, T, R2) BY <1>5, <1>8 DEF KeepsAhead
<1> QED BY <1>1, <1>9

LEMMA AheadTwice ==
  ASSUME NEW l, NEW S, NEW R, NEW l2, NEW T, NEW R2, KeepsAhead(l, S, R, l2, T, R2),
         NEW l3, NEW U, NEW R3, KeepsAhead(l2, T, R2, l3, U, R3)
  PROVE  KeepsAhead(l, S, R, l3, U, R3)
BY DEF KeepsAhead

Stays(l, new) ==
  /\ SameLinks(l, new)
  /\ \A x \in DOMAIN l : ToSet(l[x].recs) \subseteq ToSet(new[x].recs)

LEMMA RecordStays ==
  ASSUME NEW l, LeafFile(l), NEW b \in DOMAIN l, NEW rec \in Entry,
         NEW s \in 0..Len(l[b].recs), NEW new, new = doInsert(l, b, s, rec)
  PROVE  Stays(l, new)
<1>1. l[b] \in Pages BY DEF LeafFile, LeafPage
<1>2. /\ DOMAIN new = DOMAIN l /\ \A c \in DOMAIN l \ {b} : new[c] = l[c]
      /\ new[b].extra1 = l[b].extra1 /\ Longer(l[b].recs, s, rec, new[b].recs)
  BY <1>1, InsertEffect
<1>3. ToSet(new[b].recs) = ToSet(l[b].recs) \union {rec} BY <1>2 DEF Longer
<1> QED BY <1>2, <1>3 DEF SameLinks, Stays

(* If a cut in the middle has parted no equal keys, all keys of the lower    *)
(* half are smaller.                                                         *)
LEMMA HalvesApart ==
  ASSUME NEW l, LeafFile(l), NEW S, Chained(l, S), NEW R, Ordered(l, S, R), NEW b \in S,
         NEW pos, NEW base, LeafParted(l, b, pos, base), ~EqualKeysApart(base),
         NEW n, n = Size(l), NEW K, K = base[n].recs[1].key
  PROVE  Apart(l, S, R, b, pos, base, n, K)
<1>1. S \in SUBSET DOMAIN l /\ Closed(l, S) /\ 0 \in S /\ b \in DOMAIN l
  BY DEF Chained, Linked, Closed
<1>2. PICK hi, lo : hi = base[n].recs /\ lo = base[b].recs OBVIOUS
<1>3. /\ n \in Nat /\ n \notin DOMAIN l /\ b # n /\ DOMAIN base = DOMAIN l \union {n}
      /\ pos \in Nat /\ pos < Len(l[b].recs)
      /\ Cut(l[b].recs, pos, lo, hi)
  BY <1>2 DEF LeafParted
<1>4. l[b].recs \in Seq(Entry)
  <2>1. l[b] \in Pages BY <1>1 DEF LeafFile, LeafPage
  <2> QED BY <2>1 DEF Pages, Entry
<1>5. hi \in Seq(Entry) /\ Len(hi) = Len(l[b].recs) - pos BY <1>3 DEF Cut
<1>6. 1 \in DOMAIN hi BY <1>3, <1>4, <1>5
<1>7. \A r \in ToSet(base[b].recs) : r.key # K
  <2> SUFFICES ASSUME NEW r \in ToSet(base[b].recs), r.key = K PROVE FALSE OBVIOUS
  <2>1. PICK first : first = hi[1] OBVIOUS
  <2>2. first \in ToSet(base[n].recs) BY <2>1, <1>2, <1>6 DEF ToSet
  <2>3. b \in DOMAIN base /\ n \in DOMAIN base BY <1>1, <1>3
  <2>4. r.key = first.key BY <2>1, <1>2
  <2> QED BY <2>2, <2>3, <2>4, <1>3 DEF EqualKeysApart
<1> QED BY <1>1, <1>7 DEF Apart

LEMMA LeafOrdered ==
  ASSUME NEW l, LeafFile(l), NEW S, Chained(l, S), NEW R, Ordered(l, S, R),
         NEW b \in S, NEW rec \in Entry, rec.key \in R[b],
         NEW res, res = LeafInsert(l, b, rec), ~EqualKeysApart(res.file)
  PROVE  \/ /\ res.split = NoSplit
            /\ Chained(res.file, S) /\ Ordered(res.file, S, R)
            /\ KeepsAhead(l, S, R, res.file, S, R)
         \/ \E n, K, M, R2 :
              /\ res.split = [key |-> K, val |-> n] /\ Parts(R, M, R2, S, b, n, K)
              /\ Chained(res.file, S \union {n}) /\ Ordered(res.file, S \union {n}, R2)
              /\ KeepsAhead(l, S, R, res.file, S \union {n}, R2)
<1>1. S \in SUBSET DOMAIN l /\ Closed(l, S) /\ 0 \in S /\ b \in DOMAIN l
  BY DEF Chained, Linked, Closed
<1>2. PICK base, c, handed, slot :
        /\ HasRoom(l, b, rec, base, c, handed)
        /\ LeafFile(base) /\ c \in DOMAIN base
        /\ slot = findLeafSlot(base[c].recs, rec.key) /\ slot \in 0..Len(base[c].recs)
        /\ res = [file |-> doInsert(base, c, slot, rec), split |-> handed]
  BY <1>1, LeafInsertIs
<1>3. PICK new : new = doInsert(base, c, slot, rec) /\ new = res.file BY <1>2
<1>4. res.split = handed BY <1>2
<1>5. /\ SameLinks(base, new)
      /\ \A x \in DOMAIN base : ToSet(base[x].recs) \subseteq ToSet(new[x].recs)
  <2>1. Stays(base, new) BY <1>2, <1>3, RecordStays
  <2> QED BY <2>1 DEF Stays
<1>6. CASE base = l /\ c = b /\ handed = NoSplit
  <2>1. Chained(new, S) BY <1>5, <1>6, LinksKept
  <2>2. new = doInsert(l, b, findLeafSlot(l[b].recs, rec.key), rec) BY <1>2, <1>3, <1>6
  <2>3. Ordered(new, S, R) BY <2>2, <1>1, OrderedInsert
  <2>4. KeepsAhead(l, S, R, new, S, R) BY <1>1, <1>2, <1>3, <1>6, AheadInsert
  <2> QED BY <2>1, <2>3, <2>4, <1>3, <1>4, <1>6
<1>7. CASE \E pos : /\ LeafParted(l, b, pos, base)
                    /\ handed = [key |-> base[Size(l)].recs[1].key, val |-> Size(l)]
                    /\ handed.key \in Keys
                    /\ IF compareVals(rec.key, handed.key) < 0 THEN c = b ELSE c = Size(l)
  <2>1. PICK n, K : n = Size(l) /\ K = base[n].recs[1].key OBVIOUS
  <2>2. PICK pos : /\ LeafParted(l, b, pos, base) /\ handed = [key |-> K, val |-> n]
                   /\ K \in Keys
                   /\ IF compareVals(rec.key, K) < 0 THEN c = b ELSE c = n
    BY <1>7, <2>1
  <2>3. n \notin DOMAIN l /\ b # n /\ DOMAIN base = DOMAIN l \union {n}
    BY <2>1, <2>2 DEF LeafParted
  <2>4. ~EqualKeysApart(base)
    <3>1. DOMAIN base = DOMAIN new BY <1>5 DEF SameLinks
    <3>2. ASSUME NEW x \in DOMAIN base, NEW y \in DOMAIN base, x # y,
                 NEW r \in ToSet(base[x].recs), NEW q \in ToSet(base[y].recs), r.key = q.key
          PROVE  FALSE
      <4>1. x \in DOMAIN new /\ y \in DOMAIN new BY <3>1
      <4>2. r \in ToSet(new[x].recs) /\ q \in ToSet(new[y].recs) BY <1>5
      <4>3. ~EqualKeysApart(new) BY <1>3
      <4> QED BY <4>1, <4>2, <4>3, <3>2 DEF EqualKeysApart
    <3> QED BY <3>2 DEF EqualKeysApart
  <2>5. PICK M, R2 : Ordered(base, S \union {n}, R2) /\ Parts(R, M, R2, S, b, n, K)
                     /\ KeepsAhead(l, S, R, base, S \union {n}, R2)
    <3>1. Apart(l, S, R, b, pos, base, n, K) BY <2>1, <2>2, <2>4, HalvesApart
    <3>2. PICK M, R2 : Ordered(base, S \union {n}, R2) /\ Parts(R, M, R2, S, b, n, K)
      BY <3>1, OrderedParted
    <3>3. KeepsAhead(l, S, R, base, S \union {n}, R2) BY <3>1, <3>2, AheadParted
    <3> QED BY <3>2, <3>3
  <2>6. PICK D : D = S \union {n} OBVIOUS
  <2>7. D \in SUBSET DOMAIN base /\ c \in D BY <2>2, <2>3, <2>6, <1>1
  <2>8. rec.key \in R2[c]
    <3>1. rec.key \in Int /\ K \in Int BY <2>5, KeysAreIntegers DEF Half, Parts
    <3>2. R2[b] = {k \in R[b] : k < K} /\ R2[n] = {k \in R[b] : k >= K}
      BY <1>1, <2>5 DEF Half, Parts
    <3> QED BY <3>1, <3>2, <2>2 DEF compareVals
  <2>9. Ordered(new, D, R2)
    <3>1. new = doInsert(base, c, findLeafSlot(base[c].recs, rec.key), rec) BY <1>2, <1>3
    <3>2. Ordered(base, D, R2) BY <2>5, <2>6
    <3> QED BY <3>1, <3>2, <2>7, <2>8, <1>2, OrderedInsert
  <2>10. Chained(new, D)
    <3>1. Chained(base, D) BY <2>1, <2>2, <2>6, ChainParted
    <3> QED BY <3>1, <1>5, LinksKept
  <2>11. Parts(R, M, R2, S, b, n, K) BY <2>5
  <2>12. res.split = [key |-> K, val |-> n] BY <2>2, <1>4
  <2>13. Chained(res.file, S \union {n}) /\ Ordered(res.file, S \union {n}, R2)
    BY <2>6, <2>9, <2>10, <1>3
  <2>14. KeepsAhead(l, S, R, res.file, S \union {n}, R2)
    <3>1. KeepsAhead(base, D, R2, new, D, R2) BY <2>7, <1>2, <1>3, AheadInsert
    <3> QED BY <3>1, <2>5, <2>6, <1>3, AheadTwice
  <2> QED BY <2>11, <2>12, <2>13, <2>14
<1> QED BY <1>2, <1>6, <1>7 DEF HasRoom

-----------------------------------------------------------------------------
(* Whole trees: with every key a search ends in the leaf that has its range. *)
Whole(l, d) ==
  \E RD, RL : Ordered(l, LeafBlocks(l), RL) /\ Ranked(d, RD, RL)

(* A tree that an Insert has not finished with: searches still start at or   *)
(* before the place of their key.                                            *)
Usable(l, d, RL) == Ordered(l, LeafBlocks(l), RL) /\ Reaches(d, RL)

LEMMA WholeIsUsable ==
  ASSUME NEW l, NEW d, Tree(l, d), NEW RD, NEW RL,
         Ordered(l, LeafBlocks(l), RL), Ranked(d, RD, RL)
  PROVE  Usable(l, d, RL)
<1>1. DOMAIN RL = LeafBlocks(l) BY DEF Ordered
<1>2. Directory(d, DOMAIN RL) /\ Root \in DOMAIN d BY <1>1, TreeIs DEF Tree
<1>3. Reaches(d, RL) BY <1>2, RankedLow, LowReaches
<1> QED BY <1>3 DEF Usable

(* The links lead out of a set of leaves to its end, or back to the start. *)
Going(l, T) == T \subseteq DOMAIN l /\ \A x \in T : l[x].extra1 \in T \union {None, 0}

(* The links lead from b to c. *)
After(l, b, c) == \A T \in SUBSET DOMAIN l : Going(l, T) /\ b \in T => c \in T

LEMMA AfterNext ==
  ASSUME NEW l, NEW b \in DOMAIN l, NEW s, s = l[b].extra1, s \notin {None, 0}, NEW c
  PROVE  /\ After(l, c, b) => After(l, c, s)
         /\ After(l, b, c) => c = b \/ After(l, s, c)
<1>1. ASSUME After(l, c, b), NEW T \in SUBSET DOMAIN l, Going(l, T), c \in T PROVE s \in T
  <2>1. b \in T BY <1>1 DEF After
  <2> QED BY <2>1, <1>1 DEF Going
<1>2. ASSUME After(l, b, c), c # b, NEW T \in SUBSET DOMAIN l, Going(l, T), s \in T
      PROVE  c \in T
  <2>1. PICK U : U = T \union {b} OBVIOUS
  <2>2. U \in SUBSET DOMAIN l /\ b \in U BY <2>1
  <2>3. Going(l, U) BY <2>1, <2>2, <1>2 DEF Going
  <2>4. c \in U BY <2>2, <2>3, <1>2 DEF After
  <2> QED BY <2>1, <2>4, <1>2
<1> QED BY <1>1, <1>2 DEF After

(* Of two leaves of the chain one comes after the other. *)
LEMMA InLine ==
  ASSUME NEW l, NEW S, Chained(l, S), NEW b \in S, NEW c \in S
  PROVE  After(l, b, c) \/ After(l, c, b)
<1>1. /\ S \subseteq DOMAIN l /\ 0 \in S /\ Closed(l, S)
      /\ \A T : Linked(l, T) => S \subseteq T
  BY DEF Chained, Linked, Closed
<1>2. ASSUME NEW x \in S PROVE After(l, 0, x)
  <2>1. ASSUME NEW T \in SUBSET DOMAIN l, Going(l, T), 0 \in T PROVE x \in T
    <3>1. Linked(l, T) BY <2>1 DEF Going, Linked, Closed
    <3> QED BY <3>1, <1>1
  <2> QED BY <2>1 DEF After
<1>3. PICK U : U = {x \in S : \A y \in S : After(l, x, y) \/ After(l, y, x)} OBVIOUS
<1>4. 0 \in U BY <1>1, <1>2, <1>3
<1>5. ASSUME NEW x \in U PROVE l[x].extra1 \in U \union {None}
  <2>1. x \in S /\ x \in DOMAIN l /\ \A y \in S : After(l, x, y) \/ After(l, y, x)
    BY <1>1, <1>3
  <2>2. PICK s : s = l[x].extra1 OBVIOUS
  <2>3. s \in S \union {None} BY <2>1, <2>2, <1>1 DEF Closed
  <2>4. CASE s \in {None, 0} BY <2>2, <2>4, <1>4
  <2>5. CASE s \notin {None, 0}
    <3>1. ASSUME NEW y \in S PROVE After(l, s, y) \/ After(l, y, s)
      <4>1. CASE After(l, y, x) BY <4>1, <2>1, <2>2, <2>5, AfterNext
      <4>2. CASE After(l, x, y)
        <5>1. y = x \/ After(l, s, y) BY <4>2, <2>1, <2>2, <2>5, AfterNext
        <5>2. After(l, x, x) BY DEF After
        <5>3. After(l, x, s) BY <5>2, <2>1, <2>2, <2>5, AfterNext
        <5> QED BY <5>1, <5>3
      <4> QED BY <4>1, <4>2, <2>1
    <3> QED BY <3>1, <2>2, <2>3, <2>5, <1>3
  <2> QED BY <2>4, <2>5
<1>6. Linked(l, U)
  <2>1. U \subseteq DOMAIN l BY <1>1, <1>3
  <2> QED BY <2>1, <1>4, <1>5 DEF Linked, Closed
<1>7. S \subseteq U BY <1>1, <1>6
<1> QED BY <1>3, <1>7

LEMMA RangesGrow ==
  ASSUME NEW l, NEW S, Closed(l, S), NEW R, Ordered(l, S, R),
         NEW b \in S, NEW c \in S, After(l, b, c)
  PROVE  b = c \/ Under(R[b], R[c])
<1>1. PICK T : T = {b} \union {x \in S : Under(R[b], R[x])} OBVIOUS
<1>2. T \in SUBSET DOMAIN l BY <1>1 DEF Closed
<1>3. ASSUME NEW x \in T PROVE l[x].extra1 \in T \union {None, 0}
  <2>1. x \in S BY <1>1
  <2>2. PICK s : s = l[x].extra1 OBVIOUS
  <2>3. CASE s \in {None, 0} BY <2>2, <2>3
  <2>4. CASE s \notin {None, 0}
    <3>1. s \in S BY <2>1, <2>2, <2>4 DEF Closed
    <3>2. Under(R[x], R[s]) /\ R[x] # {} /\ R \in [S -> SUBSET Int]
      BY <2>1, <2>2, <2>4 DEF Ordered
    <3>3. Under(R[b], R[s])
      <4>1. CASE x = b BY <4>1, <3>2
      <4>2. CASE x # b
        <5>1. Under(R[b], R[x]) BY <4>2, <1>1
        <5>2. PICK z : z \in R[x] BY <3>2
        <5>3. ASSUME NEW p \in R[b], NEW q \in R[s] PROVE p < q
          <6>1. p < z /\ z < q BY <5>1, <5>2, <3>2 DEF Under
          <6>2. p \in Int /\ q \in Int /\ z \in Int BY <5>2, <3>1, <3>2, <2>1
          <6> QED BY <6>1, <6>2
        <5> QED BY <5>3 DEF Under
      <4> QED BY <4>1, <4>2
    <3> QED BY <3>1, <3>3, <2>2, <1>1
  <2> QED BY <2>3, <2>4
<1>4. Going(l, T) /\ b \in T BY <1>1, <1>2, <1>3 DEF Going
<1>5. c \in T BY <1>2, <1>4 DEF After
<1> QED BY <1>1, <1>5

LEMMA RangesDiffer ==
  ASSUME NEW l, NEW S, Chained(l, S), NEW R, Ordered(l, S, R),
         NEW b \in S, NEW c \in S, NEW k, k \in R[b], k \in R[c]
  PROVE  b = c
<1>1. Closed(l, S) BY DEF Chained, Linked
<1>2. k \in Int BY DEF Ordered
<1>3. ~(k < k) BY <1>2
<1>4. ~Under(R[b], R[c]) /\ ~Under(R[c], R[b]) BY <1>3 DEF Under
<1>5. After(l, b, c) \/ After(l, c, b) BY InLine
<1> QED BY <1>1, <1>4, <1>5, RangesGrow

(* The leaf with the range of k comes after those that do not lie above k. *)
LEMMA ComesAfter ==
  ASSUME NEW l, NEW S, Chained(l, S), NEW R, Ordered(l, S, R),
         NEW b \in S, NEW c \in S, NEW k \in R[c], Below(R[b], k)
  PROVE  After(l, b, c)
<1>1. Closed(l, S) BY DEF Chained, Linked
<1>2. PICK x \in R[b] : x <= k BY DEF Below
<1>3. k \in Int /\ x \in Int BY DEF Ordered
<1>4. ~(k < x) BY <1>2, <1>3
<1>5. ~Under(R[c], R[b]) BY <1>4 DEF Under
<1>6. CASE After(l, b, c) BY <1>6
<1>7. CASE After(l, c, b)
  <2>1. c = b BY <1>1, <1>5, <1>7, RangesGrow
  <2> QED BY <2>1, <1>7
<1> QED BY <1>6, <1>7, InLine

(* What a directory has led to one leaf it leads to the lower half of now. *)
LEMMA LeafIsDue ==
  ASSUME NEW l, NEW S \in SUBSET Nat, Chained(l, S), NEW RL, Ordered(l, S, RL),
         NEW d, Directory(d, S), Root \in DOMAIN d, NEW RD, Ranked(d, RD, RL),
         NEW b \in S, NEW n, NEW K, NEW M, NEW R2, Parts(RL, M, R2, S, b, n, K),
         DOMAIN R2 = S \union {n}, NEW rec, rec = [key |-> K, val |-> n]
  PROVE  LeafDue(d, RD, R2, M, b, rec)
<1>1. /\ Half(M, R2, b, n, K) /\ \A x \in S : M[x] = RL[x]
      /\ n \notin S /\ n \in Nat /\ K \in Keys
  BY DEF Parts
<1>2. DOMAIN RL = S BY DEF Ordered
<1>3. PICK D \in SUBSET Nat : D = DOMAIN R2 /\ D = S \union {n} BY <1>1
<1>4. Directory(d, D) BY <1>3, DirectoryWith
<1>5. Pending(d, D, 0, rec) BY <1>1, <1>3 DEF Pending, IsChild
<1>6. \A x \in D : K \in M[x] => x = b
  <2>1. ASSUME NEW x \in S, K \in M[x] PROVE x = b
    <3>1. K \in RL[x] /\ K \in RL[b] BY <2>1, <1>1 DEF Half
    <3> QED BY <3>1, RangesDiffer
  <2>2. M[n] = {} BY <1>1 DEF Half
  <2> QED BY <2>1, <2>2, <1>3
<1>7. /\ Shares(d, RD) /\ RD[Root] = Int
      /\ \A x \in DOMAIN d : RD[x] # {} => Fit(d[x], RD[x], Sub(d[x], RD, RL))
  BY DEF Ranked
<1>8. ASSUME NEW x \in DOMAIN d, RD[x] # {}
      PROVE  Fit(d[x], RD[x], IF d[x].extra1 = 0 THEN M ELSE Sub(d[x], RD, R2))
  <2>1. Fit(d[x], RD[x], Sub(d[x], RD, RL)) BY <1>7, <1>8
  <2>2. CASE d[x].extra1 # 0
    <3>1. Sub(d[x], RD, RL) = Sub(d[x], RD, R2) BY <2>2 DEF Sub
    <3> QED BY <3>1, <2>1, <2>2
  <2>3. CASE d[x].extra1 = 0
    <3>1. Fit(d[x], RD[x], RL) BY <2>1, <2>3 DEF Sub
    <3>2. ASSUME NEW s \in 0..Len(d[x].recs) PROVE M[ChildAt(d[x], s)] = RL[ChildAt(d[x], s)]
      <4>1. IsChild(d, S, d[x].extra1, ChildAt(d[x], s)) BY ChildLevel
      <4>2. ChildAt(d[x], s) \in S BY <4>1, <2>3 DEF IsChild
      <4> QED BY <4>2, <1>1
    <3>3. Len(d[x].recs) \in Nat BY DirPageIs
    <3>4. Fit(d[x], RD[x], M) BY <3>1, <3>2, <3>3, FitWith
    <3> QED BY <3>4, <2>3
  <2> QED BY <2>2, <2>3
<1>9. ~(0 > d[Root].extra1)
  <2>1. d[Root].extra1 \in Nat BY DirPageIs
  <2> QED BY <2>1
<1>10. rec.key = K /\ rec.val = n OBVIOUS
<1>11. Due(d, RD, R2, 0, M, b, rec) BY <1>1, <1>7, <1>8, <1>9, <1>10 DEF Due
<1> QED BY <1>3, <1>4, <1>5, <1>6, <1>7, <1>10, <1>11 DEF LeafDue

(* What an Insert has made of the leaves f.leaf with the ranges RL *)
Advanced(f, RL, stop, res, RL2) ==
  /\ Usable(res.leaf, res.dir, RL2) /\ Leads(res.dir, RL2)
  /\ stop > f.dir[Root].extra1 + 1 => \E RD2 : Ranked(res.dir, RD2, RL2)
  /\ KeepsAhead(f.leaf, LeafBlocks(f.leaf), RL, res.leaf, LeafBlocks(res.leaf), RL2)

LEMMA InsertOrders ==
  ASSUME NEW f, Tree(f.leaf, f.dir), NEW RD, NEW RL,
         Ordered(f.leaf, LeafBlocks(f.leaf), RL), Ranked(f.dir, RD, RL),
         NEW r \in Rids, NEW stop \in Int, NEW res, res = InsertUpTo(f, r, stop),
         ~EqualKeysApart(res.leaf)
  PROVE  \E RL2 : Advanced(f, RL, stop, res, RL2)
<1>1. PICK old, dirs, S : old = f.leaf /\ dirs = f.dir /\ S = LeafBlocks(old) OBVIOUS
<1>2. /\ LeafFile(old) /\ Chained(old, S) /\ S \in SUBSET Nat /\ Root \in DOMAIN dirs
      /\ Directory(dirs, S)
  BY <1>1, TreeIs DEF Tree
<1>3. Ordered(old, S, RL) /\ Ranked(dirs, RD, RL) /\ DOMAIN RL = S BY <1>1 DEF Ordered
<1>4. PICK b, l, d : InsertParts(f, r, stop, b, l, d, res) BY InsertHasParts
<1>5. PICK rec : rec = [key |-> KeyOf[r], val |-> r] OBVIOUS
<1>6. rec \in Entry /\ rec.key \in Int /\ rec.key = KeyOf[r]
  <2>1. rec \in Entry BY <1>5 DEF Keys, Entry
  <2> QED BY <2>1, <1>5, KeysAreIntegers
<1>7. /\ b = search(dirs, rec.key) /\ l = LeafInsert(old, b, rec) /\ res.leaf = l.file
      /\ d = IF l.split = NoSplit THEN [file |-> dirs, split |-> NoSplit]
             ELSE DirInsert(dirs, l.split, stop)
      /\ res.dir = Topped(dirs, d, stop)
  BY <1>1, <1>4, <1>5, <1>6 DEF InsertParts
<1>8. b \in S /\ rec.key \in RL[b]
  <2>1. Directory(dirs, DOMAIN RL) BY <1>2, <1>3
  <2>2. search(dirs, rec.key) \in DOMAIN RL /\ rec.key \in RL[search(dirs, rec.key)]
    BY <2>1, <1>2, <1>3, <1>6, RankedSearch
  <2> QED BY <2>2, <1>3, <1>7
<1>9. Tree(res.leaf, res.dir) BY InsertUpToEnters
<1>10. LeafFile(res.leaf) /\ 0 \in DOMAIN res.leaf BY <1>9, TreeIs DEF Tree
<1>11. CASE /\ l.split = NoSplit
            /\ Chained(l.file, S) /\ Ordered(l.file, S, RL)
            /\ KeepsAhead(old, S, RL, l.file, S, RL)
  <2>1. S = LeafBlocks(res.leaf) BY <1>7, <1>10, <1>11, ChainedIs
  <2>2. res.dir = dirs
    <3>1. d.split = NoSplit /\ d.file = dirs BY <1>7, <1>11
    <3> QED BY <3>1, <1>7 DEF Topped
  <2>3. Ordered(res.leaf, LeafBlocks(res.leaf), RL) /\ Ranked(res.dir, RD, RL)
    BY <2>1, <2>2, <1>3, <1>7, <1>11
  <2>4. Usable(res.leaf, res.dir, RL) BY <2>3, <1>9, WholeIsUsable
  <2>5. KeepsAhead(f.leaf, LeafBlocks(f.leaf), RL, res.leaf, LeafBlocks(res.leaf), RL)
    BY <2>1, <1>1, <1>7, <1>11
  <2>6. Leads(res.dir, RL)
    <3>1. Low(dirs, RD, RL) BY <1>2, <1>3, RankedLow
    <3> QED BY <3>1, <2>2 DEF Leads
  <2>7. Advanced(f, RL, stop, res, RL) BY <2>3, <2>4, <2>5, <2>6 DEF Advanced
  <2> QED BY <2>7
<1>12. CASE \E n, K, M, R2 :
              /\ l.split = [key |-> K, val |-> n] /\ Parts(RL, M, R2, S, b, n, K)
              /\ Chained(l.file, S \union {n}) /\ Ordered(l.file, S \union {n}, R2)
              /\ KeepsAhead(old, S, RL, l.file, S \union {n}, R2)
  <2>1. PICK n, K, M, R2 :
              /\ l.split = [key |-> K, val |-> n] /\ Parts(RL, M, R2, S, b, n, K)
              /\ Chained(l.file, S \union {n}) /\ Ordered(l.file, S \union {n}, R2)
              /\ KeepsAhead(old, S, RL, l.file, S \union {n}, R2)
    BY <1>12
  <2>2. S \union {n} = LeafBlocks(res.leaf) BY <2>1, <1>7, <1>10, ChainedIs
  <2>3. DOMAIN R2 = S \union {n} BY <2>1 DEF Ordered
  <2>4. LeafDue(dirs, RD, R2, M, b, l.split) BY <2>1, <2>3, <1>2, <1>3, <1>8, LeafIsDue
  <2>5. l.split # NoSplit
    <3>1. n # None BY <2>1 DEF Parts
    <3> QED BY <3>1, <2>1 DEF NoSplit
  <2>6. d = DirInsert(dirs, l.split, stop) BY <2>5, <1>7
  <2>7. PICK newDir : newDir = res.dir OBVIOUS
  <2>8. newDir = Topped(dirs, d, stop) BY <2>7, <1>7
  <2>9. /\ Leads(newDir, R2)
        /\ stop > dirs[Root].extra1 + 1 => \E RD2 : Ranked(newDir, RD2, R2)
    BY <2>4, <2>6, <2>8, LevelsRanked
  <2>10. Usable(res.leaf, res.dir, R2)
    <3>1. Root \in DOMAIN newDir /\ Directory(newDir, DOMAIN R2)
      BY <2>2, <2>3, <2>7, <1>9, TreeIs DEF Tree
    <3>2. PICK RD2 : Low(newDir, RD2, R2) BY <2>9 DEF Leads
    <3>3. Reaches(newDir, R2) BY <3>1, <3>2, LowReaches
    <3> QED BY <3>3, <2>1, <2>2, <2>7, <1>7 DEF Usable
  <2>11. KeepsAhead(f.leaf, LeafBlocks(f.leaf), RL, res.leaf, LeafBlocks(res.leaf), R2)
    BY <2>1, <2>2, <1>1, <1>7
  <2>12. Advanced(f, RL, stop, res, R2) BY <2>7, <2>9, <2>10, <2>11, <1>1 DEF Advanced
  <2> QED BY <2>12
<1>13. ~EqualKeysApart(l.file) BY <1>7
<1> QED BY <1>2, <1>3, <1>6, <1>7, <1>8, <1>11, <1>12, <1>13, LeafOrdered

(* The ranges grow along the chain up to place j. *)
Rising(R, chain, j) == \A x, y \in 1..j : x < y => Under(R[chain[x]], R[chain[y]])

LEMMA UnderTrans ==
  ASSUME NEW a \in SUBSET Int, NEW b \in SUBSET Int, NEW c \in SUBSET Int,
         b # {}, Under(a, b), Under(b, c)
  PROVE  Under(a, c)
<1>1. PICK z \in b : TRUE OBVIOUS
<1>2. ASSUME NEW x \in a, NEW y \in c PROVE x < y
  <2>1. x < z /\ z < y BY <1>1 DEF Under
  <2>2. x \in Int /\ y \in Int /\ z \in Int OBVIOUS
  <2> QED BY <2>1, <2>2
<1> QED BY <1>2 DEF Under

(* Leaves with growing ranges are different, so the chain ends before it has *)
(* more of them than the file has.                                           *)
LEMMA RisingIsShort ==
  ASSUME NEW l, LeafFile(l), NEW S, Closed(l, S), NEW R, Ordered(l, S, R),
         NEW chain \in Seq(S), NEW j \in 1..Len(chain), Rising(R, chain, j)
  PROVE  j <= Size(l)
<1>1. PICK N \in Nat : N = Size(l) /\ DOMAIN l = 0..(N - 1) BY FileSize DEF LeafFile
<1>2. SUFFICES ASSUME j > N PROVE FALSE
  <2>1. j \in Nat OBVIOUS
  <2> QED BY <2>1, <1>1
<1>3. PICK I : I = 1..j OBVIOUS
<1>4. PICK D : D = DOMAIN l OBVIOUS
<1>5. IsFiniteSet(I) /\ Cardinality(I) = j
  <2>1. 1 \in Int /\ j \in Int /\ ~(1 > j) /\ j - 1 + 1 = j OBVIOUS
  <2>2. /\ IsFiniteSet(1..j)
        /\ Cardinality(1..j) = IF 1 > j THEN 0 ELSE j - 1 + 1
    BY <2>1, FS_Interval
  <2> QED BY <2>1, <2>2, <1>3
<1>6. IsFiniteSet(D) /\ Cardinality(D) = N
  <2>1. 0 \in Int /\ N - 1 \in Int OBVIOUS
  <2>2. IsFiniteSet(0..(N - 1)) BY <2>1, FS_Interval
  <2> QED BY <2>2, <1>1, <1>4 DEF Size
<1>7. PICK f : f = [i \in I |-> chain[i]] OBVIOUS
<1>8. \A i \in I : i \in 1..Len(chain) /\ chain[i] \in S BY <1>3
<1>9. f \in [I -> D]
  <2>1. S \subseteq D BY <1>4 DEF Closed
  <2> QED BY <2>1, <1>7, <1>8
<1>10. \E x, y \in I : x # y /\ f[x] = f[y]
  <2>1. Cardinality(D) < Cardinality(I) BY <1>2, <1>5, <1>6
  <2> QED BY <2>1, <1>5, <1>6, <1>9, FS_PigeonHole
<1>11. PICK x \in 1..j, y \in 1..j : x < y /\ chain[x] = chain[y]
  <2>1. PICK x \in I, y \in I : x # y /\ f[x] = f[y] BY <1>10
  <2>2. x \in 1..j /\ y \in 1..j /\ chain[x] = chain[y] BY <2>1, <1>3, <1>7
  <2>3. x < y \/ y < x BY <2>1, <2>2
  <2> QED BY <2>2, <2>3
<1>12. PICK a : a = chain[x] /\ a \in S BY <1>3, <1>8
<1>13. Under(R[a], R[a]) BY <1>11, <1>12 DEF Rising
<1>14. R[a] # {} /\ R[a] \in SUBSET Int BY <1>12 DEF Ordered
<1>15. PICK z \in R[a] : z \in Int BY <1>14
<1>16. z < z BY <1>13, <1>15 DEF Under
<1> QED BY <1>15, <1>16

(* The chain from b comes to the leaves that come after b, in their order. *)
LEMMA ChainReaches ==
  ASSUME NEW l, LeafFile(l), NEW S, Closed(l, S), NEW R, Ordered(l, S, R),
         NEW b \in S, NEW c \in S, After(l, b, c),
         NEW chain, IsChain(l, b, chain)
  PROVE  \E j \in 1..Len(chain) : chain[j] = c /\ Rising(R, chain, j)
<1>1. /\ Len(chain) \in 1..(Size(l) + 1) /\ chain[1] = b
      /\ \A i \in 1..(Len(chain) - 1) : l[chain[i]].extra1 = chain[i + 1]
      /\ Len(chain) <= Size(l) => l[chain[Len(chain)]].extra1 = None
  BY DEF IsChain
<1>2. chain \in Seq(S) BY ChainStays DEF LeafFile
<1>3. Size(l) \in Nat BY FileSize DEF LeafFile
<1>4. PICK len \in Nat : len = Len(chain) /\ len >= 1 BY <1>1, <1>3
<1>5. /\ R \in [S -> SUBSET Int]
      /\ \A x \in S : R[x] # {} /\ (l[x].extra1 \notin {None, 0} => Under(R[x], R[l[x].extra1]))
  BY DEF Ordered
<1>6. PICK W : W = {x \in S : \E j \in 1..len : chain[j] = x /\ Rising(R, chain, j)}
  OBVIOUS
<1>7. b \in W
  <2>1. 1 \in 1..len BY <1>4
  <2>2. Rising(R, chain, 1) BY DEF Rising
  <2> QED BY <2>1, <2>2, <1>1, <1>6
<1>8. ASSUME NEW x \in W PROVE l[x].extra1 \in W \union {None, 0}
  <2>1. PICK s : s = l[x].extra1 OBVIOUS
  <2>2. SUFFICES ASSUME s \notin {None, 0} PROVE s \in W BY <2>1
  <2>3. x \in S BY <1>6
  <2>4. PICK j \in 1..len : chain[j] = x /\ Rising(R, chain, j) BY <1>6
  <2>5. s \in S BY <2>1, <2>2, <2>3 DEF Closed
  <2>6. Under(R[x], R[s]) BY <2>1, <2>2, <2>3, <1>5
  <2>7. j # len
    <3>1. SUFFICES ASSUME j = len PROVE FALSE OBVIOUS
    <3>2. j <= Size(l)
      <4>1. j \in 1..Len(chain) BY <2>4, <1>4
      <4> QED BY <4>1, <2>4, <1>2, RisingIsShort
    <3>3. s = None BY <3>1, <3>2, <2>1, <2>4, <1>1, <1>4
    <3> QED BY <3>3, <2>2
  <2>8. PICK m \in 1..len : m = j + 1 /\ j \in 1..(Len(chain) - 1) BY <2>4, <2>7, <1>4
  <2>9. chain[m] = s BY <2>1, <2>4, <2>8, <1>1
  <2>10. ASSUME NEW p \in 1..m, NEW q \in 1..m, p < q PROVE Under(R[chain[p]], R[chain[q]])
    <3>1. CASE q # m
      <4>1. p \in 1..j /\ q \in 1..j BY <3>1, <2>8, <2>10
      <4> QED BY <4>1, <2>4, <2>10 DEF Rising
    <3>2. CASE q = m
      <4>1. p \in 1..j /\ j \in 1..j BY <3>2, <2>8, <2>10
      <4>2. p \in 1..Len(chain) BY <4>1, <2>4, <1>4
      <4>3. PICK a : a = chain[p] /\ a \in S BY <4>2, <1>2
      <4>4. a = x \/ Under(R[a], R[x])
        <5>1. p = j \/ p < j BY <4>1
        <5> QED BY <5>1, <4>1, <4>3, <2>4 DEF Rising
      <4>5. R[a] \in SUBSET Int /\ R[x] \in SUBSET Int /\ R[s] \in SUBSET Int /\ R[x] # {}
        BY <4>3, <2>3, <2>5, <1>5
      <4>6. Under(R[a], R[s]) BY <4>4, <4>5, <2>6, UnderTrans
      <4> QED BY <4>3, <4>6, <3>2, <2>9
    <3> QED BY <3>1, <3>2
  <2>11. Rising(R, chain, m) BY <2>10 DEF Rising
  <2> QED BY <2>5, <2>8, <2>9, <2>11, <1>6
<1>9. W \in SUBSET DOMAIN l BY <1>6 DEF Closed
<1>10. Going(l, W) BY <1>8, <1>9 DEF Going
<1>11. c \in W BY <1>7, <1>9, <1>10 DEF After
<1> QED BY <1>4, <1>6, <1>11

(* What next looks at, and the first of it *)
Stops(file, b, slot, key) ==
  {q \in (DOMAIN Chain(file, b)) \X (1..LeafCapacity) :
     /\ q[2] \in DOMAIN file[Chain(file, b)[q[1]]].recs
     /\ q[1] = 1 => q[2] >= slot
     /\ compareVals(file[Chain(file, b)[q[1]]].recs[q[2]].key, key) >= 0}
FirstOf(stops) ==
  CHOOSE q \in stops : \A s \in stops : q[1] < s[1] \/ (q[1] = s[1] /\ q[2] <= s[2])

LEMMA NextIs ==
  ASSUME NEW file, NEW b, NEW slot, NEW key, NEW p, p = next(file, b, slot, key),
         NEW stops, stops = Stops(file, b, slot, key), stops # {},
         NEW q, q = FirstOf(stops),
         NEW rec, rec = file[Chain(file, b)[q[1]]].recs[q[2]]
  PROVE  /\ p.block = Chain(file, b)[q[1]] /\ p.slot = q[2]
         /\ p.rid = IF rec.key = key THEN rec.val ELSE None
<1> DEFINE ss == Stops(file, b, slot, key)
           f == FirstOf(ss)
           r == file[Chain(file, b)[f[1]]].recs[f[2]]
<1>1. /\ p.block = Chain(file, b)[f[1]] /\ p.slot = f[2]
      /\ p.rid = IF r.key = key THEN r.val ELSE None
  <2>1. ss # {} OBVIOUS
  <2> QED BY <2>1 DEF next, Stops, FirstOf
<1>2. q = f /\ rec = r OBVIOUS
<1> HIDE DEF f, r
<1> QED BY <1>1, <1>2

LEMMA NextEnds ==
  ASSUME NEW file, NEW b, NEW slot, NEW key, NEW p, p = next(file, b, slot, key),
         Stops(file, b, slot, key) = {}
  PROVE  p.rid = None /\ p.slot = Len(file[Last(Chain(file, b))].recs) + 1
BY DEF next, Stops

LEMMA FirstStop ==
  ASSUME NEW file, NEW b, IsChain(file, b, Chain(file, b)), NEW slot, NEW key, NEW stops,
         stops = Stops(file, b, slot, key), stops # {}, NEW q, q = FirstOf(stops)
  PROVE  /\ q \in stops
         /\ \A s \in stops : q[1] < s[1] \/ (q[1] = s[1] /\ q[2] <= s[2])
<1>1. stops \in SUBSET (Nat \X Nat)
  <2>1. DOMAIN Chain(file, b) \in SUBSET Nat BY DEF IsChain
  <2>2. 1..LeafCapacity \in SUBSET Nat OBVIOUS
  <2> QED BY <2>1, <2>2 DEF Stops
<1>2. \E p \in stops : \A s \in stops : p[1] < s[1] \/ (p[1] = s[1] /\ p[2] <= s[2])
  BY <1>1, FirstExists
<1> QED BY <1>2 DEF FirstOf

(* Where next stops there is a slot, or the end of a page. *)
LEMMA NextSlot ==
  ASSUME NEW file, LeafFile(file), NEW S, Closed(file, S), NEW b \in S,
         NEW slot, NEW key, NEW p, p = next(file, b, slot, key)
  PROVE  p.slot \in Nat
<1>1. b \in DOMAIN file BY DEF Closed
<1>2. PICK chain : chain = Chain(file, b) OBVIOUS
<1>3. IsChain(file, b, chain) BY <1>1, <1>2, ChainIs
<1>4. PICK stops : stops = Stops(file, b, slot, key) OBVIOUS
<1>5. CASE stops # {}
  <2>1. PICK q : q = FirstOf(stops) OBVIOUS
  <2>2. q \in stops BY <2>1, <1>2, <1>3, <1>4, <1>5, FirstStop
  <2>3. q[2] \in 1..LeafCapacity BY <2>2, <1>4 DEF Stops
  <2>4. p.slot = q[2] BY <2>1, <1>4, <1>5, NextIs
  <2> QED BY <2>3, <2>4
<1>6. CASE stops = {}
  <2>1. PICK c : c = Last(chain) OBVIOUS
  <2>2. c \in DOMAIN file
    <3>1. chain \in Seq(DOMAIN file) /\ Len(chain) \in Nat /\ Len(chain) >= 1
      <4>1. Size(file) \in Nat BY FileSize DEF LeafFile
      <4> QED BY <4>1, <1>3 DEF IsChain
    <3> QED BY <3>1, <2>1 DEF Last
  <2>3. file[c].recs \in Seq(Entry) BY <2>2 DEF LeafFile, LeafPage, Pages, Entry
  <2>4. p.slot = Len(file[c].recs) + 1 BY <2>1, <1>2, <1>4, <1>6, NextEnds
  <2> QED BY <2>3, <2>4
<1> QED BY <1>5, <1>6

(* A search finds a record that is ahead, or stops at another with its key *)
(* and has it ahead still.                                                 *)
Comes(l, S, R, p, e) ==
  p.rid # None /\ (p.rid = e.val \/ AheadOf(l, S, R, p.block, p.slot + 1, e))

LEMMA NextFinds ==
  ASSUME NEW l, LeafFile(l), NEW S, Chained(l, S), NEW R, Ordered(l, S, R),
         NEW b \in S, NEW slot \in Nat, NEW e \in Entry, AheadOf(l, S, R, b, slot, e),
         NEW p, p = next(l, b, slot, e.key)
  PROVE  Comes(l, S, R, p, e)
<1>1. PICK c \in S : \E t \in 1..Len(l[c].recs) :
        l[c].recs[t] = e /\ IF c = b THEN t >= slot ELSE Below(R[b], e.key)
  BY DEF AheadOf
<1>2. PICK t \in 1..Len(l[c].recs) :
        l[c].recs[t] = e /\ IF c = b THEN t >= slot ELSE Below(R[b], e.key)
  BY <1>1
<1>3. PICK k : k = e.key OBVIOUS
<1>4. Closed(l, S) /\ S \subseteq DOMAIN l BY DEF Chained, Linked, Closed
<1>5. PICK chain : chain = Chain(l, b) OBVIOUS
<1>6. b \in DOMAIN l /\ IsChain(l, b, chain) BY <1>4, <1>5, ChainIs
<1>7. chain \in Seq(S) /\ Len(chain) \in Nat /\ chain[1] = b
  <2>1. chain \in Seq(S) BY <1>4, <1>6, ChainStays DEF LeafFile
  <2> QED BY <2>1, <1>6 DEF IsChain
<1>8. \A x \in S : /\ l[x].recs \in Seq(Entry) /\ Len(l[x].recs) <= LeafCapacity
                   /\ Len(l[x].recs) \in Nat
  <2>1. \A x \in S : LeafPage(l, l[x]) BY <1>4 DEF LeafFile
  <2>2. \A x \in S : l[x].recs \in Seq(Entry) /\ Len(l[x].recs) <= LeafCapacity
    BY <2>1 DEF LeafPage, Pages, Entry
  <2> QED BY <2>2
<1>9. k \in Int /\ \A x \in Entry : x.key \in Int
  BY <1>3, KeysAreIntegers DEF Entry
<1>10. /\ R \in [S -> SUBSET Int]
       /\ \A x \in S : Sorted(l[x].recs) /\ KeysWithin(l[x].recs, R[x])
  BY DEF Ordered
<1>11. k \in R[c]
  <2>1. e \in ToSet(l[c].recs)
    <3>1. t \in DOMAIN l[c].recs /\ l[c].recs[t] = e BY <1>2, <1>8
    <3> QED BY <3>1 DEF ToSet
  <2> QED BY <2>1, <1>3, <1>10 DEF KeysWithin
<1>12. After(l, b, c)
  <2>1. CASE c = b BY <2>1 DEF After
  <2>2. CASE c # b
    <3>1. Below(R[b], k) BY <2>2, <1>2, <1>3
    <3> QED BY <3>1, <1>11, ComesAfter
  <2> QED BY <2>1, <2>2
<1>13. PICK j \in 1..Len(chain) : chain[j] = c /\ Rising(R, chain, j)
  BY <1>4, <1>6, <1>12, ChainReaches
<1>14. PICK stops : stops = Stops(l, b, slot, k) OBVIOUS
<1>15. PICK here : here = <<j, t>> OBVIOUS
<1>16. here \in stops
  <2>1. here[1] = j /\ here[2] = t BY <1>15
  <2>2. j \in DOMAIN chain BY <1>7
  <2>3. t \in 1..LeafCapacity /\ t \in DOMAIN l[c].recs BY <1>8
  <2>4. here \in (DOMAIN chain) \X (1..LeafCapacity) BY <2>2, <2>3, <1>15
  <2>5. j = 1 => t >= slot BY <1>2, <1>7, <1>13
  <2>6. compareVals(l[c].recs[t].key, k) >= 0 BY <1>2, <1>3, <1>9 DEF compareVals
  <2> QED BY <2>1, <2>3, <2>4, <2>5, <2>6, <1>5, <1>13, <1>14 DEF Stops
<1>17. PICK q : q = FirstOf(stops) OBVIOUS
<1>18. q \in stops /\ (q[1] < j \/ (q[1] = j /\ q[2] <= t))
  <2>1. stops # {} BY <1>16
  <2>2. /\ q \in stops
        /\ \A s \in stops : q[1] < s[1] \/ (q[1] = s[1] /\ q[2] <= s[2])
    BY <2>1, <1>5, <1>6, <1>14, <1>17, FirstStop
  <2>3. here[1] = j /\ here[2] = t BY <1>15
  <2> QED BY <2>2, <2>3, <1>16
<1>19. PICK i \in 1..Len(chain), u \in Nat : i = q[1] /\ u = q[2]
  BY <1>5, <1>7, <1>14, <1>18 DEF Stops
<1>20. PICK a : a = chain[i] /\ a \in S BY <1>7, <1>19
<1>21. /\ u \in 1..Len(l[a].recs) /\ (i = 1 => u >= slot)
       /\ compareVals(l[a].recs[u].key, k) >= 0
  <2>1. u \in DOMAIN l[a].recs BY <1>5, <1>14, <1>18, <1>19, <1>20 DEF Stops
  <2> QED BY <2>1, <1>5, <1>8, <1>14, <1>18, <1>19, <1>20 DEF Stops
<1>22. PICK rec : rec = l[a].recs[u] OBVIOUS
<1>23. rec \in Entry /\ rec.key \in R[a] /\ rec.key \in Int /\ rec.key >= k
  <2>1. rec \in Entry BY <1>8, <1>20, <1>21, <1>22
  <2>2. rec \in ToSet(l[a].recs)
    <3>1. u \in DOMAIN l[a].recs BY <1>8, <1>20, <1>21
    <3> QED BY <3>1, <1>22 DEF ToSet
  <2>3. rec.key \in R[a] BY <2>2, <1>10, <1>20 DEF KeysWithin
  <2>4. rec.key \in Int BY <2>1, <1>9
  <2> QED BY <2>1, <2>3, <2>4, <1>9, <1>21, <1>22 DEF compareVals
<1>24. i = j
  <2>1. SUFFICES ASSUME i < j PROVE FALSE BY <1>18, <1>19
  <2>2. i \in 1..j /\ j \in 1..j BY <2>1
  <2>3. Under(R[a], R[c]) BY <2>1, <2>2, <1>13, <1>20 DEF Rising
  <2>4. rec.key < k BY <2>3, <1>11, <1>23 DEF Under
  <2> QED BY <2>4, <1>9, <1>23
<1>25. a = c /\ u <= t BY <1>13, <1>18, <1>19, <1>20, <1>24
<1>26. rec.key = k
  <2>1. u = t \/ u < t BY <1>19, <1>25
  <2>2. rec.key <= l[c].recs[t].key
    <3>1. Sorted(l[c].recs) BY <1>10
    <3>2. CASE u = t BY <3>2, <1>22, <1>23, <1>25
    <3>3. CASE u < t BY <3>1, <3>3, <1>21, <1>22, <1>25 DEF Sorted
    <3> QED BY <2>1, <3>2, <3>3
  <2> QED BY <2>2, <1>2, <1>3, <1>9, <1>23
<1>27. p.block = c /\ p.slot = u /\ p.rid = rec.val
  <2>1. stops # {} BY <1>16
  <2>2. q[1] = i /\ q[2] = u BY <1>19
  <2>3. rec = l[Chain(l, b)[q[1]]].recs[q[2]] BY <2>2, <1>5, <1>20, <1>22
  <2>4. p = next(l, b, slot, k) BY <1>3
  <2>5. /\ p.block = Chain(l, b)[q[1]] /\ p.slot = q[2]
        /\ p.rid = IF rec.key = k THEN rec.val ELSE None
    BY <2>1, <2>3, <2>4, <1>14, <1>17, NextIs
  <2> QED BY <2>2, <2>5, <1>5, <1>20, <1>25, <1>26
<1>28. p.rid # None BY <1>23, <1>27 DEF Entry
<1>29. CASE u = t
  <2>1. p.rid = e.val BY <1>2, <1>22, <1>25, <1>27, <1>29
  <2> QED BY <2>1, <1>28 DEF Comes
<1>30. CASE u # t
  <2>1. t >= u + 1 BY <1>19, <1>25, <1>30
  <2>2. AheadOf(l, S, R, c, u + 1, e) BY <2>1, <1>2 DEF AheadOf
  <2> QED BY <2>2, <1>27, <1>28 DEF Comes
<1> QED BY <1>29, <1>30

(* The entries there may be *)
Pairs == {<<KeyOf[r], r>> : r \in Rids}

(* A record in the leaves of S, and where a cursor begins to look for it *)
InLeaves(l, S, e) == \E c \in S : \E t \in 1..Len(l[c].recs) : l[c].recs[t] = e

LEMMA StartsBefore ==
  ASSUME NEW l, NEW d, LeafFile(l), NEW S, S \subseteq DOMAIN l, NEW R, Ordered(l, S, R),
         Reaches(d, R), NEW e \in Entry, InLeaves(l, S, e),
         NEW b, b = search(d, e.key),
         NEW slot, slot = findLeafSlot(l[b].recs, e.key)
  PROVE  b \in S /\ slot \in Nat /\ AheadOf(l, S, R, b, slot + 1, e)
<1>1. PICK k \in Int : k = e.key BY KeysAreIntegers
<1>2. b \in S /\ Below(R[b], k)
  <2>1. b \in DOMAIN R /\ \E x \in R[b] : x <= k BY <1>1 DEF Reaches
  <2> QED BY <2>1 DEF Ordered, Below
<1>3. \A x \in S : l[x].recs \in Seq(Entry) /\ Len(l[x].recs) \in Nat
  <2>1. \A x \in S : LeafPage(l, l[x]) BY DEF LeafFile
  <2>2. \A x \in S : l[x].recs \in Seq(Entry) BY <2>1 DEF LeafPage, Pages, Entry
  <2> QED BY <2>2
<1>4. PICK recs \in Seq(Entry) : recs = l[b].recs BY <1>2, <1>3
<1>5. IsLeafSlot(recs, k, slot) BY <1>1, <1>4, LeafSlotIs
<1>6. slot \in 0..Len(recs) /\ \A i \in 1..slot : recs[i].key < k BY <1>5 DEF IsLeafSlot
<1>7. PICK c \in S : \E t \in 1..Len(l[c].recs) : l[c].recs[t] = e BY DEF InLeaves
<1>8. PICK t \in 1..Len(l[c].recs) : l[c].recs[t] = e BY <1>7
<1>9. c = b => t >= slot + 1
  <2>1. SUFFICES ASSUME c = b, t <= slot PROVE FALSE BY <1>3, <1>4, <1>6
  <2>2. t \in 1..slot BY <2>1, <1>3, <1>6
  <2>3. recs[t].key < k BY <2>2, <1>6
  <2>4. recs[t].key = k BY <2>1, <1>1, <1>4, <1>8
  <2> QED BY <2>3, <2>4
<1>10. AheadOf(l, S, R, b, slot + 1, e) BY <1>1, <1>2, <1>8, <1>9 DEF AheadOf
<1> QED BY <1>2, <1>4, <1>6, <1>10

(* An entry is a record with its key and its identifier. *)
LEMMA EntryIsRecord ==
  ASSUME NEW l, LeafFile(l), 0 \in DOMAIN l, NEW S, S = LeafBlocks(l), NEW r \in Rids, NEW k,
         <<k, r>> \in EntriesIn(l)
  PROVE  \E e \in Entry : e.key = k /\ e.val = r /\ InLeaves(l, S, e)
<1>1. Has(l, S, <<k, r>>) BY EntriesAre
<1>2. PICK c \in S : \E e \in ToSet(l[c].recs) : <<k, r>> = <<e.key, e.val>> BY <1>1 DEF Has
<1>3. PICK e \in ToSet(l[c].recs) : <<k, r>> = <<e.key, e.val>> BY <1>2
<1>4. S \subseteq DOMAIN l BY LeafBlocksAre DEF Chained, Linked, Closed
<1>5. l[c].recs \in Seq(Entry) /\ Len(l[c].recs) \in Nat
  <2>1. LeafPage(l, l[c]) BY <1>4 DEF LeafFile
  <2>2. l[c].recs \in Seq(Entry) BY <2>1 DEF LeafPage, Pages, Entry
  <2> QED BY <2>2
<1>6. PICK t \in 1..Len(l[c].recs) : l[c].recs[t] = e BY <1>3, <1>5 DEF ToSet
<1>7. e \in Entry BY <1>5, <1>6
<1>8. InLeaves(l, S, e) BY <1>6 DEF InLeaves
<1> QED BY <1>3, <1>7, <1>8

(* A walk has come past e, or has it ahead. *)
Passes(l, S, R, walk, e) ==
  \/ \E i \in DOMAIN walk : walk[i].rid = e.val
  \/ /\ Last(walk).rid # None
     /\ AheadOf(l, S, R, Last(walk).block, Last(walk).slot + 1, e)

Along(S, walk) ==
  \E P : walk \in Seq(P) /\ walk # <<>> /\ \A p \in P : p.block \in S /\ p.slot \in Nat

LEMMA WalkPasses ==
  ASSUME LeafFile(leaf), NEW S, Chained(leaf, S), NEW R, Usable(leaf, dir, R),
         S = LeafBlocks(leaf), NEW e \in Entry, InLeaves(leaf, S, e)
  PROVE  Passes(leaf, S, R, Walk(e.key), e)
<1>1. PICK k \in Int : k = e.key BY KeysAreIntegers
<1>2. PICK f, n : /\ n \in Nat /\ Walk(k) = f[n] /\ f[0] = <<WalkStart(k)>>
                  /\ \A i \in 1..n : f[i] = WalkOn(k, f[i-1])
  BY WalkUnfolds
<1>3. Closed(leaf, S) /\ S \subseteq DOMAIN leaf /\ Ordered(leaf, S, R) /\ Reaches(dir, R)
  BY DEF Chained, Linked, Closed, Usable
<1> DEFINE Good(w) == Along(S, w) /\ Passes(leaf, S, R, w, e)
<1>4. Good(<<WalkStart(k)>>)
  <2>1. PICK b, slot : b = search(dir, k) /\ slot = findLeafSlot(leaf[b].recs, k) OBVIOUS
  <2>2. b \in S /\ slot \in Nat /\ AheadOf(leaf, S, R, b, slot + 1, e)
    BY <2>1, <1>1, <1>3, StartsBefore
  <2>3. PICK from \in Nat : from = slot + 1 BY <2>2
  <2>4. PICK p : p = next(leaf, b, from, k) OBVIOUS
  <2>5. WalkStart(k) = p BY <2>1, <2>3, <2>4 DEF WalkStart, Position
  <2>6. Comes(leaf, S, R, p, e) BY <2>2, <2>3, <2>4, <1>1, <1>3, NextFinds
  <2>7. p.block \in S BY <2>2, <2>4, <1>3, NextStops DEF IsStop
  <2>8. p.slot \in Nat BY <2>2, <2>4, <1>3, NextSlot
  <2>9. PICK w, P : w = <<p>> /\ P = {p} OBVIOUS
  <2>10. w \in Seq(P) /\ w # <<>> /\ Last(w) = p /\ 1 \in DOMAIN w /\ w[1] = p
    BY <2>9 DEF Last
  <2>11. \A q \in P : q.block \in S /\ q.slot \in Nat BY <2>7, <2>8, <2>9
  <2>12. Along(S, w) BY <2>10, <2>11 DEF Along
  <2>13. Passes(leaf, S, R, w, e) BY <2>6, <2>10 DEF Comes, Passes
  <2> QED BY <2>5, <2>9, <2>12, <2>13
<1>5. ASSUME NEW w, Good(w) PROVE Good(WalkOn(k, w))
  <2>1. CASE Last(w).rid = None BY <2>1, <1>5 DEF WalkOn
  <2>2. CASE Last(w).rid # None
    <3>1. PICK P : w \in Seq(P) /\ w # <<>> /\ \A q \in P : q.block \in S /\ q.slot \in Nat
      BY <1>5 DEF Along
    <3>2. PICK last \in P : last = Last(w) BY <3>1 DEF Last
    <3>3. last.block \in S /\ last.slot \in Nat BY <3>1, <3>2
    <3>4. PICK from \in Nat : from = last.slot + 1 BY <3>3
    <3>5. PICK p : p = next(leaf, last.block, from, k) OBVIOUS
    <3>6. p.block \in S BY <3>3, <3>5, <1>3, NextStops DEF IsStop
    <3>7. p.slot \in Nat BY <3>3, <3>5, <1>3, NextSlot
    <3>8. PICK Q : Q = P \union {p} OBVIOUS
    <3>9. w \in Seq(Q) /\ p \in Q BY <3>1, <3>8
    <3>10. PICK v : v = Append(w, p) OBVIOUS
    <3>11. /\ v \in Seq(Q) /\ v # <<>> /\ Last(v) = p
           /\ Len(v) \in DOMAIN v /\ v[Len(v)] = p
           /\ \A i \in DOMAIN w : i \in DOMAIN v /\ v[i] = w[i]
      BY <3>9, <3>10, AppendProperties DEF Last
    <3>12. \A q \in Q : q.block \in S /\ q.slot \in Nat BY <3>1, <3>6, <3>7, <3>8
    <3>13. Along(S, v) BY <3>11, <3>12 DEF Along
    <3>14. Passes(leaf, S, R, v, e)
      <4>1. CASE \E i \in DOMAIN w : w[i].rid = e.val BY <4>1, <3>11 DEF Passes
      <4>2. CASE AheadOf(leaf, S, R, last.block, last.slot + 1, e)
        <5>1. AheadOf(leaf, S, R, last.block, from, e) BY <4>2, <3>4
        <5>2. Comes(leaf, S, R, p, e) BY <5>1, <3>3, <3>5, <1>1, <1>3, NextFinds
        <5>3. CASE p.rid = e.val BY <5>3, <3>11 DEF Passes
        <5>4. CASE AheadOf(leaf, S, R, p.block, p.slot + 1, e)
          BY <5>2, <5>4, <3>11 DEF Passes, Comes
        <5> QED BY <5>2, <5>3, <5>4 DEF Comes
      <4> QED BY <4>1, <4>2, <3>2, <1>5 DEF Passes
    <3>15. WalkOn(k, w) = v BY <2>2, <3>2, <3>4, <3>5, <3>10 DEF WalkOn
    <3> QED BY <3>13, <3>14, <3>15
  <2> QED BY <2>1, <2>2
<1>6. PICK Bad : Bad = {m \in 0..n : ~Good(f[m])} OBVIOUS
<1>7. Bad = {}
  <2> HIDE DEF Good
  <2> SUFFICES ASSUME Bad # {} PROVE FALSE OBVIOUS
  <2>1. Bad \subseteq Nat BY <1>6
  <2>2. PICK m \in Bad : \A i \in Bad : m <= i BY <2>1, LeastExists
  <2>3. m \in 0..n /\ ~Good(f[m]) BY <2>2, <1>6
  <2>4. m # 0 BY <2>3, <1>2, <1>4
  <2>5. m \in 1..n /\ m - 1 \in 0..n /\ ~(m <= m - 1) BY <2>3, <2>4, <1>2
  <2>6. Good(f[m-1])
    <3>1. m - 1 \notin Bad BY <2>2, <2>5
    <3> QED BY <3>1, <2>5, <1>6
  <2>7. Good(f[m]) BY <2>5, <2>6, <1>2, <1>5
  <2> QED BY <2>3, <2>7
<1>8. Good(f[n])
  <2> HIDE DEF Good
  <2>1. n \in 0..n BY <1>2
  <2> QED BY <2>1, <1>6, <1>7
<1>9. Passes(leaf, S, R, f[n], e) BY <1>8
<1> QED BY <1>1, <1>2, <1>9

(* A search that ends has found the entries with its key, and no others. *)
LEMMA WalkFinds ==
  ASSUME Tree(leaf, dir), NEW R, Usable(leaf, dir, R), Entries \subseteq Pairs,
         NEW k, NEW walk, walk = Walk(k), Ends(walk)
  PROVE  {walk[i].rid : i \in DOMAIN walk} \ {None} = WithKey(k)
<1>1. PICK S : S = LeafBlocks(leaf) OBVIOUS
<1>2. /\ LeafFile(leaf) /\ 0 \in DOMAIN leaf /\ Chained(leaf, S) /\ Root \in DOMAIN dir
      /\ Directory(dir, S) /\ Closed(leaf, S)
  BY <1>1, TreeIs DEF Tree, Chained, Linked
<1>3. ASSUME NEW r \in WithKey(k) PROVE r \in {walk[i].rid : i \in DOMAIN walk} \ {None}
  <2>1. r \in Rids /\ <<k, r>> \in EntriesIn(leaf) BY DEF WithKey, Entries
  <2>2. PICK e \in Entry : e.key = k /\ e.val = r /\ InLeaves(leaf, S, e)
    BY <2>1, <1>1, <1>2, EntryIsRecord
  <2>3. Passes(leaf, S, R, walk, e) BY <2>2, <1>1, <1>2, WalkPasses
  <2>4. PICK i \in DOMAIN walk : walk[i].rid = r BY <2>2, <2>3 DEF Passes, Ends
  <2>5. r # None BY <2>1
  <2> QED BY <2>4, <2>5
<1>4. ASSUME NEW i \in DOMAIN walk, walk[i].rid # None PROVE walk[i].rid \in WithKey(k)
  <2>1. search(dir, k) \in S BY <1>2, SearchTyped
  <2>2. IsWalk(leaf, S, k, walk) BY <2>1, <1>2, WalkStops
  <2>3. PICK P : walk \in Seq(P) /\ \A p \in P : IsStop(leaf, S, k, p) BY <2>2 DEF IsWalk
  <2>4. PICK p \in P : p = walk[i] BY <2>3
  <2>5. /\ p.block \in S /\ p.slot \in DOMAIN leaf[p.block].recs
        /\ leaf[p.block].recs[p.slot].key = k /\ leaf[p.block].recs[p.slot].val = p.rid
    BY <2>3, <2>4, <1>4 DEF IsStop
  <2>6. PICK rec : rec = leaf[p.block].recs[p.slot] OBVIOUS
  <2>7. rec \in ToSet(leaf[p.block].recs) BY <2>5, <2>6 DEF ToSet
  <2>8. PICK en : en = <<k, p.rid>> OBVIOUS
  <2>9. en = <<rec.key, rec.val>> BY <2>5, <2>6, <2>8
  <2>10. Has(leaf, S, en) BY <2>5, <2>7, <2>9 DEF Has
  <2>11. en \in Entries BY <2>10, <1>1, <1>2, EntriesAre DEF Entries
  <2>12. PICK r \in Rids : en = <<KeyOf[r], r>> BY <2>11 DEF Pairs
  <2>13. p.rid = r BY <2>8, <2>12
  <2> QED BY <2>4, <2>8, <2>11, <2>13 DEF WithKey
<1> QED BY <1>3, <1>4

LEMMA RemoveSorted ==
  ASSUME NEW recs \in Seq(Entry), NEW slot \in DOMAIN recs, Sorted(recs),
         NEW less, less = RemoveAt(recs, slot)
  PROVE  Sorted(less)
<1>1. less \in Seq(Entry) /\ Len(less) = Len(recs) - 1 /\ Len(recs) \in Nat
  BY RemoveTyped
<1>2. PICK lo : lo = SubSeq(recs, 1, slot - 1) OBVIOUS
<1>3. PICK hi : hi = SubSeq(recs, slot + 1, Len(recs)) OBVIOUS
<1>4. slot \in 1..Len(recs) /\ slot - 1 \in 0..Len(recs) /\ slot \in 0..Len(recs) OBVIOUS
<1>5. PICK before \in 0..Len(recs) : before = slot - 1 BY <1>4
<1>6. /\ lo \in Seq(Entry) /\ Len(lo) = before
      /\ \A i \in 1..before : lo[i] = recs[i]
  <2>1. PICK up : up = SubSeq(recs, before + 1, Len(recs)) OBVIOUS
  <2>2. lo = SubSeq(recs, 1, before) BY <1>2, <1>5
  <2>3. Cut(recs, before, lo, up) BY <2>1, <2>2, CutTyped
  <2> QED BY <2>3 DEF Cut
<1>7. /\ hi \in Seq(Entry) /\ Len(hi) = Len(recs) - slot
      /\ \A i \in 1..Len(hi) : hi[i] = recs[slot + i]
  <2>1. PICK low : low = SubSeq(recs, 1, slot) OBVIOUS
  <2>2. Cut(recs, slot, low, hi) BY <2>1, <1>3, <1>4, CutTyped
  <2> QED BY <2>2 DEF Cut
<1>8. less = lo \o hi BY <1>2, <1>3 DEF RemoveAt
<1>9. ASSUME NEW i \in 1..Len(less)
      PROVE  \E p \in 1..Len(recs) : less[i] = recs[p] /\ p = IF i < slot THEN i ELSE i + 1
  <2>1. less[i] = IF i <= Len(lo) THEN lo[i] ELSE hi[i - Len(lo)]
    <3>1. i \in 1..(Len(lo) + Len(hi)) BY <1>1, <1>4, <1>5, <1>6, <1>7
    <3> QED BY <3>1, <1>6, <1>7, <1>8, ConcatProperties
  <2>2. CASE i < slot
    <3>1. i \in 1..before /\ i \in 1..Len(recs) BY <2>2, <1>1, <1>4, <1>5
    <3> QED BY <3>1, <2>1, <2>2, <1>6
  <2>3. CASE i >= slot
    <3>1. i - before \in 1..Len(hi) /\ ~(i <= before) /\ slot + (i - before) = i + 1
          /\ i + 1 \in 1..Len(recs)
      BY <2>3, <1>1, <1>4, <1>5, <1>7
    <3>2. less[i] = hi[i - before] BY <3>1, <2>1, <1>6
    <3>3. hi[i - before] = recs[i + 1] BY <3>1, <1>7
    <3> QED BY <3>1, <3>2, <3>3, <2>3
  <2> QED BY <2>2, <2>3, <1>1, <1>4
<1>10. ASSUME NEW i \in 1..Len(less), NEW j \in 1..Len(less), i < j
       PROVE  less[i].key <= less[j].key
  <2>1. PICK p \in 1..Len(recs) : less[i] = recs[p] /\ p = IF i < slot THEN i ELSE i + 1
    BY <1>9
  <2>2. PICK q \in 1..Len(recs) : less[j] = recs[q] /\ q = IF j < slot THEN j ELSE j + 1
    BY <1>9
  <2>3. i \in Int /\ j \in Int /\ slot \in Int BY <1>1, <1>4
  <2>4. p < q BY <2>1, <2>2, <2>3, <1>10
  <2>5. recs[p].key <= recs[q].key BY <2>4 DEF Sorted
  <2> QED BY <2>1, <2>2, <2>5
<1> QED BY <1>10 DEF Sorted

(* A Delete leaves the rest in order. *)
LEMMA RemovedOrdered ==
  ASSUME NEW d, Tree(leaf, d), NEW S, S = LeafBlocks(leaf),
         NEW k, NEW r, NEW at, FoundAt(leaf, S, k, r, at),
         NEW new, new = Removed(leaf, at.block, at.slot), NEW R, Ordered(leaf, S, R)
  PROVE  Ordered(new, LeafBlocks(new), R)
<1>1. /\ LeafFile(leaf) /\ Chained(leaf, S) /\ 0 \in DOMAIN leaf
      /\ S \subseteq DOMAIN leaf
  BY TreeIs DEF Tree, Chained, Linked, Closed
<1>2. PICK b, slot, recs : b = at.block /\ slot = at.slot /\ recs = leaf[b].recs OBVIOUS
<1>3. b \in S /\ b \in DOMAIN leaf /\ slot \in DOMAIN recs BY <1>1, <1>2 DEF FoundAt
<1>4. LeafFile(new) /\ DOMAIN new = DOMAIN leaf BY <1>1, <1>2, <1>3, DeleteKeeps
<1>5. leaf[b] \in Pages /\ recs \in Seq(Entry)
  BY <1>1, <1>2, <1>3 DEF LeafFile, LeafPage, Pages, Entry
<1>6. PICK less : less = RemoveAt(recs, slot) OBVIOUS
<1>7. new = [leaf EXCEPT ![b].recs = less] BY <1>2, <1>6 DEF Removed
<1>8. /\ \A c \in DOMAIN leaf \ {b} : new[c] = leaf[c]
      /\ new[b] = [leaf[b] EXCEPT !.recs = less]
  BY <1>3, <1>7
<1>9. new[b] = [recs |-> less, extra1 |-> leaf[b].extra1, extra2 |-> leaf[b].extra2]
  BY <1>5, <1>8 DEF Pages
<1>10. SameLinks(leaf, new) BY <1>4, <1>8, <1>9 DEF SameLinks
<1>11. S = LeafBlocks(new)
  <2>1. Chained(new, S) BY <1>1, <1>10, LinksKept
  <2> QED BY <2>1, <1>1, <1>4, ChainedIs
<1>12. DOMAIN R = S /\ R \in [S -> SUBSET Int] BY DEF Ordered
<1>13. ASSUME NEW x \in S
       PROVE  /\ R[x] # {} /\ Sorted(new[x].recs) /\ KeysWithin(new[x].recs, R[x])
              /\ new[x].extra1 \notin {None, 0} => Under(R[x], R[new[x].extra1])
  <2>1. /\ R[x] # {} /\ Sorted(leaf[x].recs) /\ KeysWithin(leaf[x].recs, R[x])
        /\ leaf[x].extra1 \notin {None, 0} => Under(R[x], R[leaf[x].extra1])
    BY DEF Ordered
  <2>2. CASE x # b
    <3>1. new[x] = leaf[x] BY <2>2, <1>1, <1>8
    <3> QED BY <3>1, <2>1
  <2>3. CASE x = b
    <3>1. new[x].recs = less /\ new[x].extra1 = leaf[x].extra1 BY <2>3, <1>9
    <3>2. Sorted(less) BY <2>1, <2>3, <1>2, <1>3, <1>5, <1>6, RemoveSorted
    <3>3. ToSet(less) \subseteq ToSet(recs) BY <1>3, <1>5, <1>6, RemoveTakes
    <3>4. KeysWithin(less, R[x]) BY <3>3, <2>1, <2>3, <1>2 DEF KeysWithin
    <3> QED BY <3>1, <3>2, <3>4, <2>1
  <2> QED BY <2>2, <2>3
<1>14. Ordered(new, S, R) BY <1>12, <1>13 DEF Ordered
<1> QED BY <1>11, <1>14

(* A tree without records is whole: with every key a search ends in leaf 0. *)
LEMMA EmptyIsWhole ==
  ASSUME NEW l, NEW d, Tree(l, d), l[0].recs = <<>>, l[0].extra1 \in {0, None},
         d[Root].recs = <<>>, d[Root].extra1 = 0, d[Root].extra2 = 0
  PROVE  Whole(l, d)
<1>1. LeafFile(l) /\ 0 \in DOMAIN l /\ Root \in DOMAIN d BY TreeIs DEF Tree
<1>2. PICK S : S = {0} /\ S = LeafBlocks(l) BY <1>1, FirstLeaf
<1>3. PICK RL : RL = [x \in S |-> Int] OBVIOUS
<1>4. PICK RD : RD = [x \in DOMAIN d |-> IF x = Root THEN Int ELSE {}] OBVIOUS
<1>5. Ordered(l, S, RL)
  <2>1. DOMAIN RL = S /\ RL \in [S -> SUBSET Int] /\ RL[0] # {} BY <1>2, <1>3
  <2>2. Sorted(l[0].recs) /\ KeysWithin(l[0].recs, RL[0])
    <3>1. ToSet(<<>>) = {} /\ Len(<<>>) = 0 BY DEF ToSet
    <3> QED BY <3>1 DEF Sorted, KeysWithin
  <2> QED BY <2>1, <2>2, <1>2 DEF Ordered
<1>6. Shares(d, RD)
  <2>1. RD \in [DOMAIN d -> SUBSET Int] BY <1>4
  <2>2. ASSUME NEW a \in DOMAIN d, NEW b \in DOMAIN d, a # b PROVE RD[a] \intersect RD[b] = {}
    <3>1. a # Root \/ b # Root BY <2>2
    <3> QED BY <3>1, <1>4
  <2> QED BY <2>1, <2>2 DEF Shares
<1>7. RD[Root] = Int BY <1>1, <1>4
<1>8. Fit(d[Root], RD[Root], Sub(d[Root], RD, RL))
  <2>1. PICK page : page = d[Root] OBVIOUS
  <2>2. page.recs = <<>> /\ Len(page.recs) = 0 /\ page.extra1 = 0 /\ page.extra2 = 0 BY <2>1
  <2>3. Sub(page, RD, RL) = RL BY <2>2 DEF Sub
  <2>4. ChildAt(page, 0) = 0 BY <2>2 DEF ChildAt
  <2>5. RL[0] = Int BY <1>2, <1>3
  <2>6. ASSUME NEW k \in Int PROVE findDirSlot(page.recs, k) = 0
    <3>1. <<>> \in Seq(Entry) OBVIOUS
    <3>2. IsSlot(page.recs, k, findDirSlot(page.recs, k)) BY <3>1, <2>2, SlotIs
    <3>3. findDirSlot(page.recs, k) \in 0..0 BY <3>2, <2>2 DEF IsSlot
    <3> QED BY <3>3
  <2>7. Int = {k \in Int : findDirSlot(page.recs, k) = 0} BY <2>6
  <2>8. \A s \in 0..Len(page.recs) : s = 0 BY <2>2
  <2>9. \A i \in 1..Len(page.recs) : FALSE BY <2>2
  <2>10. Int # {} OBVIOUS
  <2>11. Fit(page, Int, RL) BY <2>4, <2>5, <2>7, <2>8, <2>9, <2>10 DEF Fit
  <2> QED BY <2>1, <2>3, <2>11, <1>7
<1>9. \A b \in DOMAIN d : RD[b] # {} => b = Root BY <1>4
<1>10. Ranked(d, RD, RL) BY <1>6, <1>7, <1>8, <1>9 DEF Ranked
<1> QED BY <1>2, <1>5, <1>10 DEF Whole

LEMMA CreatedIsWhole == Whole(Created.leaf, Created.dir)
<1>1. PICK l, d : l = Created.leaf /\ d = Created.dir OBVIOUS
<1>2. Tree(l, d) BY <1>1, CreatedIs
<1>3. PICK page : page = [recs |-> <<>>, extra1 |-> 0, extra2 |-> 0] OBVIOUS
<1>4. l = Extended(<<>>, Formatted) /\ d = Extended(<<>>, page) BY <1>1, <1>3 DEF Created
<1>5. l[0] = Formatted /\ d[0] = page
  <2>1. DOMAIN <<>> = {} OBVIOUS
  <2>2. Size(<<>>) = 0 BY <2>1, FS_EmptySet DEF Size
  <2> QED BY <2>1, <2>2, <1>4 DEF Extended
<1>6. Formatted.extra1 = None /\ Formatted.recs = <<>> BY DEF Formatted
<1>7. page.recs = <<>> /\ page.extra1 = 0 /\ page.extra2 = 0 BY <1>3
<1>8. Whole(l, d) BY <1>2, <1>5, <1>6, <1>7, EmptyIsWhole
<1> QED BY <1>1, <1>8

(* What a rollback brings back is whole, if it was when the transaction began. *)
LEMMA RestoredIsWhole ==
  ASSUME NEW oldLeaf, NEW oldDir, Index(oldLeaf, oldDir), Stored(oldLeaf, oldDir),
         Index(leaf, dir), DOMAIN leaf # {},
         DOMAIN oldLeaf \subseteq DOMAIN leaf, DOMAIN oldDir \subseteq DOMAIN dir,
         DOMAIN oldLeaf # {} => Whole(oldLeaf, oldDir),
         NEW l, l = Restored(oldLeaf, leaf), NEW d, d = Restored(oldDir, dir)
  PROVE  Whole(l, d)
<1>1. Index(l, d) /\ DOMAIN l = DOMAIN leaf /\ DOMAIN d = DOMAIN dir BY RestoredTyped
<1>2. /\ \A c \in DOMAIN oldLeaf : l[c] = oldLeaf[c]
      /\ \A c \in DOMAIN leaf \ DOMAIN oldLeaf : l[c] = ZeroPage
  BY DEF Restored
<1>3. /\ \A c \in DOMAIN oldDir : d[c] = oldDir[c]
      /\ \A c \in DOMAIN dir \ DOMAIN oldDir : d[c] = ZeroPage
  BY DEF Restored
<1>4. Tree(l, d) BY RestoredIs
<1>5. LeafFile(l) /\ 0 \in DOMAIN l /\ Root \in DOMAIN d BY <1>4, TreeIs DEF Tree
<1>6. ZeroPage.recs = <<>> /\ ZeroPage.extra1 = 0 /\ ZeroPage.extra2 = 0 BY DEF ZeroPage
<1>7. CASE DOMAIN oldLeaf = {}
  <2>1. l[0] = ZeroPage BY <1>1, <1>2, <1>5, <1>7
  <2>2. d[Root] = ZeroPage BY <1>1, <1>3, <1>5, <1>7 DEF Index
  <2> QED BY <2>1, <2>2, <1>4, <1>6, EmptyIsWhole
<1>8. CASE DOMAIN oldLeaf # {}
  <2>1. Tree(oldLeaf, oldDir) BY <1>8 DEF Stored
  <2>2. PICK S : S = LeafBlocks(oldLeaf) OBVIOUS
  <2>3. /\ LeafFile(oldLeaf) /\ Chained(oldLeaf, S) /\ 0 \in DOMAIN oldLeaf
        /\ Directory(oldDir, S) /\ S \in SUBSET Nat /\ Root \in DOMAIN oldDir
    BY <2>1, <2>2, TreeIs DEF Tree
  <2>4. 0 \in S /\ S \subseteq DOMAIN oldLeaf BY <2>3 DEF Chained, Linked, Closed
  <2>5. PICK RD, RL : Ordered(oldLeaf, S, RL) /\ Ranked(oldDir, RD, RL)
    BY <2>2, <1>8 DEF Whole
  <2>6. S = LeafBlocks(l)
    <3>1. \A c \in DOMAIN oldLeaf : oldLeaf[c].extra1 \in DOMAIN oldLeaf \union {None}
      BY <2>3 DEF LeafFile, LeafPage
    <3>2. Linked(l, S) BY <2>3, <2>4, <1>1, <1>2 DEF Chained, Linked, Closed
    <3>3. ASSUME NEW U, Linked(l, U) PROVE S \subseteq U
      <4>1. PICK V : V = U \intersect DOMAIN oldLeaf OBVIOUS
      <4>2. ASSUME NEW c \in V PROVE oldLeaf[c].extra1 \in V \union {None}
        <5>1. l[c] = oldLeaf[c] BY <4>1, <1>2
        <5>2. l[c].extra1 \in U \union {None} BY <4>1, <3>3 DEF Linked, Closed
        <5> QED BY <5>1, <5>2, <4>1, <3>1
      <4>3. 0 \in V BY <4>1, <2>3, <3>3 DEF Linked
      <4>4. Linked(oldLeaf, V) BY <4>1, <4>2, <4>3 DEF Linked, Closed
      <4> QED BY <4>1, <4>4, <2>3 DEF Chained
    <3>4. Chained(l, S) BY <3>2, <3>3 DEF Chained
    <3> QED BY <3>4, <1>5, ChainedIs
  <2>7. Ordered(l, S, RL)
    <3>1. \A c \in S : l[c] = oldLeaf[c] BY <2>4, <1>2
    <3> QED BY <3>1, <2>5 DEF Ordered
  <2>8. PICK R2 : R2 = [x \in DOMAIN d |-> IF x \in DOMAIN oldDir THEN RD[x] ELSE {}]
    OBVIOUS
  <2>9. DOMAIN oldDir \subseteq DOMAIN d BY <1>1
  <2>10. /\ Shares(oldDir, RD) /\ RD[Root] = Int
         /\ \A b \in DOMAIN oldDir : RD[b] # {} => Fit(oldDir[b], RD[b], Sub(oldDir[b], RD, RL))
    BY <2>5 DEF Ranked
  <2>11. Shares(d, R2)
    <3>1. RD \in [DOMAIN oldDir -> SUBSET Int] BY <2>10 DEF Shares
    <3>2. R2 \in [DOMAIN d -> SUBSET Int] BY <3>1, <2>8
    <3>3. ASSUME NEW a \in DOMAIN d, NEW b \in DOMAIN d, a # b, d[a].extra1 = d[b].extra1
          PROVE  R2[a] \intersect R2[b] = {}
      <4>1. CASE a \in DOMAIN oldDir /\ b \in DOMAIN oldDir
        <5>1. oldDir[a].extra1 = oldDir[b].extra1 BY <4>1, <3>3, <1>3
        <5>2. RD[a] \intersect RD[b] = {} BY <5>1, <4>1, <3>3, <2>10 DEF Shares
        <5> QED BY <5>2, <4>1, <2>8
      <4>2. CASE ~(a \in DOMAIN oldDir /\ b \in DOMAIN oldDir) BY <4>2, <2>8
      <4> QED BY <4>1, <4>2
    <3> QED BY <3>2, <3>3 DEF Shares
  <2>12. R2[Root] = Int BY <2>3, <2>8, <2>9, <2>10
  <2>13. ASSUME NEW b \in DOMAIN d, R2[b] # {} PROVE Fit(d[b], R2[b], Sub(d[b], R2, RL))
    <3>1. b \in DOMAIN oldDir /\ R2[b] = RD[b] BY <2>8, <2>13
    <3>2. PICK page : page = d[b] /\ page = oldDir[b] BY <3>1, <1>3
    <3>3. Fit(page, RD[b], Sub(page, RD, RL)) BY <3>1, <3>2, <2>10, <2>13
    <3>4. Len(page.recs) \in Nat BY <3>1, <3>2, <2>3, DirPageIs
    <3>5. CASE page.extra1 = 0
      <4>1. Sub(page, RD, RL) = Sub(page, R2, RL) BY <3>5 DEF Sub
      <4> QED BY <4>1, <3>1, <3>2, <3>3
    <3>6. CASE page.extra1 # 0
      <4>1. Sub(page, RD, RL) = RD /\ Sub(page, R2, RL) = R2 BY <3>6 DEF Sub
      <4>2. ASSUME NEW s \in 0..Len(page.recs) PROVE R2[ChildAt(page, s)] = RD[ChildAt(page, s)]
        <5>1. IsChild(oldDir, S, page.extra1, ChildAt(page, s))
          BY <3>1, <3>2, <2>3, ChildLevel
        <5>2. ChildAt(page, s) \in DOMAIN oldDir BY <5>1, <3>6 DEF IsChild
        <5> QED BY <5>2, <2>8, <2>9
      <4>3. Fit(page, RD[b], R2) BY <4>1, <4>2, <3>3, <3>4, FitWith
      <4> QED BY <4>1, <4>3, <3>1, <3>2
    <3> QED BY <3>5, <3>6
  <2>14. Ranked(d, R2, RL) BY <2>11, <2>12, <2>13 DEF Ranked
  <2> QED BY <2>6, <2>7, <2>14 DEF Whole
<1> QED BY <1>7, <1>8

(* Records that are in two leaves stay in two leaves. *)
Spread(l, new) ==
  \A a, b \in DOMAIN l : a # b =>
    \A p \in ToSet(l[a].recs), q \in ToSet(l[b].recs) :
      \E x, y \in DOMAIN new : x # y /\ p \in ToSet(new[x].recs) /\ q \in ToSet(new[y].recs)

LEMMA SpreadApart ==
  ASSUME NEW l, NEW new, Spread(l, new), EqualKeysApart(l)
  PROVE  EqualKeysApart(new)
<1>1. PICK a \in DOMAIN l : \E b \in DOMAIN l : a # b /\
        {r.key : r \in ToSet(l[a].recs)} \intersect {r.key : r \in ToSet(l[b].recs)} # {}
  BY DEF EqualKeysApart
<1>2. PICK b \in DOMAIN l : a # b /\
        {r.key : r \in ToSet(l[a].recs)} \intersect {r.key : r \in ToSet(l[b].recs)} # {}
  BY <1>1
<1>3. PICK p \in ToSet(l[a].recs) : \E q \in ToSet(l[b].recs) : p.key = q.key BY <1>2
<1>4. PICK q \in ToSet(l[b].recs) : p.key = q.key BY <1>3
<1>5. PICK x \in DOMAIN new : \E y \in DOMAIN new :
        x # y /\ p \in ToSet(new[x].recs) /\ q \in ToSet(new[y].recs)
  BY <1>2 DEF Spread
<1>6. PICK y \in DOMAIN new : x # y /\ p \in ToSet(new[x].recs) /\ q \in ToSet(new[y].recs)
  BY <1>5
<1>7. p.key \in {r.key : r \in ToSet(new[x].recs)} BY <1>6
<1>8. p.key \in {r.key : r \in ToSet(new[y].recs)} BY <1>4, <1>6
<1> QED BY <1>6, <1>7, <1>8 DEF EqualKeysApart

LEMMA PartedSpreads ==
  ASSUME NEW l, NEW b \in DOMAIN l, NEW pos, NEW new, LeafParted(l, b, pos, new)
  PROVE  Spread(l, new)
<1>1. PICK n, lo, hi : /\ n = Size(l) /\ lo = SubSeq(l[b].recs, 1, pos)
                       /\ hi = SubSeq(l[b].recs, pos + 1, Len(l[b].recs))
  OBVIOUS
<1>2. /\ n \notin DOMAIN l /\ DOMAIN new = DOMAIN l \union {n}
      /\ \A c \in DOMAIN l \ {b} : new[c] = l[c]
      /\ new[b].recs = lo /\ new[n].recs = hi
      /\ Cut(l[b].recs, pos, lo, hi)
  BY <1>1 DEF LeafParted
<1>3. ToSet(lo) \union ToSet(hi) = ToSet(l[b].recs) BY <1>2 DEF Cut
<1>4. ASSUME NEW a \in DOMAIN l, NEW p \in ToSet(l[a].recs)
      PROVE  \E x \in DOMAIN new : /\ p \in ToSet(new[x].recs)
                                   /\ x = a \/ (a = b /\ x = n)
  <2>1. CASE a = b
    <3>1. b \in DOMAIN new /\ n \in DOMAIN new BY <1>2
    <3>2. p \in ToSet(new[b].recs) \/ p \in ToSet(new[n].recs) BY <2>1, <1>2, <1>3, <1>4
    <3> QED BY <3>1, <3>2, <2>1
  <2>2. CASE a # b
    <3>1. a \in DOMAIN new /\ new[a] = l[a] BY <2>2, <1>2
    <3> QED BY <3>1, <1>4
  <2> QED BY <2>1, <2>2
<1>5. ASSUME NEW a \in DOMAIN l, NEW c \in DOMAIN l, a # c,
             NEW p \in ToSet(l[a].recs), NEW q \in ToSet(l[c].recs)
      PROVE  \E x, y \in DOMAIN new :
               x # y /\ p \in ToSet(new[x].recs) /\ q \in ToSet(new[y].recs)
  <2>1. PICK x \in DOMAIN new : p \in ToSet(new[x].recs) /\ (x = a \/ (a = b /\ x = n))
    BY <1>4
  <2>2. PICK y \in DOMAIN new : q \in ToSet(new[y].recs) /\ (y = c \/ (c = b /\ y = n))
    BY <1>4
  <2>3. x # y BY <2>1, <2>2, <1>2, <1>5
  <2> QED BY <2>1, <2>2, <2>3
<1> QED BY <1>5 DEF Spread

LEMMA StaysSpread ==
  ASSUME NEW l, NEW base, Spread(l, base), NEW new, Stays(base, new)
  PROVE  Spread(l, new)
<1>1. /\ DOMAIN new = DOMAIN base
      /\ \A x \in DOMAIN base : ToSet(base[x].recs) \subseteq ToSet(new[x].recs)
  BY DEF Stays, SameLinks
<1>2. ASSUME NEW a \in DOMAIN l, NEW b \in DOMAIN l, a # b,
             NEW p \in ToSet(l[a].recs), NEW q \in ToSet(l[b].recs)
      PROVE  \E x, y \in DOMAIN new :
               x # y /\ p \in ToSet(new[x].recs) /\ q \in ToSet(new[y].recs)
  <2>1. PICK x \in DOMAIN base : \E y \in DOMAIN base :
          x # y /\ p \in ToSet(base[x].recs) /\ q \in ToSet(base[y].recs)
    BY <1>2 DEF Spread
  <2>2. PICK y \in DOMAIN base :
          x # y /\ p \in ToSet(base[x].recs) /\ q \in ToSet(base[y].recs)
    BY <2>1
  <2>3. p \in ToSet(new[x].recs) /\ q \in ToSet(new[y].recs) BY <2>2, <1>1
  <2> QED BY <2>2, <2>3, <1>1
<1> QED BY <1>2 DEF Spread

LEMMA ApartStays ==
  ASSUME NEW f, Tree(f.leaf, f.dir), NEW r \in Rids, NEW stop,
         NEW res, res = InsertUpTo(f, r, stop), EqualKeysApart(f.leaf)
  PROVE  EqualKeysApart(res.leaf)
<1>1. PICK old, dirs, S : old = f.leaf /\ dirs = f.dir /\ S = LeafBlocks(old) OBVIOUS
<1>2. /\ LeafFile(old) /\ Chained(old, S) /\ Root \in DOMAIN dirs /\ Directory(dirs, S)
  BY <1>1, TreeIs DEF Tree
<1>3. PICK rec : rec = [key |-> KeyOf[r], val |-> r] OBVIOUS
<1>4. rec \in Entry BY <1>3 DEF Entry, Keys
<1>5. PICK b, l, d : InsertParts(f, r, stop, b, l, d, res) BY InsertHasParts
<1>6. b \in S BY <1>1, <1>2, <1>5, SearchTyped DEF InsertParts
<1>7. b \in DOMAIN old BY <1>2, <1>6 DEF Chained, Linked, Closed
<1>8. l = LeafInsert(old, b, rec) /\ res.leaf = l.file BY <1>1, <1>3, <1>5 DEF InsertParts
<1>9. PICK base, c, handed, slot :
        /\ HasRoom(old, b, rec, base, c, handed)
        /\ LeafFile(base) /\ c \in DOMAIN base
        /\ slot = findLeafSlot(base[c].recs, rec.key) /\ slot \in 0..Len(base[c].recs)
        /\ l = [file |-> doInsert(base, c, slot, rec), split |-> handed]
  BY <1>2, <1>4, <1>7, <1>8, LeafInsertIs
<1>10. PICK new : new = doInsert(base, c, slot, rec) /\ new = res.leaf BY <1>8, <1>9
<1>11. Stays(base, new) BY <1>4, <1>9, <1>10, RecordStays
<1>12. Spread(old, base)
  <2>1. CASE base = old BY <2>1 DEF Spread
  <2>2. CASE \E pos : LeafParted(old, b, pos, base)
    <3>1. PICK pos : LeafParted(old, b, pos, base) BY <2>2
    <3> QED BY <3>1, <1>7, PartedSpreads
  <2> QED BY <2>1, <2>2, <1>9 DEF HasRoom
<1>13. Spread(old, new) BY <1>11, <1>12, StaysSpread
<1> QED BY <1>1, <1>10, <1>13, SpreadApart

(* An index made by Inserts alone is whole if no key lies in two leaves. *)
LEMMA BuiltIsWhole ==
  ASSUME NEW rids \in Seq(Rids), NEW b, b = Built(rids), ~EqualKeysApart(b.leaf)
  PROVE  Whole(b.leaf, b.dir)
<1> DEFINE Good(x) == /\ Tree(x.leaf, x.dir)
                      /\ EqualKeysApart(x.leaf) \/ Whole(x.leaf, x.dir)
<1>1. PICK f : /\ Built(rids) = f[Len(rids)] /\ f[0] = Created
               /\ \A i \in 1..Len(rids) : f[i] = OneMore(f[i-1], rids[i])
  BY BuiltUnfolds
<1>2. ASSUME NEW x, Good(x), NEW i \in 1..Len(rids) PROVE Good(OneMore(x, rids[i]))
  <2>1. PICK r \in Rids : r = rids[i] OBVIOUS
  <2>2. PICK stop : stop = AllLevels(x) OBVIOUS
  <2>3. PICK res : res = InsertUpTo(x, r, stop) OBVIOUS
  <2>4. Tree(x.leaf, x.dir) BY <1>2
  <2>5. Tree(res.leaf, res.dir) BY <2>3, <2>4, InsertUpToEnters
  <2>6. PICK y : y = OneMore(x, rids[i]) OBVIOUS
  <2>7. y.leaf = res.leaf /\ y.dir = res.dir BY <2>1, <2>2, <2>3, <2>6 DEF OneMore
  <2>8. stop \in Int /\ stop > x.dir[Root].extra1 + 1
    <3>1. Root \in DOMAIN x.dir /\ Directory(x.dir, LeafBlocks(x.leaf)) BY <2>4, TreeIs DEF Tree
    <3>2. x.dir[Root].extra1 \in Nat BY <3>1 DEF Directory, DirPage
    <3> QED BY <3>2, <2>2 DEF AllLevels
  <2>9. EqualKeysApart(x.leaf) => EqualKeysApart(res.leaf) BY <2>3, <2>4, ApartStays
  <2>10. ASSUME ~EqualKeysApart(res.leaf) PROVE Whole(res.leaf, res.dir)
    <3>1. Whole(x.leaf, x.dir) BY <2>9, <2>10, <1>2
    <3>2. PICK RD, RL : Ordered(x.leaf, LeafBlocks(x.leaf), RL) /\ Ranked(x.dir, RD, RL)
      BY <3>1 DEF Whole
    <3>3. PICK RL2 : Advanced(x, RL, stop, res, RL2)
      BY <3>2, <2>3, <2>4, <2>8, <2>10, InsertOrders
    <3>4. Ordered(res.leaf, LeafBlocks(res.leaf), RL2) /\ \E RD2 : Ranked(res.dir, RD2, RL2)
      BY <3>3, <2>8 DEF Advanced, Usable
    <3> QED BY <3>4 DEF Whole
  <2>11. Good(y) BY <2>5, <2>7, <2>10
  <2> QED BY <2>6, <2>11
<1>3. Good(Created) BY CreatedIs, CreatedIsWhole
<1> HIDE DEF Good
<1>4. PICK Bad : Bad = {m \in 0..Len(rids) : ~Good(f[m])} OBVIOUS
<1>5. Bad = {}
  <2> SUFFICES ASSUME Bad # {} PROVE FALSE OBVIOUS
  <2>1. Bad \subseteq Nat BY <1>4
  <2>2. PICK m \in Bad : \A i \in Bad : m <= i BY <2>1, LeastExists
  <2>3. m \in 0..Len(rids) /\ ~Good(f[m]) BY <2>2, <1>4
  <2>4. m # 0 BY <2>3, <1>1, <1>3
  <2>5. PICK k \in 1..Len(rids) : k = m BY <2>3, <2>4
  <2>6. k - 1 \in 0..Len(rids) /\ ~(m <= k - 1) BY <2>5
  <2>7. Good(f[k-1])
    <3>1. k - 1 \notin Bad BY <2>2, <2>6
    <3> QED BY <3>1, <2>6, <1>4
  <2>8. Good(OneMore(f[k-1], rids[k])) BY <2>7, <1>2
  <2> QED BY <2>3, <2>5, <2>8, <1>1
<1>6. Good(b)
  <2>1. Len(rids) \in 0..Len(rids) OBVIOUS
  <2> QED BY <2>1, <1>1, <1>4, <1>5
<1> QED BY <1>6 DEF Good

-----------------------------------------------------------------------------
(* The invariant of the order.  An open cursor still has ahead of it what it *)
(* owes and has not returned; what there is to roll back to is whole, and so *)
(* is the tree unless an Insert has failed.                                  *)
Owed(c, r) == [key |-> c.key, val |-> r]

CursorOwes(l, RL, c) ==
  c # NoCursor =>
    /\ c = [key |-> c.key, block |-> c.block, slot |-> c.slot, done |-> c.done,
            seen |-> c.seen, owed |-> c.owed]
    /\ c.key \in Keys /\ c.block \in LeafBlocks(l) /\ c.slot \in Nat /\ c.owed \subseteq Rids
    /\ \A r \in c.owed :
         r \in c.seen \/ (~c.done /\ AheadOf(l, LeafBlocks(l), RL, c.block, c.slot + 1, Owed(c, r)))

Standing(l, d, f, c) ==
  \E RL : /\ Usable(l, d, RL) /\ CursorOwes(l, RL, c)
          /\ ~f => \E RD : Ranked(d, RD, RL)

OrderInv ==
  /\ DOMAIN undo.leaf # {} => Whole(undo.leaf, undo.dir)
  /\ IF DOMAIN leaf = {} THEN cursor = NoCursor /\ ~failed
     ELSE Standing(leaf, dir, failed, cursor)

LEMMA WholeStands ==
  ASSUME NEW l, NEW d, Tree(l, d), Whole(l, d), NEW f
  PROVE  Standing(l, d, f, NoCursor)
<1>1. PICK RD, RL : Ordered(l, LeafBlocks(l), RL) /\ Ranked(d, RD, RL) BY DEF Whole
<1>2. Usable(l, d, RL) BY <1>1, WholeIsUsable
<1>3. CursorOwes(l, RL, NoCursor) BY DEF CursorOwes
<1> QED BY <1>1, <1>2, <1>3 DEF Standing

LEMMA StandingIsWhole ==
  ASSUME NEW l, NEW d, NEW f, NEW c, Standing(l, d, f, c), ~f
  PROVE  Whole(l, d)
BY DEF Standing, Usable, Whole

(* Inserts leave what a cursor owes ahead of it. *)
LEMMA OwesStill ==
  ASSUME NEW l, NEW RL, NEW c, CursorOwes(l, RL, c), NEW new, NEW RL2,
         KeepsAhead(l, LeafBlocks(l), RL, new, LeafBlocks(new), RL2)
  PROVE  CursorOwes(new, RL2, c)
<1> SUFFICES ASSUME c # NoCursor PROVE CursorOwes(new, RL2, c) BY DEF CursorOwes
<1>1. PICK S, T : S = LeafBlocks(l) /\ T = LeafBlocks(new) OBVIOUS
<1>2. /\ S \subseteq T
      /\ \A b \in S, slot \in Nat, e \in Entry :
           AheadOf(l, S, RL, b, slot, e) => AheadOf(new, T, RL2, b, slot, e)
  BY <1>1 DEF KeepsAhead
<1>3. /\ c.key \in Keys /\ c.block \in S /\ c.slot \in Nat /\ c.owed \subseteq Rids
      /\ \A r \in c.owed :
           r \in c.seen \/ (~c.done /\ AheadOf(l, S, RL, c.block, c.slot + 1, Owed(c, r)))
  BY <1>1 DEF CursorOwes
<1>4. ASSUME NEW r \in c.owed
      PROVE  r \in c.seen \/ (~c.done /\ AheadOf(new, T, RL2, c.block, c.slot + 1, Owed(c, r)))
  <2>1. Owed(c, r) \in Entry BY <1>3 DEF Owed, Entry
  <2>2. c.slot + 1 \in Nat BY <1>3
  <2> QED BY <2>1, <2>2, <1>2, <1>3, <1>4
<1>5. c.block \in T BY <1>2, <1>3
<1> QED BY <1>1, <1>3, <1>4, <1>5 DEF CursorOwes

(* The tree that an Insert leaves behind, finished or not *)
Grows(res, RL, c) ==
  Usable(res.leaf, res.dir, RL) /\ Leads(res.dir, RL) /\ CursorOwes(res.leaf, RL, c)

LEMMA InsertGrows ==
  ASSUME TreeInv, OrderInv, NEW r \in Rids, NEW stop \in Int, CanInsert(r),
         NEW f, f = [leaf |-> leaf, dir |-> dir], NEW res, res = InsertUpTo(f, r, stop),
         ~EqualKeysApart(res.leaf)
  PROVE  /\ Tree(res.leaf, res.dir) /\ DOMAIN dir \subseteq DOMAIN res.dir
         /\ \E RL : /\ Grows(res, RL, cursor)
                    /\ stop > dir[Root].extra1 + 1 => \E RD : Ranked(res.dir, RD, RL)
<1>1. f.leaf = leaf /\ f.dir = dir OBVIOUS
<1>2. DOMAIN leaf # {} /\ ~failed /\ Index(leaf, dir)
  BY DEF CanInsert, CanChange, TreeInv, TypeInv
<1>3. Tree(f.leaf, f.dir) BY <1>1, <1>2 DEF TreeInv, Stored
<1>4. PICK RL : Usable(leaf, dir, RL) /\ CursorOwes(leaf, RL, cursor)
                /\ \E RD : Ranked(dir, RD, RL)
  BY <1>2 DEF OrderInv, Standing
<1>5. PICK RD : Ranked(dir, RD, RL) BY <1>4
<1>6. Ordered(f.leaf, LeafBlocks(f.leaf), RL) /\ Ranked(f.dir, RD, RL)
  BY <1>1, <1>4, <1>5 DEF Usable
<1>7. PICK RL2 : Advanced(f, RL, stop, res, RL2) BY <1>3, <1>6, InsertOrders
<1>8. KeepsAhead(leaf, LeafBlocks(leaf), RL, res.leaf, LeafBlocks(res.leaf), RL2)
  BY <1>1, <1>7 DEF Advanced
<1>9. CursorOwes(res.leaf, RL2, cursor) BY <1>4, <1>8, OwesStill
<1>10. /\ Usable(res.leaf, res.dir, RL2) /\ Leads(res.dir, RL2)
       /\ stop > dir[Root].extra1 + 1 => \E RD2 : Ranked(res.dir, RD2, RL2)
  BY <1>1, <1>7 DEF Advanced
<1>11. Tree(res.leaf, res.dir) BY <1>3, InsertUpToEnters
<1>12. DOMAIN dir \subseteq DOMAIN res.dir
  <2>1. Extension(f.leaf, f.dir, res.leaf, res.dir) BY <1>1, <1>2, InsertUpToTyped
  <2> QED BY <2>1, <1>1 DEF Extension
<1>13. Grows(res, RL2, cursor) BY <1>9, <1>10 DEF Grows
<1> QED BY <1>10, <1>11, <1>12, <1>13

LEMMA InsertStands ==
  ASSUME TreeInv, OrderInv, NEW r \in Rids, NEW stop \in Int, CanInsert(r),
         NEW f, f = [leaf |-> leaf, dir |-> dir], NEW res, res = InsertUpTo(f, r, stop),
         ~EqualKeysApart(res.leaf), NEW fails, ~fails => stop > dir[Root].extra1 + 1
  PROVE  Standing(res.leaf, res.dir, fails, cursor)
<1>1. PICK RL : /\ Grows(res, RL, cursor)
                /\ stop > dir[Root].extra1 + 1 => \E RD : Ranked(res.dir, RD, RL)
  BY InsertGrows
<1> QED BY <1>1 DEF Grows, Standing

(* An Insert that has cut a directory page and fails there *)
LEMMA DirHalvesStand ==
  ASSUME TreeInv, OrderInv, NEW r \in Rids, NEW stop \in Int, CanInsert(r),
         NEW f, f = [leaf |-> leaf, dir |-> dir], NEW res, res = InsertUpTo(f, r, stop),
         ~EqualKeysApart(res.leaf), NEW b \in DOMAIN dir, isFull(res.dir[b], DirCapacity),
         NEW new, new = DirHalves(res.dir, b)
  PROVE  Standing(res.leaf, new, TRUE, cursor)
<1>1. Tree(res.leaf, res.dir) /\ DOMAIN dir \subseteq DOMAIN res.dir BY InsertGrows
<1>2. PICK RL : Grows(res, RL, cursor) BY InsertGrows
<1>3. /\ Usable(res.leaf, res.dir, RL) /\ Leads(res.dir, RL)
      /\ CursorOwes(res.leaf, RL, cursor)
  BY <1>2 DEF Grows
<1>4. Ordered(res.leaf, LeafBlocks(res.leaf), RL) BY <1>3 DEF Usable
<1>5. DOMAIN RL = LeafBlocks(res.leaf) BY <1>4 DEF Ordered
<1>6. PICK d : d = res.dir OBVIOUS
<1>7. /\ Root \in DOMAIN d /\ Directory(d, DOMAIN RL) /\ DOMAIN RL \in SUBSET Nat
      /\ b \in DOMAIN d
  BY <1>1, <1>5, <1>6, TreeIs DEF Tree
<1>8. Reaches(new, RL) BY <1>3, <1>6, <1>7, HalvesLead
<1> QED BY <1>3, <1>4, <1>8 DEF Usable, Standing

(* An Insert that has cut a leaf and fails there *)
LEMMA LeafHalvesStand ==
  ASSUME TreeInv, OrderInv, NEW r \in Rids, CanInsert(r), NEW b, b = search(dir, KeyOf[r]),
         isFull(leaf[b], LeafCapacity), NEW new, new = LeafHalves(leaf, b),
         ~EqualKeysApart(new)
  PROVE  Standing(new, dir, TRUE, cursor)
<1>1. PICK l, d, S, n : l = leaf /\ d = dir /\ S = LeafBlocks(l) /\ n = Size(l) OBVIOUS
<1>2. DOMAIN l # {} /\ ~failed BY <1>1 DEF CanInsert, CanChange, TreeInv, TypeInv
<1>3. Tree(l, d) BY <1>1, <1>2 DEF TreeInv, Stored
<1>4. /\ LeafFile(l) /\ Chained(l, S) /\ S \in SUBSET Nat
      /\ Root \in DOMAIN d /\ Directory(d, S)
  BY <1>1, <1>3, TreeIs DEF Tree
<1>5. b \in S BY <1>1, <1>4, SearchTyped
<1>6. PICK RL : Usable(l, d, RL) /\ CursorOwes(l, RL, cursor) /\ \E RD : Ranked(d, RD, RL)
  BY <1>1, <1>2 DEF OrderInv, Standing
<1>7. PICK RD : Ranked(d, RD, RL) BY <1>6
<1>8. Ordered(l, S, RL) BY <1>1, <1>6 DEF Usable
<1>9. PICK pos : LeafParted(l, b, pos, new)
  <2>1. b \in DOMAIN l BY <1>4, <1>5 DEF Chained, Linked, Closed
  <2> QED BY <2>1, <1>1, <1>4, FullLeafParts
<1>10. PICK K : K = new[n].recs[1].key OBVIOUS
<1>11. Apart(l, S, RL, b, pos, new, n, K)
  BY <1>1, <1>4, <1>5, <1>8, <1>9, <1>10, HalvesApart
<1>12. PICK M, R2 : Ordered(new, S \union {n}, R2) /\ Parts(RL, M, R2, S, b, n, K)
  BY <1>11, OrderedParted
<1>13. KeepsAhead(l, S, RL, new, S \union {n}, R2) BY <1>11, <1>12, AheadParted
<1>14. S \union {n} = LeafBlocks(new)
  <2>1. Chained(new, S \union {n}) BY <1>1, <1>4, <1>5, <1>9, ChainParted
  <2>2. LeafFile(new) /\ 0 \in DOMAIN new
    BY <2>1, <1>9 DEF LeafParted, Chained, Linked, Closed
  <2> QED BY <2>1, <2>2, ChainedIs
<1>15. DOMAIN R2 = S \union {n} BY <1>12 DEF Ordered
<1>16. PICK rec : rec = [key |-> K, val |-> n] OBVIOUS
<1>17. LeafDue(d, RD, R2, M, b, rec)
  BY <1>4, <1>5, <1>7, <1>8, <1>12, <1>15, <1>16, LeafIsDue
<1>18. /\ Directory(d, DOMAIN R2) /\ Due(d, RD, R2, 0, M, b, rec) /\ rec \in Entry
  BY <1>17 DEF LeafDue, Pending, Entry
<1>19. Reaches(d, R2)
  <2>1. 0 \in Nat OBVIOUS
  <2>2. Low(d, RD, R2) BY <2>1, <1>4, <1>18, DueLow
  <2> QED BY <2>2, <1>4, <1>18, LowReaches
<1>20. CursorOwes(new, R2, cursor)
  <2>1. KeepsAhead(leaf, LeafBlocks(leaf), RL, new, LeafBlocks(new), R2) BY <1>1, <1>13, <1>14
  <2>2. CursorOwes(leaf, RL, cursor) BY <1>1, <1>6
  <2> QED BY <2>1, <2>2, OwesStill
<1>21. Usable(new, dir, R2) BY <1>1, <1>12, <1>14, <1>19 DEF Usable
<1> QED BY <1>20, <1>21 DEF Standing

(* A cursor that has been opened has the records with its key ahead of it. *)
LEMMA OpenedStands ==
  ASSUME TreeInv, OrderInv, DOMAIN leaf # {}, NEW k \in ScanKeys,
         NEW c, c = [key |-> k, block |-> Position(k).block, slot |-> Position(k).slot,
                     done |-> FALSE, seen |-> {}, owed |-> WithKey(k)]
  PROVE  Standing(leaf, dir, failed, c)
<1>1. PICK RL : Usable(leaf, dir, RL) /\ (~failed => \E RD : Ranked(dir, RD, RL))
  BY DEF OrderInv, Standing
<1>2. PICK S : S = LeafBlocks(leaf) OBVIOUS
<1>3. Tree(leaf, dir) BY DEF TreeInv, Stored
<1>4. /\ LeafFile(leaf) /\ Chained(leaf, S) /\ Root \in DOMAIN dir /\ Directory(dir, S)
      /\ 0 \in DOMAIN leaf /\ S \subseteq DOMAIN leaf
  BY <1>2, <1>3, TreeIs DEF Tree, Chained, Linked, Closed
<1>5. Ordered(leaf, S, RL) /\ Reaches(dir, RL) BY <1>1, <1>2 DEF Usable
<1>6. PICK b, slot : b = search(dir, k) /\ slot = findLeafSlot(leaf[b].recs, k) OBVIOUS
<1>7. c.block = b /\ c.slot = slot /\ c.key = k /\ c.seen = {} /\ c.owed = WithKey(k)
      /\ c.done = FALSE
  BY <1>6 DEF Position
<1>8. b \in S BY <1>4, <1>6, SearchTyped
<1>9. slot \in Nat
  <2>1. leaf[b] \in Pages BY <1>4, <1>8 DEF LeafFile, LeafPage
  <2>2. leaf[b].recs \in Seq(Entry) BY <2>1 DEF Pages, Entry
  <2>3. k \in Int OBVIOUS
  <2>4. IsLeafSlot(leaf[b].recs, k, slot) BY <2>2, <2>3, <1>6, LeafSlotIs
  <2> QED BY <2>2, <2>4 DEF IsLeafSlot
<1>10. ASSUME NEW r \in WithKey(k) PROVE AheadOf(leaf, S, RL, b, slot + 1, Owed(c, r))
  <2>1. r \in Rids /\ <<k, r>> \in EntriesIn(leaf) BY DEF WithKey, Entries
  <2>2. PICK e \in Entry : e.key = k /\ e.val = r /\ InLeaves(leaf, S, e)
    BY <2>1, <1>2, <1>4, EntryIsRecord
  <2>3. e = Owed(c, r) BY <2>2, <1>7 DEF Entry, Owed
  <2>4. b = search(dir, e.key) /\ slot = findLeafSlot(leaf[b].recs, e.key) BY <2>2, <1>6
  <2>5. AheadOf(leaf, S, RL, b, slot + 1, e) BY <2>2, <2>4, <1>4, <1>5, StartsBefore
  <2> QED BY <2>3, <2>5
<1>11. k \in Keys /\ WithKey(k) \subseteq Rids BY DEF Keys, WithKey
<1>12. CursorOwes(leaf, RL, c) BY <1>2, <1>7, <1>8, <1>9, <1>10, <1>11 DEF CursorOwes
<1> QED BY <1>1, <1>12 DEF Standing

Moved(c, p) == [c EXCEPT !.block = p.block, !.slot = p.slot, !.done = (p.rid = None),
                         !.seen = IF p.rid = None THEN @ ELSE @ \union {p.rid}]

(* It returns them one by one. *)
LEMMA MovedStands ==
  ASSUME TreeInv, OrderInv, cursor # NoCursor, ~cursor.done,
         NEW p, p = next(leaf, cursor.block, cursor.slot + 1, cursor.key),
         NEW c, c = Moved(cursor, p)
  PROVE  Standing(leaf, dir, failed, c)
<1>1. DOMAIN leaf # {} BY DEF OrderInv
<1>2. PICK RL : Usable(leaf, dir, RL) /\ (~failed => \E RD : Ranked(dir, RD, RL))
                /\ CursorOwes(leaf, RL, cursor)
  BY <1>1 DEF OrderInv, Standing
<1>3. PICK S : S = LeafBlocks(leaf) OBVIOUS
<1>4. Tree(leaf, dir) BY <1>1 DEF TreeInv, Stored
<1>5. LeafFile(leaf) /\ Chained(leaf, S) /\ Closed(leaf, S)
  BY <1>3, <1>4, TreeIs DEF Chained, Linked
<1>6. Ordered(leaf, S, RL) BY <1>2, <1>3 DEF Usable
<1>7. PICK key, block, slot, done, seen, owed :
        /\ key = cursor.key /\ block = cursor.block /\ slot = cursor.slot
        /\ done = cursor.done /\ seen = cursor.seen /\ owed = cursor.owed
  OBVIOUS
<1>8. /\ cursor = [key |-> key, block |-> block, slot |-> slot, done |-> done,
                   seen |-> seen, owed |-> owed]
      /\ key \in Keys /\ block \in S /\ slot \in Nat /\ owed \subseteq Rids
      /\ \A r \in owed :
           r \in seen \/ AheadOf(leaf, S, RL, block, slot + 1, [key |-> key, val |-> r])
  BY <1>2, <1>3, <1>7 DEF CursorOwes, Owed
<1>9. PICK more : more = IF p.rid = None THEN seen ELSE seen \union {p.rid} OBVIOUS
<1>10. PICK over : over = (p.rid = None) OBVIOUS
<1>11. c = [key |-> key, block |-> p.block, slot |-> p.slot, done |-> over,
            seen |-> more, owed |-> owed]
  BY <1>8, <1>9, <1>10 DEF Moved
<1>12. /\ c.key = key /\ c.block = p.block /\ c.slot = p.slot /\ c.done = over
       /\ c.seen = more /\ c.owed = owed
  BY <1>11
<1>13. slot + 1 \in Nat /\ p = next(leaf, block, slot + 1, key) BY <1>7, <1>8
<1>14. p.block \in S
  <2>1. IsStop(leaf, S, key, p) BY <1>5, <1>8, <1>13, NextStops
  <2> QED BY <2>1 DEF IsStop
<1>15. p.slot \in Nat BY <1>5, <1>8, <1>13, NextSlot
<1>16. ASSUME NEW r \in owed
       PROVE  r \in more \/ (p.rid # None /\ AheadOf(leaf, S, RL, p.block, p.slot + 1, Owed(c, r)))
  <2>1. CASE r \in seen BY <2>1, <1>9
  <2>2. CASE r \notin seen
    <3>1. PICK e : e = [key |-> key, val |-> r] OBVIOUS
    <3>2. e \in Entry /\ e.key = key /\ e.val = r /\ e = Owed(c, r)
      BY <3>1, <1>8, <1>12 DEF Entry, Owed
    <3>3. AheadOf(leaf, S, RL, block, slot + 1, e) BY <2>2, <3>1, <1>8
    <3>4. p = next(leaf, block, slot + 1, e.key) BY <3>2, <1>13
    <3>5. Comes(leaf, S, RL, p, e) BY <3>2, <3>3, <3>4, <1>5, <1>6, <1>8, <1>13, NextFinds
    <3> QED BY <3>2, <3>5, <1>9 DEF Comes
  <2> QED BY <2>1, <2>2
<1>17. c = [key |-> c.key, block |-> c.block, slot |-> c.slot, done |-> c.done,
            seen |-> c.seen, owed |-> c.owed]
  BY <1>11, <1>12
<1>18. \A r \in c.owed : r \in c.seen \/
         (~c.done /\ AheadOf(leaf, S, RL, c.block, c.slot + 1, Owed(c, r)))
  BY <1>12, <1>16, <1>10
<1>19. c.key \in Keys /\ c.block \in S /\ c.slot \in Nat /\ c.owed \subseteq Rids
  BY <1>8, <1>12, <1>14, <1>15
<1>20. CursorOwes(leaf, RL, c) BY <1>3, <1>17, <1>18, <1>19 DEF CursorOwes
<1> QED BY <1>2, <1>20 DEF Standing

(* A Delete leaves the ranges as they are. *)
LEMMA DeletedStands ==
  ASSUME NEW d, Tree(leaf, d), NEW f, NEW c, Standing(leaf, d, f, c),
         NEW S, S = LeafBlocks(leaf), NEW k, NEW r, NEW at, FoundAt(leaf, S, k, r, at),
         NEW new, new = Removed(leaf, at.block, at.slot)
  PROVE  Standing(new, d, f, NoCursor)
<1>1. PICK RL : Usable(leaf, d, RL) /\ (~f => \E RD : Ranked(d, RD, RL)) BY DEF Standing
<1>2. Ordered(leaf, S, RL) /\ Reaches(d, RL) BY <1>1 DEF Usable
<1>3. Ordered(new, LeafBlocks(new), RL) BY <1>2, RemovedOrdered
<1>4. CursorOwes(new, RL, NoCursor) BY DEF CursorOwes
<1> QED BY <1>1, <1>2, <1>3, <1>4 DEF Usable, Standing

(* Only records that there are come into the index. *)
PairsInv == Entries \subseteq Pairs /\ EntriesIn(undo.leaf) \subseteq Pairs

LEMMA InitPairs == Init => PairsInv
<1> SUFFICES ASSUME Init PROVE PairsInv OBVIOUS
<1>1. Abstract!Init BY InitIs
<1>2. Entries \subseteq {<<KeyOf[r], r>> : r \in Rids} /\ EntriesIn(undo.leaf) = Entries
  BY <1>1 DEF Abstract!Init
<1> QED BY <1>2 DEF PairsInv, Pairs

LEMMA NextPairs == PairsInv /\ AbstractStep => PairsInv'
<1> SUFFICES ASSUME PairsInv, AbstractStep PROVE PairsInv' OBVIOUS
<1>1. PICK old, oldU, new, newU :
        /\ old = Entries /\ oldU = EntriesIn(undo.leaf)
        /\ new = Entries' /\ newU = EntriesIn(undo.leaf)'
  OBVIOUS
<1>2. old \subseteq Pairs /\ oldU \subseteq Pairs BY <1>1 DEF PairsInv
<1>3. new \subseteq Pairs /\ newU \subseteq Pairs
  <2>1. CASE Abstract!Insert
    BY <2>1, <1>1, <1>2 DEF Abstract!Insert, Pairs
  <2>2. CASE Abstract!Delete
    BY <2>2, <1>1, <1>2 DEF Abstract!Delete
  <2>3. CASE Abstract!Commit
    BY <2>3, <1>1, <1>2 DEF Abstract!Commit
  <2>4. CASE Abstract!Rollback
    BY <2>4, <1>1, <1>2 DEF Abstract!Rollback
  <2>5. CASE UNCHANGED <<Entries, EntriesIn(undo.leaf)>>
    BY <2>5, <1>1, <1>2
  <2> QED BY <2>1, <2>2, <2>3, <2>4, <2>5 DEF AbstractStep, Abstract!Next
<1> QED BY <1>1, <1>3 DEF PairsInv

(* As long as no split has put equal keys into two leaves *)
KeysKept == ~parted => OrderInv

LEMMA InitOrdered == Init => KeysKept
<1> SUFFICES ASSUME Init, ~parted PROVE OrderInv BY DEF KeysKept
<1>1. PICK l, d : l = undo.leaf /\ d = undo.dir /\ leaf = l /\ dir = d BY DEF Init
<1>2. cursor = NoCursor /\ ~failed BY DEF Init
<1>3. DOMAIN l # {} => Tree(l, d) /\ Whole(l, d)
  <2>1. CASE undo = [leaf |-> <<>>, dir |-> <<>>]
    <3>1. l = <<>> BY <2>1, <1>1
    <3>2. DOMAIN <<>> = {} OBVIOUS
    <3> QED BY <3>1, <3>2
  <2>2. CASE \E rids \in Preloads : undo = Built(rids)
    <3>1. PICK rids \in Preloads : undo = Built(rids) BY <2>2
    <3>2. rids \in Seq(Rids) OBVIOUS
    <3>3. PICK b : b = Built(rids) OBVIOUS
    <3>4. Tree(b.leaf, b.dir) BY <3>2, <3>3, BuiltIs
    <3>5. ~EqualKeysApart(b.leaf) BY <3>1, <3>3 DEF Init
    <3>6. Whole(b.leaf, b.dir) BY <3>2, <3>3, <3>5, BuiltIsWhole
    <3> QED BY <3>1, <3>3, <3>4, <3>6, <1>1
  <2> QED BY <2>1, <2>2 DEF Init
<1>4. DOMAIN l # {} => Standing(l, d, failed, NoCursor) BY <1>3, WholeStands
<1> QED BY <1>1, <1>2, <1>3, <1>4 DEF OrderInv

(* A step that leaves the files to roll back to as they are *)
LEMMA GoesOn ==
  ASSUME OrderInv, undo' = undo, DOMAIN leaf' # {}, Standing(leaf', dir', failed', cursor')
  PROVE  OrderInv'
BY DEF OrderInv

(* What has been parted stays so. *)
LEMMA PartedStays == [Next]_vars /\ parted => parted'
<1> SUFFICES ASSUME [Next]_vars, parted PROVE parted' OBVIOUS
<1>1. CASE NewIndex BY <1>1 DEF NewIndex
<1>2. ASSUME NEW l, NEW d, Changed(l, d) PROVE parted' BY <1>2 DEF Changed
<1>3. CASE \E r \in Rids : Insert(r) \/ InsertFailsInLeaf(r)
  BY <1>2, <1>3 DEF Insert, InsertFailsInLeaf
<1>4. CASE \E r \in Rids, stop \in 0..MaxChanges : InsertFails(r, stop)
  BY <1>2, <1>4 DEF InsertFails
<1>5. CASE \E r \in Rids, b \in DOMAIN dir : InsertFailsInDir(r, b)
  BY <1>2, <1>5 DEF InsertFailsInDir
<1>6. CASE \E r \in Rids : Delete(r) BY <1>6 DEF Delete
<1>7. CASE \E k \in ScanKeys : BeforeFirst(k) BY <1>7 DEF BeforeFirst
<1>8. CASE Next_ BY <1>8 DEF Next_
<1>9. CASE Commit \/ Rollback BY <1>9 DEF Commit, Rollback, EndTransaction
<1>10. CASE UNCHANGED vars BY <1>10 DEF vars
<1> QED BY <1>1, <1>3, <1>4, <1>5, <1>6, <1>7, <1>8, <1>9, <1>10 DEF Next

LEMMA OrderStep == TreeInv /\ TreeInv' /\ KeysKept /\ [Next]_vars => KeysKept'
<1> SUFFICES ASSUME TreeInv, TreeInv', OrderInv, [Next]_vars, ~parted' PROVE OrderInv'
  BY PartedStays DEF KeysKept
<1>1. TypeInv /\ TypeInv' BY DEF TreeInv
<1>2. DOMAIN leaf # {} => Tree(leaf, dir) BY DEF TreeInv, Stored
<1>3. open => DOMAIN leaf # {} BY <1>1 DEF TypeInv
<1>4. ASSUME UNCHANGED <<leaf, dir, undo, failed, cursor>> PROVE OrderInv'
  BY <1>4 DEF OrderInv
<1>5. ASSUME NewIndex PROVE OrderInv'
  <2>1. CASE Size(leaf) # 0
    <3>1. UNCHANGED <<leaf, dir, undo, failed, cursor>> BY <2>1, <1>5 DEF NewIndex, files
    <3> QED BY <3>1, <1>4
  <2>2. CASE Size(leaf) = 0
    <3>1. PICK l, d : l = Created.leaf /\ d = Created.dir OBVIOUS
    <3>2. leaf' = l /\ dir' = d /\ undo' = undo /\ cursor' = cursor
      BY <3>1, <2>2, <1>5 DEF NewIndex
    <3>3. Tree(l, d) /\ Whole(l, d) BY <3>1, CreatedIs, CreatedIsWhole
    <3>4. DOMAIN leaf = {}
      <4>1. IsFile(leaf) BY <1>1 DEF TypeInv, Index, LeafFile
      <4>2. DOMAIN leaf = 0..(0 - 1) BY <4>1, <2>2, FileSize
      <4> QED BY <4>2
    <3>5. cursor = NoCursor BY <3>4 DEF OrderInv
    <3>6. Standing(l, d, failed', cursor) BY <3>3, <3>5, WholeStands
    <3>7. DOMAIN l # {} BY <3>3 DEF Tree
    <3> QED BY <3>2, <3>6, <3>7, GoesOn
  <2> QED BY <2>1, <2>2
<1>6. ASSUME NEW r \in Rids, Insert(r) PROVE OrderInv'
  <2>1. PICK f : f = [leaf |-> leaf, dir |-> dir] OBVIOUS
  <2>2. PICK stop : stop = dir[Root].extra1 + 2 OBVIOUS
  <2>3. PICK res : res = InsertUpTo(f, r, stop) OBVIOUS
  <2>4. /\ CanInsert(r) /\ ~EqualKeysApart(res.leaf)
        /\ leaf' = res.leaf /\ dir' = res.dir
        /\ undo' = undo /\ failed' = failed /\ cursor' = cursor /\ open' = open /\ open
    BY <2>1, <2>2, <2>3, <1>6 DEF Insert, Changed, CanInsert, CanChange
  <2>5. DOMAIN leaf # {} BY <2>4, <1>3
  <2>6. stop \in Int /\ stop > dir[Root].extra1 + 1
    <3>1. Tree(leaf, dir) BY <2>5, <1>2
    <3>2. Root \in DOMAIN dir /\ Directory(dir, LeafBlocks(leaf)) BY <3>1, TreeIs DEF Tree
    <3>3. dir[Root].extra1 \in Nat BY <3>2 DEF Directory, DirPage
    <3> QED BY <3>3, <2>2
  <2>7. Standing(res.leaf, res.dir, failed, cursor) BY <2>1, <2>3, <2>4, <2>6, InsertStands
  <2>8. DOMAIN leaf' # {} BY <2>4, <1>1 DEF TypeInv
  <2> QED BY <2>4, <2>7, <2>8, GoesOn
<1>7. ASSUME NEW r \in Rids, NEW stop \in 0..MaxChanges, InsertFails(r, stop) PROVE OrderInv'
  <2>1. PICK f : f = [leaf |-> leaf, dir |-> dir] OBVIOUS
  <2>2. PICK res : res = InsertUpTo(f, r, stop) OBVIOUS
  <2>3. /\ CanInsert(r) /\ ~EqualKeysApart(res.leaf)
        /\ leaf' = res.leaf /\ dir' = res.dir
        /\ undo' = undo /\ failed' = TRUE /\ cursor' = cursor /\ open' = open /\ open
    BY <2>1, <2>2, <1>7 DEF InsertFails, Changed, CanInsert, CanChange
  <2>4. DOMAIN leaf' # {} BY <2>3, <1>1 DEF TypeInv
  <2>5. stop \in Int OBVIOUS
  <2>6. Standing(res.leaf, res.dir, TRUE, cursor) BY <2>1, <2>2, <2>3, <2>5, InsertStands
  <2> QED BY <2>3, <2>4, <2>6, GoesOn
<1>8. ASSUME NEW r \in Rids, Delete(r) PROVE OrderInv'
  <2>1. PICK walk : walk = Walk(KeyOf[r]) OBVIOUS
  <2>2. PICK found : found = {i \in DOMAIN walk : walk[i].rid = r} OBVIOUS
  <2>3. PICK at : at = walk[Min(found)] OBVIOUS
  <2>4. /\ undo' = undo /\ dir' = dir /\ failed' = failed /\ cursor' = NoCursor
        /\ open /\ open' = open
        /\ IF found # {} THEN leaf' = Removed(leaf, at.block, at.slot) ELSE leaf' = leaf
    BY <2>1, <2>2, <2>3, <1>8 DEF Delete, Removed, CanChange
  <2>5. DOMAIN leaf # {} /\ DOMAIN leaf' # {} BY <2>4, <1>1, <1>3 DEF TypeInv
  <2>6. Tree(leaf, dir) /\ Standing(leaf, dir, failed, cursor) BY <2>5, <1>2 DEF OrderInv
  <2>7. Standing(leaf', dir', failed, NoCursor)
    <3>1. CASE found = {}
      <4>1. Standing(leaf, dir, failed, NoCursor) BY <2>6 DEF Standing, CursorOwes
      <4> QED BY <4>1, <3>1, <2>4
    <3>2. CASE found # {}
      <4>1. PICK S : S = LeafBlocks(leaf) OBVIOUS
      <4>2. LeafFile(leaf) /\ Chained(leaf, S) /\ Directory(dir, S) /\ Root \in DOMAIN dir
        BY <2>6, <4>1, TreeIs DEF Tree
      <4>3. IsWalk(leaf, S, KeyOf[r], walk)
        <5>1. search(dir, KeyOf[r]) \in S BY <4>2, SearchTyped
        <5>2. Closed(leaf, S) BY <4>2 DEF Chained, Linked
        <5> QED BY <5>1, <5>2, <4>2, <2>1, WalkStops
      <4>4. FoundAt(leaf, S, KeyOf[r], r, at) BY <4>3, <2>2, <2>3, <3>2, DeleteFinds
      <4>5. PICK new, d, k : new = Removed(leaf, at.block, at.slot) /\ d = dir /\ k = KeyOf[r]
        OBVIOUS
      <4>6. Standing(new, d, failed, NoCursor) BY <4>1, <4>4, <4>5, <2>6, DeletedStands
      <4> QED BY <4>5, <4>6, <3>2, <2>4
    <3> QED BY <3>1, <3>2
  <2> QED BY <2>4, <2>5, <2>7, GoesOn
<1>9. ASSUME NEW k \in ScanKeys, BeforeFirst(k) PROVE OrderInv'
  <2>1. PICK c : c = [key |-> k, block |-> Position(k).block, slot |-> Position(k).slot,
                      done |-> FALSE, seen |-> {}, owed |-> WithKey(k)]
    OBVIOUS
  <2>2. /\ leaf' = leaf /\ dir' = dir /\ undo' = undo /\ failed' = failed /\ cursor' = c
        /\ open
    BY <2>1, <1>9 DEF BeforeFirst, files
  <2>3. DOMAIN leaf # {} BY <2>2, <1>3
  <2>4. Standing(leaf, dir, failed, c) BY <2>1, <2>3, OpenedStands
  <2> QED BY <2>2, <2>3, <2>4, GoesOn
<1>10. ASSUME Next_ PROVE OrderInv'
  <2>1. PICK p : p = next(leaf, cursor.block, cursor.slot + 1, cursor.key) OBVIOUS
  <2>2. PICK c : c = Moved(cursor, p) OBVIOUS
  <2>3. /\ leaf' = leaf /\ dir' = dir /\ undo' = undo /\ failed' = failed /\ cursor' = c
        /\ cursor # NoCursor /\ ~cursor.done
    BY <2>1, <2>2, <1>10 DEF Next_, files, Moved
  <2>4. DOMAIN leaf # {} BY <2>3 DEF OrderInv
  <2>5. Standing(leaf, dir, failed, c) BY <2>1, <2>2, <2>3, MovedStands
  <2> QED BY <2>3, <2>4, <2>5, GoesOn
<1>11. ASSUME NEW l, NEW d, Tree(l, d), Whole(l, d), leaf' = l, dir' = d,
              failed' = FALSE, cursor' = NoCursor, undo' = [leaf |-> leaf', dir |-> dir']
       PROVE  OrderInv'
  <2>1. DOMAIN l # {} BY <1>11 DEF Tree
  <2>2. Standing(l, d, FALSE, NoCursor) BY <1>11, WholeStands
  <2>3. undo' = [leaf |-> l, dir |-> d] BY <1>11
  <2>4. undo'.leaf = l /\ undo'.dir = d BY <2>3
  <2> QED BY <2>1, <2>2, <2>4, <1>11 DEF OrderInv
<1>12. ASSUME Commit PROVE OrderInv'
  <2>1. /\ leaf' = leaf /\ dir' = dir /\ undo' = [leaf |-> leaf', dir |-> dir']
        /\ failed' = FALSE /\ cursor' = NoCursor /\ open /\ ~failed
    BY <1>12 DEF Commit, EndTransaction, files
  <2>2. Tree(leaf, dir) /\ Standing(leaf, dir, failed, cursor)
    BY <2>1, <1>2, <1>3 DEF OrderInv
  <2>3. Whole(leaf, dir) BY <2>1, <2>2, StandingIsWhole
  <2> QED BY <2>1, <2>2, <2>3, <1>11
<1>13. ASSUME Rollback PROVE OrderInv'
  <2>1. PICK l, d : l = Restored(undo.leaf, leaf) /\ d = Restored(undo.dir, dir) OBVIOUS
  <2>2. PICK oldLeaf, oldDir : oldLeaf = undo.leaf /\ oldDir = undo.dir OBVIOUS
  <2>3. /\ leaf' = l /\ dir' = d /\ undo' = [leaf |-> leaf', dir |-> dir']
        /\ failed' = FALSE /\ cursor' = NoCursor /\ open
    BY <2>1, <1>13 DEF Rollback, EndTransaction
  <2>4. l = Restored(oldLeaf, leaf) /\ d = Restored(oldDir, dir) BY <2>1, <2>2
  <2>5. /\ Index(oldLeaf, oldDir) /\ Stored(oldLeaf, oldDir) /\ Index(leaf, dir)
        /\ DOMAIN oldLeaf \subseteq DOMAIN leaf /\ DOMAIN oldDir \subseteq DOMAIN dir
    BY <2>2 DEF TreeInv, TypeInv
  <2>6. DOMAIN oldLeaf # {} => Whole(oldLeaf, oldDir) BY <2>2 DEF OrderInv
  <2>7. DOMAIN leaf # {} BY <2>3, <1>3
  <2>8. Tree(l, d) BY <2>4, <2>5, <2>7, RestoredIs
  <2>9. Whole(l, d) BY <2>4, <2>5, <2>6, <2>7, RestoredIsWhole
  <2> QED BY <2>3, <2>8, <2>9, <1>11
<1>14. ASSUME NEW r \in Rids, InsertFailsInLeaf(r) PROVE OrderInv'
  <2>1. PICK b, new : b = search(dir, KeyOf[r]) /\ new = LeafHalves(leaf, b) OBVIOUS
  <2>2. /\ CanInsert(r) /\ isFull(leaf[b], LeafCapacity) /\ ~EqualKeysApart(new)
        /\ leaf' = new /\ dir' = dir
        /\ undo' = undo /\ failed' = TRUE /\ cursor' = cursor /\ open' = open /\ open
    BY <2>1, <1>14 DEF InsertFailsInLeaf, Changed, CanInsert, CanChange
  <2>3. DOMAIN leaf' # {} BY <2>2, <1>1 DEF TypeInv
  <2>4. Standing(new, dir, TRUE, cursor) BY <2>1, <2>2, LeafHalvesStand
  <2> QED BY <2>2, <2>3, <2>4, GoesOn
<1>15. ASSUME NEW r \in Rids, NEW b \in DOMAIN dir, InsertFailsInDir(r, b) PROVE OrderInv'
  <2>1. PICK f, stop : f = [leaf |-> leaf, dir |-> dir] /\ stop = dir[b].extra1 OBVIOUS
  <2>2. PICK res, new : res = InsertUpTo(f, r, stop) /\ new = DirHalves(res.dir, b) OBVIOUS
  <2>3. /\ CanInsert(r) /\ ~EqualKeysApart(res.leaf) /\ isFull(res.dir[b], DirCapacity)
        /\ leaf' = res.leaf /\ dir' = new
        /\ undo' = undo /\ failed' = TRUE /\ cursor' = cursor /\ open' = open /\ open
    BY <2>1, <2>2, <1>15 DEF InsertFailsInDir, Changed, CanInsert, CanChange
  <2>4. DOMAIN leaf' # {} BY <2>3, <1>1 DEF TypeInv
  <2>5. stop \in Int
    <3>1. Tree(leaf, dir) BY <2>3, <1>2, <1>3
    <3>2. stop \in Nat BY <3>1, <2>1, DirPageIs DEF Tree
    <3> QED BY <3>2
  <2>6. Standing(res.leaf, new, TRUE, cursor) BY <2>1, <2>2, <2>3, <2>5, DirHalvesStand
  <2> QED BY <2>3, <2>4, <2>6, GoesOn
<1>16. ASSUME UNCHANGED vars PROVE OrderInv' BY <1>4, <1>16 DEF vars, files
<1> QED
  BY <1>5, <1>6, <1>7, <1>8, <1>9, <1>10, <1>12, <1>13, <1>14, <1>15, <1>16 DEF Next

LEMMA OrderInvariant == Spec => [](TreeInv /\ PairsInv /\ KeysKept)
<1>1. Init => TreeInv /\ PairsInv /\ KeysKept BY InitIs, InitPairs, InitOrdered
<1>2. TreeInv /\ PairsInv /\ KeysKept /\ TypeInv' /\ [Next]_vars
        => (TreeInv /\ PairsInv /\ KeysKept)'
  BY NextStep, NextPairs, OrderStep
<1> QED BY <1>1, <1>2, TreeInvariant, PTL DEF Spec

-----------------------------------------------------------------------------
(* As long as no split has put equal keys into two leaves, a search that     *)
(* ends has returned every entry of its key and no other, whichever pages     *)
(* were split, emptied or restored, and wherever the last Insert has failed;  *)
(* and it ends unless the creation of the index was rolled back              *)
(* (Index.BeforeFirst, Index.Next, btreeLeaf.next, btreeDir.search).         *)
THEOREM SearchAnswers == Spec => []SearchIsRight
<1>1. TreeInv /\ PairsInv /\ KeysKept => (~parted => SearchFinds)
  <2> SUFFICES ASSUME TreeInv, PairsInv, OrderInv, open, NEW k \in Keys,
                      NEW walk, walk = Walk(k), Ends(walk)
               PROVE  {walk[i].rid : i \in DOMAIN walk} \ {None} = WithKey(k)
    BY DEF SearchFinds, KeysKept
  <2>1. DOMAIN leaf # {} BY DEF TreeInv, TypeInv
  <2>2. Tree(leaf, dir) BY <2>1 DEF TreeInv, Stored
  <2>3. PICK RL : Usable(leaf, dir, RL) BY <2>1 DEF OrderInv, Standing
  <2> QED BY <2>2, <2>3, WalkFinds DEF PairsInv
<1>2. Spec => []SearchEnds BY SearchesEnd
<1> QED BY <1>1, <1>2, OrderInvariant, PTL DEF SearchIsRight

(* As long as no split has put equal keys into two leaves, a cursor that has *)
(* come to its end has returned what there was when it was opened, although  *)
(* Inserts have moved records to other slots and pages under it since, and   *)
(* one may have failed halfway (btreeLeaf.next).                             *)
THEOREM CursorReturnsAll == Spec => []CursorSkipsNothing
<1>1. KeysKept => CursorSkipsNothing
  <2> SUFFICES ASSUME OrderInv, cursor # NoCursor, cursor.done
               PROVE  cursor.owed \subseteq cursor.seen
    BY DEF CursorSkipsNothing, KeysKept
  <2>1. DOMAIN leaf # {} BY DEF OrderInv
  <2>2. PICK RL : CursorOwes(leaf, RL, cursor) BY <2>1 DEF OrderInv, Standing
  <2> QED BY <2>2 DEF CursorOwes
<1> QED BY <1>1, OrderInvariant, PTL

-----------------------------------------------------------------------------
(* The directory and the chain.  A line is a sequence of leaves whose ranges *)
(* rise and share the keys own out.                                          *)
Line(R, S, own, seq) ==
  /\ seq \in Seq(S) /\ Rising(R, seq, Len(seq))
  /\ \A i \in 1..Len(seq) : R[seq[i]] \subseteq own
  /\ \A k \in own : \E i \in 1..Len(seq) : k \in R[seq[i]]

(* Ranges of which no two share a key *)
Separate(R, S) ==
  /\ \A x \in S : R[x] \in SUBSET Int /\ R[x] # {}
  /\ \A x, y \in S : \A k \in R[x] : k \in R[y] => x = y

LEMMA OrderedSeparate ==
  ASSUME NEW l, NEW S, Chained(l, S), NEW R, Ordered(l, S, R)
  PROVE  Separate(R, S)
<1>1. \A x \in S : R[x] \in SUBSET Int /\ R[x] # {} BY DEF Ordered
<1>2. \A x, y \in S : \A k \in R[x] : k \in R[y] => x = y BY RangesDiffer
<1> QED BY <1>1, <1>2 DEF Separate

LEMMA NotUnderItself ==
  ASSUME NEW R, NEW S, Separate(R, S), NEW x \in S, Under(R[x], R[x])
  PROVE  FALSE
<1>1. PICK k : k \in R[x] BY DEF Separate
<1>2. k \in Int BY <1>1 DEF Separate
<1>3. k < k BY <1>1 DEF Under
<1> QED BY <1>2, <1>3

(* Two lines that agree before place i: the leaf there lies further on in the *)
(* other, if they do not agree in i.                                          *)
LEMMA LineGoesOn ==
  ASSUME NEW R, NEW S, Separate(R, S), NEW own, NEW a, NEW b,
         Line(R, S, own, a), Line(R, S, own, b),
         NEW i \in 1..Len(a), \A j \in 1..Len(b) : j < i => j \in 1..Len(a) /\ a[j] = b[j]
  PROVE  /\ \E j \in 1..Len(b) : i <= j /\ b[j] = a[i]
         /\ i \in 1..Len(b) /\ (b[i] # a[i] => Under(R[b[i]], R[a[i]]))
<1>1. PICK x : x = a[i] /\ x \in S BY DEF Line
<1>2. PICK k : k \in R[x] BY <1>1 DEF Separate
<1>3. k \in own BY <1>1, <1>2 DEF Line
<1>4. PICK j \in 1..Len(b) : k \in R[b[j]] BY <1>3 DEF Line
<1>5. b[j] \in S BY <1>4 DEF Line
<1>6. b[j] = x BY <1>1, <1>2, <1>4, <1>5 DEF Separate
<1>7. i \in Nat /\ j \in Nat /\ Len(b) \in Nat BY DEF Line
<1>8. ~(j < i)
  <2> SUFFICES ASSUME j < i PROVE FALSE OBVIOUS
  <2>1. j \in 1..Len(a) /\ a[j] = x BY <1>6
  <2>2. Rising(R, a, Len(a)) BY DEF Line
  <2>3. Under(R[x], R[x]) BY <2>1, <2>2, <1>1 DEF Rising
  <2> QED BY <2>3, <1>1, NotUnderItself
<1>9. i <= j BY <1>7, <1>8
<1>10. i \in 1..Len(b) BY <1>4, <1>7, <1>9
<1>11. ASSUME b[i] # x PROVE Under(R[b[i]], R[x])
  <2>1. i < j BY <1>6, <1>7, <1>9, <1>11
  <2>2. Rising(R, b, Len(b)) BY DEF Line
  <2> QED BY <2>1, <2>2, <1>4, <1>6, <1>10 DEF Rising
<1> QED BY <1>1, <1>4, <1>6, <1>9, <1>10, <1>11

(* There is one line only for the same keys. *)
LEMMA LineOnce ==
  ASSUME NEW R, NEW S, Separate(R, S), NEW own, NEW a, NEW b,
         Line(R, S, own, a), Line(R, S, own, b)
  PROVE  a = b
<1>1. a \in Seq(S) /\ b \in Seq(S) BY DEF Line
<1>2. ASSUME NEW p, NEW q, Line(R, S, own, p), Line(R, S, own, q)
      PROVE  \A n \in Nat : n \in 1..Len(p) => n \in 1..Len(q) /\ p[n] = q[n]
  <2>0. p \in Seq(S) /\ q \in Seq(S) BY <1>2 DEF Line
  <2> DEFINE Bad == {n \in Nat : \/ n \in 1..Len(p) /\ ~(n \in 1..Len(q) /\ p[n] = q[n])
                                 \/ n \in 1..Len(q) /\ ~(n \in 1..Len(p) /\ p[n] = q[n])}
  <2>1. Bad = {}
    <3> SUFFICES ASSUME Bad # {} PROVE FALSE OBVIOUS
    <3>1. PICK m : m \in Bad /\ \A i \in Bad : m <= i
      <4>1. Bad \subseteq Nat OBVIOUS
      <4> HIDE DEF Bad
      <4> QED BY <4>1, LeastExists
    <3>2. m \in Nat BY <3>1
    <3>3. \A j \in 1..Len(q) : j < m => j \in 1..Len(p) /\ p[j] = q[j]
      <4> SUFFICES ASSUME NEW j \in 1..Len(q), j < m PROVE j \in 1..Len(p) /\ p[j] = q[j]
        OBVIOUS
      <4>1. j \in Nat BY <2>0
      <4>2. j \notin Bad BY <4>1, <3>1, <3>2
      <4> QED BY <4>1, <4>2
    <3>4. \A j \in 1..Len(p) : j < m => j \in 1..Len(q) /\ q[j] = p[j]
      <4> SUFFICES ASSUME NEW j \in 1..Len(p), j < m PROVE j \in 1..Len(q) /\ q[j] = p[j]
        OBVIOUS
      <4>1. j \in Nat BY <2>0
      <4>2. j \notin Bad BY <4>1, <3>1, <3>2
      <4> QED BY <4>1, <4>2
    <3>5. m \in 1..Len(p) => m \in 1..Len(q) /\ (q[m] # p[m] => Under(R[q[m]], R[p[m]]))
      BY <3>3, <1>2, LineGoesOn
    <3>6. m \in 1..Len(q) => m \in 1..Len(p) /\ (p[m] # q[m] => Under(R[p[m]], R[q[m]]))
      BY <3>4, <1>2, LineGoesOn
    <3>7. m \in 1..Len(p) /\ m \in 1..Len(q) /\ p[m] # q[m] BY <3>1, <3>5, <3>6
    <3>8. p[m] \in S /\ q[m] \in S BY <3>7, <2>0
    <3>9. R[p[m]] \in SUBSET Int /\ R[q[m]] \in SUBSET Int /\ R[q[m]] # {}
      BY <3>8 DEF Separate
    <3>10. Under(R[p[m]], R[p[m]]) BY <3>5, <3>6, <3>7, <3>9, UnderTrans
    <3> QED BY <3>8, <3>10, NotUnderItself
  <2> QED BY <2>1
<1>3. \A n \in Nat : n \in 1..Len(a) => n \in 1..Len(b) /\ a[n] = b[n] BY <1>2
<1>4. \A n \in Nat : n \in 1..Len(b) => n \in 1..Len(a) /\ b[n] = a[n] BY <1>2
<1>5. Len(a) \in Nat /\ Len(b) \in Nat BY <1>1
<1>6. Len(a) <= Len(b)
  <2>1. Len(a) = 0 \/ Len(a) \in 1..Len(a) BY <1>5
  <2> QED BY <2>1, <1>3, <1>5
<1>7. Len(b) <= Len(a)
  <2>1. Len(b) = 0 \/ Len(b) \in 1..Len(b) BY <1>5
  <2> QED BY <2>1, <1>4, <1>5
<1>8. Len(a) = Len(b) BY <1>5, <1>6, <1>7
<1>9. \A n \in 1..Len(a) : a[n] = b[n] BY <1>3, <1>5
<1> QED BY <1>1, <1>8, <1>9

(* The chain from the first leaf is a line of all keys. *)
LEMMA ChainIsLine ==
  ASSUME NEW l, NEW d, Tree(l, d), NoCircle(l), NEW RD, NEW RL,
         Ordered(l, LeafBlocks(l), RL), Ranked(d, RD, RL)
  PROVE  Line(RL, LeafBlocks(l), Int, Chain(l, 0))
<1>1. PICK S : S = LeafBlocks(l) OBVIOUS
<1>2. LeafFile(l) /\ 0 \in DOMAIN l /\ Chained(l, S) /\ Root \in DOMAIN d
      /\ Directory(d, S)
  BY <1>1, TreeIs DEF Tree
<1>3. Closed(l, S) /\ 0 \in S BY <1>2 DEF Chained, Linked
<1>4. DOMAIN RL = S /\ RL \in [S -> SUBSET Int] BY <1>1 DEF Ordered
<1>5. PICK c : c = Chain(l, 0) OBVIOUS
<1>6. IsChain(l, 0, c) BY <1>2, <1>5, ChainIs
<1>7. c \in Seq(S) /\ S = ToSet(c)
  <2>1. c \in Seq(S) BY <1>2, <1>3, <1>6, ChainStays DEF LeafFile
  <2> QED BY <2>1, <1>1, <1>5 DEF LeafBlocks
<1>8. /\ Len(c) \in 1..(Size(l) + 1)
      /\ \A i \in 1..(Len(c) - 1) : l[c[i]].extra1 = c[i + 1]
      /\ Len(c) <= Size(l) => l[c[Len(c)]].extra1 = None
  BY <1>6 DEF IsChain
<1>9. Len(c) <= Size(l)
  <2>1. PICK U : LinksIn(l, 0, c, U) BY <1>2, <1>6, ChainCloses
  <2>2. Len(c) > Size(l) => U = {} BY <2>1 DEF LinksIn, Closed, NoCircle
  <2>3. Size(l) \in Nat BY <1>2, FileSize DEF LeafFile
  <2> QED BY <2>1, <2>2, <2>3, <1>7 DEF LinksIn
<1>10. PICK n \in Nat : n = Len(c) /\ n >= 1
  <2>1. Len(c) \in Nat BY <1>7
  <2> QED BY <2>1, <1>8
<1>11. PICK z : z = c[n] /\ z \in S BY <1>7, <1>10
<1>12. After(l, 0, z)
  <2>1. ASSUME NEW T \in SUBSET DOMAIN l, Going(l, T), 0 \in T PROVE z \in T
    <3>1. Linked(l, T) BY <2>1 DEF Going, Linked, Closed
    <3> QED BY <3>1, <1>2, <1>11 DEF Chained
  <2> QED BY <2>1 DEF After
<1>13. PICK j \in 1..Len(c) : c[j] = z /\ Rising(RL, c, j)
  BY <1>1, <1>2, <1>3, <1>6, <1>11, <1>12, ChainReaches
<1>14. j = n
  <2> SUFFICES ASSUME j # n PROVE FALSE OBVIOUS
  <2>1. j \in 1..(Len(c) - 1) /\ j + 1 \in 1..Len(c) BY <1>10, <1>13
  <2>2. l[z].extra1 = c[j + 1] /\ c[j + 1] \in S BY <2>1, <1>7, <1>8, <1>13
  <2>3. l[z].extra1 = None BY <1>8, <1>9, <1>10, <1>11
  <2>4. None \notin S BY <1>2, <1>3 DEF Closed, LeafFile, IsFile
  <2> QED BY <2>2, <2>3, <2>4
<1>15. Rising(RL, c, Len(c)) BY <1>10, <1>13, <1>14
<1>16. \A i \in 1..Len(c) : RL[c[i]] \subseteq Int BY <1>4, <1>7
<1>17. ASSUME NEW k \in Int PROVE \E i \in 1..Len(c) : k \in RL[c[i]]
  <2>1. PICK x : x = search(d, k) OBVIOUS
  <2>2. x \in S /\ k \in RL[x] BY <2>1, <1>2, <1>4, RankedSearch
  <2>3. PICK i \in DOMAIN c : c[i] = x BY <2>2, <1>7 DEF ToSet
  <2> QED BY <2>2, <2>3, <1>7
<1> QED BY <1>1, <1>5, <1>7, <1>15, <1>16, <1>17 DEF Line

(* The ranges of the children of a page rise from slot to slot. *)
LEMMA SlotsRise ==
  ASSUME NEW page \in Pages, NEW own \in SUBSET Int, NEW sub, Fit(page, own, sub)
  PROVE  /\ \A s, t \in 0..Len(page.recs) :
              s < t => Under(sub[ChildAt(page, s)], sub[ChildAt(page, t)])
         /\ \A s \in 0..Len(page.recs) : sub[ChildAt(page, s)] \in SUBSET own
         /\ \A k \in own : \E s \in 0..Len(page.recs) : k \in sub[ChildAt(page, s)]
<1>1. page.recs \in Seq(Entry) BY DEF Pages, Entry
<1>2. \A s \in 0..Len(page.recs) :
        sub[ChildAt(page, s)] = {k \in own : findDirSlot(page.recs, k) = s}
  BY DEF Fit
<1>3. ASSUME NEW s \in 0..Len(page.recs), NEW t \in 0..Len(page.recs), s < t,
             NEW x \in sub[ChildAt(page, s)], NEW y \in sub[ChildAt(page, t)]
      PROVE  x < y
  <2>1. x \in Int /\ findDirSlot(page.recs, x) = s BY <1>2
  <2>2. y \in Int /\ findDirSlot(page.recs, y) = t BY <1>2
  <2>3. s \in Int /\ t \in Int /\ ~(t <= s) BY <1>3
  <2>4. y <= x => t <= s BY <2>1, <2>2, <1>1, SlotGrows
  <2> QED BY <2>1, <2>2, <2>3, <2>4
<1>4. \A s, t \in 0..Len(page.recs) :
        s < t => Under(sub[ChildAt(page, s)], sub[ChildAt(page, t)])
  BY <1>3 DEF Under
<1>5. ASSUME NEW k \in own PROVE \E s \in 0..Len(page.recs) : k \in sub[ChildAt(page, s)]
  <2>1. PICK s : s = findDirSlot(page.recs, k) OBVIOUS
  <2>2. s \in 0..Len(page.recs) BY <2>1, ChildFor
  <2>3. k \in sub[ChildAt(page, s)] BY <2>1, <2>2, <1>2
  <2> QED BY <2>2, <2>3
<1> QED BY <1>2, <1>4, <1>5

(* The children of a page from left to right *)
ChildrenOf(page) == <<page.extra2>> \o [i \in DOMAIN page.recs |-> page.recs[i].val]

LEMMA ChildrenOfAre ==
  ASSUME NEW page \in Pages
  PROVE  /\ Len(ChildrenOf(page)) = Len(page.recs) + 1
         /\ DOMAIN ChildrenOf(page) = 1..(Len(page.recs) + 1)
         /\ \A s \in 0..Len(page.recs) : ChildrenOf(page)[s + 1] = ChildAt(page, s)
         /\ \A D : (\A s \in 0..Len(page.recs) : ChildAt(page, s) \in D)
                      => ChildrenOf(page) \in Seq(D)
<1>1. PICK recs : recs = page.recs /\ recs \in Seq(Entry) BY DEF Pages, Entry
<1>2. PICK n \in Nat : n = Len(recs) /\ DOMAIN recs = 1..n BY <1>1
<1>3. PICK vals : vals = [i \in DOMAIN recs |-> recs[i].val] OBVIOUS
<1>4. PICK X : X = {recs[i].val : i \in 1..n} \union {page.extra2} OBVIOUS
<1>5. vals \in Seq(X) /\ Len(vals) = n BY <1>2, <1>3, <1>4
<1>6. PICK one : one = <<page.extra2>> OBVIOUS
<1>7. one \in Seq(X) /\ Len(one) = 1 /\ one[1] = page.extra2 BY <1>4, <1>6
<1>8. PICK all : all = one \o vals OBVIOUS
<1>9. /\ all \in Seq(X) /\ Len(all) = n + 1
      /\ \A i \in 1..(n + 1) : all[i] = IF i <= 1 THEN one[i] ELSE vals[i - 1]
  <2>1. /\ one \o vals \in Seq(X) /\ Len(one \o vals) = Len(one) + Len(vals)
        /\ \A i \in 1..(Len(one) + Len(vals)) :
             (one \o vals)[i] = IF i <= Len(one) THEN one[i] ELSE vals[i - Len(one)]
    <3>1. one \in Seq(X) /\ vals \in Seq(X) BY <1>5, <1>7
    <3> QED BY <3>1, ConcatProperties
  <2>2. Len(one) + Len(vals) = n + 1 BY <1>5, <1>7
  <2> QED BY <2>1, <2>2, <1>7, <1>8
<1>10. all[1] = page.extra2
  <2>1. 1 \in 1..(n + 1) BY <1>2
  <2> QED BY <2>1, <1>7, <1>9
<1>11. \A i \in 1..n : all[i + 1] = recs[i].val
  <2> SUFFICES ASSUME NEW i \in 1..n PROVE all[i + 1] = recs[i].val OBVIOUS
  <2>1. i + 1 \in 1..(n + 1) /\ ~(i + 1 <= 1) /\ i + 1 - 1 = i OBVIOUS
  <2> QED BY <2>1, <1>2, <1>3, <1>9
<1>12. all = ChildrenOf(page) BY <1>1, <1>3, <1>6, <1>8 DEF ChildrenOf
<1>13. ASSUME NEW s \in 0..n PROVE all[s + 1] = ChildAt(page, s)
  <2>1. CASE s = 0 BY <2>1, <1>10 DEF ChildAt
  <2>2. CASE s # 0
    <3>1. s \in 1..n BY <2>2
    <3> QED BY <3>1, <2>2, <1>1, <1>11 DEF ChildAt
  <2> QED BY <2>1, <2>2
<1>14. ASSUME NEW D, \A s \in 0..n : ChildAt(page, s) \in D PROVE all \in Seq(D)
  <2>1. ASSUME NEW i \in 1..(n + 1) PROVE all[i] \in D
    <3>1. PICK s \in 0..n : s + 1 = i
      <4>1. i - 1 \in 0..n /\ i - 1 + 1 = i OBVIOUS
      <4> QED BY <4>1
    <3> QED BY <3>1, <1>13, <1>14
  <2> QED BY <2>1, <1>9
<1> QED BY <1>1, <1>2, <1>9, <1>12, <1>13, <1>14

(* Two lines, the second to the right of the first, make one. *)
LEMMA LinesJoin ==
  ASSUME NEW R, NEW S, NEW own, NEW a, Line(R, S, own, a),
         NEW more, NEW b, Line(R, S, more, b), Under(own, more)
  PROVE  Line(R, S, own \union more, a \o b)
<1>1. PICK m \in Nat : m = Len(a) BY DEF Line
<1>2. PICK n \in Nat : n = Len(b) BY DEF Line
<1>3. PICK c : c = a \o b OBVIOUS
<1>4. c \in Seq(S) /\ Len(c) = m + n
      /\ \A i \in 1..(m + n) : c[i] = IF i <= m THEN a[i] ELSE b[i - m]
  <2>1. a \in Seq(S) /\ b \in Seq(S) BY DEF Line
  <2>2. /\ a \o b \in Seq(S) /\ Len(a \o b) = Len(a) + Len(b)
        /\ \A i \in 1..(Len(a) + Len(b)) :
             (a \o b)[i] = IF i <= Len(a) THEN a[i] ELSE b[i - Len(a)]
    BY <2>1, ConcatProperties
  <2> QED BY <2>2, <1>1, <1>2, <1>3
<1>5. ASSUME NEW i \in 1..m PROVE i \in 1..(m + n) /\ c[i] = a[i] BY <1>4
<1>6. ASSUME NEW j \in 1..n PROVE j + m \in 1..(m + n) /\ c[j + m] = b[j]
  <2>1. j + m \in 1..(m + n) /\ ~(j + m <= m) /\ j + m - m = j OBVIOUS
  <2> QED BY <2>1, <1>4
<1>7. ASSUME NEW i \in 1..(m + n)
      PROVE  \/ i \in 1..m /\ c[i] = a[i]
             \/ i - m \in 1..n /\ c[i] = b[i - m]
  <2>1. CASE i <= m
    <3>1. i \in 1..m BY <2>1
    <3> QED BY <3>1, <2>1, <1>4
  <2>2. CASE ~(i <= m)
    <3>1. i - m \in 1..n BY <2>2
    <3> QED BY <3>1, <2>2, <1>4
  <2> QED BY <2>1, <2>2
<1>8. /\ \A x, y \in 1..m : x < y => Under(R[a[x]], R[a[y]])
      /\ \A x \in 1..m : R[a[x]] \subseteq own
  BY <1>1 DEF Line, Rising
<1>9. /\ \A x, y \in 1..n : x < y => Under(R[b[x]], R[b[y]])
      /\ \A x \in 1..n : R[b[x]] \subseteq more
  BY <1>2 DEF Line, Rising
<1>10. ASSUME NEW x \in 1..(m + n), NEW y \in 1..(m + n), x < y
       PROVE  Under(R[c[x]], R[c[y]])
  <2>1. CASE x \in 1..m /\ c[x] = a[x] /\ y \in 1..m /\ c[y] = a[y]
    BY <2>1, <1>8, <1>10
  <2>2. CASE x \in 1..m /\ c[x] = a[x] /\ y - m \in 1..n /\ c[y] = b[y - m]
    <3>1. R[c[x]] \subseteq own /\ R[c[y]] \subseteq more BY <2>2, <1>8, <1>9
    <3> QED BY <3>1 DEF Under
  <2>3. CASE x - m \in 1..n /\ y \in 1..m
    <3>1. x > m /\ y <= m BY <2>3
    <3> QED BY <3>1, <1>10
  <2>4. CASE x - m \in 1..n /\ c[x] = b[x - m] /\ y - m \in 1..n /\ c[y] = b[y - m]
    <3>1. x - m < y - m BY <1>10
    <3> QED BY <3>1, <2>4, <1>9
  <2> QED BY <2>1, <2>2, <2>3, <2>4, <1>7
<1>11. Rising(R, c, Len(c)) BY <1>4, <1>10 DEF Rising
<1>12. ASSUME NEW i \in 1..(m + n) PROVE R[c[i]] \subseteq own \union more
  <2>1. CASE i \in 1..m /\ c[i] = a[i] BY <2>1, <1>8
  <2>2. CASE i - m \in 1..n /\ c[i] = b[i - m] BY <2>2, <1>9
  <2> QED BY <2>1, <2>2, <1>7
<1>13. ASSUME NEW k \in own PROVE \E i \in 1..(m + n) : k \in R[c[i]]
  <2>1. PICK i \in 1..m : k \in R[a[i]] BY <1>1 DEF Line
  <2> QED BY <2>1, <1>5
<1>14. ASSUME NEW k \in more PROVE \E i \in 1..(m + n) : k \in R[c[i]]
  <2>1. PICK j \in 1..n : k \in R[b[j]] BY <1>2 DEF Line
  <2> QED BY <2>1, <1>6
<1>15. Line(R, S, own \union more, c) BY <1>4, <1>11, <1>12, <1>13, <1>14 DEF Line
<1> QED BY <1>3, <1>15

(* What FlattenSeq has put together when it comes to place i *)
FlatStep(seqs, f, i) == IF i = 1 THEN seqs[i] ELSE f[i - 1] \o seqs[i]

LEMMA FlattenUnfolds ==
  ASSUME NEW seqs, NEW n \in Nat, n >= 1, Len(seqs) = n
  PROVE  \E f : FlattenSeq(seqs) = f[n] /\ \A i \in 1..n : f[i] = FlatStep(seqs, f, i)
<1> DEFINE Loop(f) == f = [i \in 1..n |-> FlatStep(seqs, f, i)]
           Until(f, m) == \A i \in 1..n : i <= m => f[i] = FlatStep(seqs, f, i)
           Reached(m) == \E f : Until(f, m)
<1>1. FlattenSeq(seqs) = (CHOOSE f : Loop(f))[n] BY DEF FlattenSeq, FlatStep
<1>2. ASSUME NEW f, NEW g, NEW i \in 1..n, \A j \in 1..n : j < i => f[j] = g[j]
      PROVE  FlatStep(seqs, f, i) = FlatStep(seqs, g, i)
  <2>1. CASE i = 1 BY <2>1 DEF FlatStep
  <2>2. CASE i # 1
    <3>1. i - 1 \in 1..n /\ i - 1 < i BY <2>2
    <3>2. f[i - 1] = g[i - 1] BY <3>1, <1>2
    <3> QED BY <3>2 DEF FlatStep
  <2> QED BY <2>1, <2>2
<1>3. ASSUME NEW m \in Nat PROVE Reached(m)
  <2> DEFINE Bad == {k \in Nat : ~Reached(k)}
  <2> SUFFICES ASSUME Bad # {} PROVE FALSE OBVIOUS
  <2>1. PICK k : k \in Bad /\ \A i \in Bad : k <= i
    <3>1. Bad \subseteq Nat OBVIOUS
    <3> HIDE DEF Bad
    <3> QED BY <3>1, LeastExists
  <2>2. k \in Nat /\ ~Reached(k) BY <2>1
  <2>3. CASE k = 0
    <3>1. \A i \in 1..n : ~(i <= 0) OBVIOUS
    <3> QED BY <3>1, <2>2, <2>3
  <2>4. CASE k # 0
    <3>1. PICK p \in Nat : p = k - 1 /\ p < k
      <4>1. k - 1 \in Nat /\ k - 1 < k BY <2>2, <2>4
      <4> QED BY <4>1
    <3>2. PICK f : Until(f, p)
      <4>1. p \notin Bad
        <5>1. p \in Bad => k <= p
          <6> HIDE DEF Bad
          <6> QED BY <2>1
        <5>2. ~(k <= p) BY <2>2, <3>1
        <5> QED BY <5>1, <5>2
      <4>2. Reached(p) BY <4>1
      <4> HIDE DEF Until
      <4> QED BY <4>2
    <3>3. PICK g : g = [i \in 1..n |-> IF i = k THEN FlatStep(seqs, f, i) ELSE f[i]]
      OBVIOUS
    <3>4. ASSUME NEW i \in 1..n, i <= k PROVE g[i] = FlatStep(seqs, g, i)
      <4>1. g[i] = FlatStep(seqs, f, i)
        <5>1. CASE i = k BY <5>1, <3>3
        <5>2. CASE i # k
          <6>1. i <= p BY <5>2, <3>1, <3>4, <2>2
          <6> QED BY <6>1, <5>2, <3>2, <3>3
        <5> QED BY <5>1, <5>2
      <4>2. \A j \in 1..n : j < i => f[j] = g[j]
        <5> SUFFICES ASSUME NEW j \in 1..n, j < i PROVE f[j] = g[j] OBVIOUS
        <5>1. j # k BY <3>4, <2>2
        <5> QED BY <5>1, <3>3
      <4> QED BY <4>1, <4>2, <1>2
    <3> QED BY <3>4, <2>2
  <2> QED BY <2>3, <2>4
<1>4. \E g : Loop(g)
  <2>1. PICK f : Until(f, n)
    <3>1. Reached(n) BY <1>3
    <3> HIDE DEF Until
    <3> QED BY <3>1
  <2>2. \A i \in 1..n : f[i] = FlatStep(seqs, f, i) BY <2>1
  <2>3. PICK g : g = [i \in 1..n |-> f[i]] OBVIOUS
  <2>4. ASSUME NEW i \in 1..n PROVE f[i] = FlatStep(seqs, g, i)
    <3>1. FlatStep(seqs, f, i) = FlatStep(seqs, g, i) BY <2>3, <1>2
    <3> QED BY <3>1, <2>2
  <2>5. Loop(g) BY <2>3, <2>4
  <2> HIDE DEF Loop
  <2> QED BY <2>5
<1>5. PICK f : f = (CHOOSE g : Loop(g)) /\ Loop(f) BY <1>4
<1>6. \A i \in 1..n : f[i] = FlatStep(seqs, f, i) BY <1>5
<1>7. FlattenSeq(seqs) = f[n]
  <2> HIDE DEF Loop
  <2> QED BY <1>1, <1>5
<1> QED BY <1>6, <1>7

(* Lines that follow each other, with the keys that each has *)
Follow(R, S, n, owns, seqs) ==
  /\ \A i \in 1..n : Line(R, S, owns[i], seqs[i])
  /\ \A i, j \in 1..n : i < j => Under(owns[i], owns[j])

Together(n, owns) == UNION {owns[i] : i \in 1..n}

LEMMA LinesFlatten ==
  ASSUME NEW R, NEW S, NEW n \in Nat, n >= 1, NEW owns, NEW seqs, Len(seqs) = n,
         Follow(R, S, n, owns, seqs)
  PROVE  Line(R, S, Together(n, owns), FlattenSeq(seqs))
<1>1. PICK f : FlattenSeq(seqs) = f[n] /\ \A i \in 1..n : f[i] = FlatStep(seqs, f, i)
  BY FlattenUnfolds
<1> DEFINE Upto(m) == UNION {owns[i] : i \in 1..m}
           Good(m) == Line(R, S, Upto(m), f[m])
<1>2. Good(1)
  <2>1. 1 \in 1..n OBVIOUS
  <2>2. f[1] = seqs[1] BY <2>1, <1>1 DEF FlatStep
  <2>3. Upto(1) = owns[1]
    <3>1. \A i : i \in 1..1 <=> i = 1 OBVIOUS
    <3> QED BY <3>1
  <2>4. Line(R, S, owns[1], seqs[1]) BY <2>1 DEF Follow
  <2> QED BY <2>2, <2>3, <2>4
<1>3. ASSUME NEW m \in 1..n, m + 1 \in 1..n, Good(m) PROVE Good(m + 1)
  <2>1. PICK k \in 1..n : k = m + 1 /\ k # 1 /\ k - 1 = m BY <1>3
  <2>2. f[k] = f[m] \o seqs[k] BY <2>1, <1>1 DEF FlatStep
  <2>3. Upto(k) = Upto(m) \union owns[k]
    <3>1. \A i : i \in 1..k <=> i \in 1..m \/ i = k BY <2>1
    <3> QED BY <3>1
  <2>4. Under(Upto(m), owns[k])
    <3>1. ASSUME NEW i \in 1..m PROVE Under(owns[i], owns[k])
      <4>1. i \in 1..n /\ i < k BY <2>1
      <4> QED BY <4>1 DEF Follow
    <3> QED BY <3>1 DEF Under
  <2>5. Line(R, S, owns[k], seqs[k]) BY DEF Follow
  <2>6. Line(R, S, Upto(m), f[m]) BY <1>3
  <2> HIDE DEF Upto
  <2>7. Line(R, S, Upto(m) \union owns[k], f[m] \o seqs[k])
    BY <2>4, <2>5, <2>6, LinesJoin
  <2> QED BY <2>1, <2>2, <2>3, <2>7
<1> HIDE DEF Good
<1>4. PICK Bad : Bad = {m \in 1..n : ~Good(m)} OBVIOUS
<1>5. Bad = {}
  <2> SUFFICES ASSUME Bad # {} PROVE FALSE OBVIOUS
  <2>1. Bad \subseteq Nat BY <1>4
  <2>2. PICK k : k \in Bad /\ \A i \in Bad : k <= i BY <2>1, LeastExists
  <2>3. k \in 1..n /\ ~Good(k) BY <2>2, <1>4
  <2>4. k # 1 BY <2>3, <1>2
  <2>5. PICK m \in 1..n : m + 1 = k /\ m < k
    <3>1. k - 1 \in 1..n /\ k - 1 + 1 = k /\ k - 1 < k BY <2>3, <2>4
    <3> QED BY <3>1
  <2>6. m \notin Bad
    <3>1. m \in Bad => k <= m BY <2>2
    <3> QED BY <3>1, <2>3, <2>5
  <2>7. Good(m) BY <2>6, <1>4
  <2> QED BY <2>3, <2>5, <2>7, <1>3
<1>6. n \in 1..n OBVIOUS
<1>7. Good(n) BY <1>4, <1>5, <1>6
<1> QED BY <1>1, <1>7 DEF Good, Together

(* The leaves below a page, from left to right, as the property puts them    *)
(* together: f gives those of the pages one level below.                     *)
LeavesStep(d, f, b) ==
  IF d[b].extra1 = 0 THEN ChildrenOf(d[b])
  ELSE FlattenSeq([i \in DOMAIN ChildrenOf(d[b]) |-> f[ChildrenOf(d[b])[i]]])

LEMMA LeavesStepSame ==
  ASSUME NEW d, NEW leaves, Directory(d, leaves), NEW b \in DOMAIN d, NEW f, NEW g,
         \A y \in DOMAIN d : d[y].extra1 = d[b].extra1 - 1 => f[y] = g[y]
  PROVE  LeavesStep(d, f, b) = LeavesStep(d, g, b)
<1>1. CASE d[b].extra1 = 0 BY <1>1 DEF LeavesStep
<1>2. CASE d[b].extra1 # 0
  <2>1. PICK n \in Nat : n = Len(d[b].recs) BY DirPageIs
  <2>2. PICK c : c = ChildrenOf(d[b]) OBVIOUS
  <2>3. DOMAIN c = 1..(n + 1) /\ \A s \in 0..n : c[s + 1] = ChildAt(d[b], s)
    <3>1. d[b] \in Pages BY DirPageIs
    <3> QED BY <3>1, <2>1, <2>2, ChildrenOfAre
  <2>4. ASSUME NEW i \in DOMAIN c PROVE f[c[i]] = g[c[i]]
    <3>1. PICK s \in 0..n : s + 1 = i
      <4>1. i \in 1..(n + 1) BY <2>3
      <4>2. i - 1 \in 0..n /\ i - 1 + 1 = i BY <4>1
      <4> QED BY <4>2
    <3>2. IsChild(d, leaves, d[b].extra1, c[i]) BY <3>1, <2>1, <2>3, ChildLevel
    <3> QED BY <3>2, <1>2 DEF IsChild
  <2>5. [i \in DOMAIN c |-> f[c[i]]] = [i \in DOMAIN c |-> g[c[i]]] BY <2>4
  <2> QED BY <2>2, <2>5, <1>2 DEF LeavesStep
<1> QED BY <1>1, <1>2

(* The function of the property, which each step of its recursion agrees with *)
IsLeaves(d, f) == f = [b \in DOMAIN d |-> LeavesStep(d, f, b)]

LEMMA LeavesUnfold ==
  ASSUME NEW d, NEW leaves, Directory(d, leaves), Root \in DOMAIN d
  PROVE  \A b \in DOMAIN d :
           (CHOOSE f : IsLeaves(d, f))[b] = LeavesStep(d, CHOOSE f : IsLeaves(d, f), b)
<1> DEFINE Until(f, n) == \A b \in DOMAIN d : d[b].extra1 < n => f[b] = LeavesStep(d, f, b)
           Reached(n) == \E f : Until(f, n)
<1>1. ASSUME NEW b \in DOMAIN d
      PROVE  d[b].extra1 \in Nat /\ d[b].extra1 <= d[Root].extra1
  BY DirPageIs
<1>2. ASSUME NEW n \in Nat PROVE Reached(n)
  <2> DEFINE Bad == {k \in Nat : ~Reached(k)}
  <2> SUFFICES ASSUME Bad # {} PROVE FALSE OBVIOUS
  <2>1. PICK k : k \in Bad /\ \A i \in Bad : k <= i
    <3>1. Bad \subseteq Nat OBVIOUS
    <3> HIDE DEF Bad
    <3> QED BY <3>1, LeastExists
  <2>2. k \in Nat /\ ~Reached(k) BY <2>1
  <2>3. CASE k = 0
    <3>1. \A b \in DOMAIN d : ~(d[b].extra1 < 0) BY <1>1
    <3> QED BY <3>1, <2>2, <2>3
  <2>4. CASE k # 0
    <3>1. PICK p \in Nat : p < k /\ \A e \in Nat : e < k => e - 1 # p /\ (e # p => e < p)
      <4>0. k \in Nat BY <2>1
      <4>1. /\ k - 1 \in Nat /\ k - 1 < k
            /\ \A e \in Nat : e < k /\ e # k - 1 => e < k - 1
            /\ \A e \in Nat : e < k => e - 1 # k - 1
        BY <4>0, <2>4
      <4> QED BY <4>1
    <3>2. PICK f : Until(f, p)
      <4>1. p \notin Bad
        <5>1. p \in Bad => k <= p
          <6> HIDE DEF Bad
          <6> QED BY <2>1
        <5>2. ~(k <= p)
          <6>1. k \in Nat BY <2>1
          <6> QED BY <6>1, <3>1
        <5> QED BY <5>1, <5>2
      <4>2. Reached(p) BY <4>1
      <4> HIDE DEF Until
      <4> QED BY <4>2
    <3>3. PICK g : g = [b \in DOMAIN d |-> IF d[b].extra1 = p THEN LeavesStep(d, f, b) ELSE f[b]]
      OBVIOUS
    <3>4. ASSUME NEW b \in DOMAIN d, d[b].extra1 < k PROVE g[b] = LeavesStep(d, g, b)
      <4>1. PICK e \in Nat : e = d[b].extra1 /\ e < k BY <1>1, <3>4
      <4>2. g[b] = LeavesStep(d, f, b)
        <5>1. CASE e = p BY <5>1, <4>1, <3>3
        <5>2. CASE e # p
          <6>1. e < p BY <5>2, <4>1, <3>1
          <6> QED BY <6>1, <5>2, <4>1, <3>2, <3>3
        <5> QED BY <5>1, <5>2
      <4>3. ASSUME NEW y \in DOMAIN d, d[y].extra1 = d[b].extra1 - 1 PROVE f[y] = g[y]
        <5>1. d[y].extra1 # p BY <4>1, <4>3, <3>1
        <5> QED BY <5>1, <3>3
      <4>4. LeavesStep(d, f, b) = LeavesStep(d, g, b) BY <4>3, LeavesStepSame
      <4> QED BY <4>2, <4>4
    <3> QED BY <3>4, <2>2
  <2> QED BY <2>3, <2>4
<1>3. \E g : IsLeaves(d, g)
  <2>1. PICK top \in Nat : top = d[Root].extra1 BY <1>1
  <2>2. PICK f : Until(f, top + 1)
    <3>1. Reached(top + 1) BY <1>2
    <3> HIDE DEF Until
    <3> QED BY <3>1
  <2>3. ASSUME NEW b \in DOMAIN d PROVE f[b] = LeavesStep(d, f, b)
    <3>1. d[b].extra1 < top + 1 BY <1>1, <2>1
    <3> QED BY <3>1, <2>2
  <2>4. PICK g : g = [b \in DOMAIN d |-> f[b]] OBVIOUS
  <2>5. ASSUME NEW b \in DOMAIN d PROVE f[b] = LeavesStep(d, g, b)
    <3>1. LeavesStep(d, f, b) = LeavesStep(d, g, b) BY <2>4, LeavesStepSame
    <3> QED BY <3>1, <2>3
  <2>6. IsLeaves(d, g) BY <2>4, <2>5 DEF IsLeaves
  <2> QED BY <2>6
<1>4. PICK f : f = (CHOOSE g : IsLeaves(d, g)) /\ IsLeaves(d, f) BY <1>3
<1>5. \A b \in DOMAIN d : f[b] = LeavesStep(d, f, b) BY <1>4 DEF IsLeaves
<1> QED BY <1>4, <1>5

(* The leaves below a page are a line of the keys that lead to the page. *)
LEMMA LowestLine ==
  ASSUME NEW page \in Pages, NEW own \in SUBSET Int, NEW R, Fit(page, own, R), NEW S,
         \A s \in 0..Len(page.recs) : ChildAt(page, s) \in S
  PROVE  Line(R, S, own, ChildrenOf(page))
<1>1. PICK n \in Nat : n = Len(page.recs) BY DEF Pages, Entry
<1>2. PICK c : c = ChildrenOf(page) OBVIOUS
<1>3. /\ Len(c) = n + 1 /\ c \in Seq(S)
      /\ \A s \in 0..n : c[s + 1] = ChildAt(page, s)
  BY <1>1, <1>2, ChildrenOfAre
<1>4. /\ \A s, t \in 0..n : s < t => Under(R[ChildAt(page, s)], R[ChildAt(page, t)])
      /\ \A s \in 0..n : R[ChildAt(page, s)] \in SUBSET own
      /\ \A k \in own : \E s \in 0..n : k \in R[ChildAt(page, s)]
  BY <1>1, SlotsRise
<1>5. ASSUME NEW i \in 1..(n + 1) PROVE i - 1 \in 0..n /\ c[i] = ChildAt(page, i - 1)
  <2>1. i - 1 \in 0..n /\ i - 1 + 1 = i OBVIOUS
  <2> QED BY <2>1, <1>3
<1>6. ASSUME NEW x \in 1..(n + 1), NEW y \in 1..(n + 1), x < y PROVE Under(R[c[x]], R[c[y]])
  <2>1. x - 1 < y - 1 BY <1>6
  <2> QED BY <2>1, <1>4, <1>5
<1>7. Rising(R, c, Len(c)) BY <1>3, <1>6 DEF Rising
<1>8. \A i \in 1..(n + 1) : R[c[i]] \subseteq own BY <1>4, <1>5
<1>9. ASSUME NEW k \in own PROVE \E i \in 1..(n + 1) : k \in R[c[i]]
  <2>1. PICK s \in 0..n : k \in R[ChildAt(page, s)] BY <1>4
  <2>2. s + 1 \in 1..(n + 1) BY <2>1
  <2> QED BY <2>1, <2>2, <1>3
<1>10. Line(R, S, own, c) BY <1>3, <1>7, <1>8, <1>9 DEF Line
<1> QED BY <1>2, <1>10

LEMMA UpperLine ==
  ASSUME NEW page \in Pages, NEW own \in SUBSET Int, NEW RD, Fit(page, own, RD),
         NEW R, NEW S, NEW f,
         \A s \in 0..Len(page.recs) :
           Line(R, S, RD[ChildAt(page, s)], f[ChildAt(page, s)])
  PROVE  Line(R, S, own, FlattenSeq([i \in DOMAIN ChildrenOf(page) |-> f[ChildrenOf(page)[i]]]))
<1>1. PICK n \in Nat : n = Len(page.recs) BY DEF Pages, Entry
<1>2. PICK c : c = ChildrenOf(page) OBVIOUS
<1>3. DOMAIN c = 1..(n + 1) /\ \A s \in 0..n : c[s + 1] = ChildAt(page, s)
  BY <1>1, <1>2, ChildrenOfAre
<1>4. /\ \A s, t \in 0..n : s < t => Under(RD[ChildAt(page, s)], RD[ChildAt(page, t)])
      /\ \A s \in 0..n : RD[ChildAt(page, s)] \in SUBSET own
      /\ \A k \in own : \E s \in 0..n : k \in RD[ChildAt(page, s)]
  BY <1>1, SlotsRise
<1>5. ASSUME NEW i \in 1..(n + 1) PROVE i - 1 \in 0..n /\ c[i] = ChildAt(page, i - 1)
  <2>1. i - 1 \in 0..n /\ i - 1 + 1 = i OBVIOUS
  <2> QED BY <2>1, <1>3
<1>6. PICK N \in Nat : N = n + 1 /\ N >= 1
  <2>1. n + 1 \in Nat /\ n + 1 >= 1 OBVIOUS
  <2> QED BY <2>1
<1>7. PICK owns : owns = [i \in 1..N |-> RD[c[i]]] OBVIOUS
<1>8. PICK seqs : seqs = [i \in DOMAIN c |-> f[c[i]]] OBVIOUS
<1>9. seqs = [i \in 1..N |-> f[c[i]]] BY <1>3, <1>6, <1>8
<1>10. \A i \in 1..N : Line(R, S, owns[i], seqs[i])
  <2> SUFFICES ASSUME NEW i \in 1..N PROVE Line(R, S, owns[i], seqs[i]) OBVIOUS
  <2>1. owns[i] = RD[c[i]] /\ seqs[i] = f[c[i]] BY <1>7, <1>9
  <2>2. PICK s \in 0..n : c[i] = ChildAt(page, s) BY <1>5, <1>6
  <2>3. Line(R, S, RD[ChildAt(page, s)], f[ChildAt(page, s)]) BY <1>1
  <2> QED BY <2>1, <2>2, <2>3
<1>11. \A i, j \in 1..N : i < j => Under(owns[i], owns[j])
  <2> SUFFICES ASSUME NEW i \in 1..N, NEW j \in 1..N, i < j PROVE Under(owns[i], owns[j])
    OBVIOUS
  <2>1. i - 1 < j - 1 BY <1>6
  <2>2. Under(RD[c[i]], RD[c[j]]) BY <2>1, <1>4, <1>5, <1>6
  <2> QED BY <2>2, <1>7
<1>12. Follow(R, S, N, owns, seqs) BY <1>10, <1>11 DEF Follow
<1>13. Len(seqs) = N
  <2>1. \A i \in 1..N : seqs[i] \in Seq(S) BY <1>10 DEF Line
  <2>2. seqs \in Seq(Seq(S)) BY <2>1, <1>9
  <2> QED BY <2>2, <1>9
<1>14. Together(N, owns) = own
  <2>1. \A i \in 1..N : owns[i] \in SUBSET own BY <1>4, <1>5, <1>6, <1>7
  <2>2. ASSUME NEW k \in own PROVE \E i \in 1..N : k \in owns[i]
    <3>1. PICK s \in 0..n : k \in RD[ChildAt(page, s)] BY <1>4
    <3>2. PICK i \in 1..N : i = s + 1 BY <1>6
    <3>3. c[i] = ChildAt(page, s) BY <3>2, <1>3
    <3>4. owns[i] = RD[ChildAt(page, s)] BY <3>3, <1>7
    <3> QED BY <3>1, <3>4
  <2> QED BY <2>1, <2>2 DEF Together
<1>15. Line(R, S, Together(N, owns), FlattenSeq(seqs))
  BY <1>6, <1>12, <1>13, LinesFlatten
<1> QED BY <1>2, <1>8, <1>14, <1>15

(* From the levels of the directory up, to the root *)
LEMMA LeavesAreLine ==
  ASSUME NEW d, NEW S, Directory(d, S), Root \in DOMAIN d, NEW RD, NEW RL, DOMAIN RL = S,
         Ranked(d, RD, RL)
  PROVE  Line(RL, S, Int, (CHOOSE f : IsLeaves(d, f))[Root])
<1>1. PICK f : f = CHOOSE g : IsLeaves(d, g) OBVIOUS
<1>2. \A b \in DOMAIN d : f[b] = LeavesStep(d, f, b) BY <1>1, LeavesUnfold
<1>3. RD \in [DOMAIN d -> SUBSET Int] /\ RD[Root] = Int BY DEF Ranked, Shares
<1> DEFINE Bad == {m \in Nat : \E b \in DOMAIN d :
                     d[b].extra1 = m /\ RD[b] # {} /\ ~Line(RL, S, RD[b], f[b])}
<1>4. Bad = {}
  <2> SUFFICES ASSUME Bad # {} PROVE FALSE OBVIOUS
  <2>1. PICK m : m \in Bad /\ \A i \in Bad : m <= i
    <3>1. Bad \subseteq Nat OBVIOUS
    <3> HIDE DEF Bad
    <3> QED BY <3>1, LeastExists
  <2>2. PICK b \in DOMAIN d : d[b].extra1 = m /\ RD[b] # {} /\ ~Line(RL, S, RD[b], f[b])
    BY <2>1
  <2>3. m \in Nat BY <2>1
  <2>4. /\ d[b] \in Pages /\ RD[b] \in SUBSET Int
        /\ Fit(d[b], RD[b], Sub(d[b], RD, RL))
    <3>1. d[b] \in Pages BY DirPageIs
    <3>2. Fit(d[b], RD[b], Sub(d[b], RD, RL)) BY <2>2 DEF Ranked
    <3> QED BY <3>1, <3>2, <1>3
  <2>5. f[b] = LeavesStep(d, f, b) BY <1>2
  <2>6. \A s \in 0..Len(d[b].recs) : IsChild(d, S, m, ChildAt(d[b], s))
    BY <2>2, ChildLevel
  <2>7. CASE m = 0
    <3>1. \A s \in 0..Len(d[b].recs) : ChildAt(d[b], s) \in S BY <2>6, <2>7 DEF IsChild
    <3>2. Fit(d[b], RD[b], RL) BY <2>2, <2>4, <2>7 DEF Sub
    <3>3. Line(RL, S, RD[b], ChildrenOf(d[b])) BY <3>1, <3>2, <2>4, LowestLine
    <3> QED BY <3>3, <2>2, <2>5, <2>7 DEF LeavesStep
  <2>8. CASE m # 0
    <3>1. Fit(d[b], RD[b], RD) BY <2>2, <2>4, <2>8 DEF Sub
    <3>2. ASSUME NEW s \in 0..Len(d[b].recs)
          PROVE  Line(RL, S, RD[ChildAt(d[b], s)], f[ChildAt(d[b], s)])
      <4>1. PICK y : y = ChildAt(d[b], s) OBVIOUS
      <4>2. y \in DOMAIN d /\ d[y].extra1 = m - 1 BY <4>1, <2>6, <2>8 DEF IsChild
      <4>3. RD[y] # {} BY <4>1, <3>1 DEF Fit
      <4>4. m - 1 \in Nat /\ ~(m <= m - 1) BY <2>3, <2>8
      <4>5. m - 1 \notin Bad
        <5> HIDE DEF Bad
        <5>1. m - 1 \in Bad => m <= m - 1 BY <2>1
        <5> QED BY <5>1, <4>4
      <4>6. Line(RL, S, RD[y], f[y]) BY <4>2, <4>3, <4>4, <4>5
      <4> QED BY <4>1, <4>6
    <3>3. Line(RL, S, RD[b],
               FlattenSeq([i \in DOMAIN ChildrenOf(d[b]) |-> f[ChildrenOf(d[b])[i]]]))
      BY <3>1, <3>2, <2>4, UpperLine
    <3> QED BY <3>3, <2>2, <2>5, <2>8 DEF LeavesStep
  <2> QED BY <2>7, <2>8
<1>5. d[Root].extra1 \in Nat BY DirPageIs
<1>6. Line(RL, S, RD[Root], f[Root]) BY <1>3, <1>4, <1>5
<1> QED BY <1>1, <1>3, <1>6

-----------------------------------------------------------------------------
(* As long as no split has put equal keys into two leaves, and while no      *)
(* Insert of the transaction has failed, the pages of the directory point     *)
(* from left to right to the leaves that the sibling links connect, in the    *)
(* same order and to each once, so that a search by the one and a scan by the *)
(* other see the same leaves (btreeDir.dirEntry, makeNewRoot,                *)
(* btreeLeaf.leafSplit, btreePage.split).                                    *)
THEOREM DirectoryKeepsStep == Spec => []DirectoryMatchesChain
<1>1. TreeInv /\ KeysKept => DirectoryMatchesChain
  <2> SUFFICES ASSUME TreeInv, OrderInv, open, ~failed, ~creationUndone
               PROVE  Chain(leaf, 0) = (CHOOSE f : IsLeaves(dir, f))[Root]
    BY DEF DirectoryMatchesChain, IsLeaves, LeavesStep, ChildrenOf, KeysKept
  <2>1. DOMAIN leaf # {} BY DEF TreeInv, TypeInv
  <2>2. Tree(leaf, dir) /\ NoCircle(leaf) BY <2>1 DEF TreeInv, Stored
  <2>3. PICK S : S = LeafBlocks(leaf) OBVIOUS
  <2>4. PICK RL : Usable(leaf, dir, RL) /\ \E RD : Ranked(dir, RD, RL)
    BY <2>1 DEF OrderInv, Standing
  <2>5. PICK RD : Ranked(dir, RD, RL) BY <2>4
  <2>6. Ordered(leaf, S, RL) /\ DOMAIN RL = S BY <2>3, <2>4 DEF Usable, Ordered
  <2>7. Directory(dir, S) /\ Root \in DOMAIN dir /\ Chained(leaf, S)
    BY <2>2, <2>3, TreeIs DEF Tree
  <2>8. Line(RL, S, Int, Chain(leaf, 0)) BY <2>2, <2>3, <2>5, <2>6, ChainIsLine
  <2>9. Line(RL, S, Int, (CHOOSE f : IsLeaves(dir, f))[Root])
    BY <2>5, <2>6, <2>7, LeavesAreLine
  <2>10. Separate(RL, S) BY <2>6, <2>7, OrderedSeparate
  <2> QED BY <2>8, <2>9, <2>10, LineOnce
<1> QED BY <1>1, OrderInvariant, PTL
=============================================================================
