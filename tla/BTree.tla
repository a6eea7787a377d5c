------------------------------- MODULE BTree --------------------------------
(***************************************************************************)
(* The B+ tree index (package index/btree): leaf pages linked by their      *)
(* sibling blocks, directory pages above them, search, Insert with splits   *)
(* at every level, Delete, and the cursor of BeforeFirst and Next.          *)
(*                                                                         *)
(* One transaction has the index open at a time (an Insert locks the pages  *)
(* it changes until the end of the transaction), and may commit or roll     *)
(* back.  A rollback restores the values of the pages but does not shorten  *)
(* the files: a block appended meanwhile stays, all zeros.  An Insert may   *)
(* fail where it asks for a lock or a buffer, in a page just split or        *)
(* between the levels, and so may the creation of the index; then the        *)
(* transaction rolls back (cmd/godb/main.go).                              *)
(*                                                                         *)
(* Abstracted: keys are integers (compareVals orders every type);           *)
(* identifiers are model values; a page is the sequence of its records with *)
(* the two further words of its header; pins are given back in every path   *)
(* and are left out.                                                       *)
(***************************************************************************)
EXTENDS Integers, SequencesExt

CONSTANTS Rids, KeyOf,     \* the records to index, and the key of each
          ScanKeys,        \* the keys that cursors are opened for
          Preloads,        \* sequences of records that an index may begin with
          LeafCapacity, DirCapacity,  \* records that fit into a page
          MaxChanges, MaxTxs   \* bounds

Root == 0
None == -1      \* no sibling; no slot

ASSUME BTreeAssumption ==
  /\ IsFiniteSet(Rids) /\ None \notin Rids
  /\ KeyOf \in [Rids -> Int] /\ ScanKeys \subseteq Int
  /\ Preloads \subseteq Seq(Rids)
  /\ LeafCapacity \in Nat \ {0, 1} /\ DirCapacity \in Nat \ {0, 1}
  /\ MaxChanges \in Nat /\ MaxTxs \in Nat

VARIABLES
  leaf, dir,      \* the pages of the two files, from block 0 on
  open,           \* has the transaction called NewIndex?
  changes, txs,   \* how many Inserts and Deletes, and transactions, there were
  undo,           \* both files as they were when it began
  failed,         \* has an Insert returned an error to it?
  cursor,         \* Index.leaf with its search key, see BeforeFirst
  creationUndone, \* the transaction that made the files has rolled back
  parted          \* equal keys have come to lie in two leaves

files == <<leaf, dir>>
vars == <<files, open, changes, txs, undo, failed, cursor, creationUndone, parted>>

Keys == {KeyOf[r] : r \in Rids} \union ScanKeys

NoSplit == [key |-> None, val |-> None]
NoCursor == [block |-> None]

-----------------------------------------------------------------------------
(* Pages *)

Formatted == [recs |-> <<>>, extra1 |-> None, extra2 |-> None]
ZeroPage == [recs |-> <<>>, extra1 |-> 0, extra2 |-> 0]

Size(file) == Cardinality(DOMAIN file)

(* One block more *)
Extended(file, page) ==
  [b \in DOMAIN file \union {Size(file)} |-> IF b \in DOMAIN file THEN file[b] ELSE page]

(* Mutant: room for one record too many. *)
isFull_OffByOne(page, capacity) == Len(page.recs) > capacity

isFull(page, capacity) == Len(page.recs) + 1 > capacity

compareVals(a, b) == IF a < b THEN -1 ELSE IF a > b THEN 1 ELSE 0

(* The slot of the first record that passes the test, less one; the number  *)
(* of records if none does                                                  *)
findLeafSlot(recs, key) ==
  LET slots == {s \in DOMAIN recs : compareVals(recs[s].key, key) >= 0}
  IN Min(slots \union {Len(recs) + 1}) - 1

findDirSlot(recs, key) ==
  LET slots == {s \in DOMAIN recs : compareVals(recs[s].key, key) > 0}
  IN Min(slots \union {Len(recs) + 1}) - 1

(* Mutant: the new page is the last of the chain.                           *)
split_NoSibling(file, b, splitPos, sibling) ==
  LET recs == file[b].recs
  IN Extended([file EXCEPT ![b].recs = SubSeq(recs, 1, splitPos)],
              [Formatted EXCEPT !.recs = SubSeq(recs, splitPos + 1, Len(recs))])

(* The records from splitPos on move to a block that is appended *)
split(file, b, splitPos, sibling) ==
  LET recs == file[b].recs
      page == [recs |-> SubSeq(recs, splitPos + 1, Len(recs)),
               extra1 |-> sibling, extra2 |-> None]
  IN Extended([file EXCEPT ![b].recs = SubSeq(recs, 1, splitPos)], page)

(* Mutants: the records after the slot are not shifted, and the new one     *)
(* comes last; or it replaces the first of them.                            *)
doInsert_AtEnd(file, b, slot, rec) == [file EXCEPT ![b].recs = Append(@, rec)]

doInsert_Overwrites(file, b, slot, rec) ==
  [file EXCEPT ![b].recs = SubSeq(@, 1, slot) \o <<rec>> \o SubSeq(@, slot + 2, Len(@))]

doInsert(file, b, slot, rec) ==
  [file EXCEPT ![b].recs = InsertAt(@, slot + 1, rec)]

-----------------------------------------------------------------------------
(* Leaves *)

(* Block b has given its upper half to a new block, its next sibling *)
LeafHalves(file, b) ==
  [split(file, b, Len(file[b].recs) \div 2, file[b].extra1) EXCEPT ![b].extra1 = Size(file)]

(* The file with the record in it and, when block b was full, the first     *)
(* key and the number of the block that has taken its upper half            *)
LeafInsert(file, b, rec) ==
  LET page == file[b]
      slot == findLeafSlot(page.recs, rec.key)
      new == Size(file)
      halves == LeafHalves(file, b)
      splitKey == halves[new].recs[1].key
  IN IF ~isFull(page, LeafCapacity)
     THEN [file |-> doInsert(file, b, slot, rec), split |-> NoSplit]
     ELSE [file |-> IF compareVals(rec.key, splitKey) < 0
                    THEN doInsert(halves, b, slot, rec)
                    ELSE doInsert(halves, new,
                                  findLeafSlot(halves[new].recs, rec.key), rec),
           split |-> [key |-> splitKey, val |-> new]]

(* Block b and those that the sibling links lead to from it; one more than   *)
(* there are in the file if the links run in a circle                       *)
Chain(file, b) ==
  LET sibling == [c \in DOMAIN file \union {None} |->
                    IF c = None THEN None ELSE file[c].extra1]
      at[n \in 0..Size(file)] == IF n = 0 THEN b ELSE sibling[at[n-1]]
  IN SubSeq([n \in 1..Size(file) + 1 |-> at[n-1]], 1,
            Cardinality({n \in 0..Size(file) : at[n] # None}))

Circular(file, b) == Len(Chain(file, b)) > Size(file)

(* Where next stops, looking for key from a slot of block b on: at a record *)
(* with a key not smaller, or past the last one; in a circle it may never   *)
next(file, b, slot, key) ==
  LET blocks == Chain(file, b)
      recsOf(i) == file[blocks[i]].recs
      stops == {p \in (DOMAIN blocks) \X (1..LeafCapacity) :
                  /\ p[2] \in DOMAIN recsOf(p[1])
                  /\ p[1] = 1 => p[2] >= slot
                  /\ compareVals(recsOf(p[1])[p[2]].key, key) >= 0}
      first == CHOOSE p \in stops : \A q \in stops :
                 p[1] < q[1] \/ (p[1] = q[1] /\ p[2] <= q[2])
      rec == recsOf(first[1])[first[2]]
  IN IF stops # {}
     THEN [block |-> blocks[first[1]], slot |-> first[2], hangs |-> FALSE,
           rid |-> IF rec.key = key THEN rec.val ELSE None]
     ELSE [block |-> Last(blocks), slot |-> Len(file[Last(blocks)].recs) + 1,
           hangs |-> Circular(file, b), rid |-> None]

-----------------------------------------------------------------------------
(* The directory *)

findChildBlock(page, key) ==
  LET slot == findDirSlot(page.recs, key)
  IN IF slot = 0 THEN page.extra2 ELSE page.recs[slot].val

(* The leaf to look for the key in *)
search(file, key) ==
  LET below[b \in DOMAIN file] ==
        LET child == findChildBlock(file[b], key)
        IN IF file[b].extra1 = 0 THEN child ELSE below[child]
  IN below[Root]

(* The first record of the upper half, which its parent is to get *)
UpperFirst(file, b) == file[b].recs[Len(file[b].recs) \div 2 + 1]

DirHalves(file, b) ==
  LET cut == split(file, b, Len(file[b].recs) \div 2, file[b].extra1)
  IN [cut EXCEPT ![Size(file)].recs = Tail(@),
                 ![Size(file)].extra2 = UpperFirst(file, b).val]

insertEntry(file, b, rec) ==
  LET page == file[b]
      slot == findDirSlot(page.recs, rec.key)
      new == Size(file)
      first == UpperFirst(file, b)
      halves == DirHalves(file, b)
  IN IF ~isFull(page, DirCapacity)
     THEN [file |-> doInsert(file, b, slot, rec), split |-> NoSplit]
     ELSE [file |-> IF compareVals(rec.key, first.key) < 0
                    THEN doInsert(halves, b, slot, rec)
                    ELSE doInsert(halves, new,
                                  findDirSlot(halves[new].recs, rec.key), rec),
           split |-> [key |-> first.key, val |-> new]]

(* What dir.insert does for a leaf split, in the levels below stop only     *)
DirInsert(file, rec, stop) ==
  LET ins[b \in DOMAIN file] ==
        LET below == IF file[b].extra1 = 0 THEN [file |-> file, split |-> rec]
                     ELSE ins[findChildBlock(file[b], rec.key)]
        IN IF file[b].extra1 >= stop \/ below.split = NoSplit
           THEN [below EXCEPT !.split = NoSplit]
           ELSE insertEntry(below.file, b, below.split)
  IN ins[Root]

makeNewRoot(file, e) ==
  LET new == Size(file)
  IN Extended([file EXCEPT ![Root] = [recs |-> <<e>>, extra1 |-> @.extra1 + 1,
                                      extra2 |-> new]],
              file[Root])

-----------------------------------------------------------------------------
(* What the properties speak of *)

LeafBlocks(file) == ToSet(Chain(file, 0))

EntriesIn(file) ==
  IF file = <<>> THEN {}
  ELSE UNION {{<<r.key, r.val>> : r \in ToSet(file[b].recs)} : b \in LeafBlocks(file)}

Entries == EntriesIn(leaf)
WithKey(key) == {r \in Rids : <<key, r>> \in Entries}

(* Some key is in two leaves *)
EqualKeysApart(file) ==
  \E a, b \in DOMAIN file : a # b /\
    {r.key : r \in ToSet(file[a].recs)} \intersect {r.key : r \in ToSet(file[b].recs)} # {}

-----------------------------------------------------------------------------
(* An Insert that reaches the directory levels below stop *)
InsertUpTo(f, r, stop) ==
  LET l == LeafInsert(f.leaf, search(f.dir, KeyOf[r]), [key |-> KeyOf[r], val |-> r])
      d == IF l.split = NoSplit THEN [file |-> f.dir, split |-> NoSplit]
           ELSE DirInsert(f.dir, l.split, stop)
      newRoot == d.split # NoSplit /\ stop > f.dir[Root].extra1 + 1
  IN [leaf |-> l.file,
      dir |-> IF newRoot THEN makeNewRoot(d.file, d.split) ELSE d.file,
      leafSplit |-> l.split # NoSplit, rootSplit |-> d.split # NoSplit]

AllLevels(f) == f.dir[Root].extra1 + 2

Created == [leaf |-> Extended(<<>>, Formatted),
            dir |-> Extended(<<>>, [recs |-> <<>>, extra1 |-> 0, extra2 |-> 0])]

(* The index that Inserts of the records of a sequence make *)
Built(rids) ==
  LET upTo[n \in 0..Len(rids)] ==
        IF n = 0 THEN Created
        ELSE LET f == InsertUpTo(upTo[n-1], rids[n], AllLevels(upTo[n-1]))
             IN [leaf |-> f.leaf, dir |-> f.dir]
  IN upTo[Len(rids)]

-----------------------------------------------------------------------------
(* No files yet, or an index that earlier transactions have committed *)
Init ==
  /\ undo \in {[leaf |-> <<>>, dir |-> <<>>]} \union {Built(rids) : rids \in Preloads}
  /\ leaf = undo.leaf /\ dir = undo.dir
  /\ open = FALSE /\ changes = 0 /\ txs = 0
  /\ failed = FALSE /\ cursor = NoCursor /\ creationUndone = FALSE
  /\ parted = EqualKeysApart(leaf)

(* A file that is not empty is taken to be an index.  The creation may fail  *)
(* when both files have their block and the root's has not been formatted,   *)
(* which writes only zeros there.                                           *)
NewIndex ==
  /\ ~open /\ txs < MaxTxs
  /\ open' = TRUE /\ txs' = txs + 1
  /\ IF Size(leaf) # 0 THEN UNCHANGED <<files, failed>>
     ELSE leaf' = Created.leaf /\ dir' = Created.dir /\ failed' \in BOOLEAN
  /\ UNCHANGED <<changes, undo, cursor, creationUndone, parted>>

CanChange == open /\ ~failed /\ changes < MaxChanges
CanInsert(r) == CanChange /\ <<KeyOf[r], r>> \notin Entries

(* What all Inserts do, those that fail included *)
Changed(newLeaf, newDir) ==
  /\ leaf' = newLeaf /\ dir' = newDir
  /\ parted' = (parted \/ EqualKeysApart(newLeaf))
  /\ changes' = changes + 1
  /\ UNCHANGED <<open, txs, undo, cursor, creationUndone>>

Insert(r) ==
  LET new == InsertUpTo([leaf |-> leaf, dir |-> dir], r, dir[Root].extra1 + 2)
  IN /\ CanInsert(r)
     /\ Changed(new.leaf, new.dir)
     /\ UNCHANGED failed

(* The leaf has split, but one half cannot be pinned or locked *)
InsertFailsInLeaf(r) ==
  LET b == search(dir, KeyOf[r])
  IN /\ CanInsert(r)
     /\ isFull(leaf[b], LeafCapacity)
     /\ Changed(LeafHalves(leaf, b), dir)
     /\ failed' = TRUE

(* A directory page cannot be locked, or a block not be appended: the leaf  *)
(* has split, and perhaps directory pages, but their parent does not know   *)
InsertFails(r, stop) ==
  LET new == InsertUpTo([leaf |-> leaf, dir |-> dir], r, stop)
  IN /\ CanInsert(r)
     /\ stop <= dir[Root].extra1 + 1
     /\ new.leafSplit
     /\ stop = dir[Root].extra1 + 1 => new.rootSplit
     /\ Changed(new.leaf, new.dir)
     /\ failed' = TRUE

(* Directory page b, which is full and has split, cannot be pinned again to  *)
(* take its entry                                                           *)
InsertFailsInDir(r, b) ==
  LET stop == dir[b].extra1
      upTo(level) == InsertUpTo([leaf |-> leaf, dir |-> dir], r, level)
      new == upTo(stop)
  IN /\ CanInsert(r)
     /\ isFull(new.dir[b], DirCapacity)
     /\ upTo(stop + 1).dir[b] # new.dir[b]
     /\ Changed(new.leaf, DirHalves(new.dir, b))
     /\ failed' = TRUE

(* Mutant: on the first record with the key, instead of before it. *)
Position_Past(k) == LET b == search(dir, k)
                    IN [block |-> b, slot |-> findLeafSlot(leaf[b].recs, k) + 1]

Position(k) == LET b == search(dir, k)
               IN [block |-> b, slot |-> findLeafSlot(leaf[b].recs, k)]

(* seen and owed are for the properties: what the cursor has returned, and  *)
(* what there was to return when it was opened                              *)
BeforeFirst(k) ==
  /\ open /\ ~failed
  /\ cursor' = [key |-> k, block |-> Position(k).block, slot |-> Position(k).slot,
                done |-> FALSE, seen |-> {}, owed |-> WithKey(k)]
  /\ UNCHANGED <<files, open, changes, txs, undo, failed, creationUndone, parted>>

Next_ ==
  /\ cursor # NoCursor
  /\ ~cursor.done
  /\ LET p == next(leaf, cursor.block, cursor.slot + 1, cursor.key)
     IN /\ ~p.hangs
        /\ cursor' = [cursor EXCEPT !.block = p.block, !.slot = p.slot,
                                    !.done = (p.rid = None),
                                    !.seen = IF p.rid = None THEN @ ELSE @ \union {p.rid}]
  /\ UNCHANGED <<files, open, changes, txs, undo, failed, creationUndone, parted>>

(* The positions that Next reaches after BeforeFirst(k), as many as there   *)
(* are records with the key and one more, which ends the search             *)
Walk(k) ==
  LET first[n \in 0..Cardinality({r \in Rids : KeyOf[r] = k})] ==
        IF n = 0 THEN <<next(leaf, Position(k).block, Position(k).slot + 1, k)>>
        ELSE LET walk == first[n-1]
             IN IF Last(walk).rid = None THEN walk
                ELSE Append(walk, next(leaf, Last(walk).block, Last(walk).slot + 1, k))
  IN first[Cardinality({r \in Rids : KeyOf[r] = k})]

Ends(walk) == Last(walk).rid = None /\ ~Last(walk).hangs

(* Delete looks for the entry with a cursor of its own and closes it *)
Delete(r) ==
  /\ CanChange
  /\ LET walk == Walk(KeyOf[r])
         found == {i \in DOMAIN walk : walk[i].rid = r}
         at == walk[Min(found)]
     IN IF found # {}
        THEN leaf' = [leaf EXCEPT ![at.block].recs = RemoveAt(@, at.slot)]
        ELSE /\ Ends(walk)
             /\ UNCHANGED leaf
  /\ changes' = changes + 1
  /\ cursor' = NoCursor
  /\ UNCHANGED <<dir, open, txs, undo, failed, creationUndone, parted>>

EndTransaction ==
  /\ open
  /\ open' = FALSE /\ failed' = FALSE /\ cursor' = NoCursor
  /\ undo' = [leaf |-> leaf', dir |-> dir']
  /\ UNCHANGED <<changes, txs, parted>>

Commit ==
  /\ ~failed
  /\ UNCHANGED <<files, creationUndone>>
  /\ EndTransaction

Restored(old, new) ==
  [b \in DOMAIN new |-> IF b \in DOMAIN old THEN old[b] ELSE ZeroPage]

Rollback ==
  /\ leaf' = Restored(undo.leaf, leaf)
  /\ dir' = Restored(undo.dir, dir)
  /\ creationUndone' = (creationUndone \/ undo.leaf = <<>>)
  /\ EndTransaction

Next ==
  \/ NewIndex
  \/ \E r \in Rids : Insert(r) \/ InsertFailsInLeaf(r) \/ Delete(r)
  \/ \E r \in Rids, stop \in 0..MaxChanges : InsertFails(r, stop)
  \/ \E r \in Rids, b \in DOMAIN dir : InsertFailsInDir(r, b)
  \/ \E k \in ScanKeys : BeforeFirst(k)
  \/ Next_
  \/ Commit
  \/ Rollback

Spec == Init /\ [][Next]_vars

-----------------------------------------------------------------------------
(* Properties *)

Pages == [recs : Seq([key : Keys, val : Rids \union Nat]),
          extra1 : Int, extra2 : Int]

(* The pages hold records in the number that fits, links lead to blocks of  *)
(* the files, and a directory page is one level above its children (the     *)
(* header of btreePage, Index of btree/index.go).                           *)
TypeOK ==
  /\ DOMAIN leaf = 0..Size(leaf) - 1 /\ DOMAIN dir = 0..Size(dir) - 1
  /\ \A b \in DOMAIN leaf :
       /\ leaf[b] \in Pages /\ Len(leaf[b].recs) <= LeafCapacity
       /\ leaf[b].extra1 \in DOMAIN leaf \union {None}
  /\ \A b \in DOMAIN dir :
       LET children == {r.val : r \in ToSet(dir[b].recs)} \union {dir[b].extra2}
       IN /\ dir[b] \in Pages /\ Len(dir[b].recs) <= DirCapacity
          /\ IF dir[b].extra1 = 0 THEN children \subseteq DOMAIN leaf
             ELSE \A c \in children : dir[c].extra1 = dir[b].extra1 - 1

(* A search that ends has returned every entry of its key and no other      *)
(* (what Index.BeforeFirst and Next promise).  No split sees to it: a leaf   *)
(* is cut in the middle whatever its keys are (leafSplit), and when that     *)
(* parts equal keys a search may begin to the right of some of them.         *)
SearchFinds ==
  open => \A k \in Keys :
    LET walk == Walk(k)
    IN Ends(walk) =>
         {walk[i].rid : i \in DOMAIN walk} \ {None} = WithKey(k)

(* Every search ends, unless the creation of the index has been rolled      *)
(* back: the sibling links never run in a circle (btreeLeaf.next).          *)
SearchEnds ==
  open /\ ~creationUndone => ~Circular(leaf, 0)

(* As long as no split has put equal keys into two leaves, a search that     *)
(* ends is right, whichever pages have been split, emptied or restored, and  *)
(* also after an Insert that failed in a page or halfway up the directory;   *)
(* equal keys or not, every search ends (Index.BeforeFirst, Next, Insert).   *)
SearchIsRight == (~parted => SearchFinds) /\ SearchEnds

(* As long as no split has put equal keys into two leaves: from left to      *)
(* right the directory points to exactly the leaves that the sibling links   *)
(* connect, in the same order (dirEntry, leafSplit and makeNewRoot keep the  *)
(* two structures in step).                                                 *)
DirectoryMatchesChain ==
  LET leaves[b \in DOMAIN dir] ==
        LET children == <<dir[b].extra2>> \o [i \in DOMAIN dir[b].recs |-> dir[b].recs[i].val]
        IN IF dir[b].extra1 = 0 THEN children
           ELSE FlattenSeq([i \in DOMAIN children |-> leaves[children[i]]])
  IN open /\ ~failed /\ ~creationUndone /\ ~parted =>
       Chain(leaf, 0) = leaves[Root]

(* As long as no split has put equal keys into two leaves, a cursor that has *)
(* come to its end has returned all that was there when it was opened,       *)
(* although Inserts have moved records to other slots and pages under it     *)
(* meanwhile (btreeLeaf.next goes on from block and slot).                   *)
CursorSkipsNothing ==
  ~parted /\ cursor # NoCursor => (cursor.done => cursor.owed \subseteq cursor.seen)

(* The tree is a set of entries: an Insert adds its entry and a Delete      *)
(* removes it, splits change nothing else, a rollback brings back what the  *)
(* last commit has left (Index.Insert, Index.Delete, Transaction.Rollback). *)
Abstract == INSTANCE IndexEntries
              WITH Records <- {<<KeyOf[r], r>> : r \in Rids},
                   entries <- Entries, committed <- EntriesIn(undo.leaf)
ImplementsIndexEntries == Abstract!Spec
=============================================================================
