-------------------------- MODULE LogManagerProofs --------------------------
(***************************************************************************)
(* The safety properties of LogManager, and its refinement of DurableLog,  *)
(* for every page size, every number of goroutines and records, and any    *)
(* number of crashes and failing calls.                                    *)
(***************************************************************************)
EXTENDS LogManager, FiniteSetTheorems, SequenceTheorems, TLAPS

Pages == [boundary : 0..BlockSize, rec : [0..PageSize -> 0..MaxRecords]]

Iterators == [blk : Nat, pos : 0..BlockSize, page : Pages]

Typed ==
  /\ disk \in Seq(Pages) /\ page \in Pages
  /\ latestLSN \in Nat /\ lastSavedLSN \in Nat /\ base \in Nat /\ promised \in Nat
  /\ it \in [Procs -> Iterators]
  /\ seen \in [Procs -> Seq(0..MaxRecords)] /\ from \in [Procs -> Nat]

(* The mutex is held for a change of block, and only then. *)
Stages ==
  /\ mu = Free <=> stage = "idle"
  /\ mu = Boot => stage \in {"append", "header", "write"}
  /\ stage \in {"header", "write"} => disk # <<>>
  /\ stage \in {"write", "put"} => page.boundary = BlockSize

(* No record is numbered higher than the bound. *)
Bounded ==
  /\ base + latestLSN <= MaxRecords
  /\ mu \in Procs => base + latestLSN < MaxRecords

TypeInv == TypeOK /\ Typed /\ Stages /\ Bounded

USE LogAssumption DEF BlockSize, Junk, Iterators, fileVars, memVars, lockVars, iterVars

----------------------------------------------------------------------------
LEMMA ZeroPageTyped ==
  /\ ZeroPage \in Pages /\ IsPage(ZeroPage) /\ RecordsIn(ZeroPage) = {}
  /\ [ZeroPage EXCEPT !.boundary = BlockSize] \in Pages
<1>1. ZeroPage \in Pages BY DEF ZeroPage, Pages
<1>2. IsPage(ZeroPage) BY DEF ZeroPage, IsPage
<1>3. RecordsIn(ZeroPage) = {} BY DEF ZeroPage, RecordsIn
<1> QED BY <1>1, <1>2, <1>3 DEF Pages

(* There are finitely many records on disk. *)
LEMMA OnDiskBounded ==
  ASSUME disk \in Seq(Pages)
  PROVE  /\ OnDisk \subseteq 1..MaxRecords
         /\ IsFiniteSet(OnDisk)
         /\ Cardinality(OnDisk) \in 0..MaxRecords
<1>1. \A pg \in Pages : RecordsIn(pg) \subseteq 1..MaxRecords
  <2> SUFFICES ASSUME NEW pg \in Pages, NEW i \in pg.boundary..PageSize, pg.rec[i] # Junk
               PROVE  pg.rec[i] \in 1..MaxRecords
    BY DEF RecordsIn
  <2>1. pg.boundary \in Nat /\ i \in 0..PageSize BY DEF Pages
  <2> QED BY <2>1 DEF Pages
<1>2. OnDisk \subseteq 1..MaxRecords BY <1>1 DEF OnDisk
<1>3. IsFiniteSet(1..MaxRecords) /\ Cardinality(1..MaxRecords) = MaxRecords
  BY FS_Interval
<1>4. IsFiniteSet(OnDisk) /\ Cardinality(OnDisk) <= MaxRecords
  BY <1>2, <1>3, FS_Subset
<1> QED BY <1>2, <1>4, FS_CardinalityType

(* A record put into a page below its boundary. *)
LEMMA PutTyped ==
  ASSUME TypeInv, page.boundary \in 2..BlockSize, base + latestLSN < MaxRecords, PutRecord
  PROVE  /\ page' \in Pages /\ IsPage(page')
         /\ latestLSN' = latestLSN + 1
<1>1. page.boundary - 1 \in 1..PageSize /\ base + latestLSN + 1 \in 0..MaxRecords
  BY DEF TypeInv, TypeOK, Typed
<1>2. page.rec \in [0..PageSize -> 0..MaxRecords] BY DEF TypeInv, Typed, Pages
<1>3. PICK r : r = [page.rec EXCEPT ![page.boundary - 1] = base + latestLSN + 1] OBVIOUS
<1>4. r \in [0..PageSize -> 0..MaxRecords] BY <1>1, <1>2, <1>3
<1>5. page' = [boundary |-> page.boundary - 1, rec |-> r]
  BY <1>3 DEF TypeInv, Typed, Pages, PutRecord
<1>6. page' \in Pages BY <1>1, <1>4, <1>5 DEF Pages
<1>7. r[0] = Junk BY <1>1, <1>2, <1>3 DEF TypeInv, TypeOK, IsPage
<1>8. IsPage(page') BY <1>1, <1>4, <1>5, <1>7 DEF IsPage
<1> QED BY <1>6, <1>8 DEF PutRecord

(* The page written to a block of the file. *)
LEMMA WriteTyped ==
  ASSUME TypeInv, NEW k \in 1..Len(disk), disk' = [disk EXCEPT ![k] = page]
  PROVE  /\ disk' \in Seq(Pages) /\ Len(disk') = Len(disk)
         /\ \A j \in 1..Len(disk) : disk'[j] = IF j = k THEN page ELSE disk[j]
         /\ \A j \in 1..Len(disk') : IsPage(disk'[j])
<1>1. disk \in Seq(Pages) /\ page \in Pages BY DEF TypeInv, Typed
<1>2. disk' \in Seq(Pages) /\ Len(disk') = Len(disk) BY <1>1, ExceptSeq
<1>3. \A j \in 1..Len(disk) : disk'[j] = IF j = k THEN page ELSE disk[j]
  BY <1>1, ExceptSeq
<1> QED BY <1>2, <1>3 DEF TypeInv, TypeOK

LEMMA InitTypeInv == Init => TypeInv
<1> SUFFICES ASSUME Init PROVE TypeInv OBVIOUS
<1>1. TypeOK BY ZeroPageTyped DEF Init, TypeOK, NoIterator
<1>2. Typed BY ZeroPageTyped DEF Init, Typed, NoIterator
<1> QED BY <1>1, <1>2 DEF Init, TypeInv, Stages, Bounded

(* An iterator is moved to a block of the file, or forward in its own. *)
LEMMA IteratorTyped ==
  ASSUME TypeInv, NEW p \in Procs
  PROVE  /\ \A k \in 1..Len(disk) : moveToBlock(k) \in Iterators
         /\ HasNext(it[p]) => /\ Positioned(it[p]) \in Iterators
                              /\ Positioned(it[p]).blk \in 0..Len(disk)
<1>1. \A k \in 1..Len(disk) : disk[k] \in Pages BY DEF TypeInv, Typed
<1>2. \A k \in 1..Len(disk) : disk[k].boundary \in 0..BlockSize BY <1>1 DEF Pages
<1>3. \A k \in 1..Len(disk) : moveToBlock(k) \in Iterators
  BY <1>1, <1>2 DEF moveToBlock
<1>4. it[p] \in Iterators /\ it[p].blk \in 0..Len(disk)
  BY DEF TypeInv, TypeOK, Typed
<1>5. ASSUME HasNext(it[p])
      PROVE  /\ Positioned(it[p]) \in Iterators
             /\ Positioned(it[p]).blk \in 0..Len(disk)
  <2>1. CASE it[p].pos # BlockSize BY <2>1, <1>4 DEF Positioned
  <2>2. CASE it[p].pos = BlockSize
    <3>1. it[p].blk - 1 \in 1..Len(disk) BY <2>2, <1>4, <1>5 DEF HasNext
    <3> QED BY <3>1, <2>2, <1>3 DEF Positioned, moveToBlock
  <2> QED BY <2>1, <2>2
<1> QED BY <1>3, <1>5

LEMMA NextTypeInv == TypeInv /\ [Next]_vars => TypeInv'
<1> SUFFICES ASSUME TypeInv, [Next]_vars PROVE TypeInv' OBVIOUS
<1> USE DEF TypeInv
<1>1. ASSUME NEW p \in Procs, Append_(p) PROVE TypeInv'
  <2>1. CASE Fits /\ PutRecord /\ UNCHANGED lockVars
    <3>1. page.boundary \in 2..BlockSize BY <2>1 DEF Fits, TypeOK, IsPage
    <3>2. base + latestLSN < MaxRecords BY <1>1 DEF Append_
    <3>3. page' \in Pages /\ IsPage(page') /\ latestLSN' = latestLSN + 1
      BY <2>1, <3>1, <3>2, PutTyped
    <3>4. latestLSN' \in 0..MaxRecords BY <3>2, <3>3 DEF TypeOK, Typed
    <3>5. TypeOK' BY <1>1, <2>1, <3>3, <3>4 DEF TypeOK, Append_
    <3>6. Typed' BY <1>1, <2>1, <3>3 DEF Typed, Append_
    <3>7. stage = "idle" BY <1>1 DEF Append_, Stages
    <3>8. Stages' BY <1>1, <2>1, <3>7 DEF Stages, Append_
    <3>9. Bounded' BY <1>1, <2>1, <3>2, <3>3 DEF Bounded, Typed, Append_
    <3> QED BY <3>5, <3>6, <3>8, <3>9
  <2>2. CASE ~Fits /\ cur # 0 /\ mu' = p /\ stage' = "flush" /\ UNCHANGED <<page, latestLSN>>
    BY <1>1, <2>2 DEF Append_, TypeOK, Typed, Stages, Bounded
  <2> QED BY <1>1, <2>1, <2>2 DEF Append_
<1>2. ASSUME NEW p \in Procs, NEW lsn \in -1..latestLSN, Flush(p, lsn) PROVE TypeInv'
  <2>1. base + lsn <= MaxRecords BY DEF Bounded, Typed
  <2>2. promised' \in 0..MaxRecords BY <1>2, <2>1 DEF Flush, TypeOK, Typed
  <2>3. /\ disk' \in Seq(Pages) /\ Len(disk') = Len(disk)
        /\ \A j \in 1..Len(disk') : IsPage(disk'[j])
        /\ disk = <<>> => disk' = <<>>
        /\ lastSavedLSN' \in {lastSavedLSN, latestLSN}
    <3>1. CASE flush
      <4>1. cur \in 1..Len(disk) BY <3>1 DEF flush, TypeOK
      <4>2. disk # <<>> BY <4>1
      <4> QED BY <3>1, <4>1, <4>2, WriteTyped DEF flush, WritePage
    <3>2. CASE UNCHANGED <<disk, lastSavedLSN>> BY <3>2 DEF TypeOK, Typed
    <3> QED BY <1>2, <3>1, <3>2 DEF Flush
  <2>4. TypeOK' BY <1>2, <2>2, <2>3 DEF Flush, TypeOK
  <2>5. Typed' BY <1>2, <2>2, <2>3 DEF Flush, Typed
  <2>6. Stages' /\ Bounded' BY <1>2, <2>3 DEF Flush, Stages, Bounded
  <2> QED BY <2>4, <2>5, <2>6
<1>3. ASSUME NEW p \in Procs, IteratorWrite(p) PROVE TypeInv'
  <2>1. cur \in 1..Len(disk) BY <1>3 DEF IteratorWrite, TypeOK
  <2>2. /\ disk' \in Seq(Pages) /\ Len(disk') = Len(disk)
        /\ \A j \in 1..Len(disk') : IsPage(disk'[j])
    BY <1>3, <2>1, WriteTyped DEF IteratorWrite, WritePage
  <2>3. TypeOK' BY <1>3, <2>2 DEF IteratorWrite, TypeOK
  <2>4. Typed' BY <1>3, <2>2 DEF IteratorWrite, Typed
  <2>5. Stages' /\ Bounded' BY <1>3, <2>1, <2>2 DEF IteratorWrite, Stages, Bounded
  <2> QED BY <2>3, <2>4, <2>5
<1>4. ASSUME NEW p \in Procs, IteratorSave(p) PROVE TypeInv'
  BY <1>4 DEF IteratorSave, TypeOK, Typed, Stages, Bounded
<1>5. ASSUME NEW p \in Procs, NewIterator(p) PROVE TypeInv'
  <2>1. cur \in 1..Len(disk) BY <1>5 DEF NewIterator, TypeOK
  <2>2. moveToBlock(cur) \in Iterators
    BY <2>1, IteratorTyped
  <2>3. Cardinality(OnDisk) \in Nat BY OnDiskBounded DEF Typed
  <2>4. Typed' BY <1>5, <2>2, <2>3 DEF NewIterator, Typed
  <2>5. TypeOK' BY <1>5, <2>1, <2>2, <2>4 DEF NewIterator, TypeOK, Typed, moveToBlock
  <2>6. Stages' /\ Bounded' BY <1>5 DEF NewIterator, Stages, Bounded
  <2> QED BY <2>4, <2>5, <2>6
<1>6. ASSUME NEW p \in Procs, IteratorNext(p) PROVE TypeInv'
  <2> DEFINE i == Positioned(it[p])
  <2>1. i \in Iterators /\ i.blk \in 0..Len(disk)
    BY <1>6, IteratorTyped DEF IteratorNext
  <2>2. i.pos \in 0..PageSize /\ i.pos + 1 \in 0..BlockSize BY <1>6, <2>1 DEF IteratorNext
  <2>3. i.page.rec[i.pos] \in 0..MaxRecords BY <2>1, <2>2 DEF Pages
  <2>4. /\ it' = [it EXCEPT ![p] = [i EXCEPT !.pos = @ + 1]]
        /\ seen' = [seen EXCEPT ![p] = Append(@, i.page.rec[i.pos])]
    BY <1>6 DEF IteratorNext
  <2> HIDE DEF i
  <2>5. [i EXCEPT !.pos = @ + 1] \in Iterators
    BY <2>1, <2>2
  <2>6. Append(seen[p], i.page.rec[i.pos]) \in Seq(0..MaxRecords) BY <2>3 DEF Typed
  <2>7. it' \in [Procs -> Iterators]
    BY <2>4, <2>5 DEF Typed
  <2>8. seen' \in [Procs -> Seq(0..MaxRecords)] BY <2>4, <2>6 DEF Typed
  <2>9. \A q \in Procs : it'[q].blk \in 0..Len(disk) BY <2>1, <2>4 DEF Typed, TypeOK
  <2>10. Typed' BY <1>6, <2>7, <2>8 DEF IteratorNext, Typed
  <2>11. TypeOK' BY <1>6, <2>7, <2>9 DEF IteratorNext, TypeOK
  <2>12. Stages' /\ Bounded' BY <1>6 DEF IteratorNext, Stages, Bounded
  <2> QED BY <2>10, <2>11, <2>12
<1>7. ASSUME NEW p \in Procs, IteratorDrop(p) PROVE TypeInv'
  <2>1. Typed' BY <1>7, ZeroPageTyped DEF IteratorDrop, Typed, NoIterator
  <2>2. TypeOK' BY <1>7 DEF IteratorDrop, TypeOK, NoIterator
  <2>3. Stages' /\ Bounded' BY <1>7 DEF IteratorDrop, Stages, Bounded
  <2> QED BY <2>1, <2>2, <2>3
<1>8. ASSUME AppendFlush PROVE TypeInv'
  <2>1. cur \in 1..Len(disk) BY <1>8 DEF AppendFlush, flush, TypeOK
  <2>2. /\ disk' \in Seq(Pages) /\ Len(disk') = Len(disk)
        /\ \A j \in 1..Len(disk') : IsPage(disk'[j])
    BY <1>8, <2>1, WriteTyped DEF AppendFlush, flush, WritePage
  <2>3. TypeOK' BY <1>8, <2>2 DEF AppendFlush, flush, TypeOK
  <2>4. Typed' BY <1>8, <2>2 DEF AppendFlush, flush, Typed
  <2>5. Stages' /\ Bounded' BY <1>8, <2>1, <2>2 DEF AppendFlush, flush, Stages, Bounded
  <2> QED BY <2>3, <2>4, <2>5
<1>9. ASSUME AppendBlock PROVE TypeInv'
  <2>1. /\ disk' \in Seq(Pages) /\ disk' # <<>> /\ Len(disk') = Len(disk) + 1
        /\ \A j \in 1..Len(disk) : disk'[j] = disk[j]
        /\ disk'[Len(disk) + 1] = ZeroPage
    BY <1>9, ZeroPageTyped, AppendProperties DEF AppendBlock, Typed
  <2>2. \A j \in 1..Len(disk') : IsPage(disk'[j])
    <3> SUFFICES ASSUME NEW j \in 1..Len(disk') PROVE IsPage(disk'[j]) OBVIOUS
    <3>1. j \in 1..Len(disk) \/ j = Len(disk) + 1 BY <2>1 DEF Typed
    <3> QED BY <2>1, <3>1, ZeroPageTyped DEF TypeOK
  <2>3. Len(disk) \in Nat BY DEF Typed
  <2>4. TypeOK' BY <1>9, <2>1, <2>2, <2>3 DEF AppendBlock, TypeOK
  <2>5. Typed' BY <1>9, <2>1 DEF AppendBlock, Typed
  <2>6. Stages' /\ Bounded' BY <1>9, <2>1 DEF AppendBlock, Stages, Bounded
  <2> QED BY <2>4, <2>5, <2>6
<1>10. ASSUME SetHeader PROVE TypeInv'
  <2>1. page' \in Pages /\ page'.boundary = BlockSize /\ page'.rec = page.rec
    <3>1. page' = [boundary |-> BlockSize, rec |-> page.rec]
      BY <1>10 DEF SetHeader, Typed, Pages
    <3> QED BY <3>1 DEF Typed, Pages
  <2>2. IsPage(page') BY <2>1 DEF TypeOK, IsPage
  <2>3. TypeOK' BY <1>10, <2>2 DEF SetHeader, TypeOK
  <2>4. Typed' BY <1>10, <2>1 DEF SetHeader, Typed
  <2>5. Stages' /\ Bounded' BY <1>10, <2>1 DEF SetHeader, Stages, Bounded
  <2> QED BY <2>3, <2>4, <2>5
<1>11. ASSUME WriteBlock PROVE TypeInv'
  <2>1. Len(disk) \in 1..Len(disk) BY <1>11, EmptySeq DEF WriteBlock, Stages, Typed
  <2>2. /\ disk' \in Seq(Pages) /\ Len(disk') = Len(disk)
        /\ \A j \in 1..Len(disk') : IsPage(disk'[j])
    BY <1>11, <2>1, WriteTyped DEF WriteBlock
  <2>3. mu # Free /\ mu' \in {mu, Free} /\ (mu' = Free <=> stage' = "idle")
        /\ (mu' # Free => mu' = mu /\ mu # Boot /\ stage' = "put")
    BY <1>11 DEF WriteBlock, Stages, TypeOK
  <2>4. TypeOK' BY <1>11, <2>1, <2>2, <2>3 DEF WriteBlock, TypeOK
  <2>5. Typed' BY <1>11, <2>2 DEF WriteBlock, Typed
  <2>6. Stages' BY <1>11, <2>3 DEF WriteBlock, Stages
  <2>7. Bounded' BY <1>11, <2>3 DEF WriteBlock, Bounded
  <2> QED BY <2>4, <2>5, <2>6, <2>7
<1>12. ASSUME AppendPut PROVE TypeInv'
  <2>1. mu \in Procs /\ page.boundary = BlockSize BY <1>12 DEF AppendPut, Stages, TypeOK
  <2>2. base + latestLSN < MaxRecords BY <2>1 DEF Bounded
  <2>3. page' \in Pages /\ IsPage(page') /\ latestLSN' = latestLSN + 1
    BY <1>12, <2>1, <2>2, PutTyped DEF AppendPut
  <2>4. latestLSN' \in 0..MaxRecords BY <2>2, <2>3 DEF TypeOK, Typed
  <2>5. TypeOK' BY <1>12, <2>3, <2>4 DEF AppendPut, TypeOK
  <2>6. Typed' BY <1>12, <2>3 DEF AppendPut, Typed
  <2>7. Stages' /\ Bounded' BY <1>12, <2>2, <2>3 DEF AppendPut, Stages, Bounded, Typed
  <2> QED BY <2>5, <2>6, <2>7
<1>13. ASSUME AppendFails PROVE TypeInv'
  <2>1. cur' \in 0..Len(disk) BY <1>13 DEF AppendFails, TypeOK
  <2> QED BY <1>13, <2>1 DEF AppendFails, TypeOK, Typed, Stages, Bounded
<1>14. ASSUME Crash PROVE TypeInv'
  <2>1. base' \in 0..MaxRecords BY <1>14, OnDiskBounded DEF Crash, NewLogManager, Typed
  <2>2. /\ page' \in Pages /\ IsPage(page') /\ cur' \in 0..Len(disk)
        /\ mu' \in {Free, Boot} /\ (mu' = Free <=> stage' = "idle")
        /\ (mu' = Boot => stage' = "append")
        /\ stage' \in {"append", "idle"}
    <3>1. CASE disk = <<>>
      BY <1>14, <3>1, ZeroPageTyped DEF Crash, NewLogManager
    <3>2. CASE disk # <<>>
      <4>1. Len(disk) \in 1..Len(disk) BY <3>2, EmptySeq DEF Typed
      <4>2. page' = disk[Len(disk)] /\ cur' = Len(disk) /\ mu' = Free /\ stage' = "idle"
        BY <1>14, <3>2 DEF Crash, NewLogManager, ReadLastBlock
      <4> QED BY <4>1, <4>2 DEF Typed, TypeOK
    <3> QED BY <3>1, <3>2
  <2>3. Typed'
    BY <1>14, <2>1, <2>2, ZeroPageTyped DEF Crash, NewLogManager, Typed, NoIterator
  <2>4. TypeOK' BY <1>14, <2>1, <2>2 DEF Crash, NewLogManager, TypeOK, NoIterator
  <2>5. Stages' BY <1>14, <2>2 DEF Crash, Stages
  <2>6. Bounded' BY <1>14, <2>1, <2>2 DEF Crash, NewLogManager, Bounded
  <2> QED BY <2>3, <2>4, <2>5, <2>6
<1>15. CASE UNCHANGED vars BY <1>15 DEF vars, TypeOK, Typed, Stages, Bounded
<1> QED
  BY <1>1, <1>2, <1>3, <1>4, <1>5, <1>6, <1>7, <1>8, <1>9, <1>10, <1>11, <1>12, <1>13,
     <1>14, <1>15 DEF Next

(***************************************************************************)
(* Every variable has its type.                                            *)
(***************************************************************************)
THEOREM TypeCorrect == Spec => []TypeOK
<1>1. TypeInv => TypeOK BY DEF TypeInv
<1> QED BY <1>1, InitTypeInv, NextTypeInv, PTL DEF Spec
----------------------------------------------------------------------------
(***************************************************************************)
(* The rest of the invariant is about the records.  It holds as long as no *)
(* Iterator writes the page in the middle of an Append, which the mutex    *)
(* does not prevent (~Overlap).                                            *)
(***************************************************************************)
(* A page has the records m+1 to n from position pos on, the newest first; *)
(* or it is one that was never written, and m = n.                         *)
HasFrom(pg, pos, m, n) ==
  \/ pg = ZeroPage /\ n = m
  \/ /\ pg.boundary # 0 /\ pos \in pg.boundary..BlockSize
     /\ n = m + BlockSize - pos
     /\ \A i \in pos..PageSize : pg.rec[i] = n + pos - i

Has(pg, m, n) == HasFrom(pg, pg.boundary, m, n)

InBlocks(k) == UNION {RecordsIn(disk[j]) : j \in 1..k}
Upto(k) == Cardinality(InBlocks(k))

(* The blocks have the records in order, and all but the last are full. *)
BlocksInv ==
  /\ \A k \in 0..Len(disk) : Upto(k) \in Nat /\ InBlocks(k) = 1..Upto(k)
  /\ \A k \in 1..Len(disk) : Has(disk[k], Upto(k - 1), Upto(k))
  /\ \A k \in 1..(Len(disk) - 1) : disk[k].boundary \in {0, 1}

(* The page is the last block with the records that came since; a new block *)
(* follows a full one.                                                      *)
IsCurrent == Has(page, Upto(cur - 1), base + latestLSN)

PageInv ==
  /\ cur # 0 /\ stage # "write" => IsCurrent
  /\ cur # 0 /\ stage \in {"idle", "flush", "put"} => cur = Len(disk)
  /\ stage \in {"flush", "put"} => cur # 0
  /\ stage = "flush" => page.boundary \in {0, 1}
  /\ stage = "append" => disk = <<>> \/ disk[Len(disk)].boundary \in {0, 1}
  /\ stage \in {"header", "write"} => disk[Len(disk)] = ZeroPage

(* What the two counters say of the disk, and when it has all records. *)
Written == Cardinality(OnDisk)

WrittenInv ==
  /\ Written <= base + latestLSN
  /\ base + lastSavedLSN <= Written
  /\ promised <= Written
  /\ stage \notin {"idle", "flush"} => Written = base + latestLSN
  /\ \A p \in Procs : Flushing(p) => mu = Free /\ Written = base + latestLSN

(* An iterator has the records before those it has returned ahead of it. *)
IsPlaced(p) ==
  /\ it[p].blk \in 1..Len(disk)
  /\ Remaining(p) \in Nat
  /\ HasFrom(it[p].page, it[p].pos, Upto(it[p].blk - 1), Remaining(p))
  /\ \A k \in Returned(p) :
       seen[p][k] = from[p] - Cardinality({i \in Returned(p) : i < k})

IteratorInv ==
  \A p \in Procs : IF pc[p] = "iterating" THEN IsPlaced(p) ELSE seen[p] = <<>>

LogInv == BlocksInv /\ PageInv /\ WrittenInv /\ IteratorInv

IInv == TypeInv /\ LogInv

----------------------------------------------------------------------------
(* What a page has. *)
LEMMA PageHas ==
  ASSUME NEW pg \in Pages, NEW m \in Nat, NEW n \in Nat, Has(pg, m, n)
  PROVE  m <= n /\ RecordsIn(pg) = (m + 1)..n
<1>1. CASE pg = ZeroPage /\ n = m BY <1>1, ZeroPageTyped
<1>2. CASE pg # ZeroPage \/ n # m
  <2>1. /\ pg.boundary \in 1..BlockSize /\ n = m + BlockSize - pg.boundary
        /\ \A i \in pg.boundary..PageSize : pg.rec[i] = n + pg.boundary - i
    BY <1>2 DEF Has, HasFrom, Pages
  <2>2. \A i \in pg.boundary..PageSize : pg.rec[i] \in (m + 1)..n BY <2>1
  <2>3. ASSUME NEW r \in (m + 1)..n
        PROVE  \E i \in pg.boundary..PageSize : pg.rec[i] = r /\ r # Junk
    <3>1. n + pg.boundary - r \in pg.boundary..PageSize BY <2>1
    <3>2. pg.rec[n + pg.boundary - r] = r BY <2>1, <3>1
    <3> QED BY <3>1, <3>2
  <2>4. m <= n BY <2>1
  <2> QED BY <2>2, <2>3, <2>4 DEF RecordsIn
<1> QED BY <1>1, <1>2

(* A record more in the page. *)
LEMMA PutHas ==
  ASSUME TypeInv, NEW m \in Nat, NEW n \in Nat, n = base + latestLSN, Has(page, m, n),
         page.boundary \in 2..BlockSize, PutRecord
  PROVE  Has(page', m, n + 1)
<1>1. page # ZeroPage BY DEF ZeroPage
<1>2. PICK b : b = page.boundary /\ b \in 2..BlockSize OBVIOUS
<1>3. PICK f : f = page.rec /\ f \in [0..PageSize -> 0..MaxRecords]
  BY DEF TypeInv, Typed, Pages
<1>4. n = m + BlockSize - b /\ \A i \in b..PageSize : f[i] = n + b - i
  BY <1>1, <1>2, <1>3 DEF Has, HasFrom
<1>5. PICK g : g = [f EXCEPT ![b - 1] = n + 1] OBVIOUS
<1>6. b - 1 \in 0..PageSize BY <1>2
<1>7. g[b - 1] = n + 1 BY <1>6, <1>5, <1>3
<1>8. ASSUME NEW i \in 0..PageSize, i # b - 1 PROVE g[i] = f[i] BY <1>8, <1>6, <1>5, <1>3
<1>9. page'.boundary = b - 1 /\ page'.rec = g
  BY <1>2, <1>3, <1>5 DEF TypeInv, Typed, Pages, PutRecord
<1>10. ASSUME NEW i \in (b - 1)..PageSize PROVE g[i] = (n + 1) + (b - 1) - i
  <2>1. i \in 0..PageSize /\ (i = b - 1 \/ i \in b..PageSize) BY <1>2
  <2>2. CASE i = b - 1 BY <2>2, <1>2, <1>7
  <2>3. CASE i \in b..PageSize
    <3>1. g[i] = f[i] BY <2>1, <2>3, <1>2, <1>8
    <3>2. f[i] = n + b - i BY <2>3, <1>4
    <3> QED BY <3>1, <3>2, <2>1, <1>2
  <2> QED BY <2>1, <2>2, <2>3
<1>11. b - 1 # 0 /\ b - 1 \in (b - 1)..BlockSize /\ n + 1 = m + BlockSize - (b - 1)
  BY <1>2, <1>4
<1> QED BY <1>9, <1>10, <1>11 DEF Has, HasFrom

(* The counts of the records in the first blocks. *)
LEMMA UptoIs ==
  ASSUME NEW k, NEW n \in Nat, InBlocks(k) = 1..n
  PROVE  Upto(k) = n
BY FS_Interval DEF Upto

LEMMA LastBlock ==
  ASSUME NEW k \in Nat \ {0}
  PROVE  InBlocks(k)' = InBlocks(k - 1)' \cup RecordsIn(disk[k])'
<1>1. 1..k = 1..(k - 1) \cup {k} OBVIOUS
<1>2. \A j : RecordsIn(disk[j])' = RecordsIn(disk'[j]) BY DEF RecordsIn
<1> QED BY <1>1, <1>2 DEF InBlocks

LEMMA OnDiskIs ==
  ASSUME NEW k, Len(disk') = k
  PROVE  OnDisk' = InBlocks(k)'
BY DEF OnDisk, InBlocks

LEMMA NoBlocks == InBlocks(0) = {} /\ Upto(0) = 0
<1>1. InBlocks(0) = {} BY DEF InBlocks
<1> QED BY <1>1, FS_EmptySet DEF Upto

LEMMA AllBlocks ==
  ASSUME TypeInv, BlocksInv
  PROVE  /\ OnDisk = 1..Written /\ Written = Upto(Len(disk)) /\ Written \in Nat
         /\ Len(disk) \in Nat
<1>1. Len(disk) \in Nat BY DEF TypeInv, Typed
<1>2. OnDisk = InBlocks(Len(disk)) BY DEF OnDisk, InBlocks
<1> QED BY <1>1, <1>2 DEF BlocksInv, Upto, Written

(* The blocks before the one that a step writes. *)
LEMMA BlocksSame ==
  ASSUME NEW n \in Nat, \A k \in 1..n : disk'[k] = disk[k]
  PROVE  \A k \in 0..n : InBlocks(k)' = InBlocks(k) /\ Upto(k)' = Upto(k)
<1> SUFFICES ASSUME NEW k \in 0..n
             PROVE  InBlocks(k)' = InBlocks(k) /\ Upto(k)' = Upto(k)
  OBVIOUS
<1>1. \A j \in 1..k : RecordsIn(disk[j])' = RecordsIn(disk[j]) BY DEF RecordsIn
<1>2. InBlocks(k)' = InBlocks(k) BY <1>1 DEF InBlocks
<1> QED BY <1>2 DEF Upto

(* The page is written to the last block. *)
LEMMA WriteCur ==
  ASSUME TypeInv, BlocksInv, cur # 0, cur = Len(disk), WritePage,
         Has(page, Upto(cur - 1), base + latestLSN)
  PROVE  /\ BlocksInv' /\ Written' = base + latestLSN
         /\ Len(disk') = Len(disk) /\ disk'[cur] = page
         /\ \A k \in 1..(cur - 1) : disk'[k] = disk[k]
         /\ \A k \in 0..(cur - 1) : Upto(k)' = Upto(k)
<1> PICK c : c = cur OBVIOUS
<1>1. c \in 1..Len(disk) /\ c - 1 \in Nat BY DEF TypeInv, TypeOK
<1>2. /\ disk' \in Seq(Pages) /\ Len(disk') = Len(disk)
      /\ \A j \in 1..Len(disk) : disk'[j] = IF j = c THEN page ELSE disk[j]
  BY <1>1, WriteTyped DEF WritePage
<1>3. \A k \in 0..(c - 1) : InBlocks(k)' = InBlocks(k) /\ Upto(k)' = Upto(k)
  BY <1>1, <1>2, BlocksSame
<1>4. PICK m : m = Upto(c - 1) /\ m \in Nat /\ InBlocks(c - 1) = 1..m
  BY <1>1 DEF BlocksInv
<1>5. PICK n : n = base + latestLSN /\ n \in Nat BY DEF TypeInv, Typed
<1>6. m <= n /\ RecordsIn(page) = (m + 1)..n
  BY <1>4, <1>5, PageHas DEF TypeInv, Typed
<1>7. InBlocks(c)' = 1..n
  <2>1. InBlocks(c)' = InBlocks(c - 1)' \cup RecordsIn(disk[c])' BY <1>1, LastBlock
  <2>2. RecordsIn(disk[c])' = RecordsIn(page) BY <1>1, <1>2 DEF RecordsIn
  <2>3. InBlocks(c)' = 1..m \cup RecordsIn(page) BY <2>1, <2>2, <1>1, <1>3, <1>4
  <2> QED BY <2>3, <1>4, <1>5, <1>6
<1>8. Upto(c)' = n BY <1>7, <1>5, FS_Interval DEF Upto
<1>9. BlocksInv'
  <2>1. \A k \in 0..Len(disk') : Upto(k)' \in Nat /\ InBlocks(k)' = 1..Upto(k)'
    <3> SUFFICES ASSUME NEW k \in 0..Len(disk')
                 PROVE  Upto(k)' \in Nat /\ InBlocks(k)' = 1..Upto(k)'
      OBVIOUS
    <3>1. CASE k = c BY <3>1, <1>5, <1>7, <1>8
    <3>2. CASE k # c
      <4>1. k \in 0..(c - 1) /\ k \in 0..Len(disk) BY <3>2, <1>1, <1>2
      <4> QED BY <4>1, <1>3 DEF BlocksInv
    <3> QED BY <3>1, <3>2
  <2>2. \A k \in 1..Len(disk') : Has(disk'[k], Upto(k - 1)', Upto(k)')
    <3> SUFFICES ASSUME NEW k \in 1..Len(disk')
                 PROVE  Has(disk'[k], Upto(k - 1)', Upto(k)')
      OBVIOUS
    <3>1. CASE k = c BY <3>1, <1>1, <1>2, <1>3, <1>5, <1>8
    <3>2. CASE k # c
      <4>1. k \in 0..(c - 1) /\ k - 1 \in 0..(c - 1) /\ k \in 1..Len(disk)
        BY <3>2, <1>1, <1>2
      <4> QED BY <4>1, <3>2, <1>2, <1>3 DEF BlocksInv
    <3> QED BY <3>1, <3>2
  <2>3. \A k \in 1..(Len(disk') - 1) : disk'[k].boundary \in {0, 1}
    <3> SUFFICES ASSUME NEW k \in 1..(Len(disk') - 1)
                 PROVE  disk'[k].boundary \in {0, 1}
      OBVIOUS
    <3>1. k \in 1..(Len(disk) - 1) /\ k # c /\ k \in 1..Len(disk) BY <1>1, <1>2
    <3> QED BY <3>1, <1>2 DEF BlocksInv
  <2> QED BY <2>1, <2>2, <2>3 DEF BlocksInv
<1>10. OnDisk' = 1..n BY <1>1, <1>2, <1>7, OnDiskIs
<1>11. Cardinality(1..n) = n BY <1>5, FS_Interval
<1>12. Written' = n BY <1>10, <1>11 DEF Written
<1>13. \A k \in 1..(c - 1) : disk'[k] = disk[k] BY <1>1, <1>2
<1>14. disk'[c] = page BY <1>1, <1>2
<1> QED BY <1>2, <1>3, <1>5, <1>9, <1>12, <1>13, <1>14

(* A block is appended to the file, or written when it has nothing. *)
LEMMA EmptyBlock ==
  ASSUME TypeInv, BlocksInv, NEW pg \in Pages, NEW k \in Nat \ {0},
         disk' \in Seq(Pages), Len(disk') = k, \A j \in 1..(k - 1) : disk'[j] = disk[j],
         disk'[k] = pg, pg = ZeroPage \/ pg.boundary = BlockSize,
         \/ k = Len(disk) + 1 /\ (k = 1 \/ disk[k - 1].boundary \in {0, 1})
         \/ k = Len(disk) /\ disk[k] = ZeroPage
  PROVE  /\ BlocksInv' /\ Written' = Written
         /\ \A j \in 0..(k - 1) : Upto(j)' = Upto(j)
         /\ Upto(k - 1)' = Written /\ Upto(k)' = Written
<1>1. Len(disk) \in Nat /\ k - 1 \in 0..Len(disk) BY DEF TypeInv, Typed
<1>2. \A j \in 0..(k - 1) : InBlocks(j)' = InBlocks(j) /\ Upto(j)' = Upto(j)
  BY <1>1, BlocksSame
<1>3. PICK m : m = Upto(k - 1) /\ m \in Nat /\ InBlocks(k - 1) = 1..m
  BY <1>1 DEF BlocksInv
<1>4. Has(pg, m, m) /\ RecordsIn(pg) = {}
  <2>1. CASE pg = ZeroPage BY <2>1, ZeroPageTyped DEF Has, HasFrom
  <2>2. CASE pg.boundary = BlockSize BY <2>2, <1>3 DEF Has, HasFrom, RecordsIn
  <2> QED BY <2>1, <2>2
<1>5. InBlocks(k)' = 1..m
  <2>1. InBlocks(k)' = InBlocks(k - 1)' \cup RecordsIn(disk[k])'
    BY LastBlock
  <2>2. RecordsIn(disk[k])' = RecordsIn(pg) BY DEF RecordsIn
  <2> QED BY <2>1, <2>2, <1>1, <1>2, <1>3, <1>4
<1>6. Upto(k)' = m BY <1>5, <1>3, FS_Interval DEF Upto
<1>7. Written = m
  <2>1. Written = Upto(Len(disk)) BY AllBlocks
  <2>2. CASE k = Len(disk) + 1 BY <2>1, <2>2, <1>1, <1>3
  <2>3. CASE k = Len(disk) /\ disk[k] = ZeroPage
    <3>1. Has(ZeroPage, Upto(k - 1), Upto(k)) BY <2>3, <1>1 DEF BlocksInv
    <3>2. Upto(k) = m BY <3>1, <1>3 DEF Has, HasFrom, ZeroPage
    <3> QED BY <3>2, <2>1, <2>3
  <2> QED BY <2>2, <2>3
<1>8. BlocksInv'
  <2>1. \A j \in 0..Len(disk') : Upto(j)' \in Nat /\ InBlocks(j)' = 1..Upto(j)'
    <3> SUFFICES ASSUME NEW j \in 0..Len(disk')
                 PROVE  Upto(j)' \in Nat /\ InBlocks(j)' = 1..Upto(j)'
      OBVIOUS
    <3>1. CASE j = k BY <3>1, <1>3, <1>5, <1>6
    <3>2. CASE j # k
      <4>1. j \in 0..(k - 1) /\ j \in 0..Len(disk) BY <3>2, <1>1
      <4> QED BY <4>1, <1>2 DEF BlocksInv
    <3> QED BY <3>1, <3>2
  <2>2. \A j \in 1..Len(disk') : Has(disk'[j], Upto(j - 1)', Upto(j)')
    <3> SUFFICES ASSUME NEW j \in 1..Len(disk')
                 PROVE  Has(disk'[j], Upto(j - 1)', Upto(j)')
      OBVIOUS
    <3>1. CASE j = k BY <3>1, <1>1, <1>2, <1>3, <1>4, <1>6
    <3>2. CASE j # k
      <4>1. j \in 1..(k - 1) /\ j - 1 \in 0..(k - 1) /\ j \in 0..(k - 1) /\ j \in 1..Len(disk)
        BY <3>2, <1>1
      <4> QED BY <4>1, <1>2 DEF BlocksInv
    <3> QED BY <3>1, <3>2
  <2>3. \A j \in 1..(Len(disk') - 1) : disk'[j].boundary \in {0, 1}
    <3> SUFFICES ASSUME NEW j \in 1..(k - 1) PROVE disk[j].boundary \in {0, 1} OBVIOUS
    <3>1. CASE k = Len(disk) BY <3>1 DEF BlocksInv
    <3>2. CASE k = Len(disk) + 1 /\ j = k - 1 BY <3>2, <1>1
    <3>3. CASE k = Len(disk) + 1 /\ j # k - 1 BY <3>3, <1>1 DEF BlocksInv
    <3> QED BY <3>1, <3>2, <3>3
  <2> QED BY <2>1, <2>2, <2>3 DEF BlocksInv
<1>9. OnDisk' = 1..m BY <1>5, OnDiskIs
<1>10. Cardinality(1..m) = m BY <1>3, FS_Interval
<1>11. Written' = m BY <1>9, <1>10 DEF Written
<1>12. Upto(k - 1)' = m BY <1>1, <1>2, <1>3
<1> QED BY <1>2, <1>6, <1>7, <1>8, <1>11, <1>12

(* The counts do not depend on how the block's number is written. *)
LEMMA UptoAt ==
  ASSUME NEW k
  PROVE  /\ cur' = k => Upto(cur - 1)' = Upto(k - 1)'
         /\ \A p \in Procs : it'[p].blk = k => Upto(it[p].blk - 1)' = Upto(k - 1)'
BY DEF Upto, InBlocks

(* A step that does not move an iterator, nor write the blocks before the  *)
(* last one.                                                               *)
LEMMA PlacedSame ==
  ASSUME TypeInv, NEW p \in Procs, IsPlaced(p),
         it'[p] = it[p], seen'[p] = seen[p], from'[p] = from[p],
         Len(disk') \in Nat, Len(disk) <= Len(disk'),
         \A k \in 1..(Len(disk) - 1) : disk'[k] = disk[k]
  PROVE  IsPlaced(p)'
<1>1. PICK k : k = it[p].blk /\ k \in 1..Len(disk) /\ Len(disk) \in Nat
  BY DEF IsPlaced, TypeInv, Typed
<1>2. k - 1 \in 0..(Len(disk) - 1) /\ Len(disk) - 1 \in Nat BY <1>1
<1>3. Upto(k - 1)' = Upto(k - 1) BY <1>2, BlocksSame
<1>4. Returned(p)' = Returned(p) /\ Remaining(p)' = Remaining(p) BY DEF Returned, Remaining
<1>5. Upto(it[p].blk - 1)' = Upto(it[p].blk - 1) BY <1>1, <1>3, UptoAt
<1>6. it[p].blk \in 1..Len(disk') BY <1>1
<1> QED BY <1>4, <1>5, <1>6 DEF IsPlaced

LEMMA IteratorsStay ==
  ASSUME TypeInv, IteratorInv, UNCHANGED <<it, seen, from>>,
         \A p \in Procs : pc'[p] = "iterating" <=> pc[p] = "iterating",
         Len(disk') \in Nat, Len(disk) <= Len(disk'),
         \A k \in 1..(Len(disk) - 1) : disk'[k] = disk[k]
  PROVE  IteratorInv'
<1>1. ASSUME NEW p \in Procs, pc[p] = "iterating" PROVE IsPlaced(p)'
  <2>1. IsPlaced(p) BY <1>1 DEF IteratorInv
  <2> QED BY <2>1, PlacedSame
<1>2. ASSUME NEW p \in Procs, pc[p] # "iterating" PROVE seen'[p] = <<>>
  BY <1>2 DEF IteratorInv
<1> QED BY <1>1, <1>2 DEF IteratorInv

(* A step that leaves the file as it is. *)
LEMMA FileSame ==
  ASSUME TypeInv, BlocksInv, disk' = disk
  PROVE  BlocksInv' /\ Written' = Written /\ \A k \in 0..Len(disk) : Upto(k)' = Upto(k)
<1>1. \A k : RecordsIn(disk[k])' = RecordsIn(disk[k]) BY DEF RecordsIn
<1>2. \A k : InBlocks(k)' = InBlocks(k) /\ Upto(k)' = Upto(k) BY <1>1 DEF InBlocks, Upto
<1>3. Written' = Written BY DEF Written, OnDisk, RecordsIn
<1>4. BlocksInv' BY <1>2 DEF BlocksInv
<1> QED BY <1>2, <1>3, <1>4

(* A step that leaves the page and the blocks before its own as they are. *)
LEMMA CurrentSame ==
  ASSUME TypeInv, BlocksInv, cur # 0, IsCurrent, UNCHANGED <<cur, page, base, latestLSN>>,
         \A k \in 1..(cur - 1) : disk'[k] = disk[k]
  PROVE  IsCurrent'
<1>1. PICK k : k = cur /\ k - 1 \in Nat BY DEF TypeInv, TypeOK, Typed
<1>2. Upto(k - 1)' = Upto(k - 1) BY <1>1, BlocksSame
<1>3. Upto(cur - 1)' = Upto(cur - 1) BY <1>1, <1>2, UptoAt
<1> QED BY <1>3 DEF IsCurrent

(* A record put into the page. *)
LEMMA PutCurrent ==
  ASSUME TypeInv, BlocksInv, cur # 0, IsCurrent, page.boundary \in 2..BlockSize, PutRecord,
         UNCHANGED <<disk, cur, base>>
  PROVE  IsCurrent'
<1>1. PICK k : k = cur /\ k - 1 \in Nat /\ k - 1 \in 0..Len(disk)
  BY DEF TypeInv, TypeOK, Typed
<1>2. Upto(k - 1)' = Upto(k - 1) BY <1>1, FileSame
<1>3. Upto(cur - 1)' = Upto(k - 1) BY <1>1, <1>2, UptoAt
<1>4. PICK m, n : m = Upto(k - 1) /\ m \in Nat /\ n = base + latestLSN /\ n \in Nat
  BY <1>1 DEF BlocksInv, TypeInv, Typed
<1>5. Has(page', m, n + 1) BY <1>1, <1>4, PutHas DEF IsCurrent
<1>6. base' + latestLSN' = n + 1 BY <1>4 DEF PutRecord, TypeInv, Typed
<1> QED BY <1>3, <1>4, <1>5, <1>6 DEF IsCurrent

LEMMA InitLogInv == Init => LogInv
<1> SUFFICES ASSUME Init PROVE LogInv OBVIOUS
<1>1. Len(disk) = 0 /\ OnDisk = {} BY DEF Init, OnDisk
<1>2. BlocksInv BY <1>1, NoBlocks DEF BlocksInv
<1>3. Written = 0 BY <1>1, FS_EmptySet DEF Written
<1>4. PageInv /\ IteratorInv BY DEF Init, PageInv, IteratorInv
<1>5. WrittenInv BY <1>3 DEF Init, WrittenInv, Flushing
<1> QED BY <1>2, <1>4, <1>5 DEF LogInv

(* An iterator returns the next record, the newest of those ahead of it. *)
LEMMA NextStep ==
  ASSUME TypeInv, LogInv, NEW p \in Procs, IteratorNext(p)
  PROVE  IsPlaced(p)'
<1>1. /\ pc[p] = "iterating" /\ HasNext(it[p]) /\ UNCHANGED <<disk, from>>
      /\ Positioned(it[p]).pos < BlockSize
  BY DEF IteratorNext
<1>2. IsPlaced(p) BY <1>1 DEF LogInv, IteratorInv
<1>3. PICK i : i = Positioned(it[p]) OBVIOUS
<1>4. i \in Iterators BY <1>1, <1>3, IteratorTyped
<1>5. PICK R : R = Remaining(p) /\ R \in Nat BY <1>2 DEF IsPlaced
<1>6. /\ i.blk \in 1..Len(disk)
      /\ HasFrom(i.page, i.pos, Upto(i.blk - 1), R)
  <2>1. CASE it[p].pos # BlockSize BY <2>1, <1>2, <1>3, <1>5 DEF IsPlaced, Positioned
  <2>2. CASE it[p].pos = BlockSize
    <3>1. PICK b : b = it[p].blk - 1 /\ b \in 1..Len(disk)
      BY <2>2, <1>1, <1>2 DEF IsPlaced, HasNext, TypeInv, Typed
    <3>2. i.blk = b /\ i.pos = disk[b].boundary /\ i.page = disk[b]
      BY <2>2, <3>1, <1>3 DEF Positioned, moveToBlock
    <3>3. Upto(b) \in Nat BY <3>1 DEF LogInv, BlocksInv
    <3>4. R = Upto(b)
      BY <2>2, <3>1, <3>3, <1>2, <1>5 DEF IsPlaced, HasFrom, TypeInv, Typed
    <3>5. Has(disk[b], Upto(b - 1), Upto(b)) BY <3>1 DEF LogInv, BlocksInv
    <3> QED BY <3>1, <3>2, <3>4, <3>5 DEF Has
  <2> QED BY <2>1, <2>2
<1>7. PICK m : m = Upto(i.blk - 1) /\ m \in Nat
  <2>1. i.blk - 1 \in 0..Len(disk) BY <1>6 DEF TypeInv, Typed
  <2> QED BY <2>1 DEF LogInv, BlocksInv
<1>8. i.pos \in 0..PageSize BY <1>1, <1>3, <1>4
<1>9. PICK r : r = i.page.rec[i.pos] OBVIOUS
<1>10. r \in 0..MaxRecords BY <1>4, <1>8, <1>9 DEF Pages
<1>11. PICK s : s = seen[p] /\ s \in Seq(0..MaxRecords) BY DEF TypeInv, Typed
<1>12. seen'[p] = Append(s, r) BY <1>3, <1>9, <1>11 DEF IteratorNext, TypeInv, Typed
<1>13. /\ it'[p].blk = i.blk /\ it'[p].pos = i.pos + 1 /\ it'[p].page = i.page
  <2>1. it'[p] = [i EXCEPT !.pos = @ + 1] BY <1>3 DEF IteratorNext, TypeInv, Typed
  <2> QED BY <2>1, <1>4
<1>14. it'[p].blk \in 1..Len(disk') /\ Upto(it[p].blk - 1)' = m
  <2>1. Upto(i.blk - 1)' = m BY <1>1, <1>6, <1>7 DEF Upto, InBlocks, RecordsIn
  <2>2. it'[p].blk = i.blk BY <1>13
  <2>3. Upto(it[p].blk - 1)' = Upto(i.blk - 1)' BY <2>2 DEF Upto, InBlocks, RecordsIn
  <2> QED BY <2>1, <2>2, <2>3, <1>1, <1>6
<1> DEFINE K == Returned(p)
<1>15. K = {k \in 1..Len(s) : s[k] # Junk} BY <1>11 DEF Returned
<1>16. IsFiniteSet(K) /\ Cardinality(K) \in Nat
  <2>1. Len(s) \in Nat /\ K \subseteq 1..Len(s) BY <1>11, <1>15
  <2>2. IsFiniteSet(1..Len(s)) BY <2>1, FS_Interval
  <2>3. IsFiniteSet(K) BY <2>1, <2>2, FS_Subset
  <2> QED BY <2>3, FS_CardinalityType
<1>17. R = from[p] - Cardinality(K) /\ from[p] \in Nat /\ from'[p] = from[p]
  BY <1>1, <1>5 DEF Remaining, TypeInv, Typed
<1>18. \A k \in K : s[k] = from[p] - Cardinality({j \in K : j < k})
  BY <1>2, <1>11 DEF IsPlaced
<1>19. /\ Len(seen'[p]) = Len(s) + 1 /\ seen'[p][Len(s) + 1] = r
       /\ \A k \in 1..Len(s) : seen'[p][k] = s[k]
       /\ Len(s) \in Nat
  BY <1>10, <1>11, <1>12, AppendProperties
<1> HIDE DEF K
<1>20. CASE i.page = ZeroPage /\ R = m
  <2>1. r = Junk BY <1>8, <1>9, <1>20 DEF ZeroPage
  <2>2. Returned(p)' = K BY <2>1, <1>15, <1>19 DEF Returned
  <2>3. Remaining(p)' = R BY <2>2, <1>17 DEF Remaining
  <2>4. \A k \in K : seen'[p][k] = from'[p] - Cardinality({j \in K : j < k})
    BY <1>15, <1>17, <1>18, <1>19
  <2>5. HasFrom(it[p].page, it[p].pos, Upto(it[p].blk - 1), Remaining(p))'
    BY <2>3, <1>13, <1>14, <1>20 DEF HasFrom
  <2> QED BY <2>2, <2>3, <2>4, <2>5, <1>5, <1>14 DEF IsPlaced
<1>21. CASE ~(i.page = ZeroPage /\ R = m)
  <2>1. /\ i.page.boundary # 0 /\ i.pos \in i.page.boundary..BlockSize
        /\ R = m + BlockSize - i.pos
        /\ \A j \in i.pos..PageSize : i.page.rec[j] = R + i.pos - j
    BY <1>6, <1>7, <1>21 DEF HasFrom
  <2>2. r = R /\ R # 0 BY <2>1, <1>5, <1>7, <1>8, <1>9
  <2>3. Returned(p)' = K \cup {Len(s) + 1} BY <2>2, <1>15, <1>19 DEF Returned
  <2>4. Len(s) + 1 \notin K BY <1>15, <1>19
  <2>5. Cardinality(K \cup {Len(s) + 1}) = Cardinality(K) + 1
    BY <2>4, <1>16, FS_AddElement
  <2>6. Remaining(p)' = R - 1 BY <2>3, <2>5, <1>16, <1>17 DEF Remaining
  <2>7. ASSUME NEW k \in Returned(p)'
        PROVE  seen'[p][k] = from'[p] - Cardinality({j \in Returned(p)' : j < k})
    <3>1. CASE k = Len(s) + 1
      <4>1. {j \in Returned(p)' : j < k} = K BY <3>1, <2>3, <1>15, <1>19
      <4> QED BY <4>1, <3>1, <2>2, <1>17, <1>19
    <3>2. CASE k \in K
      <4>1. {j \in Returned(p)' : j < k} = {j \in K : j < k} BY <3>2, <2>3, <1>15, <1>19
      <4> QED BY <4>1, <3>2, <1>15, <1>17, <1>18, <1>19
    <3> QED BY <2>3, <2>7, <3>1, <3>2
  <2>8. HasFrom(i.page, i.pos + 1, m, R - 1)
    <3>1. i.page.boundary \in 0..BlockSize BY <1>4 DEF Pages
    <3>2. i.pos + 1 \in i.page.boundary..BlockSize /\ R - 1 = m + BlockSize - (i.pos + 1)
      BY <3>1, <2>1, <1>5, <1>7, <1>8
    <3>3. \A j \in (i.pos + 1)..PageSize : i.page.rec[j] = (R - 1) + (i.pos + 1) - j
      BY <2>1, <1>4, <1>5, <1>7, <1>8
    <3> QED BY <3>2, <3>3, <2>1 DEF HasFrom
  <2>9. HasFrom(it[p].page, it[p].pos, Upto(it[p].blk - 1), Remaining(p))'
    BY <2>6, <2>8, <1>13, <1>14
  <2>10. Remaining(p)' \in Nat BY <2>2, <2>6, <1>5
  <2> QED BY <2>7, <2>9, <2>10, <1>14 DEF IsPlaced
<1> QED BY <1>20, <1>21

(* The two writes of appendNewBlock. *)
LEMMA AppendsBlock ==
  ASSUME TypeInv, TypeInv', LogInv, AppendBlock
  PROVE  /\ BlocksInv' /\ Written' = Written
         /\ Len(disk') = Len(disk) + 1 /\ disk'[Len(disk) + 1] = ZeroPage
         /\ \A k \in 1..Len(disk) : disk'[k] = disk[k]
<1>1. stage = "append" /\ disk' = Append(disk, ZeroPage) BY DEF AppendBlock
<1>2. PICK k : k = Len(disk) + 1 /\ k \in Nat \ {0} BY DEF TypeInv, Typed
<1>3. /\ Len(disk') = k /\ disk'[k] = ZeroPage /\ k - 1 = Len(disk)
      /\ \A j \in 1..Len(disk) : disk'[j] = disk[j]
  BY <1>1, <1>2, ZeroPageTyped, AppendProperties DEF TypeInv, Typed
<1>4. k = 1 \/ disk[k - 1].boundary \in {0, 1}
  BY <1>1, <1>2, <1>3, EmptySeq DEF LogInv, PageInv
<1>5. disk' \in Seq(Pages) BY DEF TypeInv, Typed
<1>6. \A j \in 1..(k - 1) : disk'[j] = disk[j] BY <1>3
<1>7. BlocksInv' /\ Written' = Written
  BY <1>2, <1>3, <1>4, <1>5, <1>6, ZeroPageTyped, EmptyBlock DEF LogInv
<1> QED BY <1>2, <1>3, <1>7

LEMMA WritesBlock ==
  ASSUME TypeInv, TypeInv', LogInv, WriteBlock
  PROVE  /\ BlocksInv' /\ Written' = Written
         /\ Len(disk) \in 1..Len(disk)
         /\ \A k : k = Len(disk) => Upto(k - 1)' = Written
<1>1. /\ stage = "write" /\ page.boundary = BlockSize /\ disk[Len(disk)] = ZeroPage
      /\ disk # <<>> /\ disk' = [disk EXCEPT ![Len(disk)] = page]
  BY DEF WriteBlock, LogInv, PageInv, TypeInv, Stages
<1>2. PICK k : k = Len(disk) /\ k \in 1..Len(disk) /\ k \in Nat \ {0}
  <2>1. Len(disk) # 0 /\ Len(disk) \in Nat BY <1>1, EmptySeq DEF TypeInv, Typed
  <2> QED BY <2>1
<1>3. Len(disk') = k /\ disk'[k] = page /\ \A j \in 1..(k - 1) : disk'[j] = disk[j]
  BY <1>1, <1>2, WriteTyped
<1>4. disk' \in Seq(Pages) /\ page \in Pages BY DEF TypeInv, Typed
<1>5. BlocksInv' /\ Written' = Written /\ Upto(k - 1)' = Written
  BY <1>1, <1>2, <1>3, <1>4, EmptyBlock DEF LogInv
<1> QED BY <1>2, <1>5

LEMMA NextLogInv ==
  ASSUME ~Overlap
  PROVE  IInv /\ [Next]_vars => LogInv'
<1> SUFFICES ASSUME TypeInv, LogInv, TypeInv', [Next]_vars PROVE LogInv'
  BY NextTypeInv DEF IInv
<1> USE DEF LogInv
<1>1. Len(disk) \in Nat /\ cur \in 0..Len(disk) /\ Written \in Nat
  BY AllBlocks DEF TypeInv, TypeOK
<1>2. base \in Nat /\ latestLSN \in Nat /\ lastSavedLSN \in 0..latestLSN /\ promised \in Nat
  BY DEF TypeInv, TypeOK, Typed
<1>3. mu = Free <=> stage = "idle" BY DEF TypeInv, Stages
<1>4. ASSUME NEW p \in Procs, Append_(p) PROVE LogInv'
  <2>1. /\ mu = Free /\ stage = "idle" /\ (cur # 0 => cur = Len(disk) /\ IsCurrent)
        /\ UNCHANGED <<disk, cur, lastSavedLSN, base, pc, it, seen, from, promised>>
    BY <1>4, <1>3 DEF Append_, PageInv
  <2>2. \A q \in Procs : ~Flushing(q)' BY <1>4, <2>1 DEF Append_, Undisturbed, Flushing
  <2>3. BlocksInv' /\ Written' = Written BY <2>1, FileSame
  <2>4. IteratorInv' BY <2>1, <1>1, IteratorsStay
  <2>5. CASE Fits /\ PutRecord /\ UNCHANGED lockVars
    <3>1. page.boundary \in 2..BlockSize BY <2>5 DEF Fits, TypeInv, TypeOK, IsPage
    <3>2. cur # 0 => IsCurrent' BY <2>1, <2>5, <3>1, PutCurrent
    <3>3. latestLSN' = latestLSN + 1 BY <2>5 DEF PutRecord
    <3>4. PageInv' BY <2>1, <2>5, <3>2 DEF PageInv
    <3>5. WrittenInv' BY <2>1, <2>2, <2>3, <2>5, <3>3, <1>1, <1>2 DEF WrittenInv
    <3> QED BY <2>3, <2>4, <3>4, <3>5
  <2>6. CASE ~Fits /\ cur # 0 /\ mu' = p /\ stage' = "flush" /\ UNCHANGED <<page, latestLSN>>
    <3>1. IsCurrent' BY <2>1, <2>6, CurrentSame
    <3>2. page.boundary \in {0, 1}
      <4>1. page.boundary \in 0..BlockSize BY DEF TypeInv, TypeOK, IsPage
      <4>2. ~(page.boundary - 1 >= 1) BY <2>6 DEF Fits
      <4> QED BY <4>1, <4>2
    <3>3. PageInv' BY <2>1, <2>6, <3>1, <3>2 DEF PageInv
    <3>4. WrittenInv' BY <2>1, <2>2, <2>3, <2>6 DEF WrittenInv
    <3> QED BY <2>3, <2>4, <3>3, <3>4
  <2> QED BY <1>4, <2>5, <2>6 DEF Append_
<1>5. ASSUME NEW p \in Procs, NEW lsn \in -1..latestLSN, Flush(p, lsn) PROVE LogInv'
  <2>1. /\ mu = Free /\ stage = "idle"
        /\ UNCHANGED <<page, cur, latestLSN, base, mu, stage, pc, it, seen, from>>
    BY <1>5, <1>3 DEF Flush
  <2>2. CASE lsn >= lastSavedLSN /\ flush
    <3>1. cur # 0 /\ cur = Len(disk) /\ IsCurrent /\ WritePage /\ lastSavedLSN' = latestLSN
      BY <2>1, <2>2 DEF flush, PageInv
    <3>2. /\ BlocksInv' /\ Written' = base + latestLSN
          /\ Len(disk') = Len(disk) /\ disk'[cur] = page
          /\ \A k \in 1..(cur - 1) : disk'[k] = disk[k]
      BY <3>1, WriteCur DEF IsCurrent
    <3>3. IsCurrent' BY <2>1, <3>1, <3>2, CurrentSame
    <3>4. PageInv' BY <2>1, <3>1, <3>2, <3>3 DEF PageInv
    <3>5. promised' <= base + latestLSN BY <1>5, <1>1, <1>2 DEF Flush, WrittenInv
    <3>6. WrittenInv' BY <2>1, <3>1, <3>2, <3>5, <1>2 DEF WrittenInv, Flushing
    <3>7. IteratorInv' BY <2>1, <3>1, <3>2, <1>1, IteratorsStay
    <3> QED BY <3>2, <3>4, <3>6, <3>7
  <2>3. CASE lsn < lastSavedLSN /\ UNCHANGED <<disk, lastSavedLSN>>
    <3>1. BlocksInv' /\ Written' = Written BY <2>3, FileSame
    <3>2. PageInv' BY <2>1, <2>3, CurrentSame DEF PageInv
    <3>3. promised' <= Written
      BY <1>5, <2>3, <1>1, <1>2 DEF Flush, WrittenInv
    <3>4. WrittenInv' BY <2>1, <2>3, <3>1, <3>3 DEF WrittenInv, Flushing
    <3>5. IteratorInv' BY <2>1, <2>3, <1>1, IteratorsStay
    <3> QED BY <3>1, <3>2, <3>4, <3>5
  <2> QED BY <1>5, <2>2, <2>3, <1>2 DEF Flush
<1>6. ASSUME NEW p \in Procs, IteratorWrite(p) PROVE LogInv'
  <2>1. /\ mu = Free /\ stage = "idle" /\ cur # 0 /\ cur = Len(disk) /\ IsCurrent
        /\ WritePage /\ pc[p] = "idle"
        /\ pc' = [pc EXCEPT ![p] = "written"]
        /\ UNCHANGED <<page, cur, latestLSN, lastSavedLSN, base, mu, stage, it, seen, from,
                       promised>>
    BY <1>6, <1>3 DEF IteratorWrite, PageInv
  <2>2. /\ BlocksInv' /\ Written' = base + latestLSN
        /\ Len(disk') = Len(disk) /\ disk'[cur] = page
        /\ \A k \in 1..(cur - 1) : disk'[k] = disk[k]
    BY <2>1, WriteCur DEF IsCurrent
  <2>3. IsCurrent' BY <2>1, <2>2, CurrentSame
  <2>4. PageInv' BY <2>1, <2>2, <2>3 DEF PageInv
  <2>5. WrittenInv' BY <2>1, <2>2, <1>1, <1>2 DEF WrittenInv
  <2>6. \A q \in Procs : pc'[q] = "iterating" <=> pc[q] = "iterating"
    BY <2>1 DEF TypeInv, TypeOK
  <2>7. IteratorInv' BY <2>1, <2>2, <2>6, <1>1, IteratorsStay
  <2> QED BY <2>2, <2>4, <2>5, <2>7
<1>7. ASSUME NEW p \in Procs, IteratorSave(p) PROVE LogInv'
  <2>1. /\ pc[p] = "written" /\ lastSavedLSN' = latestLSN
        /\ pc' = [pc EXCEPT ![p] = "saved"]
        /\ UNCHANGED <<disk, page, cur, latestLSN, base, mu, stage, it, seen, from, promised>>
    BY <1>7 DEF IteratorSave
  <2>2. BlocksInv' /\ Written' = Written BY <2>1, FileSame
  <2>3. PageInv' BY <2>1, CurrentSame DEF PageInv
  <2>4. \A q \in Procs : Flushing(q)' => Flushing(q)
    BY <2>1 DEF Flushing, TypeInv, TypeOK
  <2>5. Written = base + latestLSN BY <2>1 DEF WrittenInv, Flushing
  <2>6. WrittenInv' BY <2>1, <2>2, <2>4, <2>5, <1>1, <1>2 DEF WrittenInv
  <2>7. \A q \in Procs : pc'[q] = "iterating" <=> pc[q] = "iterating"
    BY <2>1 DEF TypeInv, TypeOK
  <2>8. IteratorInv' BY <2>1, <2>7, <1>1, IteratorsStay
  <2> QED BY <2>2, <2>3, <2>6, <2>8
<1>8. ASSUME NEW p \in Procs, NewIterator(p) PROVE LogInv'
  <2>1. /\ pc[p] = "saved" /\ cur # 0 /\ mu = Free /\ stage = "idle" /\ cur = Len(disk)
        /\ it' = [it EXCEPT ![p] = moveToBlock(cur)]
        /\ from' = [from EXCEPT ![p] = Written]
        /\ pc' = [pc EXCEPT ![p] = "iterating"]
        /\ UNCHANGED <<disk, page, cur, latestLSN, lastSavedLSN, base, mu, stage, seen,
                       promised>>
    BY <1>8, <1>3 DEF NewIterator, PageInv, WrittenInv, Flushing, Written
  <2>2. BlocksInv' /\ Written' = Written /\ \A k \in 0..Len(disk) : Upto(k)' = Upto(k)
    BY <2>1, FileSame
  <2>3. PageInv' BY <2>1, CurrentSame DEF PageInv
  <2>4. \A q \in Procs : Flushing(q)' => Flushing(q)
    BY <2>1 DEF Flushing, TypeInv, TypeOK
  <2>5. WrittenInv' BY <2>1, <2>2, <2>4 DEF WrittenInv
  <2>6. IsPlaced(p)'
    <3>1. it'[p] = moveToBlock(cur) /\ from'[p] = Written /\ seen'[p] = <<>>
      BY <2>1 DEF IteratorInv, TypeInv, Typed
    <3>2. it'[p].blk = cur /\ it'[p].pos = disk[cur].boundary /\ it'[p].page = disk[cur]
      BY <3>1 DEF moveToBlock
    <3>3. Returned(p)' = {} BY <3>1 DEF Returned
    <3>4. Remaining(p)' = Written BY <3>1, <3>3, <1>1, FS_EmptySet DEF Remaining
    <3>5. PICK k : k = cur /\ k \in 1..Len(disk) BY <2>1, <1>1
    <3>6. Has(disk[k], Upto(k - 1), Written) BY <3>5, <2>1, AllBlocks DEF BlocksInv
    <3>7. Upto(it[p].blk - 1)' = Upto(k - 1)
      <4>1. Upto(k - 1)' = Upto(k - 1) BY <3>5, <2>2, <1>1
      <4>2. it'[p].blk = k BY <3>2, <3>5
      <4> QED BY <4>1, <4>2, UptoAt
    <3> QED BY <3>2, <3>3, <3>4, <3>5, <3>6, <3>7, <2>1, <1>1 DEF IsPlaced, Has
  <2>7. IteratorInv'
    <3>1. ASSUME NEW q \in Procs, q # p
          PROVE  IF pc'[q] = "iterating" THEN IsPlaced(q)' ELSE seen'[q] = <<>>
      <4>1. /\ pc'[q] = pc[q] /\ it'[q] = it[q] /\ from'[q] = from[q]
        BY <2>1, <3>1 DEF TypeInv, TypeOK, Typed
      <4> QED BY <4>1, <2>1, <1>1, PlacedSame DEF IteratorInv
    <3> QED BY <3>1, <2>1, <2>6 DEF IteratorInv, TypeInv, TypeOK
  <2> QED BY <2>2, <2>3, <2>5, <2>7
<1>9. ASSUME NEW p \in Procs, IteratorNext(p) PROVE LogInv'
  <2>1. /\ pc[p] = "iterating"
        /\ UNCHANGED <<disk, page, cur, latestLSN, lastSavedLSN, base, mu, stage, pc, from,
                       promised>>
        /\ \A q \in Procs \ {p} : it'[q] = it[q] /\ seen'[q] = seen[q]
    BY <1>9 DEF IteratorNext, TypeInv, Typed
  <2>2. BlocksInv' /\ Written' = Written BY <2>1, FileSame
  <2>3. PageInv' BY <2>1, CurrentSame DEF PageInv
  <2>4. WrittenInv' BY <2>1, <2>2 DEF WrittenInv, Flushing
  <2>5. IsPlaced(p)' BY <1>9, NextStep
  <2>6. IteratorInv'
    <3>1. ASSUME NEW q \in Procs, q # p
          PROVE  IF pc'[q] = "iterating" THEN IsPlaced(q)' ELSE seen'[q] = <<>>
      BY <3>1, <2>1, <1>1, PlacedSame DEF IteratorInv
    <3> QED BY <3>1, <2>1, <2>5 DEF IteratorInv
  <2> QED BY <2>2, <2>3, <2>4, <2>6
<1>10. ASSUME NEW p \in Procs, IteratorDrop(p) PROVE LogInv'
  <2>1. /\ UNCHANGED <<disk, page, cur, latestLSN, lastSavedLSN, base, mu, stage, promised>>
        /\ pc'[p] = "idle" /\ seen'[p] = <<>>
        /\ \A q \in Procs \ {p} :
             pc'[q] = pc[q] /\ it'[q] = it[q] /\ seen'[q] = seen[q] /\ from'[q] = from[q]
    BY <1>10 DEF IteratorDrop, TypeInv, TypeOK, Typed
  <2>2. BlocksInv' /\ Written' = Written BY <2>1, FileSame
  <2>3. PageInv' BY <2>1, CurrentSame DEF PageInv
  <2>4. \A q \in Procs : Flushing(q)' => Flushing(q) BY <2>1 DEF Flushing
  <2>5. WrittenInv' BY <2>1, <2>2, <2>4 DEF WrittenInv
  <2>6. IteratorInv'
    <3>1. ASSUME NEW q \in Procs, q # p
          PROVE  IF pc'[q] = "iterating" THEN IsPlaced(q)' ELSE seen'[q] = <<>>
      BY <3>1, <2>1, <1>1, PlacedSame DEF IteratorInv
    <3> QED BY <3>1, <2>1 DEF IteratorInv
  <2> QED BY <2>2, <2>3, <2>5, <2>6
<1>11. ASSUME AppendFlush PROVE LogInv'
  <2>1. /\ stage = "flush" /\ cur # 0 /\ cur = Len(disk) /\ IsCurrent /\ WritePage
        /\ mu # Free /\ page.boundary \in {0, 1}
        /\ lastSavedLSN' = latestLSN /\ stage' = "append"
        /\ UNCHANGED <<page, cur, latestLSN, base, mu, pc, it, seen, from, promised>>
    BY <1>11, <1>3 DEF AppendFlush, flush, PageInv
  <2>2. /\ BlocksInv' /\ Written' = base + latestLSN
        /\ Len(disk') = Len(disk) /\ disk'[cur] = page
        /\ \A k \in 1..(cur - 1) : disk'[k] = disk[k]
    BY <2>1, WriteCur DEF IsCurrent
  <2>3. IsCurrent' BY <2>1, <2>2, CurrentSame
  <2>4. disk'[Len(disk')] = page BY <2>1, <2>2
  <2>5. PageInv' BY <2>1, <2>3, <2>4 DEF PageInv
  <2>6. WrittenInv' BY <2>1, <2>2, <1>1, <1>2 DEF WrittenInv, Flushing
  <2>7. IteratorInv' BY <2>1, <2>2, <1>1, IteratorsStay
  <2> QED BY <2>2, <2>5, <2>6, <2>7
<1>12. ASSUME AppendBlock PROVE LogInv'
  <2>1. /\ stage = "append" /\ mu # Free /\ stage' = "header"
        /\ disk' = Append(disk, ZeroPage)
        /\ UNCHANGED <<page, cur, latestLSN, lastSavedLSN, base, mu, pc, it, seen, from,
                       promised>>
    BY <1>12, <1>3 DEF AppendBlock
  <2>2. /\ BlocksInv' /\ Written' = Written
        /\ Len(disk') = Len(disk) + 1 /\ disk'[Len(disk) + 1] = ZeroPage
        /\ \A k \in 1..Len(disk) : disk'[k] = disk[k]
    BY <1>12, AppendsBlock
  <2>3. IsCurrent' \/ cur = 0 BY <2>1, <2>2, <1>1, CurrentSame DEF PageInv
  <2>4. PageInv' BY <2>1, <2>2, <2>3 DEF PageInv
  <2>5. WrittenInv' BY <2>1, <2>2, <1>1, <1>2 DEF WrittenInv, Flushing
  <2>6. IteratorInv' BY <2>1, <2>2, <1>1, IteratorsStay
  <2> QED BY <2>2, <2>4, <2>5, <2>6
<1>13. ASSUME SetHeader PROVE LogInv'
  <2>1. /\ stage = "header" /\ mu # Free /\ stage' = "write"
        /\ UNCHANGED <<disk, cur, latestLSN, lastSavedLSN, base, mu, pc, it, seen, from,
                       promised>>
    BY <1>13, <1>3 DEF SetHeader
  <2>2. BlocksInv' /\ Written' = Written BY <2>1, FileSame
  <2>3. PageInv' BY <2>1 DEF PageInv
  <2>4. WrittenInv' BY <2>1, <2>2 DEF WrittenInv, Flushing
  <2>5. IteratorInv' BY <2>1, <1>1, IteratorsStay
  <2> QED BY <2>2, <2>3, <2>4, <2>5
<1>14. ASSUME WriteBlock PROVE LogInv'
  <2>1. /\ stage = "write" /\ mu # Free /\ stage' \in {"idle", "put"}
        /\ page.boundary = BlockSize /\ disk[Len(disk)] = ZeroPage /\ disk # <<>>
        /\ disk' = [disk EXCEPT ![Len(disk)] = page] /\ cur' = Len(disk)
        /\ Written = base + latestLSN
        /\ UNCHANGED <<page, latestLSN, lastSavedLSN, base, pc, it, seen, from, promised>>
    BY <1>14, <1>3 DEF WriteBlock, PageInv, WrittenInv, TypeInv, Stages
  <2>2. PICK k : k = Len(disk) /\ k \in 1..Len(disk) BY <1>14, WritesBlock
  <2>3. Len(disk') = k /\ disk'[k] = page /\ \A j \in 1..(k - 1) : disk'[j] = disk[j]
    BY <2>1, <2>2, WriteTyped
  <2>4. BlocksInv' /\ Written' = Written /\ Upto(k - 1)' = Written
    BY <1>14, <2>2, WritesBlock
  <2>5. IsCurrent'
    <3>1. Upto(cur - 1)' = Written BY <2>1, <2>2, <2>4, UptoAt
    <3> QED BY <3>1, <2>1, <1>1 DEF IsCurrent, Has, HasFrom
  <2>6. PageInv' BY <2>1, <2>2, <2>3, <2>5 DEF PageInv
  <2>7. \A p \in Procs : ~Flushing(p)' BY <2>1 DEF WrittenInv, Flushing
  <2>8. WrittenInv' BY <2>1, <2>4, <2>7, <1>1, <1>2 DEF WrittenInv
  <2>9. IteratorInv' BY <2>1, <2>2, <2>3, <1>1, IteratorsStay
  <2> QED BY <2>4, <2>6, <2>8, <2>9
<1>15. ASSUME AppendPut PROVE LogInv'
  <2>1. /\ stage = "put" /\ mu # Free /\ PutRecord /\ stage' = "idle"
        /\ page.boundary = BlockSize /\ cur # 0 /\ cur = Len(disk) /\ IsCurrent
        /\ UNCHANGED <<disk, cur, lastSavedLSN, base, pc, it, seen, from, promised>>
    BY <1>15, <1>3 DEF AppendPut, PageInv, TypeInv, Stages
  <2>2. BlocksInv' /\ Written' = Written BY <2>1, FileSame
  <2>3. IsCurrent' BY <2>1, PutCurrent
  <2>4. PageInv' BY <2>1, <2>3 DEF PageInv
  <2>5. \A p \in Procs : ~Flushing(p)' BY <2>1 DEF WrittenInv, Flushing
  <2>6. latestLSN' = latestLSN + 1 BY <2>1 DEF PutRecord
  <2>7. WrittenInv' BY <2>1, <2>2, <2>5, <2>6, <1>1, <1>2 DEF WrittenInv
  <2>8. IteratorInv' BY <2>1, <1>1, IteratorsStay
  <2> QED BY <2>2, <2>4, <2>7, <2>8
<1>16. ASSUME AppendFails PROVE LogInv'
  <2>1. /\ mu # Free /\ stage \in {"flush", "append", "write"} /\ stage' = "idle"
        /\ cur' = IF stage = "flush" THEN cur ELSE 0
        /\ UNCHANGED <<disk, page, latestLSN, lastSavedLSN, base, pc, it, seen, from,
                       promised>>
    BY <1>16, <1>3 DEF AppendFails
  <2>2. BlocksInv' /\ Written' = Written BY <2>1, FileSame
  <2>3. PageInv' BY <2>1, CurrentSame DEF PageInv
  <2>4. \A p \in Procs : ~Flushing(p)' BY <2>1 DEF WrittenInv, Flushing
  <2>5. WrittenInv' BY <2>1, <2>2, <2>4 DEF WrittenInv, PageInv
  <2>6. IteratorInv' BY <2>1, <1>1, IteratorsStay
  <2> QED BY <2>2, <2>3, <2>5, <2>6
<1>17. ASSUME Crash PROVE LogInv'
  <2>1. /\ UNCHANGED <<disk, promised>> /\ latestLSN' = 0 /\ lastSavedLSN' = 0
        /\ base' = Written
        /\ \A p \in Procs : pc'[p] = "idle" /\ seen'[p] = <<>>
    BY <1>17 DEF Crash, NewLogManager, Written
  <2>2. BlocksInv' /\ Written' = Written /\ \A k \in 0..Len(disk) : Upto(k)' = Upto(k)
    BY <2>1, FileSame
  <2>3. PageInv'
    <3>1. CASE disk = <<>>
      BY <1>17, <2>1, <3>1 DEF Crash, NewLogManager, PageInv
    <3>2. CASE disk # <<>>
      <4>1. page' = disk[Len(disk)] /\ cur' = Len(disk) /\ stage' = "idle"
        BY <1>17, <3>2 DEF Crash, NewLogManager, ReadLastBlock
      <4>2. PICK k : k = Len(disk) /\ k \in 1..Len(disk)
        <5>1. Len(disk) # 0 BY <3>2, EmptySeq DEF TypeInv, Typed
        <5> QED BY <5>1, <1>1
      <4>3. Has(disk[k], Upto(k - 1), Written) BY <4>2, AllBlocks DEF BlocksInv
      <4>4. Upto(cur - 1)' = Upto(k - 1)
        <5>1. Upto(k - 1)' = Upto(k - 1) BY <4>2, <2>2, <1>1
        <5> QED BY <5>1, <4>1, <4>2, UptoAt
      <4>5. IsCurrent' BY <4>1, <4>2, <4>3, <4>4, <2>1, <1>1 DEF IsCurrent
      <4> QED BY <4>1, <4>5, <2>1 DEF PageInv
    <3> QED BY <3>1, <3>2
  <2>4. WrittenInv' BY <2>1, <2>2, <1>1 DEF WrittenInv, Flushing
  <2>5. IteratorInv' BY <2>1 DEF IteratorInv
  <2> QED BY <2>2, <2>3, <2>4, <2>5
<1>18. CASE UNCHANGED vars
  <2>1. UNCHANGED <<disk, page, cur, latestLSN, lastSavedLSN, base, mu, stage, pc, it, seen,
                    from, promised>>
    BY <1>18 DEF vars
  <2>2. BlocksInv' /\ Written' = Written BY <2>1, FileSame
  <2>3. PageInv' BY <2>1, CurrentSame DEF PageInv
  <2>4. WrittenInv' BY <2>1, <2>2 DEF WrittenInv, Flushing
  <2>5. IteratorInv' BY <2>1, <1>1, IteratorsStay
  <2> QED BY <2>2, <2>3, <2>4, <2>5
<1> QED
  BY <1>4, <1>5, <1>6, <1>7, <1>8, <1>9, <1>10, <1>11, <1>12, <1>13, <1>14, <1>15, <1>16,
     <1>17, <1>18 DEF Next

----------------------------------------------------------------------------
(* The invariant of all behaviours in which no Iterator overlaps an Append. *)
THEOREM Invariant ==
  ASSUME ~Overlap
  PROVE  Spec => []IInv
<1>1. Init => IInv BY InitTypeInv, InitLogInv DEF IInv
<1>2. IInv /\ [Next]_vars => IInv' BY NextTypeInv, NextLogInv DEF IInv
<1> QED BY <1>1, <1>2, PTL DEF Spec

(***************************************************************************)
(* A record that a Flush has returned for is on disk for good: the two     *)
(* counters that Flush compares are enough, whatever blocks were filled,   *)
(* calls failed and processes crashed in between.                          *)
(***************************************************************************)
LEMMA DurableInv == IInv => FlushedIsDurable
<1> SUFFICES ASSUME IInv PROVE FlushedIsDurable OBVIOUS
<1>1. OnDisk = 1..Written /\ Written \in Nat BY AllBlocks DEF IInv, LogInv
<1>2. promised \in Nat /\ promised <= Written
  BY DEF IInv, LogInv, WrittenInv, TypeInv, Typed
<1> QED BY <1>1, <1>2 DEF FlushedIsDurable

THEOREM FlushedStays ==
  ASSUME ~Overlap
  PROVE  Spec => []FlushedIsDurable
BY Invariant, DurableInv, PTL

(***************************************************************************)
(* An Iterator returns the records that were in the log when it was made,  *)
(* every one once and the newest first, and says that there is a next one  *)
(* exactly as long as there is, while others append, flush and change the  *)
(* block, and after crashes that left blocks without a header.             *)
(***************************************************************************)
LEMMA ReturnsLogInv == IInv => IteratorReturnsLog
<1> SUFFICES ASSUME IInv, NEW p \in Procs, pc[p] = "iterating"
             PROVE  /\ \A k \in Returned(p) :
                         seen[p][k] = from[p] - Cardinality({i \in Returned(p) : i < k})
                    /\ IF HasNext(it[p]) THEN Positioned(it[p]).pos < BlockSize
                                         ELSE Remaining(p) = 0
  BY DEF IteratorReturnsLog
<1>1. IsPlaced(p) BY DEF IInv, LogInv, IteratorInv
<1>2. it[p].pos \in 0..BlockSize /\ it[p].blk \in 1..Len(disk) /\ Len(disk) \in Nat
  BY <1>1 DEF IsPlaced, IInv, TypeInv, TypeOK, Typed
<1>3. ASSUME HasNext(it[p]) PROVE Positioned(it[p]).pos < BlockSize
  <2>1. CASE it[p].pos # BlockSize BY <2>1, <1>2 DEF Positioned
  <2>2. CASE it[p].pos = BlockSize
    <3>1. it[p].blk - 1 \in 1..(Len(disk) - 1) BY <2>2, <1>2, <1>3 DEF HasNext
    <3>2. disk[it[p].blk - 1].boundary \in {0, 1} BY <3>1 DEF IInv, LogInv, BlocksInv
    <3> QED BY <3>2, <2>2 DEF Positioned, moveToBlock
  <2> QED BY <2>1, <2>2
<1>4. ASSUME ~HasNext(it[p]) PROVE Remaining(p) = 0
  <2>1. it[p].pos = BlockSize /\ it[p].blk - 1 = 0 BY <1>2, <1>4 DEF HasNext
  <2>2. Upto(it[p].blk - 1) = 0 BY <2>1, NoBlocks
  <2> QED BY <2>1, <2>2, <1>1 DEF IsPlaced, HasFrom
<1> QED BY <1>1, <1>3, <1>4 DEF IsPlaced

THEOREM ReturnsLog ==
  ASSUME ~Overlap
  PROVE  Spec => []IteratorReturnsLog
BY Invariant, ReturnsLogInv, PTL

----------------------------------------------------------------------------
(***************************************************************************)
(* The log manager implements the durable log on which recovery rests:     *)
(* putting a record into the page is its Append, a write of the page its   *)
(* Persist (all that was appended is then on disk, whichever goroutine     *)
(* wrote it), the restart its Crash.                                       *)
(***************************************************************************)
LEMMA PersistStep ==
  ASSUME IInv, stage \in {"idle", "flush"}, cur # 0, WritePage, UNCHANGED <<base, latestLSN>>
  PROVE  Log!Persist
<1>1. Written' = base + latestLSN BY WriteCur DEF IInv, LogInv, PageInv, IsCurrent
<1> QED BY <1>1 DEF Log!Persist, Written

LEMMA QuietStep ==
  ASSUME Written' = Written, UNCHANGED <<base, latestLSN>>
  PROVE  UNCHANGED <<base + latestLSN, Cardinality(OnDisk)>>
BY DEF Written

LEMMA LogStep ==
  ASSUME ~Overlap
  PROVE  IInv /\ IInv' /\ [Next]_vars => [Log!Next]_<<base + latestLSN, Cardinality(OnDisk)>>
<1> SUFFICES ASSUME IInv, IInv', [Next]_vars
             PROVE  [Log!Next]_<<base + latestLSN, Cardinality(OnDisk)>>
  OBVIOUS
<1> DEFINE Quiet == UNCHANGED <<base + latestLSN, Cardinality(OnDisk)>>
<1>1. TypeInv /\ TypeInv' /\ LogInv /\ BlocksInv /\ Written \in Nat
  BY AllBlocks DEF IInv, LogInv
<1>2. base \in Nat /\ latestLSN \in Nat BY <1>1 DEF TypeInv, Typed
<1>3. ASSUME PutRecord, UNCHANGED <<disk, base>> PROVE Log!Append
  BY <1>2, <1>3, <1>1, FileSame DEF PutRecord, Log!Append, Written
<1>4. ASSUME UNCHANGED <<disk, base, latestLSN>> PROVE Quiet
  BY <1>1, <1>4, FileSame, QuietStep
<1>5. ASSUME NEW p \in Procs, Append_(p) PROVE Log!Append \/ Quiet
  BY <1>5, <1>3, <1>4 DEF Append_
<1>6. ASSUME NEW p \in Procs, NEW lsn \in -1..latestLSN, Flush(p, lsn)
      PROVE  Log!Persist \/ Quiet
  <2>1. stage = "idle" /\ UNCHANGED <<base, latestLSN>>
    BY <1>1, <1>6 DEF Flush, TypeInv, Stages
  <2> QED BY <1>4, <1>6, <2>1, PersistStep DEF Flush, flush
<1>7. ASSUME NEW p \in Procs, IteratorWrite(p) PROVE Log!Persist
  <2>1. stage = "idle" BY <1>1, <1>7 DEF IteratorWrite, TypeInv, Stages
  <2> QED BY <1>7, <2>1, PersistStep DEF IteratorWrite
<1>8. ASSUME NEW p \in Procs,
             IteratorSave(p) \/ NewIterator(p) \/ IteratorNext(p) \/ IteratorDrop(p)
      PROVE  Quiet
  BY <1>4, <1>8 DEF IteratorSave, NewIterator, IteratorNext, IteratorDrop
<1>9. ASSUME AppendFlush PROVE Log!Persist
  BY <1>9, PersistStep DEF AppendFlush, flush
<1>10. ASSUME AppendBlock PROVE Quiet
  BY <1>1, <1>10, AppendsBlock, QuietStep DEF AppendBlock
<1>11. ASSUME WriteBlock PROVE Quiet
  BY <1>1, <1>11, WritesBlock, QuietStep DEF WriteBlock
<1>12. ASSUME AppendPut PROVE Log!Append BY <1>3, <1>12 DEF AppendPut
<1>13. ASSUME SetHeader \/ AppendFails PROVE Quiet
  BY <1>4, <1>13 DEF SetHeader, AppendFails
<1>14. ASSUME Crash PROVE Log!Crash
  <2>1. disk' = disk /\ base' = Written /\ latestLSN' = 0
    BY <1>14 DEF Crash, NewLogManager, Written
  <2>2. Written' = Written BY <1>1, <2>1, FileSame
  <2> QED BY <1>1, <2>1, <2>2 DEF Log!Crash, Written
<1>15. CASE UNCHANGED vars BY <1>4, <1>15 DEF vars
<1> QED
  BY <1>5, <1>6, <1>7, <1>8, <1>9, <1>10, <1>11, <1>12, <1>13, <1>14, <1>15
     DEF Next, Log!Next

THEOREM Refinement ==
  ASSUME ~Overlap
  PROVE  Spec => ImplementsDurableLog
<1>1. Init => Log!Init
  <2> SUFFICES ASSUME Init PROVE base + latestLSN = 0 /\ Cardinality(OnDisk) = 0
    BY DEF Log!Init
  <2>1. Len(disk) = 0 /\ OnDisk = {} BY DEF Init, OnDisk
  <2> QED BY <2>1, FS_EmptySet DEF Init
<1>2. Spec => []IInv BY Invariant
<1> QED BY <1>1, <1>2, LogStep, PTL DEF Spec, ImplementsDurableLog, Log!Spec
=============================================================================
