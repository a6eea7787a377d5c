-------------------------- MODULE TableScanProofs ---------------------------
(***************************************************************************)
(* The safety properties of TableScan, for every table, every number of    *)
(* transactions, blocks, slots and writes.                                 *)
(***************************************************************************)
EXTENDS TableScan, FiniteSetTheorems, SequenceTheorems, WellFoundedInduction, TLAPS

USE TableAssumption

Blocks == [1..Slots -> Records]
LogRecords == Nat \X (1..Slots) \X Records

(* The slots that a transaction has changed, and what its rollback leaves   *)
(* in a slot: what was there before the first of its changes.              *)
PlaceOf(r) == <<r[1], r[2]>>
Changed(t) == {PlaceOf(undo[t][i]) : i \in DOMAIN undo[t]}
Logged(t, p) == {i \in DOMAIN undo[t] : PlaceOf(undo[t][i]) = p}

Places == (DOMAIN blocks) \X (1..Slots)
At(p) == blocks[p[1]][p[2]]
Before(t, p) == IF p \in Changed(t) THEN undo[t][Min(Logged(t, p))][3] ELSE At(p)

----------------------------------------------------------------------------
LEMMA LeastExists ==
  ASSUME NEW S, S \subseteq Nat, S # {}
  PROVE  Min(S) \in S /\ \A j \in S : Min(S) <= j
<1> DEFINE R == OpToRel(<, Nat)
<1>1. IsWellFoundedOn(R, Nat) BY NatLessThanWellFounded
<1>2. \A i, j \in Nat : j < i => <<j, i>> \in R BY DEF OpToRel
<1> HIDE DEF R
<1>3. PICK i \in S : \A j \in S : <<j, i>> \notin R BY <1>1, WFMin
<1>4. \A j \in S : ~(j < i) BY <1>2, <1>3
<1>5. \A j \in S : i <= j BY <1>4
<1> QED BY <1>5 DEF Min

(* A slot of a block is written. *)
LEMMA WriteEffect ==
  ASSUME NEW file \in Seq(Blocks), NEW b \in 1..Len(file), NEW s \in 1..Slots,
         NEW r \in Records
  PROVE  LET new == [file EXCEPT ![b][s] = r] IN
         /\ new \in Seq(Blocks) /\ Len(new) = Len(file)
         /\ \A c \in 1..Len(file), q \in 1..Slots :
              new[c][q] = IF c = b /\ q = s THEN r ELSE file[c][q]
<1>1. PICK page : page = [file[b] EXCEPT ![s] = r] OBVIOUS
<1>2. file[b] \in Blocks OBVIOUS
<1>3. page \in Blocks BY <1>1, <1>2 DEF Blocks
<1>4. \A q \in 1..Slots : page[q] = IF q = s THEN r ELSE file[b][q]
  BY <1>1, <1>2 DEF Blocks
<1>5. PICK new : new = [file EXCEPT ![b][s] = r] OBVIOUS
<1>6. new = [file EXCEPT ![b] = page] BY <1>1, <1>5
<1>7. /\ new \in Seq(Blocks) /\ Len(new) = Len(file)
      /\ \A c \in 1..Len(file) : new[c] = IF c = b THEN page ELSE file[c]
  BY <1>3, <1>6, ExceptSeq
<1>8. ASSUME NEW c \in 1..Len(file), NEW q \in 1..Slots
      PROVE  new[c][q] = IF c = b /\ q = s THEN r ELSE file[c][q]
  BY <1>4, <1>7
<1> QED BY <1>5, <1>7, <1>8

LEMMA SameFile ==
  ASSUME NEW f \in Seq(Blocks), NEW g \in Seq(Blocks), Len(f) = Len(g),
         \A b \in 1..Len(f), s \in 1..Slots : f[b][s] = g[b][s]
  PROVE  f = g
<1>1. ASSUME NEW b \in 1..Len(f) PROVE f[b] = g[b]
  <2>1. f[b] \in Blocks /\ g[b] \in Blocks OBVIOUS
  <2> QED BY <2>1 DEF Blocks
<1> QED BY <1>1, SeqEqual

(***************************************************************************)
(* Undoing the log records of a transaction, the last one first, leaves    *)
(* in every slot what was there before the first of its changes.           *)
(***************************************************************************)
LEMMA UndoneIs ==
  ASSUME blocks \in Seq(Blocks), NEW t, undo[t] \in Seq(LogRecords),
         \A p \in Changed(t) : p \in Places
  PROVE  /\ Undone(t) \in Seq(Blocks) /\ Len(Undone(t)) = Len(blocks)
         /\ \A b \in 1..Len(blocks), s \in 1..Slots : Undone(t)[b][s] = Before(t, <<b, s>>)
<1> DEFINE Restored(r, file) == [file EXCEPT ![r[1]][r[2]] = r[3]]
           Loop(f) == f = [S \in SUBSET DOMAIN undo[t] |->
                             IF S = {} THEN blocks
                             ELSE Restored(undo[t][Min(S)], f[S \ {Min(S)}])]
           Of(S, p) == {i \in S : PlaceOf(undo[t][i]) = p}
           Rec(S, p) == IF Of(S, p) = {} THEN At(p) ELSE undo[t][Min(Of(S, p))][3]
           Left(S) == [b \in 1..Len(blocks) |-> [s \in 1..Slots |-> Rec(S, <<b, s>>)]]
           Result == [S \in SUBSET DOMAIN undo[t] |-> Left(S)]
<1>1. Undone(t) = (CHOOSE f : Loop(f))[DOMAIN undo[t]]
  BY DEF Undone, FoldRight, MapThenFoldSet
<1>2. PICK n \in Nat : n = Len(undo[t]) /\ DOMAIN undo[t] = 1..n OBVIOUS
<1>3. \A i \in 1..n : /\ undo[t][i] \in LogRecords
                      /\ undo[t][i][1] \in 1..Len(blocks) /\ undo[t][i][2] \in 1..Slots
                      /\ undo[t][i][3] \in Records
  <2> SUFFICES ASSUME NEW i \in 1..n
               PROVE  /\ undo[t][i] \in LogRecords
                      /\ undo[t][i][1] \in 1..Len(blocks) /\ undo[t][i][2] \in 1..Slots
                      /\ undo[t][i][3] \in Records
    OBVIOUS
  <2>1. undo[t][i] \in LogRecords BY <1>2
  <2>2. PlaceOf(undo[t][i]) \in Places BY <1>2 DEF Changed
  <2> QED BY <2>1, <2>2 DEF LogRecords, PlaceOf, Places
<1>4. ASSUME NEW S \in SUBSET (1..n), S # {}
      PROVE  Min(S) \in S /\ Min(S) \in 1..n /\ \A i \in S : Min(S) <= i
  <2>1. S \subseteq Nat BY <1>2
  <2> QED BY <2>1, <1>4, LeastExists
<1>5. ASSUME NEW S \in SUBSET (1..n), NEW p \in Places PROVE Rec(S, p) \in Records
  <2>1. CASE Of(S, p) = {} BY <2>1 DEF Places, At, Blocks
  <2>2. CASE Of(S, p) # {}
    <3>1. Min(Of(S, p)) \in 1..n BY <2>2, <1>4
    <3> QED BY <3>1, <2>2, <1>3
  <2> QED BY <2>1, <2>2
<1>6. ASSUME NEW S \in SUBSET (1..n)
      PROVE  /\ Left(S) \in Seq(Blocks) /\ Len(Left(S)) = Len(blocks)
             /\ \A b \in 1..Len(blocks), s \in 1..Slots : Left(S)[b][s] = Rec(S, <<b, s>>)
  <2> HIDE DEF Rec
  <2>1. \A b \in 1..Len(blocks), s \in 1..Slots : Rec(S, <<b, s>>) \in Records
    BY <1>5 DEF Places
  <2>2. \A b \in 1..Len(blocks) : Left(S)[b] \in Blocks BY <2>1 DEF Blocks
  <2> QED BY <2>2
<1>7. Left({}) = blocks
  <2>1. \A b \in 1..Len(blocks), s \in 1..Slots : Rec({}, <<b, s>>) = blocks[b][s] BY DEF At
  <2>2. {} \in SUBSET (1..n) OBVIOUS
  <2> HIDE DEF Left, Rec
  <2>3. /\ Left({}) \in Seq(Blocks) /\ Len(Left({})) = Len(blocks)
        /\ \A b \in 1..Len(blocks), s \in 1..Slots : Left({})[b][s] = Rec({}, <<b, s>>)
    BY <2>2, <1>6
  <2> QED BY <2>1, <2>3, SameFile
<1>8. ASSUME NEW S \in SUBSET (1..n), S # {}
      PROVE  Left(S) = Restored(undo[t][Min(S)], Left(S \ {Min(S)}))
  <2>1. PICK m : m = Min(S) /\ m \in S /\ m \in 1..n /\ \A i \in S : m <= i BY <1>4, <1>8
  <2>2. PICK r : r = undo[t][m] OBVIOUS
  <2>3. PICK new : new = Restored(r, Left(S \ {m})) OBVIOUS
  <2>4. r[1] \in 1..Len(blocks) /\ r[2] \in 1..Slots /\ r[3] \in Records BY <2>1, <2>2, <1>3
  <2>5. /\ new \in Seq(Blocks) /\ Len(new) = Len(blocks)
        /\ \A b \in 1..Len(blocks), s \in 1..Slots :
             new[b][s] = IF b = r[1] /\ s = r[2] THEN r[3] ELSE Rec(S \ {m}, <<b, s>>)
    <3>1. PICK old : old = Left(S \ {m}) OBVIOUS
    <3>2. PICK b1, s1, r1 : b1 = r[1] /\ s1 = r[2] /\ r1 = r[3] OBVIOUS
    <3>3. new = [old EXCEPT ![b1][s1] = r1] BY <2>3, <3>1, <3>2
    <3>4. S \ {m} \in SUBSET (1..n) OBVIOUS
    <3> HIDE DEF Left, Rec
    <3>5. /\ old \in Seq(Blocks) /\ Len(old) = Len(blocks)
          /\ \A b \in 1..Len(blocks), s \in 1..Slots : old[b][s] = Rec(S \ {m}, <<b, s>>)
      BY <3>1, <3>4, <1>6
    <3>6. b1 \in 1..Len(old) /\ s1 \in 1..Slots /\ r1 \in Records BY <3>2, <3>5, <2>4
    <3>7. /\ new \in Seq(Blocks) /\ Len(new) = Len(old)
          /\ \A c \in 1..Len(old), q \in 1..Slots :
               new[c][q] = IF c = b1 /\ q = s1 THEN r1 ELSE old[c][q]
      BY <3>3, <3>5, <3>6, WriteEffect
    <3>8. ASSUME NEW b \in 1..Len(blocks), NEW s \in 1..Slots
          PROVE  new[b][s] = IF b = r[1] /\ s = r[2] THEN r[3] ELSE Rec(S \ {m}, <<b, s>>)
      <4>1. new[b][s] = IF b = b1 /\ s = s1 THEN r1 ELSE old[b][s] BY <3>5, <3>7
      <4>2. old[b][s] = Rec(S \ {m}, <<b, s>>) BY <3>5
      <4> QED BY <4>1, <4>2, <3>2
    <3> QED BY <3>5, <3>7, <3>8
  <2>6. ASSUME NEW b \in 1..Len(blocks), NEW s \in 1..Slots
        PROVE  new[b][s] = Left(S)[b][s]
    <3>1. CASE b = r[1] /\ s = r[2]
      <4>1. m \in Of(S, <<b, s>>) BY <3>1, <2>1, <2>2 DEF PlaceOf
      <4>2. Min(Of(S, <<b, s>>)) = m
        <5>1. Of(S, <<b, s>>) \in SUBSET (1..n) OBVIOUS
        <5>2. PICK k : k = Min(Of(S, <<b, s>>)) /\ k \in Of(S, <<b, s>>) /\ k <= m
          BY <4>1, <5>1, <1>4
        <5> QED BY <5>2, <2>1
      <4> QED BY <4>1, <4>2, <3>1, <2>2, <2>5
    <3>2. CASE ~(b = r[1] /\ s = r[2])
      <4>1. Of(S \ {m}, <<b, s>>) = Of(S, <<b, s>>) BY <3>2, <2>2 DEF PlaceOf
      <4>2. Rec(S \ {m}, <<b, s>>) = Rec(S, <<b, s>>) BY <4>1
      <4>3. Left(S)[b][s] = Rec(S, <<b, s>>) BY <1>6
      <4> HIDE DEF Left, Rec
      <4> QED BY <4>2, <4>3, <3>2, <2>5
    <3> QED BY <3>1, <3>2
  <2>7. new = Left(S)
    <3>1. PICK left : left = Left(S) OBVIOUS
    <3> HIDE DEF Left, Rec
    <3>2. /\ left \in Seq(Blocks) /\ Len(left) = Len(blocks)
          /\ \A b \in 1..Len(blocks), s \in 1..Slots : left[b][s] = Rec(S, <<b, s>>)
      BY <3>1, <1>6
    <3>3. \A b \in 1..Len(new), s \in 1..Slots : new[b][s] = left[b][s]
      <4>1. ASSUME NEW b \in 1..Len(new), NEW s \in 1..Slots PROVE new[b][s] = left[b][s]
        <5>1. b \in 1..Len(blocks) BY <2>5
        <5>2. new[b][s] = Left(S)[b][s] BY <5>1, <2>6
        <5>3. left[b][s] = Left(S)[b][s] BY <3>1
        <5> QED BY <5>2, <5>3
      <4> QED BY <4>1
    <3>4. new = left BY <2>5, <3>2, <3>3, SameFile
    <3> QED BY <3>1, <3>4
  <2> HIDE DEF Left, Restored
  <2> QED BY <2>1, <2>2, <2>3, <2>7
<1>9. Loop(Result)
  <2> HIDE DEF Left, Restored
  <2> QED BY <1>2, <1>4, <1>7, <1>8
<1>10. PICK f : f = (CHOOSE g : Loop(g)) /\ Loop(f) BY <1>9
<1>11. ASSUME NEW k \in 0..n PROVE f[(n + 1 - k)..n] = Left((n + 1 - k)..n)
  <2> DEFINE T(j) == (n + 1 - j)..n
             Bad == {j \in 0..n : f[T(j)] # Left(T(j))}
  <2> HIDE DEF Left, Restored
  <2> SUFFICES ASSUME Bad # {} PROVE FALSE OBVIOUS
  <2>1. Bad \subseteq Nat BY <1>2
  <2>2. PICK j \in Bad : \A i \in Bad : j <= i
    <3> HIDE DEF Bad
    <3> QED BY <2>1, LeastExists
  <2>3. T(j) \in SUBSET (1..n) BY <2>2
  <2>4. CASE j = 0
    <3>1. T(j) = {} BY <2>4
    <3> QED BY <3>1, <2>2, <1>2, <1>7, <1>10
  <2>5. CASE j # 0
    <3>1. j - 1 \in 0..n /\ j - 1 \notin Bad
      <4>1. j \in 0..n BY <2>2
      <4>2. j - 1 \in 0..n /\ ~(j <= j - 1) BY <4>1, <2>5
      <4> HIDE DEF Bad
      <4> QED BY <4>2, <2>2
    <3>2. f[T(j - 1)] = Left(T(j - 1)) BY <3>1
    <3>3. n + 1 - j \in Nat /\ n + 1 - j <= n
      <4>1. j \in 0..n BY <2>2
      <4> QED BY <4>1, <2>5, <1>2
    <3>4. T(j) # {} /\ n + 1 - j \in T(j) /\ \A i \in T(j) : n + 1 - j <= i
      <4>1. PICK a \in Nat : a = n + 1 - j /\ a <= n BY <3>3
      <4>2. T(j) = a..n BY <4>1
      <4>3. a \in a..n /\ \A i \in a..n : a <= i BY <4>1, <1>2
      <4> HIDE DEF T
      <4> QED BY <4>1, <4>2, <4>3
    <3>5. Min(T(j)) = n + 1 - j
      <4>1. Min(T(j)) \in T(j) /\ Min(T(j)) <= n + 1 - j BY <3>4, <2>3, <1>4
      <4> QED BY <4>1, <3>4
    <3>6. T(j) \ {n + 1 - j} = T(j - 1) BY <2>2, <2>5
    <3>7. f[T(j)] = Restored(undo[t][Min(T(j))], f[T(j) \ {Min(T(j))}])
      BY <2>3, <3>4, <1>2, <1>10
    <3> QED BY <3>2, <3>4, <3>5, <3>6, <3>7, <2>2, <2>3, <1>8
  <2> QED BY <2>4, <2>5
<1>12. Undone(t) = Left(1..n)
  <2>1. (n + 1 - n)..n = 1..n BY <1>2
  <2>2. n \in 0..n BY <1>2
  <2>3. f[1..n] = Left(1..n)
    <3> HIDE DEF Left
    <3>1. f[(n + 1 - n)..n] = Left((n + 1 - n)..n) BY <1>11, <2>2
    <3> QED BY <3>1, <2>1
  <2> QED BY <2>3, <1>1, <1>2, <1>10
<1>13. ASSUME NEW b \in 1..Len(blocks), NEW s \in 1..Slots
       PROVE  Rec(1..n, <<b, s>>) = Before(t, <<b, s>>)
  <2>1. Of(1..n, <<b, s>>) = Logged(t, <<b, s>>) BY <1>2 DEF Logged
  <2>2. <<b, s>> \in Changed(t) <=> Logged(t, <<b, s>>) # {} BY DEF Changed, Logged
  <2> QED BY <2>1, <2>2 DEF Before
<1> QED
  <2> HIDE DEF Left, Rec
  <2> QED BY <1>6, <1>12, <1>13

(***************************************************************************)
(* The inductive invariant, first part: the types, what a transaction's     *)
(* scan is doing, the locks it has for it, and the number of writes.        *)
(***************************************************************************)
Typed ==
  /\ blocks \in Seq(Blocks) /\ Len(blocks) <= MaxBlocks
  /\ slock \in [Lockable -> SUBSET Txs]
  /\ xlock \in [Lockable -> Txs \union {Nobody}]
  /\ pc \in [Txs -> Control]
  /\ op \in [Txs -> {"open", "next", "insert", "set", "delete"}]
  /\ blk \in [Txs -> Nat] /\ slot \in [Txs -> 0..Slots] /\ found \in [Txs -> 0..Slots]
  /\ undo \in [Txs -> Seq(LogRecords)]
  /\ seen \in [Txs -> Seq(Values \union {0})] /\ missed \in [Txs -> BOOLEAN]
  /\ added \in [Txs -> SUBSET Values] /\ removed \in [Txs -> SUBSET (Values \union {0})]
  /\ rows \subseteq Values /\ writes \in Nat

(* Who has the exclusive lock is alone, and no lock is ahead of the file. *)
LockInv ==
  \A b \in Lockable :
    /\ xlock[b] # Nobody => slock[b] = {xlock[b]}
    /\ b > Len(blocks) => slock[b] = {} /\ xlock[b] = Nobody

InOrder(t) ==
  /\ pc[t] = "opening" => op[t] = "open"
  /\ pc[t] = "again" => op[t] = "next"
  /\ pc[t] \in {"search", "size"} => op[t] \in {"next", "insert"}
  /\ pc[t] = "flag" => op[t] \in {"insert", "set", "delete"}
  /\ pc[t] = "append" => op[t] \in {"open", "insert"}

Positioned(t) ==
  /\ blk[t] \in 0..Len(blocks)
  /\ pc[t] \in {"idle", "ended", "search", "again", "size", "flag"} => blk[t] # 0
  /\ slot[t] # 0 => blk[t] # 0

(* Before the scan is open and after its end *)
NothingDone(t) ==
  pc[t] \in {"none", "opening", "done"} \/ (pc[t] = "append" /\ op[t] = "open") =>
    /\ blk[t] = 0 /\ slot[t] = 0 /\ undo[t] = <<>> /\ seen[t] = <<>>
    /\ added[t] = {} /\ removed[t] = {}

(* The block of the current record, and the end of a file that was read     *)
Holding(t) ==
  /\ slot[t] # 0 \/ pc[t] = "flag" => t \in slock[blk[t]]
  /\ pc[t] \in {"append", "ended"} => t \in slock[EndOfFile] /\ blk[t] = Len(blocks)

(* The slot that is about to be written is still what the search found: an  *)
(* empty one for an Insert, a record for a SetX or Delete.                 *)
Target(t) ==
  pc[t] = "flag" => IF op[t] = "insert" THEN found[t] \in After(t, FALSE) ELSE OnRecord(t)

ChangedIsLocked(t) == \A p \in Changed(t) : p \in Places /\ xlock[p[1]] = t

ControlInv(t) ==
  InOrder(t) /\ Positioned(t) /\ NothingDone(t) /\ Holding(t) /\ Target(t) /\ ChangedIsLocked(t)

(* The writes that calls have begun *)
Writing == {t \in Txs : /\ pc[t] \in {"search", "flag", "size", "append"}
                        /\ op[t] \in {"insert", "set", "delete"}}

WritesInv == writes + Cardinality(Writing) <= WritesBound

CallInv == Typed /\ LockInv /\ (\A t \in Txs : ControlInv(t)) /\ WritesInv

(***************************************************************************)
(* Steps that neither write nor release: the file stays as it is, and of    *)
(* the locks at most one shared lock is added.                              *)
(***************************************************************************)
QuietStep(t) ==
  \/ NewTableScan(t) \/ CallNext(t) \/ CallInsert(t) \/ CallSet(t) \/ CallDelete(t)
  \/ BeforeFirst(t)
  \/ Found(t) \/ FoundEmpty(t) \/ NotFound(t) \/ SearchTimesOut(t) \/ ChangeTimesOut(t)
  \/ Opened(t) \/ AtLastBlock(t) \/ ToNextBlock(t) \/ SizeTimesOut(t) \/ AppendFails(t)

Kept(u) ==
  /\ pc'[u] = pc[u] /\ op'[u] = op[u] /\ blk'[u] = blk[u] /\ slot'[u] = slot[u]
  /\ found'[u] = found[u]
  /\ undo'[u] = undo[u] /\ seen'[u] = seen[u] /\ missed'[u] = missed[u]
  /\ added'[u] = added[u] /\ removed'[u] = removed[u]

Quiet(t) ==
  /\ UNCHANGED <<blocks, undo, xlock, rows, added, removed, writes>>
  /\ \/ UNCHANGED slock
     \/ \E b \in 0..Len(blocks) : SLock(t, b)
  /\ \A u \in Txs \ {t} : Kept(u)

(* What another transaction's step leaves to u: its locks, the blocks that  *)
(* it has locked, and the length of the file if it has locked the marker.   *)
Respected(u) ==
  /\ Kept(u)
  /\ Len(blocks) <= Len(blocks')
  /\ u \in slock[EndOfFile] => Len(blocks') = Len(blocks)
  /\ \A b \in Lockable : /\ u \in slock[b] => u \in slock'[b]
                         /\ xlock[b] = u => xlock'[b] = u
                         /\ b \in 1..Len(blocks) /\ u \in slock[b] => blocks'[b] = blocks[b]

LEMMA QuietSteps ==
  ASSUME Typed, NEW t \in Txs, ControlInv(t), QuietStep(t) PROVE Quiet(t)
<1> USE DEF Quiet, Kept, Typed, Goto, MoveToBlock, historyVars
<1>1. blk[t] \in 0..Len(blocks) /\ EndOfFile \in 0..Len(blocks)
  BY DEF ControlInv, Positioned, EndOfFile
<1>2. CASE \/ NewTableScan(t) \/ CallNext(t) \/ CallInsert(t) \/ CallSet(t) \/ CallDelete(t)
           \/ BeforeFirst(t)
  BY <1>2 DEF NewTableScan, CallNext, CallInsert, CallSet, CallDelete, BeforeFirst, Call
<1>3. CASE Found(t) BY <1>1, <1>3 DEF Found, SLock
<1>4. CASE FoundEmpty(t) \/ NotFound(t)
  BY <1>1, <1>4 DEF FoundEmpty, NotFound, NoSlot, SLock
<1>5. CASE \/ SearchTimesOut(t) \/ ChangeTimesOut(t) \/ SizeTimesOut(t) \/ AppendFails(t)
  BY <1>5 DEF SearchTimesOut, ChangeTimesOut, SizeTimesOut, AppendFails, NoSlot
<1>6. CASE Opened(t) BY <1>1, <1>6 DEF Opened, SLock
<1>7. CASE AtLastBlock(t) \/ ToNextBlock(t)
  BY <1>1, <1>7 DEF AtLastBlock, ToNextBlock, SLock
<1> QED BY <1>2, <1>3, <1>4, <1>5, <1>6, <1>7 DEF QuietStep

(* What searchAfter finds, when it finds something *)
LEMMA FirstEmpty ==
  ASSUME Typed, NEW t \in Txs, After(t, FALSE) # {}
  PROVE  Min(After(t, FALSE)) \in After(t, FALSE) /\ Min(After(t, FALSE)) \in 1..Slots
<1>1. After(t, FALSE) \subseteq 1..Slots
  <2>1. slot[t] \in 0..Slots BY DEF Typed
  <2> QED BY <2>1, TableAssumption DEF After
<1>2. 1..Slots \subseteq Nat BY TableAssumption
<1>3. PICK S : S = After(t, FALSE) OBVIOUS
<1>4. S \subseteq Nat /\ S # {} BY <1>1, <1>2, <1>3
<1>5. Min(S) \in S BY <1>4, LeastExists
<1> QED BY <1>1, <1>3, <1>5

LEMMA QuietTypes ==
  ASSUME Typed, NEW t \in Txs, ControlInv(t), QuietStep(t), Quiet(t) PROVE Typed'
<1>1. /\ (blocks \in Seq(Blocks) /\ Len(blocks) <= MaxBlocks)'
      /\ (xlock \in [Lockable -> Txs \union {Nobody}])'
      /\ (undo \in [Txs -> Seq(LogRecords)])'
      /\ (added \in [Txs -> SUBSET Values] /\ removed \in [Txs -> SUBSET (Values \union {0})])'
      /\ (rows \subseteq Values /\ writes \in Nat)'
  BY DEF Quiet, Typed
<1>2. slock' \in [Lockable -> SUBSET Txs]
  <2>1. CASE UNCHANGED slock BY <2>1 DEF Typed
  <2>2. ASSUME NEW b \in 0..Len(blocks), SLock(t, b) PROVE slock' \in [Lockable -> SUBSET Txs]
    BY <2>2 DEF SLock, Typed
  <2> QED BY <2>1, <2>2 DEF Quiet
<1> DEFINE Types == /\ pc' \in [Txs -> Control]
                    /\ op' \in [Txs -> {"open", "next", "insert", "set", "delete"}]
                    /\ blk' \in [Txs -> Nat] /\ slot' \in [Txs -> 0..Slots]
                    /\ found' \in [Txs -> 0..Slots]
                    /\ seen' \in [Txs -> Seq(Values \union {0})]
                    /\ missed' \in [Txs -> BOOLEAN]
<1> USE DEF Typed, Goto, MoveToBlock, Control
<1>3. CASE \/ NewTableScan(t) \/ CallNext(t) \/ CallInsert(t) \/ CallSet(t) \/ CallDelete(t)
  <2>1. Types BY <1>3 DEF NewTableScan, CallNext, CallInsert, CallSet, CallDelete, Call
  <2> QED BY <1>1, <1>2, <2>1
<1>4. CASE BeforeFirst(t)
  <2>1. seen' \in [Txs -> Seq(Values \union {0})]
    <3>1. PICK none : none = <<>> OBVIOUS
    <3>2. seen' = [seen EXCEPT ![t] = none] /\ seen \in [Txs -> Seq(Values \union {0})]
      BY <1>4, <3>1 DEF BeforeFirst
    <3> HIDE DEF Typed, Types, Goto, MoveToBlock
    <3>3. none \in Seq(Values \union {0}) BY <3>1
    <3> QED BY <3>2, <3>3
  <2>2. pc' \in [Txs -> Control] BY <1>4 DEF BeforeFirst
  <2>3. /\ op' = op /\ found' = found
        /\ blk' = [blk EXCEPT ![t] = 1] /\ slot' = [slot EXCEPT ![t] = 0]
        /\ missed' = [missed EXCEPT ![t] = FALSE]
    BY <1>4 DEF BeforeFirst
  <2>4. slot' \in [Txs -> 0..Slots]
    <3>1. 0 \in 0..Slots BY TableAssumption
    <3> QED BY <3>1, <2>3
  <2>5. blk' \in [Txs -> Nat] /\ missed' \in [Txs -> BOOLEAN] BY <2>3
  <2>6. op' \in [Txs -> {"open", "next", "insert", "set", "delete"}]
        /\ found' \in [Txs -> 0..Slots]
    BY <2>3
  <2>7. Types BY <2>1, <2>2, <2>4, <2>5, <2>6
  <2> QED BY <1>1, <1>2, <2>7
<1>5. CASE Found(t)
  <2>1. PICK s \in 1..Slots : slot' = [slot EXCEPT ![t] = s]
    <3>1. After(t, TRUE) # {} BY <1>5 DEF Found
    <3>2. slot[t] \in 0..Slots /\ Slots \in Nat BY TableAssumption
    <3>3. slot' = [slot EXCEPT ![t] = Min(After(t, TRUE))] BY <1>5 DEF Found
    <3> HIDE DEF Typed, Types, Goto, MoveToBlock
    <3>4. After(t, TRUE) \subseteq 1..Slots BY <3>2 DEF After
    <3>5. After(t, TRUE) \subseteq Nat
      <4> SUFFICES ASSUME NEW s \in After(t, TRUE) PROVE s \in Nat OBVIOUS
      <4>1. s \in 1..Slots BY <3>4
      <4> QED BY <4>1
    <3>6. Min(After(t, TRUE)) \in After(t, TRUE) BY <3>1, <3>5, LeastExists
    <3> QED BY <3>3, <3>4, <3>6
  <2>2. blocks[blk[t]] \in Blocks
    <3>1. blk[t] \in 1..Len(blocks) BY <1>5 DEF Found, ControlInv, Positioned
    <3> QED BY <3>1
  <2>3. PICK v : v = blocks[blk[t]][s].val OBVIOUS
  <2>4. v \in Values \union {0} BY <2>2, <2>3 DEF Blocks, Records
  <2>5. seen' = [seen EXCEPT ![t] = Append(@, v)] BY <2>1, <2>3, <1>5 DEF Found
  <2>6. Append(seen[t], v) \in Seq(Values \union {0}) BY <2>4
  <2>7. seen' \in [Txs -> Seq(Values \union {0})] BY <2>5, <2>6
  <2>8. pc' = [pc EXCEPT ![t] = "idle"] /\ UNCHANGED <<op, blk, found, missed>>
    BY <1>5 DEF Found
  <2>9. pc' \in [Txs -> Control] BY <2>8
  <2>10. slot' \in [Txs -> 0..Slots]
    <3> USE TableAssumption
    <3> QED BY <2>1
  <2>11. UNCHANGED <<op, blk, found, missed>> => Types BY <2>7, <2>9, <2>10
  <2> QED BY <1>1, <1>2, <2>8, <2>11
<1>6. CASE FoundEmpty(t) \/ NotFound(t) \/ SearchTimesOut(t)
  <2>1. CASE FoundEmpty(t)
    <3>1. PICK s \in 1..Slots : s = Min(After(t, FALSE))
      BY <2>1, FirstEmpty DEF FoundEmpty
    <3>2. found' = [found EXCEPT ![t] = s] BY <2>1, <3>1 DEF FoundEmpty
    <3>3. found' \in [Txs -> 0..Slots]
      <4> USE TableAssumption
      <4> QED BY <3>2
    <3>4. Types BY <2>1, <3>3 DEF FoundEmpty
    <3> QED BY <1>1, <1>2, <3>4
  <2>2. CASE NotFound(t) \/ SearchTimesOut(t)
    <3>1. Types BY <2>2 DEF NotFound, SearchTimesOut, NoSlot
    <3> QED BY <1>1, <1>2, <3>1
  <2> QED BY <1>6, <2>1, <2>2
<1>7. CASE ChangeTimesOut(t) \/ SizeTimesOut(t) \/ AppendFails(t)
  <2>1. 0 \in 0..Slots BY TableAssumption
  <2>2. found' \in [Txs -> 0..Slots]
    <3>1. \/ found' = found
          \/ found' = [found EXCEPT ![t] = 0]
      BY <1>7 DEF ChangeTimesOut, SizeTimesOut, AppendFails
    <3> QED BY <2>1, <3>1
  <2>3. UNCHANGED <<op, blk, slot, seen, missed>>
    BY <1>7 DEF ChangeTimesOut, SizeTimesOut, AppendFails
  <2>4. pc' \in [Txs -> Control] BY <1>7 DEF ChangeTimesOut, SizeTimesOut, AppendFails
  <2> QED BY <1>1, <1>2, <2>2, <2>3, <2>4
<1>8. CASE Opened(t) \/ AtLastBlock(t) \/ ToNextBlock(t)
  <2>1. PICK w \in Control : pc' = [pc EXCEPT ![t] = w]
    BY <1>8 DEF Opened, AtLastBlock, ToNextBlock
  <2>2. UNCHANGED <<op, found, seen, missed>> BY <1>8 DEF Opened, AtLastBlock, ToNextBlock
  <2>3. \/ UNCHANGED <<blk, slot>>
        \/ blk' = [blk EXCEPT ![t] = 1] /\ slot' = [slot EXCEPT ![t] = 0]
        \/ blk' = [blk EXCEPT ![t] = blk[t] + 1] /\ slot' = [slot EXCEPT ![t] = 0]
    BY <1>8 DEF Opened, AtLastBlock, ToNextBlock
  <2>4. blk' \in [Txs -> Nat]
    <3>1. PICK n \in Nat : n = blk[t] + 1 OBVIOUS
    <3>2. \/ blk' = blk
          \/ blk' = [blk EXCEPT ![t] = 1]
          \/ blk' = [blk EXCEPT ![t] = n]
      BY <2>3, <3>1
    <3>3. PICK old \in [Txs -> Nat] : old = blk OBVIOUS
    <3>4. PICK new \in Nat : blk' = old \/ blk' = [old EXCEPT ![t] = new] BY <3>2, <3>3
    <3> HIDE DEF Types, Control, Goto, MoveToBlock, Typed
    <3> QED BY <3>4
  <2>5. slot' \in [Txs -> 0..Slots]
    <3>1. 0 \in 0..Slots OBVIOUS
    <3> QED BY <2>3, <3>1
  <2>6. pc' \in [Txs -> Control] BY <2>1
  <2>7. Types BY <2>2, <2>4, <2>6, <2>5
  <2> QED BY <1>1, <1>2, <2>7
<1> QED BY <1>3, <1>4, <1>5, <1>6, <1>7, <1>8 DEF QuietStep

LEMMA QuietLocks ==
  ASSUME Typed, LockInv, NEW t \in Txs, Quiet(t)
  PROVE  LockInv' /\ \A u \in Txs \ {t} : Respected(u)
<1>1. LockInv'
  <2>1. CASE UNCHANGED slock BY <2>1 DEF Quiet, LockInv
  <2>2. ASSUME NEW c \in 0..Len(blocks), SLock(t, c) PROVE LockInv'
    <3>1. Len(blocks) \in Nat /\ c \in Lockable /\ xlock[c] \in {Nobody, t}
      BY <2>2 DEF Typed, Lockable, EndOfFile, SLock, CanSLock
    <3>2. slock' = [slock EXCEPT ![c] = slock[c] \union {t}] BY <2>2 DEF SLock
    <3>3. \A b \in Lockable : slock'[b] = IF b = c THEN slock[b] \union {t} ELSE slock[b]
      BY <3>1, <3>2 DEF Typed
    <3>4. ~(c > Len(blocks)) BY <3>1
    <3> QED BY <3>1, <3>3, <3>4 DEF Quiet, LockInv
  <2> QED BY <2>1, <2>2 DEF Quiet
<1>2. ASSUME NEW u \in Txs \ {t} PROVE Respected(u)
  <2>1. Kept(u) /\ blocks' = blocks /\ xlock' = xlock BY DEF Quiet
  <2>2. ASSUME NEW b \in Lockable, u \in slock[b] PROVE u \in slock'[b]
    <3>1. ASSUME NEW c \in 0..Len(blocks), SLock(t, c) PROVE u \in slock'[b]
      <4>1. slock' = [slock EXCEPT ![c] = slock[c] \union {t}] BY <3>1 DEF SLock
      <4> QED BY <4>1, <2>2 DEF Typed
    <3> QED BY <3>1, <2>2 DEF Quiet
  <2> QED BY <2>1, <2>2 DEF Respected, Typed
<1> QED BY <1>1, <1>2

(* A step of another transaction keeps what u relies on. *)
LEMMA RespectedControl ==
  ASSUME Typed, Typed', NEW u \in Txs, ControlInv(u), Respected(u) PROVE ControlInv(u)'
<1> USE DEF Respected, Kept
<1>1. blk[u] \in Lockable /\ EndOfFile \in Lockable /\ Len(blocks) \in Nat /\ Len(blocks') \in Nat
  <2>1. Len(blocks) \in Nat /\ Len(blocks) <= MaxBlocks BY DEF Typed
  <2>2. Len(blocks') \in Nat BY DEF Typed
  <2>3. blk[u] \in 0..Len(blocks) BY DEF ControlInv, Positioned
  <2> QED BY <2>1, <2>2, <2>3 DEF Lockable, EndOfFile
<1>2. InOrder(u)' BY DEF ControlInv, InOrder
<1>3. Positioned(u)' BY <1>1 DEF ControlInv, Positioned
<1>4. NothingDone(u)' BY DEF ControlInv, NothingDone
<1>5. Holding(u)' BY <1>1 DEF ControlInv, Holding
<1>6. pc[u] = "flag" => blocks'[blk[u]] = blocks[blk[u]]
  <2>1. pc[u] = "flag" => blk[u] \in 1..Len(blocks) /\ u \in slock[blk[u]]
    BY <1>1 DEF ControlInv, Positioned, Holding
  <2> QED BY <2>1, <1>1
<1>7. Target(u)' BY <1>6 DEF ControlInv, Target, After, OnRecord
<1>8. ChangedIsLocked(u)'
  <2>1. Changed(u)' = Changed(u) BY DEF Changed
  <2>2. ASSUME NEW p \in Changed(u) PROVE p \in Places' /\ xlock'[p[1]] = u
    <3>1. p \in Places /\ xlock[p[1]] = u BY DEF ControlInv, ChangedIsLocked
    <3>2. PICK b \in 1..Len(blocks) : b = p[1] BY <3>1 DEF Places
    <3>3. b \in Lockable /\ b \in 1..Len(blocks')
      <4>1. Len(blocks) <= MaxBlocks BY DEF Typed
      <4>2. b \in Lockable BY <4>1, <1>1 DEF Lockable, EndOfFile
      <4>3. Len(blocks) <= Len(blocks') OBVIOUS
      <4> QED BY <4>2, <4>3, <1>1
    <3> QED BY <3>1, <3>2, <3>3 DEF Places
  <2> QED BY <2>1, <2>2 DEF ChangedIsLocked
<1> QED BY <1>2, <1>3, <1>4, <1>5, <1>7, <1>8 DEF ControlInv

LEMMA QuietControl ==
  ASSUME Typed, Typed', NEW t \in Txs, ControlInv(t), QuietStep(t), Quiet(t)
  PROVE  ControlInv(t)'
<1> USE DEF Goto, MoveToBlock
<1>1. /\ UNCHANGED <<blocks, undo, xlock, added, removed>>
      /\ \A b \in Lockable : t \in slock[b] => t \in slock'[b]
  <2>1. ASSUME NEW b \in Lockable, NEW c \in 0..Len(blocks), SLock(t, c), t \in slock[b]
        PROVE  t \in slock'[b]
    <3>1. slock' = [slock EXCEPT ![c] = slock[c] \union {t}] BY <2>1 DEF SLock
    <3> QED BY <3>1, <2>1 DEF Typed
  <2> QED BY <2>1 DEF Quiet
<1>2. ChangedIsLocked(t)' BY <1>1 DEF ControlInv, ChangedIsLocked, Changed, Places
<1>3. blk[t] \in Lockable /\ EndOfFile \in Lockable /\ Len(blocks) \in Nat
  <2>1. Len(blocks) \in Nat /\ Len(blocks) <= MaxBlocks BY DEF Typed
  <2>2. blk[t] \in 0..Len(blocks) BY DEF ControlInv, Positioned
  <2> QED BY <2>1, <2>2 DEF Lockable, EndOfFile
<1>4. CASE \/ NewTableScan(t) \/ CallNext(t) \/ CallInsert(t) \/ CallSet(t) \/ CallDelete(t)
  <2> USE DEF NewTableScan, CallNext, CallInsert, CallSet, CallDelete, Call, ControlInv
  <2>1. InOrder(t)'
    <3>1. CASE NewTableScan(t)
      <4>1. pc'[t] = "opening" /\ op'[t] = "open" BY <3>1 DEF Typed
      <4> QED BY <4>1 DEF InOrder
    <3>2. CASE CallNext(t)
      <4>1. pc'[t] = "search" /\ op'[t] = "next" BY <3>2 DEF Typed
      <4> QED BY <4>1 DEF InOrder
    <3>3. CASE CallInsert(t)
      <4>1. pc'[t] = "search" /\ op'[t] = "insert" BY <3>3 DEF Typed
      <4> QED BY <4>1 DEF InOrder
    <3>4. CASE CallSet(t)
      <4>1. pc'[t] = "flag" /\ op'[t] = "set" BY <3>4 DEF Typed
      <4> QED BY <4>1 DEF InOrder
    <3>5. CASE CallDelete(t)
      <4>1. pc'[t] = "flag" /\ op'[t] = "delete" BY <3>5 DEF Typed
      <4> QED BY <4>1 DEF InOrder
    <3> QED BY <1>4, <3>1, <3>2, <3>3, <3>4, <3>5
  <2>2. Positioned(t)' BY <1>4, <1>1 DEF Positioned, NothingDone, Typed
  <2>3. NothingDone(t)' BY <1>4, <1>1 DEF NothingDone, Typed
  <2>4. Holding(t)' BY <1>4, <1>1 DEF Holding, OnRecord, Typed
  <2>5. Target(t)' BY <1>4, <1>1 DEF Target, OnRecord, Typed
  <2> QED BY <2>1, <2>2, <2>3, <2>4, <2>5, <1>2
<1>5. CASE BeforeFirst(t)
  <2> USE DEF BeforeFirst, ControlInv
  <2>1. InOrder(t)' BY <1>5, <1>1 DEF InOrder, Typed
  <2>2. Positioned(t)' BY <1>5, <1>1 DEF Positioned, Typed
  <2>3. NothingDone(t)' BY <1>5, <1>1 DEF NothingDone, Typed
  <2>4. Holding(t)' BY <1>5, <1>1 DEF Holding, Typed
  <2>5. Target(t)' BY <1>5, <1>1 DEF Target, Typed
  <2> QED BY <2>1, <2>2, <2>3, <2>4, <2>5, <1>2
<1>6. CASE Found(t) \/ FoundEmpty(t) \/ NotFound(t) \/ SearchTimesOut(t)
  <2> USE DEF Found, FoundEmpty, NotFound, SearchTimesOut, NoSlot, ControlInv
  <2>1. InOrder(t)' BY <1>6, <1>1 DEF InOrder, Typed
  <2>2. Positioned(t)' BY <1>6, <1>1 DEF Positioned, Typed
  <2>3. NothingDone(t)' BY <1>6, <1>1 DEF NothingDone, InOrder, Typed
  <2>4. ASSUME SearchTimesOut(t) PROVE Holding(t)'
    BY <2>4, <1>1, <1>3 DEF Holding, Typed
  <2>5. ASSUME Found(t) \/ FoundEmpty(t) \/ NotFound(t) PROVE Holding(t)'
    <3>1. slock' = [slock EXCEPT ![blk[t]] = slock[blk[t]] \union {t}]
      BY <2>5 DEF SLock
    <3>2. t \in slock'[blk[t]] BY <3>1, <1>3 DEF Typed
    <3>3. blk' = blk /\ pc'[t] \notin {"append", "ended"} BY <2>5 DEF Typed
    <3> QED BY <3>2, <3>3 DEF Holding
  <2>6. Holding(t)' BY <1>6, <2>4, <2>5
  <2>7. Target(t)'
    <3>1. CASE FoundEmpty(t)
      <4>1. Min(After(t, FALSE)) \in After(t, FALSE) BY <3>1, FirstEmpty
      <4>2. /\ found'[t] = Min(After(t, FALSE)) /\ op'[t] = "insert"
            /\ UNCHANGED <<blocks, blk, slot>>
        BY <3>1 DEF Typed
      <4> QED BY <4>1, <4>2 DEF Target, After
    <3>2. CASE Found(t) \/ NotFound(t) \/ SearchTimesOut(t)
      <4>1. pc'[t] # "flag" BY <3>2 DEF Typed
      <4> QED BY <4>1 DEF Target
    <3> QED BY <1>6, <3>1, <3>2
  <2> QED BY <2>1, <2>2, <2>3, <2>6, <2>7, <1>2
<1>7. CASE ChangeTimesOut(t) \/ SizeTimesOut(t) \/ AppendFails(t)
  <2> USE DEF ChangeTimesOut, SizeTimesOut, AppendFails, ControlInv
  <2>1. InOrder(t)' BY <1>7, <1>1 DEF InOrder, Typed
  <2>2. Positioned(t)' BY <1>7, <1>1 DEF Positioned, Typed
  <2>3. NothingDone(t)' BY <1>7, <1>1 DEF NothingDone, Typed
  <2>4. Holding(t)' BY <1>7, <1>1, <1>3 DEF Holding, Typed
  <2>5. Target(t)' BY <1>7, <1>1 DEF Target, Typed
  <2> QED BY <2>1, <2>2, <2>3, <2>4, <2>5, <1>2
<1>8. CASE Opened(t) \/ AtLastBlock(t) \/ ToNextBlock(t)
  <2> USE DEF Opened, AtLastBlock, ToNextBlock, ControlInv
  <2>1. InOrder(t)'
    <3>1. /\ op' = op /\ pc'[t] \in {"idle", "append", "ended", "again", "search"}
          /\ pc'[t] = "append" => op[t] \in {"open", "insert"}
          /\ pc'[t] = "again" => op[t] = "next"
          /\ pc'[t] = "search" => op[t] \in {"next", "insert"}
      <4>1. CASE Opened(t)
        <5>1. op' = op /\ op[t] = "open" BY <4>1 DEF InOrder
        <5>2. CASE blocks = <<>>
          <6>1. pc'[t] = "append" BY <4>1, <5>2 DEF Typed
          <6> QED BY <5>1, <6>1
        <5>3. CASE blocks # <<>>
          <6>1. pc'[t] = "idle" BY <4>1, <5>3 DEF Typed
          <6> QED BY <5>1, <6>1
        <5> QED BY <5>2, <5>3
      <4>2. CASE AtLastBlock(t) BY <4>2, <1>1 DEF InOrder, Typed
      <4>3. CASE ToNextBlock(t) BY <4>3, <1>1 DEF InOrder, Typed
      <4> QED BY <4>1, <4>2, <4>3, <1>8
    <3> QED BY <3>1 DEF InOrder
  <2>2. blocks # <<>> => Len(blocks) >= 1 BY <1>3 DEF Typed
  <2>3. ASSUME Opened(t) PROVE Positioned(t)'
    <3>1. CASE blocks = <<>> BY <3>1, <2>3, <1>1 DEF Positioned, Typed
    <3>2. CASE blocks # <<>>
      <4>1. blk'[t] = 1 /\ slot'[t] = 0 /\ 1 \in 0..Len(blocks)
        BY <3>2, <2>2, <2>3, <1>3 DEF Typed
      <4> QED BY <4>1, <1>1 DEF Positioned
    <3> QED BY <3>1, <3>2
  <2>4. ASSUME AtLastBlock(t) PROVE Positioned(t)'
    BY <2>4, <1>1 DEF Positioned, Typed
  <2>5. ASSUME ToNextBlock(t) PROVE Positioned(t)'
    <3>1. blk'[t] = blk[t] + 1 /\ slot'[t] = 0 /\ blk[t] # Len(blocks) BY <2>5 DEF Typed
    <3>2. blk[t] \in 0..Len(blocks) BY DEF Positioned
    <3>3. blk[t] + 1 \in 0..Len(blocks) /\ blk[t] + 1 # 0 BY <3>1, <3>2, <1>3
    <3> QED BY <3>1, <3>3, <1>1 DEF Positioned
  <2>6. Positioned(t)' BY <1>8, <2>3, <2>4, <2>5
  <2>7. NothingDone(t)'
    <3>1. ASSUME Opened(t) PROVE NothingDone(t)'
      <4>1. /\ blk[t] = 0 /\ slot[t] = 0 /\ undo[t] = <<>> /\ seen[t] = <<>>
            /\ added[t] = {} /\ removed[t] = {}
        BY <3>1 DEF NothingDone
      <4>2. CASE blocks = <<>>
        <5>1. /\ UNCHANGED <<blk, slot, undo, seen>>
              /\ added' = added /\ removed' = removed
          BY <3>1, <4>2, <1>1
        <5> QED BY <4>1, <5>1 DEF NothingDone
      <4>3. CASE blocks # <<>>
        <5>1. pc'[t] = "idle" BY <3>1, <4>3 DEF Typed
        <5> QED BY <5>1 DEF NothingDone
      <4> QED BY <4>2, <4>3
    <3>2. ASSUME AtLastBlock(t) PROVE NothingDone(t)'
      BY <3>2, <1>1 DEF NothingDone, InOrder, Typed
    <3>3. ASSUME ToNextBlock(t) PROVE NothingDone(t)' BY <3>3, <1>1 DEF NothingDone, Typed
    <3> QED BY <1>8, <3>1, <3>2, <3>3
  <2>8. Holding(t)'
    <3>1. slock' = [slock EXCEPT ![EndOfFile] = slock[EndOfFile] \union {t}]
      BY <1>8 DEF SLock
    <3>2. t \in slock'[EndOfFile] BY <3>1, <1>3 DEF Typed
    <3>3. ASSUME Opened(t) PROVE Holding(t)'
      BY <3>2, <3>3, <1>1, <1>3 DEF Holding, NothingDone, Typed
    <3>4. ASSUME AtLastBlock(t) PROVE Holding(t)'
      BY <3>2, <3>4, <1>1, <1>3 DEF Holding, Typed
    <3>5. ASSUME ToNextBlock(t) PROVE Holding(t)'
      BY <3>5, <1>1, <1>3 DEF Holding, Typed
    <3> QED BY <1>8, <3>3, <3>4, <3>5
  <2>9. Target(t)' BY <1>8, <1>1 DEF Target, Typed
  <2> QED BY <2>1, <2>6, <2>7, <2>8, <2>9, <1>2
<1> QED BY <1>4, <1>5, <1>6, <1>7, <1>8 DEF QuietStep

LEMMA WritingFinite ==
  /\ IsFiniteSet(Writing) /\ Cardinality(Writing) \in Nat
  /\ Cardinality(Writing) <= Cardinality(Txs)
  /\ Cardinality(Txs) \in Nat /\ WritesBound \in Nat
<1>1. Writing \subseteq Txs BY DEF Writing
<1>2. Cardinality(Txs) \in Nat /\ Cardinality(Txs) # 0 BY FS_EmptySet, FS_CardinalityType
<1>3. WritesBound \in Nat BY <1>2 DEF WritesBound
<1> QED BY <1>1, <1>2, <1>3, FS_Subset, FS_CardinalityType

(* Fewer calls with a write to come, and no write more *)
LEMMA FewerWriting ==
  ASSUME WritesInv, writes \in Nat, writes' = writes, Writing' \subseteq Writing
  PROVE  WritesInv'
<1>1. PICK m, n \in Nat : m = Cardinality(Writing) /\ n = Cardinality(Writing')
  BY WritingFinite, FS_Subset, FS_CardinalityType
<1>2. n <= m BY <1>1, WritingFinite, FS_Subset
<1>3. writes + m <= WritesBound BY <1>1 DEF WritesInv
<1>4. writes' + n <= WritesBound BY <1>2, <1>3, WritingFinite
<1> QED BY <1>1, <1>4 DEF WritesInv

LEMMA QuietWrites ==
  ASSUME Typed, Typed', WritesInv, NEW t \in Txs, ControlInv(t), QuietStep(t), Quiet(t)
  PROVE  WritesInv'
<1>1. \A u \in Txs \ {t} : u \in Writing' <=> u \in Writing BY DEF Quiet, Kept, Writing
<1>2. writes' = writes /\ writes \in Nat BY DEF Quiet, Typed
<1>3. CASE CallInsert(t) \/ CallSet(t) \/ CallDelete(t)
  <2>1. writes < MaxWrites BY <1>3 DEF CallInsert, CallSet, CallDelete
  <2>2. PICK n, m \in Nat : n = Cardinality(Writing') /\ m = Cardinality(Txs) /\ n <= m
    <3>1. Writing' \subseteq Txs BY DEF Writing
    <3> QED BY <3>1, WritingFinite, FS_Subset, FS_CardinalityType
  <2>3. writes' + n <= MaxWrites + m - 1 BY <2>1, <2>2, <1>2
  <2> QED BY <2>2, <2>3 DEF WritesInv, WritesBound
<1>4. CASE ~(CallInsert(t) \/ CallSet(t) \/ CallDelete(t))
  <2>1. t \in Writing' => t \in Writing
    <3> USE DEF Writing, Typed, Goto
    <3>1. ASSUME NewTableScan(t) \/ CallNext(t) \/ BeforeFirst(t) PROVE t \notin Writing'
      <4>1. CASE NewTableScan(t) BY <4>1 DEF NewTableScan, Call
      <4>2. CASE CallNext(t) BY <4>2 DEF CallNext, Call
      <4>3. CASE BeforeFirst(t) BY <4>3 DEF BeforeFirst
      <4> QED BY <4>1, <4>2, <4>3, <3>1
    <3>2. ASSUME Found(t) \/ FoundEmpty(t) \/ NotFound(t) \/ SearchTimesOut(t)
          PROVE  t \in Writing' => t \in Writing
      BY <3>2 DEF Found, FoundEmpty, NotFound, SearchTimesOut, NoSlot, ControlInv, InOrder
    <3>3. ASSUME ChangeTimesOut(t) \/ SizeTimesOut(t) \/ AppendFails(t)
          PROVE  t \in Writing' => t \in Writing
      BY <3>3 DEF ChangeTimesOut, SizeTimesOut, AppendFails
    <3>4. ASSUME Opened(t) \/ AtLastBlock(t) \/ ToNextBlock(t)
          PROVE  t \in Writing' => t \in Writing
      BY <3>4 DEF Opened, AtLastBlock, ToNextBlock, ControlInv, InOrder
    <3> QED BY <1>4, <3>1, <3>2, <3>3, <3>4 DEF QuietStep
  <2>2. Writing' \subseteq Writing
    <3>1. Writing' \subseteq Txs BY DEF Writing
    <3> QED BY <2>1, <1>1, <3>1
  <2> QED BY <2>2, <1>2, FewerWriting
<1> QED BY <1>3, <1>4

LEMMA QuietInv ==
  ASSUME CallInv, NEW t \in Txs, QuietStep(t)
  PROVE  CallInv' /\ Quiet(t) /\ \A u \in Txs \ {t} : Respected(u)
<1> USE DEF CallInv
<1>1. Quiet(t) BY QuietSteps
<1>2. Typed' BY <1>1, QuietTypes
<1>3. LockInv' /\ \A u \in Txs \ {t} : Respected(u) BY <1>1, QuietLocks
<1>4. ControlInv(t)' BY <1>1, <1>2, QuietControl
<1>5. ASSUME NEW u \in Txs \ {t} PROVE ControlInv(u)' BY <1>2, <1>3, RespectedControl
<1>6. WritesInv' BY <1>1, <1>2, QuietWrites
<1> QED BY <1>1, <1>2, <1>3, <1>4, <1>5, <1>6

(***************************************************************************)
(* Writing a record, whichever call does it.                               *)
(***************************************************************************)
ValueOf(r) == IF r.used THEN {r.val} ELSE {}

LEMMA NewIsValue ==
  ASSUME CallInv, NEW t \in Txs, pc[t] = "flag"
  PROVE  NewValue \in Values /\ writes + 1 + Cardinality(Writing \ {t}) <= WritesBound
<1>1. t \in Writing BY DEF CallInv, ControlInv, InOrder, Writing
<1>2. PICK n \in Nat : n = Cardinality(Writing) /\ Cardinality(Writing \ {t}) = n - 1 /\ n > 0
  <2>1. IsFiniteSet(Writing) /\ Cardinality(Writing) \in Nat BY WritingFinite
  <2>2. Cardinality(Writing) # 0 BY <2>1, <1>1, FS_EmptySet
  <2>3. Cardinality(Writing \ {t}) = Cardinality(Writing) - 1
    BY <2>1, <1>1, FS_RemoveElement
  <2> QED BY <2>1, <2>2, <2>3
<1>3. writes \in Nat /\ writes + n <= WritesBound BY <1>2 DEF CallInv, Typed, WritesInv
<1>4. writes + 1 <= WritesBound /\ InitialValues \in Nat /\ WritesBound \in Nat
  BY <1>2, <1>3, WritingFinite DEF InitialValues
<1> QED BY <1>2, <1>3, <1>4 DEF NewValue, Values

LEMMA ChangeIs ==
  ASSUME CallInv, NEW t \in Txs, Change(t)
  PROVE  \E s \in 1..Slots, r \in Records :
           LET b == blk[t] old == blocks[b][s] IN
           /\ Write(t, b, s, r) /\ slot' = [slot EXCEPT ![t] = s]
           /\ ValueOf(r) \subseteq {NewValue}
           /\ added' = [added EXCEPT ![t] = (@ \union ValueOf(r)) \ ValueOf(old)]
           /\ removed' = [removed EXCEPT ![t] = @ \union ValueOf(old)]
<1> DEFINE b == blk[t]
<1> USE DEF CallInv, Typed
<1>1. pc[t] = "flag" /\ NewValue \in Values BY NewIsValue DEF Change
<1>2. blk[t] \in 1..Len(blocks) /\ blocks[blk[t]] \in Blocks
  <2>1. blk[t] \in 1..Len(blocks) BY <1>1 DEF ControlInv, Positioned
  <2> QED BY <2>1
<1>3. Used(NewValue) \in Records /\ ValueOf(Used(NewValue)) = {NewValue}
  BY <1>1 DEF Used, Records, ValueOf
<1>4. ASSUME NEW s \in 1..Slots PROVE blocks[b][s] \in Records BY <1>2 DEF Blocks
<1>5. CASE InsertRecord(t)
  <2>1. PICK s \in After(t, FALSE) : s = found[t]
    BY <1>1, <1>5 DEF ControlInv, Target, InsertRecord
  <2>2. slot[t] \in 0..Slots OBVIOUS
  <2>3. s \in 1..Slots /\ blocks[b][s].used = FALSE BY <2>1, <2>2 DEF After
  <2>4. s \in 1..Slots /\ ValueOf(blocks[b][s]) = {} BY <2>3 DEF ValueOf
  <2>5. /\ Write(t, b, s, Used(NewValue)) /\ slot' = [slot EXCEPT ![t] = s]
        /\ added' = [added EXCEPT ![t] = added[t] \union {NewValue}] /\ removed' = removed
    BY <1>5, <2>1 DEF InsertRecord
  <2>6. removed' = [removed EXCEPT ![t] = removed[t] \union {}] BY <2>5
  <2>7. added' = [added EXCEPT ![t] = (added[t] \union {NewValue}) \ {}] BY <2>5
  <2> QED BY <2>4, <2>5, <2>6, <2>7, <1>3
<1>6. ASSUME SetRecord(t) \/ DeleteRecord(t)
      PROVE  /\ slot[t] \in 1..Slots /\ slot' = [slot EXCEPT ![t] = slot[t]]
             /\ ValueOf(blocks[b][slot[t]]) = {blocks[b][slot[t]].val}
  <2>1. op[t] # "insert" /\ UNCHANGED slot BY <1>6 DEF SetRecord, DeleteRecord
  <2>2. slot[t] # 0 /\ blocks[blk[t]][slot[t]].used
    BY <1>1, <2>1 DEF ControlInv, Target, OnRecord
  <2>3. ValueOf(blocks[b][slot[t]]) = {blocks[b][slot[t]].val} BY <2>2 DEF ValueOf
  <2>4. slot[t] \in 0..Slots OBVIOUS
  <2>5. slot' = [slot EXCEPT ![t] = slot[t]] BY <2>1
  <2> QED BY <2>2, <2>3, <2>4, <2>5
<1>7. CASE SetRecord(t)
  <2>1. PICK s \in 1..Slots : s = slot[t] BY <1>6, <1>7
  <2>2. PICK v : v = blocks[b][s].val OBVIOUS
  <2>3. ValueOf(blocks[b][s]) = {v} /\ slot' = [slot EXCEPT ![t] = s]
    BY <1>6, <1>7, <2>1, <2>2
  <2>4. /\ Write(t, b, s, Used(NewValue))
        /\ added' = [added EXCEPT ![t] = (added[t] \union {NewValue}) \ {v}]
        /\ removed' = [removed EXCEPT ![t] = removed[t] \union {v}]
    BY <1>7, <2>1, <2>2 DEF SetRecord
  <2> QED BY <2>3, <2>4, <1>3
<1>8. CASE DeleteRecord(t)
  <2>1. PICK s \in 1..Slots : s = slot[t] BY <1>6, <1>8
  <2>2. PICK old \in Records : old = blocks[b][s] BY <1>4
  <2>3. PICK r : r = [old EXCEPT !.used = FALSE] OBVIOUS
  <2>4. r \in Records /\ ValueOf(r) = {} BY <2>2, <2>3 DEF Records, ValueOf
  <2>5. ValueOf(old) = {old.val} /\ slot' = [slot EXCEPT ![t] = s] BY <1>6, <1>8, <2>1, <2>2
  <2>6. /\ Write(t, b, s, r)
        /\ added' = [added EXCEPT ![t] = added[t] \ {old.val}]
        /\ removed' = [removed EXCEPT ![t] = removed[t] \union {old.val}]
    BY <1>8, <2>1, <2>2, <2>3 DEF DeleteRecord
  <2>7. added' = [added EXCEPT ![t] = (added[t] \union {}) \ {old.val}] BY <2>6
  <2> QED BY <2>2, <2>4, <2>5, <2>6, <2>7
<1> QED BY <1>5, <1>7, <1>8 DEF Change

LEMMA ChangeInv ==
  ASSUME CallInv, NEW t \in Txs, Change(t)
  PROVE  CallInv' /\ \A u \in Txs \ {t} : Respected(u)
<1> USE DEF CallInv
<1>1. PICK s \in 1..Slots, r \in Records :
        /\ Write(t, blk[t], s, r) /\ slot' = [slot EXCEPT ![t] = s]
        /\ ValueOf(r) \subseteq {NewValue}
        /\ added' = [added EXCEPT ![t] = (@ \union ValueOf(r)) \ ValueOf(blocks[blk[t]][s])]
        /\ removed' = [removed EXCEPT ![t] = @ \union ValueOf(blocks[blk[t]][s])]
  BY ChangeIs
<1>2. /\ pc[t] = "flag" /\ CanXLock(t, blk[t]) /\ xlock' = [xlock EXCEPT ![blk[t]] = t]
      /\ writes' = writes + 1 /\ pc' = [pc EXCEPT ![t] = "idle"]
      /\ found' = [found EXCEPT ![t] = 0]
      /\ UNCHANGED <<slock, op, blk, seen, missed, rows>>
  BY DEF Change, XLock, Goto
<1>3. PICK b \in 1..Len(blocks) : b = blk[t] /\ blocks[b] \in Blocks /\ blocks[b][s] \in Records
  <2>1. blk[t] \in 1..Len(blocks) BY <1>2 DEF ControlInv, Positioned, Typed
  <2>2. blocks[blk[t]] \in Blocks BY <2>1 DEF Typed
  <2>3. blocks[blk[t]][s] \in Records BY <2>2 DEF Blocks
  <2> QED BY <2>1, <2>2, <2>3
<1>4. b \in Lockable /\ EndOfFile \in Lockable /\ Len(blocks) \in Nat
  BY DEF Typed, Lockable, EndOfFile
<1>5. t \in slock[b] /\ slock[b] \subseteq {t} /\ xlock[b] \in {Nobody, t}
  BY <1>2, <1>3 DEF ControlInv, Holding, CanXLock
<1>6. /\ blocks' \in Seq(Blocks) /\ Len(blocks') = Len(blocks)
      /\ \A c \in 1..Len(blocks), q \in 1..Slots :
           blocks'[c][q] = IF c = b /\ q = s THEN r ELSE blocks[c][q]
  <2>1. blocks' = [blocks EXCEPT ![b][s] = r] BY <1>1, <1>3 DEF Write
  <2>2. blocks \in Seq(Blocks) BY DEF Typed
  <2> QED BY <2>1, <2>2, WriteEffect
<1>7. \A c \in 1..Len(blocks) : c # b => blocks'[c] = blocks[c]
  BY <1>1, <1>3 DEF Typed, Write
<1>8. PICK record : record = <<b, s, blocks[b][s]>> /\ record \in LogRecords
                    /\ undo' = [undo EXCEPT ![t] = Append(undo[t], record)]
  <2>1. PICK record : record = <<b, s, blocks[b][s]>> OBVIOUS
  <2>2. undo' = [undo EXCEPT ![t] = Append(undo[t], record)] BY <2>1, <1>1, <1>3 DEF Write
  <2>3. b \in Nat BY <1>4
  <2>4. record \in LogRecords BY <2>1, <2>3, <1>3 DEF LogRecords
  <2> QED BY <2>1, <2>2, <2>4
<1>9. Typed'
  <2> USE DEF Typed
  <2>1. undo' \in [Txs -> Seq(LogRecords)]
    <3>1. Append(undo[t], record) \in Seq(LogRecords) BY <1>8
    <3> QED BY <3>1, <1>8
  <2>2. added' \in [Txs -> SUBSET Values]
    <3>1. NewValue \in Values BY <1>2, NewIsValue
    <3> QED BY <3>1, <1>1
  <2>3. removed' \in [Txs -> SUBSET (Values \union {0})]
    <3>1. ValueOf(blocks[b][s]) \subseteq Values \union {0} BY <1>3 DEF ValueOf, Records
    <3> QED BY <3>1, <1>1, <1>3
  <2>4. xlock' \in [Lockable -> Txs \union {Nobody}] BY <1>2, <1>3, <1>4
  <2>5. pc' \in [Txs -> Control] BY <1>2 DEF Control
  <2>6. slot' \in [Txs -> 0..Slots] /\ found' \in [Txs -> 0..Slots]
    <3>1. 0 \in 0..Slots BY TableAssumption
    <3> QED BY <3>1, <1>1, <1>2
  <2>7. writes' \in Nat BY <1>2
  <2> QED BY <2>1, <2>2, <2>3, <2>4, <2>5, <2>6, <2>7, <1>2, <1>6
<1>10. LockInv'
  <2> SUFFICES ASSUME NEW c \in Lockable
               PROVE  /\ xlock'[c] # Nobody => slock[c] = {xlock'[c]}
                      /\ c > Len(blocks) => slock[c] = {} /\ xlock'[c] = Nobody
    BY <1>2, <1>6 DEF LockInv
  <2>1. /\ xlock[c] # Nobody => slock[c] = {xlock[c]}
        /\ c > Len(blocks) => slock[c] = {} /\ xlock[c] = Nobody
    BY DEF LockInv
  <2>2. xlock \in [Lockable -> Txs \union {Nobody}] BY DEF Typed
  <2>3. CASE c = b
    <3>1. xlock'[c] = t BY <2>2, <2>3, <1>2, <1>3
    <3>2. slock[c] = {t} BY <2>3, <1>5
    <3> QED BY <3>1, <3>2, <2>1
  <2>4. CASE c # b
    <3>1. xlock'[c] = xlock[c] BY <2>2, <2>4, <1>2, <1>3
    <3> QED BY <3>1, <2>1
  <2> QED BY <2>3, <2>4
<1>11. ASSUME NEW u \in Txs \ {t} PROVE Respected(u)
  <2>1. Kept(u) BY <1>1, <1>2, <1>8 DEF Kept, Typed
  <2>2. ASSUME NEW c \in Lockable PROVE xlock[c] = u => xlock'[c] = u
    BY <1>2, <1>3, <1>4, <1>5 DEF Typed
  <2>3. ASSUME NEW c \in 1..Len(blocks), u \in slock[c] PROVE blocks'[c] = blocks[c]
    BY <2>3, <1>5, <1>7
  <2> QED BY <2>1, <2>2, <2>3, <1>2, <1>4, <1>6 DEF Respected
<1>12. ControlInv(t)'
  <2> USE DEF Typed
  <2>1. pc'[t] = "idle" /\ slot'[t] = s /\ blk' = blk /\ slock' = slock BY <1>1, <1>2
  <2>2. InOrder(t)' /\ NothingDone(t)' /\ Target(t)'
    BY <2>1 DEF InOrder, NothingDone, Target
  <2>3. Positioned(t)' BY <2>1, <1>3, <1>4, <1>6 DEF Positioned
  <2>4. Holding(t)' BY <2>1, <1>3, <1>5 DEF Holding
  <2>5. Changed(t)' \subseteq Changed(t) \union {<<b, s>>}
    <3>1. undo'[t] = Append(undo[t], record) BY <1>8
    <3>2. ASSUME NEW i \in DOMAIN undo'[t]
          PROVE  \/ i \in DOMAIN undo[t] /\ undo'[t][i] = undo[t][i]
                 \/ undo'[t][i] = record
      <4>1. PICK old \in Seq(LogRecords) : old = undo[t] OBVIOUS
      <4> HIDE DEF Typed
      <4>2. /\ Len(Append(old, record)) = Len(old) + 1
            /\ \A k \in 1..Len(old) : Append(old, record)[k] = old[k]
            /\ Append(old, record)[Len(old) + 1] = record
        BY <1>8, AppendProperties
      <4>3. DOMAIN undo'[t] = 1..(Len(old) + 1) /\ DOMAIN undo[t] = 1..Len(old)
        BY <4>1, <4>2, <3>1, <1>8
      <4>4. CASE i = Len(old) + 1 BY <4>1, <4>2, <4>4, <3>1
      <4>5. CASE i # Len(old) + 1
        <5>1. i \in 1..Len(old) BY <4>3, <4>5
        <5> QED BY <5>1, <4>1, <4>2, <4>3, <3>1
      <4> QED BY <4>4, <4>5
    <3>3. PlaceOf(record) = <<b, s>> BY <1>8 DEF PlaceOf
    <3> QED BY <3>2, <3>3 DEF Changed
  <2>6. ASSUME NEW p \in Changed(t) \union {<<b, s>>} PROVE p \in Places' /\ xlock'[p[1]] = t
    <3>1. CASE p \in Changed(t)
      <4>1. p \in Places /\ xlock[p[1]] = t BY <3>1 DEF ControlInv, ChangedIsLocked
      <4>2. p[1] \in Lockable BY <4>1, <1>4 DEF Places, Lockable, EndOfFile
      <4>3. Places' = Places
        <5>1. DOMAIN blocks' = DOMAIN blocks BY <1>6
        <5> QED BY <5>1 DEF Places
      <4> QED BY <4>1, <4>2, <4>3, <1>2, <1>3
    <3>2. CASE p = <<b, s>> BY <3>2, <1>2, <1>3, <1>4, <1>6 DEF Places
    <3> QED BY <3>1, <3>2
  <2>7. ChangedIsLocked(t)' BY <2>5, <2>6 DEF ChangedIsLocked
  <2> QED BY <2>2, <2>3, <2>4, <2>7 DEF ControlInv
<1>13. ASSUME NEW u \in Txs \ {t} PROVE ControlInv(u)' BY <1>9, <1>11, RespectedControl
<1>14. WritesInv'
  <2>1. Writing' = Writing \ {t}
    <3>1. t \notin Writing' BY <1>2 DEF Writing, Typed
    <3>2. \A u \in Txs \ {t} : u \in Writing' <=> u \in Writing
      BY <1>11 DEF Respected, Kept, Writing
    <3>3. Writing \subseteq Txs /\ Writing' \subseteq Txs BY DEF Writing
    <3> QED BY <3>1, <3>2, <3>3
  <2>2. writes + 1 + Cardinality(Writing \ {t}) <= WritesBound BY <1>2, NewIsValue
  <2> QED BY <2>1, <2>2, <1>2 DEF WritesInv
<1> QED BY <1>9, <1>10, <1>11, <1>12, <1>13, <1>14

(* A new block at the end of the file *)
LEMMA AppendInv ==
  ASSUME CallInv, NEW t \in Txs, moveToNewBlock(t)
  PROVE  CallInv' /\ \A u \in Txs \ {t} : Respected(u)
<1> USE DEF CallInv
<1>1. PICK new \in Nat : new = Len(blocks) + 1 /\ new \in 1..MaxBlocks
                         /\ Len(blocks) \in Nat /\ new # EndOfFile
                         /\ new \in Lockable /\ EndOfFile \in Lockable
  BY DEF moveToNewBlock, Typed, Lockable, EndOfFile
<1>2. /\ pc[t] = "append" /\ CanXLock(t, EndOfFile)
      /\ slock' = [slock EXCEPT ![new] = slock[new] \union {t}]
      /\ xlock' = [xlock EXCEPT ![EndOfFile] = t, ![new] = t]
      /\ blocks' = Append(blocks, EmptyBlock)
      /\ blk' = [blk EXCEPT ![t] = new] /\ slot' = [slot EXCEPT ![t] = 0]
      /\ pc' = [pc EXCEPT ![t] = IF op[t] = "insert" THEN "search" ELSE "idle"]
      /\ UNCHANGED <<op, found, undo, seen, missed, rows, added, removed, writes>>
  BY <1>1 DEF moveToNewBlock, MoveToBlock, Goto, historyVars
<1>3. /\ slock'[new] = {t} /\ xlock'[new] = t
      /\ slock'[EndOfFile] = {t} /\ xlock'[EndOfFile] = t
      /\ \A c \in Lockable : c # new => slock'[c] = slock[c]
      /\ \A c \in Lockable : c # new /\ c # EndOfFile => xlock'[c] = xlock[c]
  <2>1. slock[new] = {}
    <3>1. new > Len(blocks) BY <1>1
    <3> QED BY <3>1, <1>1 DEF LockInv
  <2>2. slock[new] = {} /\ t \in slock[EndOfFile]
    BY <2>1, <1>2 DEF ControlInv, Holding
  <2>3. slock[EndOfFile] = {t} BY <1>2, <2>2 DEF CanXLock
  <2> QED BY <1>1, <1>2, <2>2, <2>3 DEF Typed
<1>4. /\ blocks' \in Seq(Blocks) /\ Len(blocks') = new
      /\ \A c \in 1..Len(blocks) : blocks'[c] = blocks[c]
  <2>1. EmptyBlock \in Blocks BY DEF EmptyBlock, Empty, Blocks, Records
  <2> QED BY <2>1, <1>1, <1>2, AppendProperties DEF Typed
<1>5. Typed'
  <2> USE DEF Typed
  <2>1. slock' \in [Lockable -> SUBSET Txs] BY <1>1, <1>2
  <2>2. xlock' \in [Lockable -> Txs \union {Nobody}] BY <1>1, <1>2
  <2>3. pc' \in [Txs -> Control] BY <1>2 DEF Control
  <2>4. blk' \in [Txs -> Nat] /\ slot' \in [Txs -> 0..Slots] BY <1>1, <1>2
  <2>5. Len(blocks') <= MaxBlocks BY <1>1, <1>4
  <2> QED BY <2>1, <2>2, <2>3, <2>4, <2>5, <1>2, <1>4
<1>6. LockInv'
  <2> SUFFICES ASSUME NEW c \in Lockable
               PROVE  /\ xlock'[c] # Nobody => slock'[c] = {xlock'[c]}
                      /\ c > new => slock'[c] = {} /\ xlock'[c] = Nobody
    BY <1>4 DEF LockInv
  <2>1. c > new => c > Len(blocks) /\ c # EndOfFile BY <1>1 DEF Lockable, EndOfFile
  <2> QED BY <2>1, <1>1, <1>3 DEF LockInv, Lockable, EndOfFile
<1>7. ASSUME NEW u \in Txs \ {t} PROVE Respected(u)
  <2>1. Kept(u) BY <1>2 DEF Kept, Typed
  <2>2. u \notin slock[EndOfFile] BY <1>2 DEF CanXLock
  <2>3. ASSUME NEW c \in Lockable
        PROVE  /\ u \in slock[c] => u \in slock'[c]
               /\ xlock[c] = u => xlock'[c] = u
    <3>1. c = new => slock[c] = {} /\ xlock[c] = Nobody BY <1>1 DEF LockInv
    <3>2. xlock[EndOfFile] # u BY <1>2 DEF CanXLock
    <3> QED BY <3>1, <3>2, <1>3
  <2> QED BY <2>1, <2>2, <2>3, <1>1, <1>4 DEF Respected
<1>8. ControlInv(t)'
  <2> USE DEF Typed
  <2>1. /\ pc'[t] = IF op[t] = "insert" THEN "search" ELSE "idle"
        /\ slot'[t] = 0 /\ blk'[t] = new /\ op'[t] = op[t]
    BY <1>2
  <2>2. InOrder(t)' /\ NothingDone(t)' /\ Target(t)' /\ Holding(t)'
    BY <2>1 DEF InOrder, NothingDone, Target, Holding
  <2>3. Positioned(t)' BY <2>1, <1>1, <1>4 DEF Positioned
  <2>4. ASSUME NEW p \in Changed(t) PROVE p \in Places' /\ xlock'[p[1]] = t
    <3>1. p \in Places /\ xlock[p[1]] = t BY DEF ControlInv, ChangedIsLocked
    <3>2. p[1] \in Lockable /\ p[1] \in 1..Len(blocks) /\ p[1] \in 1..Len(blocks')
      BY <3>1, <1>1, <1>4 DEF Places, Lockable, EndOfFile
    <3>3. xlock'[p[1]] = t BY <3>1, <3>2, <1>3
    <3>4. p \in Places' BY <3>1, <3>2, <1>4 DEF Places
    <3> QED BY <3>3, <3>4
  <2>5. ChangedIsLocked(t)' BY <2>4, <1>2 DEF ChangedIsLocked, Changed
  <2> QED BY <2>2, <2>3, <2>5 DEF ControlInv
<1>9. ASSUME NEW u \in Txs \ {t} PROVE ControlInv(u)' BY <1>5, <1>7, RespectedControl
<1>10. WritesInv'
  <2>1. t \in Writing' => t \in Writing BY <1>2 DEF Writing, Typed
  <2>2. \A u \in Txs \ {t} : u \in Writing' <=> u \in Writing
    BY <1>7 DEF Respected, Kept, Writing
  <2>3. Writing' \subseteq Writing
    <3>1. Writing' \subseteq Txs BY DEF Writing
    <3> QED BY <3>1, <2>1, <2>2
  <2> QED BY <2>3, <1>2, FewerWriting DEF Typed
<1> QED BY <1>5, <1>6, <1>7, <1>8, <1>9, <1>10

(* The end of a transaction, with what its log records do to the file *)
LEMMA EndInv ==
  ASSUME CallInv, NEW t \in Txs, Release(t), Done(t),
         blocks' \in Seq(Blocks), Len(blocks') = Len(blocks),
         \A c \in 1..Len(blocks) : xlock[c] # t => blocks'[c] = blocks[c],
         added' = [added EXCEPT ![t] = {}], removed' = [removed EXCEPT ![t] = {}],
         rows' \subseteq Values, writes' = writes
  PROVE  CallInv' /\ \A u \in Txs \ {t} : Respected(u)
<1> USE DEF CallInv
<1>1. /\ slock' = [b \in Lockable |-> slock[b] \ {t}]
      /\ xlock' = [b \in Lockable |-> IF xlock[b] = t THEN Nobody ELSE xlock[b]]
      /\ pc' = [pc EXCEPT ![t] = "done"] /\ op' = [op EXCEPT ![t] = "open"]
      /\ blk' = [blk EXCEPT ![t] = 0] /\ slot' = [slot EXCEPT ![t] = 0]
      /\ found' = [found EXCEPT ![t] = 0]
      /\ undo' = [undo EXCEPT ![t] = <<>>]
      /\ seen' = [seen EXCEPT ![t] = <<>>] /\ missed' = [missed EXCEPT ![t] = FALSE]
  BY DEF Release, Done, Goto
<1>2. Typed'
  <2> USE DEF Typed
  <2>1. slock' \in [Lockable -> SUBSET Txs] BY <1>1
  <2>2. xlock' \in [Lockable -> Txs \union {Nobody}] BY <1>1
  <2>3. pc' \in [Txs -> Control] BY <1>1 DEF Control
  <2>4. blk' \in [Txs -> Nat] /\ slot' \in [Txs -> 0..Slots] /\ found' \in [Txs -> 0..Slots]
    BY <1>1
  <2>5. undo' \in [Txs -> Seq(LogRecords)] BY <1>1
  <2>6. seen' \in [Txs -> Seq(Values \union {0})]
    <3>1. <<>> \in Seq(Values \union {0}) OBVIOUS
    <3> QED BY <3>1, <1>1
  <2>7. added' \in [Txs -> SUBSET Values] /\ removed' \in [Txs -> SUBSET (Values \union {0})]
    OBVIOUS
  <2>8. op' \in [Txs -> {"open", "next", "insert", "set", "delete"}] BY <1>1
  <2>9. missed' \in [Txs -> BOOLEAN] BY <1>1
  <2> QED BY <2>1, <2>2, <2>3, <2>4, <2>5, <2>6, <2>7, <2>8, <2>9
<1>3. LockInv'
  <2> SUFFICES ASSUME NEW c \in Lockable
               PROVE  /\ xlock'[c] # Nobody => slock'[c] = {xlock'[c]}
                      /\ c > Len(blocks) => slock'[c] = {} /\ xlock'[c] = Nobody
    BY DEF LockInv
  <2>1. /\ xlock[c] # Nobody => slock[c] = {xlock[c]}
        /\ c > Len(blocks) => slock[c] = {} /\ xlock[c] = Nobody
    BY DEF LockInv
  <2> QED BY <2>1, <1>1
<1>4. ASSUME NEW u \in Txs \ {t} PROVE Respected(u)
  <2>1. Kept(u) BY <1>1 DEF Kept, Typed
  <2>2. ASSUME NEW c \in Lockable
        PROVE  /\ u \in slock[c] => u \in slock'[c]
               /\ xlock[c] = u => xlock'[c] = u
    BY <1>1
  <2>3. ASSUME NEW c \in Lockable, c \in 1..Len(blocks), u \in slock[c]
        PROVE  blocks'[c] = blocks[c]
    <3>1. xlock[c] # t BY <2>3 DEF LockInv
    <3> QED BY <3>1, <2>3
  <2> QED BY <2>1, <2>2, <2>3 DEF Respected, Typed
<1>5. ControlInv(t)'
  <2> USE DEF Typed
  <2>1. InOrder(t)' /\ NothingDone(t)' /\ Holding(t)' /\ Target(t)'
    BY <1>1 DEF InOrder, NothingDone, Holding, Target
  <2>2. Positioned(t)' BY <1>1 DEF Positioned
  <2>3. ChangedIsLocked(t)' BY <1>1 DEF ChangedIsLocked, Changed
  <2> QED BY <2>1, <2>2, <2>3 DEF ControlInv
<1>6. ASSUME NEW u \in Txs \ {t} PROVE ControlInv(u)' BY <1>2, <1>4, RespectedControl
<1>7. WritesInv'
  <2>1. t \notin Writing' BY <1>1 DEF Writing, Typed
  <2>2. \A u \in Txs \ {t} : u \in Writing' <=> u \in Writing
    BY <1>4 DEF Respected, Kept, Writing
  <2>3. Writing' \subseteq Writing
    <3>1. Writing' \subseteq Txs BY DEF Writing
    <3> QED BY <3>1, <2>1, <2>2
  <2> QED BY <2>3, FewerWriting DEF Typed
<1> QED BY <1>2, <1>3, <1>4, <1>5, <1>6, <1>7

LEMMA CommitInv ==
  ASSUME CallInv, NEW t \in Txs, Commit(t)
  PROVE  CallInv' /\ \A u \in Txs \ {t} : Respected(u)
<1>1. /\ Release(t) /\ Done(t) /\ blocks' = blocks /\ writes' = writes
      /\ added' = [added EXCEPT ![t] = {}] /\ removed' = [removed EXCEPT ![t] = {}]
      /\ rows' = (rows \union added[t]) \ removed[t]
  BY DEF Commit
<1>2. /\ blocks' \in Seq(Blocks) /\ rows' \subseteq Values
  BY <1>1 DEF CallInv, Typed
<1> QED BY <1>1, <1>2, EndInv

(* A rollback brings back every slot that the transaction has changed. *)
LEMMA RollbackIs ==
  ASSUME CallInv, NEW t \in Txs, Rollback(t)
  PROVE  /\ blocks' \in Seq(Blocks) /\ Len(blocks') = Len(blocks)
         /\ \A p \in Places : blocks'[p[1]][p[2]] = Before(t, p)
         /\ \A c \in 1..Len(blocks) : xlock[c] # t => blocks'[c] = blocks[c]
<1>1. blocks' = Undone(t) BY DEF Rollback
<1>2. blocks \in Seq(Blocks) /\ undo[t] \in Seq(LogRecords) BY DEF CallInv, Typed
<1>3. \A p \in Changed(t) : p \in Places /\ xlock[p[1]] = t
  BY DEF CallInv, ControlInv, ChangedIsLocked
<1>4. /\ blocks' \in Seq(Blocks) /\ Len(blocks') = Len(blocks)
      /\ \A b \in 1..Len(blocks), s \in 1..Slots : blocks'[b][s] = Before(t, <<b, s>>)
  BY <1>1, <1>2, <1>3, UndoneIs
<1>5. ASSUME NEW c \in 1..Len(blocks), xlock[c] # t PROVE blocks'[c] = blocks[c]
  <2>1. ASSUME NEW s \in 1..Slots PROVE blocks'[c][s] = blocks[c][s]
    <3>1. <<c, s>> \notin Changed(t) BY <1>3, <1>5
    <3> QED BY <3>1, <1>4 DEF Before, At
  <2>2. blocks'[c] \in Blocks /\ blocks[c] \in Blocks BY <1>2, <1>4
  <2> QED BY <2>1, <2>2 DEF Blocks
<1>6. ASSUME NEW p \in Places PROVE blocks'[p[1]][p[2]] = Before(t, p)
  <2>1. PICK b \in 1..Len(blocks), s \in 1..Slots : p = <<b, s>> BY <1>2 DEF Places
  <2> QED BY <2>1, <1>4
<1> QED BY <1>4, <1>5, <1>6

LEMMA RollbackInv ==
  ASSUME CallInv, NEW t \in Txs, Rollback(t)
  PROVE  CallInv' /\ \A u \in Txs \ {t} : Respected(u)
<1>1. /\ Release(t) /\ Done(t) /\ writes' = writes /\ rows' = rows
      /\ added' = [added EXCEPT ![t] = {}] /\ removed' = [removed EXCEPT ![t] = {}]
  BY DEF Rollback
<1>2. rows' \subseteq Values BY <1>1 DEF CallInv, Typed
<1> QED BY <1>1, <1>2, RollbackIs, EndInv

LEMMA InitCall == ASSUME Init PROVE CallInv
<1> USE InitialAssumption DEF Init
<1>1. /\ blocks \in Seq([1..Slots -> [used : BOOLEAN, val : 0..InitialValues]])
      /\ Len(blocks) <= MaxBlocks
      /\ \A p \in UsedSlots(blocks) : ValueAt(blocks, p) # 0
  OBVIOUS
<1>2. InitialValues \in Nat /\ WritesBound \in Nat /\ 0..InitialValues \subseteq Values \union {0}
  BY WritingFinite DEF InitialValues, Values
<1>3. blocks \in Seq(Blocks)
  <2>1. PICK I : I = [1..Slots -> [used : BOOLEAN, val : 0..InitialValues]] OBVIOUS
  <2>2. I \subseteq Blocks BY <2>1, <1>2 DEF Blocks, Records
  <2>3. blocks \in Seq(I) BY <2>1, <1>1
  <2>4. PICK B : B = Blocks OBVIOUS
  <2>5. blocks \in Seq(B) BY <2>2, <2>3, <2>4
  <2> QED BY <2>4, <2>5
<1>4. rows \subseteq Values
  <2> SUFFICES ASSUME NEW p \in UsedSlots(blocks) PROVE ValueAt(blocks, p) \in Values
    BY DEF TableValues
  <2>1. p[1] \in DOMAIN blocks /\ p[2] \in 1..Slots BY DEF UsedSlots
  <2>2. blocks[p[1]] \in Blocks BY <2>1, <1>3
  <2>3. ValueAt(blocks, p) \in Values \union {0} BY <2>1, <2>2 DEF ValueAt, Blocks, Records
  <2> QED BY <2>3, <1>1
<1>5. Typed
  <2>1. xlock \in [Lockable -> Txs \union {Nobody}] /\ slock \in [Lockable -> SUBSET Txs]
    OBVIOUS
  <2>2. pc \in [Txs -> Control] BY DEF Control
  <2>3. undo \in [Txs -> Seq(LogRecords)] /\ seen \in [Txs -> Seq(Values \union {0})]
    OBVIOUS
  <2>4. slot \in [Txs -> 0..Slots] /\ found \in [Txs -> 0..Slots] OBVIOUS
  <2> QED BY <2>1, <2>2, <2>3, <2>4, <1>1, <1>3, <1>4 DEF Typed
<1>6. LockInv BY DEF LockInv
<1>7. ASSUME NEW t \in Txs PROVE ControlInv(t)
  <2>1. InOrder(t) /\ NothingDone(t) /\ Holding(t) /\ Target(t)
    BY DEF InOrder, NothingDone, Holding, Target
  <2>2. Positioned(t) BY <1>5 DEF Positioned, Typed
  <2>3. ChangedIsLocked(t) BY DEF ChangedIsLocked, Changed
  <2> QED BY <2>1, <2>2, <2>3 DEF ControlInv
<1>8. WritesInv
  <2>1. Writing = {} BY DEF Writing
  <2>2. Cardinality(Writing) = 0 BY <2>1, FS_EmptySet
  <2> QED BY <2>2, <1>2 DEF WritesInv
<1> QED BY <1>5, <1>6, <1>7, <1>8 DEF CallInv

LEMMA StepKinds ==
  ASSUME NEW t \in Txs,
         \/ NewTableScan(t) \/ CallNext(t) \/ CallInsert(t) \/ CallSet(t) \/ CallDelete(t)
         \/ BeforeFirst(t) \/ Step(t) \/ Commit(t) \/ Rollback(t)
  PROVE  QuietStep(t) \/ Change(t) \/ moveToNewBlock(t) \/ Commit(t) \/ Rollback(t)
BY DEF QuietStep, Step

LEMMA CallStep == ASSUME CallInv, [Next]_vars PROVE CallInv'
<1>1. CASE UNCHANGED vars
  <2> USE <1>1 DEF vars, scanVars, historyVars, CallInv
  <2>1. Typed' /\ LockInv' BY DEF Typed, LockInv
  <2>2. ASSUME NEW u \in Txs PROVE Respected(u) BY DEF Respected, Kept, Typed
  <2>3. ASSUME NEW u \in Txs PROVE ControlInv(u)' BY <2>1, <2>2, RespectedControl
  <2>4. WritesInv' BY DEF WritesInv, Writing
  <2> QED BY <2>1, <2>3, <2>4
<1>2. ASSUME NEW t \in Txs,
             QuietStep(t) \/ Change(t) \/ moveToNewBlock(t) \/ Commit(t) \/ Rollback(t)
      PROVE  CallInv'
  BY <1>2, QuietInv, ChangeInv, AppendInv, CommitInv, RollbackInv
<1> QED BY <1>1, <1>2, StepKinds DEF Next

THEOREM Calls == Spec => []CallInv
<1>1. Init => CallInv BY InitCall
<1>2. CallInv /\ [Next]_vars => CallInv' BY CallStep
<1> QED BY <1>1, <1>2, PTL DEF Spec

(* The variables of the scans have their types; a record page is never beyond *)
(* the end of the file, and no more writes are made than the calls that were   *)
(* begun under the bound (table_scan.go, record/page.go).                      *)
THEOREM TypeCorrect == Spec => []TypeOK
<1>1. CallInv => TypeOK
  <2> SUFFICES ASSUME CallInv PROVE TypeOK OBVIOUS
  <2>1. writes \in 0..WritesBound
    <3>1. PICK n \in Nat : n = Cardinality(Writing) BY WritingFinite
    <3>2. writes + n <= WritesBound /\ writes \in Nat BY <3>1 DEF CallInv, Typed, WritesInv
    <3> QED BY <3>1, <3>2, WritingFinite
  <2>2. \A t \in Txs : blk[t] \in 0..Len(blocks) BY DEF CallInv, ControlInv, Positioned
  <2> QED BY <2>1, <2>2 DEF CallInv, Typed, TypeOK, Blocks
<1> QED BY <1>1, Calls, PTL

-----------------------------------------------------------------------------
(* What the table holds (RecordsAreKept) and what a scan has seen of it     *)
(* (ScannedIsTable), on the invariant of the control.                       *)

(***************************************************************************)
(* The data, as constants: of the places P of the file, A is what is there, *)
(* C what committed transactions have left there, X[t] the places that t    *)
(* has changed; R, ad and rm are the history, and top the last new value.   *)
(***************************************************************************)
Of(A, Q) == {A[p].val : p \in {q \in Q : A[q].used}}
Distinct(A, P) == \A p, q \in P : A[p].used /\ A[q].used /\ p # q => A[p].val # A[q].val

DataIs(P, A, C, X, R, ad, rm, top) ==
  /\ \A t \in Txs : X[t] \subseteq P
  /\ \A t, u \in Txs : t # u => X[t] \intersect X[u] = {}
  /\ Distinct(A, P) /\ Distinct(C, P)
  /\ \A p \in P : (\A t \in Txs : p \notin X[t]) => A[p] = C[p]
  /\ R = Of(C, P)
  /\ \A t \in Txs : ad[t] = Of(A, X[t]) /\ ad[t] \intersect R = {}
  /\ \A t \in Txs : rm[t] \intersect R = Of(C, X[t])
  /\ \A t, u \in Txs : rm[t] \intersect ad[u] = {}
  /\ R \subseteq 1..top
  /\ \A t \in Txs : ad[t] \subseteq 1..top /\ rm[t] \subseteq 1..top

LEMMA OfIs ==
  ASSUME NEW A, NEW Q, NEW v PROVE v \in Of(A, Q) <=> \E q \in Q : A[q].used /\ A[q].val = v
BY DEF Of

(* Everything in the file is committed or added by somebody. *)
LEMMA Origin ==
  ASSUME NEW P, NEW A, NEW C, NEW X, NEW R, NEW ad, NEW rm, NEW top,
         DataIs(P, A, C, X, R, ad, rm, top), NEW p \in P, A[p].used
  PROVE  /\ A[p].val \in 1..top
         /\ \/ A[p] = C[p] /\ A[p].val \in R /\ \A t \in Txs : p \notin X[t]
            \/ \E t \in Txs : p \in X[t] /\ A[p].val \in ad[t]
<1>1. CASE \E t \in Txs : p \in X[t]
  <2>1. PICK t \in Txs : p \in X[t] BY <1>1
  <2>2. A[p].val \in ad[t] BY <2>1, OfIs DEF DataIs
  <2> QED BY <2>1, <2>2 DEF DataIs
<1>2. CASE \A t \in Txs : p \notin X[t]
  <2>1. A[p] = C[p] BY <1>2 DEF DataIs
  <2>2. A[p].val \in R BY <2>1, OfIs DEF DataIs
  <2> QED BY <2>1, <2>2, <1>2 DEF DataIs
<1> QED BY <1>1, <1>2

(* A transaction writes a slot that no other one has changed. *)
WriteIs(P, A, X, ad, rm, top, t, p, r, A2, X2, ad2, rm2) ==
  /\ \A u \in Txs \ {t} : p \notin X[u]
  /\ ValueOf(r) \subseteq {top + 1}
  /\ \A q \in P : A2[q] = IF q = p THEN r ELSE A[q]
  /\ \A u \in Txs : X2[u] = IF u = t THEN X[t] \union {p} ELSE X[u]
  /\ \A u \in Txs : ad2[u] = IF u = t THEN (ad[t] \union ValueOf(r)) \ ValueOf(A[p]) ELSE ad[u]
  /\ \A u \in Txs : rm2[u] = IF u = t THEN rm[t] \union ValueOf(A[p]) ELSE rm[u]

LEMMA DataWrite ==
  ASSUME NEW P, NEW A, NEW C, NEW X, NEW R, NEW ad, NEW rm, NEW top \in Nat,
         DataIs(P, A, C, X, R, ad, rm, top),
         NEW t \in Txs, NEW p \in P, NEW r, NEW A2, NEW X2, NEW ad2, NEW rm2,
         WriteIs(P, A, X, ad, rm, top, t, p, r, A2, X2, ad2, rm2)
  PROVE  DataIs(P, A2, C, X2, R, ad2, rm2, top + 1)
<1> USE DEF WriteIs
<1>1. r.used => r.val = top + 1 BY DEF ValueOf
<1>2. \A v : v \in ValueOf(r) <=> r.used /\ v = r.val BY DEF ValueOf
<1>3. \A v : v \in ValueOf(A[p]) <=> A[p].used /\ v = A[p].val BY DEF ValueOf
<1>4. \A q \in P : A[q].used => A[q].val \in 1..top BY Origin
<1>5. \A v \in 1..top : v # top + 1 /\ v \in 1..(top + 1) OBVIOUS
<1>6. Distinct(A, P) /\ Distinct(C, P) BY DEF DataIs
<1>7. X[t] \subseteq P /\ \A u \in Txs : X[u] \subseteq P BY DEF DataIs
<1>8. Distinct(A2, P)
  <2> SUFFICES ASSUME NEW q1 \in P, NEW q2 \in P, A2[q1].used, A2[q2].used, q1 # q2
               PROVE  A2[q1].val # A2[q2].val
    BY DEF Distinct
  <2> QED BY <1>1, <1>4, <1>5, <1>6 DEF Distinct
<1>9. ASSUME NEW v PROVE v \in ad2[t] <=> v \in Of(A2, X2[t])
  <2>1. v \in ad2[t] <=> (v \in ad[t] \/ (r.used /\ v = r.val)) /\ ~(A[p].used /\ v = A[p].val)
    BY <1>2, <1>3
  <2>2. v \in ad[t] <=> \E q \in X[t] : A[q].used /\ A[q].val = v BY OfIs DEF DataIs
  <2>3. v \in Of(A2, X2[t]) <=> \E q \in X2[t] : A2[q].used /\ A2[q].val = v BY OfIs
  <2>4. X2[t] = X[t] \union {p} OBVIOUS
  <2>5. r.used /\ A[p].used => r.val # A[p].val BY <1>1, <1>4, <1>5
  <2>6. ASSUME v \in ad2[t] PROVE v \in Of(A2, X2[t])
    <3>1. CASE r.used /\ v = r.val BY <3>1, <2>3, <2>4
    <3>2. CASE v \in ad[t]
      <4>1. PICK q \in X[t] : A[q].used /\ A[q].val = v BY <3>2, <2>2
      <4>2. q # p BY <4>1, <2>1, <2>6
      <4> QED BY <4>1, <4>2, <2>3, <2>4, <1>7
    <3> QED BY <3>1, <3>2, <2>1, <2>6
  <2>7. ASSUME v \in Of(A2, X2[t]) PROVE v \in ad2[t]
    <3>1. PICK q \in X2[t] : A2[q].used /\ A2[q].val = v BY <2>3, <2>7
    <3>2. CASE q = p BY <3>1, <3>2, <2>1, <2>5
    <3>3. CASE q # p
      <4>1. q \in X[t] /\ q \in P /\ A[q].used /\ A[q].val = v BY <3>1, <3>3, <2>4, <1>7
      <4>2. ~(A[p].used /\ v = A[p].val) BY <4>1, <3>3, <1>6 DEF Distinct
      <4> QED BY <4>1, <4>2, <2>1, <2>2
    <3> QED BY <3>2, <3>3
  <2> QED BY <2>6, <2>7
<1>10. ASSUME NEW u \in Txs \ {t}, NEW v PROVE v \in ad2[u] <=> v \in Of(A2, X2[u])
  <2>1. ad2[u] = ad[u] /\ X2[u] = X[u] OBVIOUS
  <2>2. \A q \in X[u] : A2[q] = A[q] BY <1>7
  <2> QED BY <2>1, <2>2, OfIs DEF DataIs
<1>11. \A u \in Txs : ad2[u] = Of(A2, X2[u]) BY <1>9, <1>10
<1>12. ASSUME NEW u \in Txs PROVE ad2[u] \intersect R = {}
  <2>1. R \subseteq 1..top /\ ad[u] \intersect R = {} BY DEF DataIs
  <2>2. \A v \in ad2[u] : v \in ad[u] \/ v = top + 1 BY <1>1, <1>2
  <2> QED BY <2>1, <2>2, <1>5
<1>13. ASSUME NEW u \in Txs PROVE rm2[u] \intersect R = Of(C, X2[u])
  <2>1. rm[u] \intersect R = Of(C, X[u]) BY DEF DataIs
  <2>2. CASE u # t BY <2>1, <2>2
  <2>3. CASE u = t /\ p \in X[t]
    <3>1. A[p].used => A[p].val \in ad[t] BY <2>3, OfIs DEF DataIs
    <3>2. A[p].used => A[p].val \notin R BY <3>1 DEF DataIs
    <3>3. rm2[t] \intersect R = rm[t] \intersect R BY <3>2, <1>3
    <3>4. X2[t] = X[t] BY <2>3
    <3> QED BY <3>3, <3>4, <2>1, <2>3
  <2>4. CASE u = t /\ p \notin X[t]
    <3>1. C[p] = A[p] BY <2>4 DEF DataIs
    <3>2. A[p].used => A[p].val \in R BY <3>1, OfIs DEF DataIs
    <3>3. ASSUME NEW v PROVE v \in rm2[t] /\ v \in R <=> v \in Of(C, X2[t])
      <4>1. v \in rm2[t] /\ v \in R <=> (v \in rm[t] /\ v \in R) \/ (A[p].used /\ v = A[p].val)
        BY <3>2, <1>3
      <4>2. v \in rm[t] /\ v \in R <=> \E q \in X[t] : C[q].used /\ C[q].val = v
        BY <2>1, <2>4, OfIs
      <4>3. v \in Of(C, X2[t]) <=> \E q \in X[t] \union {p} : C[q].used /\ C[q].val = v
        BY OfIs
      <4> QED BY <4>1, <4>2, <4>3, <3>1
    <3> QED BY <3>3, <2>4
  <2> QED BY <2>2, <2>3, <2>4
<1>14. ASSUME NEW u \in Txs, NEW w \in Txs PROVE rm2[u] \intersect ad2[w] = {}
  <2> SUFFICES ASSUME NEW v \in rm2[u], v \in ad2[w] PROVE FALSE OBVIOUS
  <2>1. v \in rm[u] \/ (u = t /\ A[p].used /\ v = A[p].val) BY <1>3
  <2>2. v \in ad[w] \/ v = top + 1 BY <1>1, <1>2
  <2>3. v \in 1..top BY <2>1, <1>4 DEF DataIs
  <2>4. v \in ad[w] BY <2>2, <2>3, <1>5
  <2>5. rm[u] \intersect ad[w] = {} BY DEF DataIs
  <2>6. u = t /\ A[p].used /\ v = A[p].val BY <2>1, <2>4, <2>5
  <2>7. w # t BY <2>6, <1>3
  <2>8. PICK q \in X[w] : A[q].used /\ A[q].val = v BY <2>4, OfIs DEF DataIs
  <2>9. q \in P /\ q # p BY <2>7, <2>8, <1>7
  <2> QED BY <2>6, <2>8, <2>9, <1>6 DEF Distinct
<1>15. ASSUME NEW u \in Txs PROVE ad2[u] \subseteq 1..(top + 1) /\ rm2[u] \subseteq 1..(top + 1)
  <2>1. ad[u] \subseteq 1..top /\ rm[u] \subseteq 1..top BY DEF DataIs
  <2>2. \A v \in ad2[u] : v \in ad[u] \/ v = top + 1 BY <1>1, <1>2
  <2>3. \A v \in rm2[u] : v \in 1..top BY <2>1, <1>3, <1>4
  <2>4. top + 1 \in 1..(top + 1) OBVIOUS
  <2> QED BY <2>1, <2>2, <2>3, <2>4, <1>5
<1>16. \A u \in Txs : X2[u] \subseteq P BY <1>7
<1>17. \A u, w \in Txs : u # w => X2[u] \intersect X2[w] = {} BY DEF DataIs
<1>18. \A q \in P : (\A u \in Txs : q \notin X2[u]) => A2[q] = C[q] BY DEF DataIs
<1>19. R = Of(C, P) /\ R \subseteq 1..(top + 1) BY <1>5 DEF DataIs
<1> QED
  BY <1>6, <1>8, <1>11, <1>12, <1>13, <1>14, <1>15, <1>16, <1>17, <1>18, <1>19 DEF DataIs

(* A commit makes what its transaction has changed the committed data. *)
Cleared(f, t, f2) == \A u \in Txs : f2[u] = IF u = t THEN {} ELSE f[u]
Moved(P, from, to, Q, to2) == \A p \in P : to2[p] = IF p \in Q THEN from[p] ELSE to[p]

LEMMA DataCommit ==
  ASSUME NEW P, NEW A, NEW C, NEW X, NEW R, NEW ad, NEW rm, NEW top \in Nat,
         DataIs(P, A, C, X, R, ad, rm, top), NEW t \in Txs,
         NEW C2, Moved(P, A, C, X[t], C2), NEW X2, Cleared(X, t, X2),
         NEW ad2, Cleared(ad, t, ad2), NEW rm2, Cleared(rm, t, rm2)
  PROVE  DataIs(P, A, C2, X2, (R \union ad[t]) \ rm[t], ad2, rm2, top)
<1> USE DEF Moved, Cleared
<1> DEFINE R2 == (R \union ad[t]) \ rm[t]
<1>1. /\ \A u \in Txs : X[u] \subseteq P
      /\ \A u, w \in Txs : u # w => X[u] \intersect X[w] = {}
      /\ Distinct(A, P) /\ Distinct(C, P) /\ R = Of(C, P)
      /\ \A u, w \in Txs : rm[u] \intersect ad[w] = {}
      /\ \A u \in Txs : ad[u] \intersect R = {}
  BY DEF DataIs
<1>2. \A v : v \in R <=> \E q \in P : C[q].used /\ C[q].val = v BY <1>1, OfIs
<1>3. ASSUME NEW u \in Txs, NEW v
      PROVE  v \in ad[u] <=> \E q \in X[u] : A[q].used /\ A[q].val = v
  BY OfIs DEF DataIs
<1>4. ASSUME NEW u \in Txs, NEW v
      PROVE  v \in rm[u] /\ v \in R <=> \E q \in X[u] : C[q].used /\ C[q].val = v
  <2>1. rm[u] \intersect R = Of(C, X[u]) BY DEF DataIs
  <2> QED BY <2>1, OfIs
<1>5. Distinct(C2, P)
  <2> SUFFICES ASSUME NEW p \in P, NEW q \in P, C2[p].used, C2[q].used, p # q,
                      C2[p].val = C2[q].val
               PROVE  FALSE
    BY DEF Distinct
  <2>1. CASE p \in X[t] /\ q \in X[t] BY <2>1, <1>1 DEF Distinct
  <2>2. CASE p \notin X[t] /\ q \notin X[t] BY <2>2, <1>1 DEF Distinct
  <2>3. CASE p \in X[t] /\ q \notin X[t]
    <3>1. C2[p].val \in ad[t] /\ C2[q].val \in R BY <2>3, <1>2, <1>3
    <3> QED BY <3>1, <1>1
  <2>4. CASE p \notin X[t] /\ q \in X[t]
    <3>1. C2[q].val \in ad[t] /\ C2[p].val \in R BY <2>4, <1>2, <1>3
    <3> QED BY <3>1, <1>1
  <2> QED BY <2>1, <2>2, <2>3, <2>4
<1>6. ASSUME NEW v PROVE v \in R2 <=> v \in Of(C2, P)
  <2>1. v \in Of(C2, P) <=> \E q \in P : C2[q].used /\ C2[q].val = v BY OfIs
  <2>2. ASSUME v \in R, v \notin rm[t] PROVE v \in Of(C2, P)
    <3>1. PICK q \in P : C[q].used /\ C[q].val = v BY <2>2, <1>2
    <3>2. q \notin X[t] BY <2>2, <3>1, <1>4
    <3> QED BY <3>1, <3>2, <2>1
  <2>3. ASSUME v \in ad[t] PROVE v \in Of(C2, P) /\ v \notin rm[t]
    <3>1. PICK q \in X[t] : A[q].used /\ A[q].val = v BY <2>3, <1>3
    <3> QED BY <3>1, <2>1, <2>3, <1>1
  <2>4. ASSUME v \in Of(C2, P) PROVE v \in R2
    <3>1. PICK q \in P : C2[q].used /\ C2[q].val = v BY <2>1, <2>4
    <3>2. CASE q \in X[t]
      <4>1. v \in ad[t] BY <3>1, <3>2, <1>3
      <4> QED BY <4>1, <2>3
    <3>3. CASE q \notin X[t]
      <4>1. v \in R /\ C[q].used /\ C[q].val = v BY <3>1, <3>3, <1>2
      <4>2. v \notin rm[t]
        <5> SUFFICES ASSUME v \in rm[t] PROVE FALSE OBVIOUS
        <5>1. PICK p \in X[t] : C[p].used /\ C[p].val = v BY <4>1, <1>4
        <5> QED BY <5>1, <4>1, <3>3, <1>1 DEF Distinct
      <4> QED BY <4>1, <4>2
    <3> QED BY <3>2, <3>3
  <2> QED BY <2>2, <2>3, <2>4
<1>7. ASSUME NEW u \in Txs
      PROVE  ad2[u] = Of(A, X2[u]) /\ ad2[u] \intersect R2 = {}
  <2>1. CASE u = t BY <2>1 DEF Of
  <2>2. CASE u # t
    <3>1. ad2[u] = Of(A, X2[u]) BY <2>2 DEF DataIs
    <3>2. ASSUME NEW v \in ad[u], v \in ad[t] PROVE FALSE
      <4>1. PICK p \in X[u] : A[p].used /\ A[p].val = v BY <1>3
      <4>2. PICK q \in X[t] : A[q].used /\ A[q].val = v BY <1>3, <3>2
      <4>3. p # q /\ p \in P /\ q \in P BY <2>2, <1>1
      <4> QED BY <4>1, <4>2, <4>3, <1>1 DEF Distinct
    <3> QED BY <3>1, <3>2, <2>2, <1>1
  <2> QED BY <2>1, <2>2
<1>8. ASSUME NEW u \in Txs PROVE rm2[u] \intersect R2 = Of(C2, X2[u])
  <2>1. CASE u = t BY <2>1 DEF Of
  <2>2. CASE u # t
    <3>1. ASSUME NEW v PROVE v \in Of(C2, X2[u]) <=> \E q \in X[u] : C[q].used /\ C[q].val = v
      <4>1. X2[u] = X[u] /\ \A q \in X[u] : C2[q] = C[q] BY <2>2, <1>1
      <4> QED BY <4>1, OfIs
    <3>2. ASSUME NEW v \in rm[u], v \in R, v \in rm[t] PROVE FALSE
      <4>1. PICK p \in X[u] : C[p].used /\ C[p].val = v BY <1>4, <3>2
      <4>2. PICK q \in X[t] : C[q].used /\ C[q].val = v BY <1>4, <3>2
      <4>3. p # q /\ p \in P /\ q \in P BY <2>2, <1>1
      <4> QED BY <4>1, <4>2, <4>3, <1>1 DEF Distinct
    <3>3. ASSUME NEW v PROVE v \in rm[u] /\ v \in R2 <=> v \in rm[u] /\ v \in R
      BY <3>2, <1>1
    <3> QED BY <3>1, <3>3, <2>2, <1>4
  <2> QED BY <2>1, <2>2
<1>9. \A u \in Txs : X2[u] \subseteq P BY <1>1
<1>10. \A u, w \in Txs : u # w => X2[u] \intersect X2[w] = {} BY <1>1
<1>11. ASSUME NEW p \in P, \A u \in Txs : p \notin X2[u] PROVE A[p] = C2[p]
  <2>1. CASE p \in X[t] BY <2>1
  <2>2. CASE p \notin X[t]
    <3>1. \A u \in Txs : p \notin X[u] BY <2>2, <1>11
    <3> QED BY <3>1, <2>2 DEF DataIs
  <2> QED BY <2>1, <2>2
<1>12. \A u, w \in Txs : rm2[u] \intersect ad2[w] = {} BY <1>1
<1>13. R2 \subseteq 1..top /\ \A u \in Txs : ad2[u] \subseteq 1..top /\ rm2[u] \subseteq 1..top
  BY DEF DataIs
<1>14. R2 = Of(C2, P) BY <1>6
<1> QED BY <1>1, <1>5, <1>7, <1>8, <1>9, <1>10, <1>11, <1>12, <1>13, <1>14 DEF DataIs

(* A rollback leaves what committed transactions have left. *)
LEMMA DataRollback ==
  ASSUME NEW P, NEW A, NEW C, NEW X, NEW R, NEW ad, NEW rm, NEW top \in Nat,
         DataIs(P, A, C, X, R, ad, rm, top), NEW t \in Txs,
         NEW A2, Moved(P, C, A, X[t], A2), NEW X2, Cleared(X, t, X2),
         NEW ad2, Cleared(ad, t, ad2), NEW rm2, Cleared(rm, t, rm2)
  PROVE  DataIs(P, A2, C, X2, R, ad2, rm2, top)
<1> USE DEF Moved, Cleared
<1>1. /\ \A u \in Txs : X[u] \subseteq P
      /\ \A u, w \in Txs : u # w => X[u] \intersect X[w] = {}
      /\ Distinct(A, P) /\ Distinct(C, P) /\ R = Of(C, P)
      /\ \A u \in Txs : ad[u] \intersect R = {}
  BY DEF DataIs
<1>2. ASSUME NEW p \in P, NEW q \in P, p \in X[t], C[p].used, q \notin X[t], A[q].used
      PROVE  C[p].val # A[q].val
  <2>1. C[p].val \in R BY <1>1, <1>2, OfIs
  <2>2. CASE A[q] = C[q] BY <2>2, <1>1, <1>2 DEF Distinct
  <2>3. CASE \E u \in Txs : q \in X[u] /\ A[q].val \in ad[u] BY <2>1, <2>3, <1>1
  <2> QED BY <2>2, <2>3, <1>2, Origin
<1>3. Distinct(A2, P)
  <2> SUFFICES ASSUME NEW p \in P, NEW q \in P, A2[p].used, A2[q].used, p # q,
                      A2[p].val = A2[q].val
               PROVE  FALSE
    BY DEF Distinct
  <2>1. CASE p \in X[t] /\ q \in X[t] BY <2>1, <1>1 DEF Distinct
  <2>2. CASE p \notin X[t] /\ q \notin X[t] BY <2>2, <1>1 DEF Distinct
  <2>3. CASE p \in X[t] /\ q \notin X[t] BY <2>3, <1>2
  <2>4. CASE p \notin X[t] /\ q \in X[t] BY <2>4, <1>2
  <2> QED BY <2>1, <2>2, <2>3, <2>4
<1>4. ASSUME NEW u \in Txs PROVE ad2[u] = Of(A2, X2[u]) /\ ad2[u] \intersect R = {}
  <2>1. CASE u = t BY <2>1 DEF Of
  <2>2. CASE u # t
    <3>1. X2[u] = X[u] /\ ad2[u] = ad[u] /\ \A q \in X[u] : A2[q] = A[q] BY <2>2, <1>1
    <3>2. ASSUME NEW v PROVE v \in Of(A2, X2[u]) <=> v \in Of(A, X[u]) BY <3>1, OfIs
    <3>3. ad[u] = Of(A, X[u]) BY DEF DataIs
    <3>4. Of(A2, X2[u]) = Of(A, X[u]) BY <3>2
    <3> QED BY <3>1, <3>3, <3>4, <1>1
  <2> QED BY <2>1, <2>2
<1>5. ASSUME NEW u \in Txs PROVE rm2[u] \intersect R = Of(C, X2[u])
  <2>1. CASE u = t BY <2>1 DEF Of
  <2>2. CASE u # t BY <2>2 DEF DataIs
  <2> QED BY <2>1, <2>2
<1>6. \A u \in Txs : X2[u] \subseteq P BY <1>1
<1>7. \A u, w \in Txs : u # w => X2[u] \intersect X2[w] = {} BY <1>1
<1>8. ASSUME NEW p \in P, \A u \in Txs : p \notin X2[u] PROVE A2[p] = C[p]
  <2>1. CASE p \in X[t] BY <2>1
  <2>2. CASE p \notin X[t]
    <3>1. \A u \in Txs : p \notin X[u] BY <2>2, <1>8
    <3> QED BY <3>1, <2>2 DEF DataIs
  <2> QED BY <2>1, <2>2
<1>9. /\ \A u, w \in Txs : rm2[u] \intersect ad2[w] = {}
      /\ R \subseteq 1..top /\ \A u \in Txs : ad2[u] \subseteq 1..top /\ rm2[u] \subseteq 1..top
  BY DEF DataIs
<1> QED BY <1>1, <1>3, <1>4, <1>5, <1>6, <1>7, <1>8, <1>9 DEF DataIs

(* New places hold no record. *)
Extended(P, f, P2, f2) == \A p \in P2 : f2[p] = IF p \in P THEN f[p] ELSE Empty

LEMMA DataGrows ==
  ASSUME NEW P, NEW A, NEW C, NEW X, NEW R, NEW ad, NEW rm, NEW top \in Nat,
         DataIs(P, A, C, X, R, ad, rm, top),
         NEW P2, P \subseteq P2, NEW A2, Extended(P, A, P2, A2), NEW C2, Extended(P, C, P2, C2)
  PROVE  DataIs(P2, A2, C2, X, R, ad, rm, top)
<1> USE DEF Extended
<1>1. \A p \in P2 \ P : ~A2[p].used /\ ~C2[p].used BY DEF Empty
<1>2. Distinct(A2, P2) /\ Distinct(C2, P2) BY <1>1 DEF DataIs, Distinct
<1>3. R = Of(C2, P2)
  <2>1. ASSUME NEW v PROVE v \in R <=> v \in Of(C2, P2) BY <1>1, OfIs DEF DataIs
  <2> QED BY <2>1
<1>4. ASSUME NEW u \in Txs PROVE ad[u] = Of(A2, X[u]) /\ Of(C2, X[u]) = Of(C, X[u])
  <2>1. \A q \in X[u] : A2[q] = A[q] /\ C2[q] = C[q] BY DEF DataIs
  <2>2. ASSUME NEW v PROVE v \in ad[u] <=> v \in Of(A2, X[u]) BY <2>1, OfIs DEF DataIs
  <2>3. ASSUME NEW v PROVE v \in Of(C2, X[u]) <=> v \in Of(C, X[u]) BY <2>1, OfIs
  <2> QED BY <2>2, <2>3
<1>5. \A u \in Txs : X[u] \subseteq P2 BY DEF DataIs
<1>6. \A p \in P2 : (\A u \in Txs : p \notin X[u]) => A2[p] = C2[p] BY DEF DataIs
<1> QED BY <1>2, <1>3, <1>4, <1>5, <1>6 DEF DataIs

LEMMA DataValues ==
  ASSUME NEW P, NEW A, NEW C, NEW X, NEW R, NEW ad, NEW rm, NEW top,
         DataIs(P, A, C, X, R, ad, rm, top)
  PROVE  Of(A, P) = (R \ UNION {rm[t] : t \in Txs}) \union UNION {ad[t] : t \in Txs}
<1>1. ASSUME NEW v \in Of(A, P)
      PROVE  (v \in R /\ \A t \in Txs : v \notin rm[t]) \/ \E t \in Txs : v \in ad[t]
  <2>1. PICK p \in P : A[p].used /\ A[p].val = v BY OfIs
  <2>2. CASE \E t \in Txs : p \in X[t] /\ A[p].val \in ad[t] BY <2>1, <2>2
  <2>3. CASE A[p] = C[p] /\ A[p].val \in R /\ \A t \in Txs : p \notin X[t]
    <3>1. ASSUME NEW t \in Txs, v \in rm[t] PROVE FALSE
      <4>1. v \in Of(C, X[t]) BY <3>1, <2>1, <2>3 DEF DataIs
      <4>2. PICK q \in X[t] : C[q].used /\ C[q].val = v BY <4>1, OfIs
      <4>3. q # p /\ q \in P BY <2>3 DEF DataIs
      <4> QED BY <4>2, <4>3, <2>1, <2>3 DEF DataIs, Distinct
    <3> QED BY <3>1, <2>1, <2>3
  <2> QED BY <2>1, <2>2, <2>3, Origin
<1>2. ASSUME NEW t \in Txs, NEW v \in ad[t] PROVE v \in Of(A, P) BY OfIs DEF DataIs
<1>3. ASSUME NEW v \in R, \A t \in Txs : v \notin rm[t] PROVE v \in Of(A, P)
  <2>1. PICK p \in P : C[p].used /\ C[p].val = v BY OfIs DEF DataIs
  <2>2. ASSUME NEW t \in Txs PROVE p \notin X[t]
    <3>1. rm[t] \intersect R = Of(C, X[t]) BY DEF DataIs
    <3> QED BY <3>1, <2>1, <1>3, OfIs
  <2>3. A[p] = C[p] BY <2>2 DEF DataIs
  <2> QED BY <2>1, <2>3, OfIs
<1> QED BY <1>1, <1>2, <1>3

(* The first log record of a slot, or what is there without one *)
FirstOf(L, p, default) ==
  LET of == {i \in DOMAIN L : PlaceOf(L[i]) = p}
  IN IF of = {} THEN default ELSE L[Min(of)][3]

(***************************************************************************)
(* The data of a state.  What is committed in a block that somebody has     *)
(* locked is what a rollback would leave there.                             *)
(***************************************************************************)
Committed(p) == IF xlock[p[1]] = Nobody THEN At(p) ELSE FirstOf(undo[xlock[p[1]]], p, At(p))

Actual == [p \in Places |-> At(p)]
Commits == [p \in Places |-> Committed(p)]
Changes == [t \in Txs |-> Changed(t)]

DataInv ==
  DataIs(Places, Actual, Commits, Changes, rows, added, removed, InitialValues + writes)

LEMMA BeforeIs ==
  ASSUME NEW t, NEW p PROVE Before(t, p) = FirstOf(undo[t], p, At(p))
<1>1. p \in Changed(t) <=> Logged(t, p) # {} BY DEF Changed, Logged
<1> QED BY <1>1 DEF Before, FirstOf, Logged

LEMMA FirstAppend ==
  ASSUME NEW L \in Seq(LogRecords), NEW r \in LogRecords, NEW p, NEW default
  PROVE  FirstOf(Append(L, r), p, default) =
           IF PlaceOf(r) = p THEN FirstOf(L, p, r[3]) ELSE FirstOf(L, p, default)
<1>1. PICK n \in Nat : n = Len(L) /\ DOMAIN L = 1..n OBVIOUS
<1>2. PICK M : M = Append(L, r) OBVIOUS
<1>3. /\ DOMAIN M = 1..(n + 1) /\ M[n + 1] = r
      /\ \A i \in 1..n : M[i] = L[i]
  BY <1>1, <1>2
<1> DEFINE ofL == {i \in DOMAIN L : PlaceOf(L[i]) = p}
           ofM == {i \in DOMAIN M : PlaceOf(M[i]) = p}
<1>4. ofM = IF PlaceOf(r) = p THEN ofL \union {n + 1} ELSE ofL
  <2>1. \A i \in 1..n : i \in ofM <=> i \in ofL BY <1>1, <1>3
  <2>2. n + 1 \in ofM <=> PlaceOf(r) = p BY <1>3
  <2>3. ofM \subseteq 1..(n + 1) /\ ofL \subseteq 1..n /\ n + 1 \notin 1..n BY <1>1, <1>3
  <2>4. \A i \in 1..(n + 1) : i \in 1..n \/ i = n + 1 BY <1>1
  <2>5. ASSUME NEW i PROVE i \in ofM <=> (i \in ofL \/ (i = n + 1 /\ PlaceOf(r) = p))
    <3> HIDE DEF ofM, ofL
    <3>1. CASE i \in 1..n BY <3>1, <2>1, <2>3
    <3>2. CASE i = n + 1 BY <3>2, <2>2, <2>3
    <3>3. CASE i \notin 1..n /\ i # n + 1 BY <3>3, <2>3, <2>4
    <3> QED BY <3>1, <3>2, <3>3
  <2>6. CASE PlaceOf(r) = p
    <3> HIDE DEF ofM, ofL
    <3>1. ofM = ofL \union {n + 1} BY <2>5, <2>6
    <3> QED BY <3>1, <2>6
  <2>7. CASE PlaceOf(r) # p
    <3> HIDE DEF ofM, ofL
    <3>1. ofM = ofL BY <2>5, <2>7
    <3> QED BY <3>1, <2>7
  <2> QED BY <2>6, <2>7
<1>5. ofL \subseteq 1..n /\ ofL \subseteq Nat BY <1>1
<1>6. ofL # {} => Min(ofL) \in ofL /\ \A i \in ofL : Min(ofL) <= i
  <2> HIDE DEF ofL
  <2> QED BY <1>5, LeastExists
<1>7. CASE PlaceOf(r) = p /\ ofL # {}
  <2>1. ofM # {} /\ ofM \subseteq Nat
    <3> HIDE DEF ofM, ofL
    <3>1. ofM = ofL \union {n + 1} BY <1>4, <1>7
    <3>2. n + 1 \in Nat BY <1>1
    <3> QED BY <3>1, <3>2, <1>5
  <2>2. Min(ofM) \in ofM /\ \A i \in ofM : Min(ofM) <= i
    <3> HIDE DEF ofM
    <3> QED BY <2>1, LeastExists
  <2>3. PICK k, m \in Nat : k = Min(ofL) /\ m = Min(ofM) BY <1>5, <1>6, <1>7, <2>1, <2>2
  <2>4. k = m
    <3> HIDE DEF ofM, ofL
    <3>1. k \in ofM /\ k \in 1..n BY <1>4, <1>5, <1>6, <1>7, <2>3
    <3>2. m <= k /\ m \in ofM BY <2>2, <2>3, <3>1
    <3>3. m # n + 1 BY <3>1, <3>2, <1>1
    <3>4. m \in ofL BY <3>2, <3>3, <1>4, <1>7
    <3> QED BY <3>2, <3>4, <1>6, <1>7, <2>3
  <2>5. M[m] = L[k] BY <1>3, <1>5, <1>6, <1>7, <2>3, <2>4
  <2>6. FirstOf(M, p, default) = M[m][3] BY <2>1, <2>3 DEF FirstOf
  <2>7. FirstOf(L, p, r[3]) = L[k][3] BY <1>7, <2>3 DEF FirstOf
  <2> QED BY <2>5, <2>6, <2>7, <1>2, <1>7
<1>8. CASE PlaceOf(r) = p /\ ofL = {}
  <2>1. ofM = {n + 1}
    <3> HIDE DEF ofM, ofL
    <3> QED BY <1>4, <1>8
  <2>2. Min(ofM) = n + 1
    <3>1. {n + 1} \subseteq Nat /\ {n + 1} # {} BY <1>1
    <3>2. Min({n + 1}) \in {n + 1} BY <3>1, LeastExists
    <3> HIDE DEF ofM
    <3> QED BY <2>1, <3>2
  <2>3. FirstOf(M, p, default) = r[3]
    <3>1. ofM # {}
      <4> HIDE DEF ofM
      <4> QED BY <2>1
    <3>2. FirstOf(M, p, default) = M[Min(ofM)][3] BY <3>1 DEF FirstOf
    <3> QED BY <3>2, <2>2, <1>3
  <2>4. FirstOf(L, p, r[3]) = r[3] BY <1>8 DEF FirstOf
  <2> QED BY <2>3, <2>4, <1>2, <1>8
<1>9. CASE PlaceOf(r) # p
  <2>1. ofM = ofL
    <3> HIDE DEF ofM, ofL
    <3> QED BY <1>4, <1>9
  <2>2. CASE ofL = {} BY <2>1, <2>2, <1>2, <1>9 DEF FirstOf
  <2>3. CASE ofL # {}
    <3>1. FirstOf(M, p, default) = M[Min(ofL)][3]
      <4>1. FirstOf(M, p, default) = IF ofM = {} THEN default ELSE M[Min(ofM)][3]
        BY DEF FirstOf
      <4> HIDE DEF ofM, ofL
      <4> QED BY <4>1, <2>1, <2>3
    <3>2. FirstOf(L, p, default) = L[Min(ofL)][3] BY <2>3 DEF FirstOf
    <3>3. M[Min(ofL)] = L[Min(ofL)] BY <2>3, <1>3, <1>5, <1>6
    <3> QED BY <3>1, <3>2, <3>3, <1>2, <1>9
  <2> QED BY <2>2, <2>3
<1> QED BY <1>7, <1>8, <1>9

LEMMA NotChanged ==
  ASSUME NEW t, NEW p, p \notin Changed(t), NEW default
  PROVE  FirstOf(undo[t], p, default) = default
<1>1. {i \in DOMAIN undo[t] : PlaceOf(undo[t][i]) = p} = {} BY DEF Changed
<1> QED BY <1>1 DEF FirstOf

LEMMA PlaceIs ==
  ASSUME CallInv, NEW p \in Places
  PROVE  /\ p[1] \in 1..Len(blocks) /\ p[1] \in Lockable /\ p[1] # EndOfFile
         /\ p[2] \in 1..Slots /\ p = <<p[1], p[2]>>
         /\ At(p) \in Records
         /\ xlock[p[1]] \in Txs \union {Nobody}
         /\ \A t \in Txs : xlock[p[1]] # t => p \notin Changed(t)
<1> USE DEF CallInv
<1>1. p[1] \in 1..Len(blocks) /\ p[2] \in 1..Slots /\ p = <<p[1], p[2]>>
  BY DEF Places, Typed
<1>2. p[1] \in Lockable /\ p[1] # EndOfFile BY <1>1 DEF Lockable, EndOfFile, Typed
<1>3. At(p) \in Records
  <2>1. blocks[p[1]] \in Blocks BY <1>1 DEF Typed
  <2> QED BY <2>1, <1>1 DEF At, Blocks
<1>4. xlock[p[1]] \in Txs \union {Nobody} BY <1>2 DEF Typed
<1>5. \A t \in Txs : xlock[p[1]] # t => p \notin Changed(t)
  BY DEF ControlInv, ChangedIsLocked
<1> QED BY <1>1, <1>2, <1>3, <1>4, <1>5

(* In a block that nobody else has locked, t's rollback leaves what is      *)
(* committed.                                                              *)
LEMMA CommittedIs ==
  ASSUME CallInv, NEW p \in Places, NEW t \in Txs, xlock[p[1]] \in {Nobody, t}
  PROVE  Committed(p) = FirstOf(undo[t], p, At(p))
<1>1. CASE xlock[p[1]] = t
  <2>1. xlock[p[1]] # Nobody BY <1>1
  <2> QED BY <1>1, <2>1 DEF Committed
<1>2. CASE xlock[p[1]] = Nobody
  <2>1. p \notin Changed(t) BY <1>2, PlaceIs
  <2> QED BY <2>1, <1>2, NotChanged DEF Committed
<1> QED BY <1>1, <1>2

LEMMA QuietData ==
  ASSUME DataInv, UNCHANGED <<blocks, undo, xlock, rows, added, removed, writes>>
  PROVE  DataInv'
<1>1. Places' = Places /\ Actual' = Actual /\ Changes' = Changes
  BY DEF Places, Actual, At, Changes, Changed
<1>2. Commits' = Commits BY <1>1 DEF Commits, Committed, Places, At
<1> QED BY <1>1, <1>2 DEF DataInv

LEMMA TopIs == ASSUME CallInv PROVE InitialValues + writes \in Nat
<1>1. InitialValues \in Nat BY DEF InitialValues
<1>2. writes \in Nat BY DEF CallInv, Typed
<1> QED BY <1>1, <1>2

LEMMA ChangeData ==
  ASSUME CallInv, DataInv, NEW t \in Txs, Change(t) PROVE DataInv'
<1> USE DEF CallInv
<1>1. PICK s \in 1..Slots, r \in Records :
        /\ Write(t, blk[t], s, r)
        /\ ValueOf(r) \subseteq {NewValue}
        /\ added' = [added EXCEPT ![t] = (@ \union ValueOf(r)) \ ValueOf(blocks[blk[t]][s])]
        /\ removed' = [removed EXCEPT ![t] = @ \union ValueOf(blocks[blk[t]][s])]
  BY ChangeIs
<1>2. /\ pc[t] = "flag" /\ CanXLock(t, blk[t]) /\ xlock' = [xlock EXCEPT ![blk[t]] = t]
      /\ writes' = writes + 1 /\ rows' = rows
  BY DEF Change, XLock
<1>3. PICK b \in 1..Len(blocks) : b = blk[t]
  <2>1. blk[t] \in 1..Len(blocks) BY <1>2 DEF ControlInv, Positioned, Typed
  <2> QED BY <2>1
<1>4. PICK p : p = <<b, s>> /\ p \in Places /\ p[1] = b /\ p[2] = s
  <2>1. PICK p : p = <<b, s>> OBVIOUS
  <2>2. p[1] = b /\ p[2] = s BY <2>1
  <2>3. p \in Places BY <2>1, <1>3 DEF Places, Typed
  <2> QED BY <2>1, <2>2, <2>3
<1>5. At(p) = blocks[b][s] /\ At(p) \in Records BY <1>4, PlaceIs DEF At
<1>6. /\ Len(blocks') = Len(blocks) /\ blocks' \in Seq(Blocks)
      /\ \A c \in 1..Len(blocks), q \in 1..Slots :
           blocks'[c][q] = IF c = b /\ q = s THEN r ELSE blocks[c][q]
  <2>1. blocks' = [blocks EXCEPT ![b][s] = r] BY <1>1, <1>3 DEF Write
  <2>2. blocks \in Seq(Blocks) BY DEF Typed
  <2> QED BY <2>1, <2>2, WriteEffect
<1>7. Places' = Places BY <1>6 DEF Places, Typed
<1>8. ASSUME NEW q \in Places PROVE At(q)' = IF q = p THEN r ELSE At(q)
  <2>1. q[1] \in 1..Len(blocks) /\ q[2] \in 1..Slots /\ q = <<q[1], q[2]>> BY PlaceIs
  <2>2. q = p <=> q[1] = b /\ q[2] = s BY <2>1, <1>4
  <2> QED BY <2>1, <2>2, <1>6 DEF At
<1>9. PICK record \in LogRecords : /\ record = <<b, s, At(p)>>
                                   /\ undo' = [undo EXCEPT ![t] = Append(undo[t], record)]
  <2>1. PICK record : record = <<b, s, At(p)>> OBVIOUS
  <2>2. undo' = [undo EXCEPT ![t] = Append(undo[t], record)]
    BY <2>1, <1>1, <1>3, <1>5 DEF Write
  <2>3. b \in Nat BY <1>3 DEF Typed
  <2>4. record \in LogRecords BY <2>1, <2>3, <1>5 DEF LogRecords
  <2> QED BY <2>1, <2>2, <2>4
<1>10. PlaceOf(record) = p /\ record[3] = At(p) BY <1>4, <1>9 DEF PlaceOf
<1>11. undo \in [Txs -> Seq(LogRecords)] /\ undo'[t] = Append(undo[t], record)
       /\ \A u \in Txs \ {t} : undo'[u] = undo[u]
  BY <1>9 DEF Typed
<1>12. Changed(t)' = Changed(t) \union {p}
  <2>1. PICK L, M : L = undo[t] /\ M = undo'[t] OBVIOUS
  <2>2. PICK n \in Nat : n = Len(L) /\ DOMAIN L = 1..n BY <2>1, <1>11
  <2>3. /\ DOMAIN M = 1..(n + 1) /\ M[n + 1] = record
        /\ \A i \in 1..n : M[i] = L[i]
    BY <2>1, <2>2, <1>11
  <2>4. Changed(t) = {PlaceOf(L[i]) : i \in 1..n} BY <2>1, <2>2 DEF Changed
  <2>5. Changed(t)' = {PlaceOf(M[i]) : i \in 1..(n + 1)} BY <2>1, <2>3 DEF Changed
  <2>6. \A i \in 1..(n + 1) : i \in 1..n \/ i = n + 1 BY <2>2
  <2>7. n + 1 \in 1..(n + 1) /\ \A i \in 1..n : i \in 1..(n + 1) BY <2>2
  <2>8. ASSUME NEW q PROVE q \in Changed(t)' <=> q \in Changed(t) \/ q = p
    <3>1. q \in Changed(t)' <=> \E i \in 1..(n + 1) : q = PlaceOf(M[i]) BY <2>5
    <3>2. q \in Changed(t) <=> \E i \in 1..n : q = PlaceOf(L[i]) BY <2>4
    <3> QED BY <3>1, <3>2, <2>3, <2>6, <2>7, <1>10
  <2> QED BY <2>8
<1>13. \A u \in Txs \ {t} : Changed(u)' = Changed(u) BY <1>11 DEF Changed
<1>14. ASSUME NEW q \in Places PROVE FirstOf(undo'[t], q, At(q)') = FirstOf(undo[t], q, At(q))
  <2>1. PICK L, d : L \in Seq(LogRecords) /\ L = undo[t] /\ d = At(q)' BY <1>11
  <2>2. FirstOf(Append(L, record), q, d) =
          IF p = q THEN FirstOf(L, q, At(p)) ELSE FirstOf(L, q, d)
    BY <2>1, <1>10, FirstAppend
  <2> QED BY <2>1, <2>2, <1>8, <1>11
<1>15. xlock[b] \in {Nobody, t} BY <1>2, <1>3 DEF CanXLock
<1>16. ASSUME NEW q \in Places PROVE Committed(q)' = Committed(q)
  <2>1. /\ q[1] \in Lockable /\ xlock[q[1]] \in Txs \union {Nobody}
        /\ xlock'[q[1]] = IF q[1] = b THEN t ELSE xlock[q[1]]
    BY <1>2, <1>3, PlaceIs DEF Typed
  <2>2. CASE q[1] = b
    <3>1. Committed(q)' = FirstOf(undo'[t], q, At(q)') BY <2>1, <2>2 DEF Committed
    <3>2. Committed(q) = FirstOf(undo[t], q, At(q)) BY <2>2, <1>15, CommittedIs
    <3> QED BY <3>1, <3>2, <1>14
  <2>3. CASE q[1] # b
    <3>1. xlock'[q[1]] = xlock[q[1]] /\ At(q)' = At(q) BY <2>1, <2>3, <1>4, <1>8
    <3>2. CASE xlock[q[1]] = Nobody BY <3>1, <3>2 DEF Committed
    <3>3. CASE xlock[q[1]] = t
      <4>1. Committed(q)' = FirstOf(undo'[t], q, At(q)') BY <3>1, <3>3 DEF Committed
      <4>2. Committed(q) = FirstOf(undo[t], q, At(q)) BY <3>3 DEF Committed
      <4> QED BY <4>1, <4>2, <1>14
    <3>4. CASE xlock[q[1]] \in Txs \ {t}
      <4>1. undo'[xlock[q[1]]] = undo[xlock[q[1]]] BY <3>4, <1>11
      <4> QED BY <3>1, <4>1 DEF Committed
    <3> QED BY <3>2, <3>3, <3>4, <2>1
  <2> QED BY <2>2, <2>3
<1>17. PICK A, A2, X, X2 : A = Actual /\ A2 = Actual' /\ X = Changes /\ X2 = Changes'
  OBVIOUS
<1>18. \A q \in Places : A2[q] = IF q = p THEN r ELSE A[q] BY <1>7, <1>8, <1>17 DEF Actual
<1>19. Commits' = Commits BY <1>7, <1>16 DEF Commits
<1>20. \A u \in Txs : X2[u] = IF u = t THEN X[t] \union {p} ELSE X[u]
  BY <1>12, <1>13, <1>17 DEF Changes
<1>21. \A u \in Txs \ {t} : p \notin X[u]
  <2>1. \A u \in Txs \ {t} : xlock[p[1]] # u BY <1>4, <1>15
  <2> QED BY <2>1, <1>4, <1>17, PlaceIs DEF Changes
<1>22. A[p] = blocks[blk[t]][s] BY <1>3, <1>4, <1>5, <1>17 DEF Actual
<1>23. /\ \A u \in Txs : added'[u] = IF u = t THEN (added[t] \union ValueOf(r)) \ ValueOf(A[p])
                                             ELSE added[u]
       /\ \A u \in Txs : removed'[u] = IF u = t THEN removed[t] \union ValueOf(A[p])
                                               ELSE removed[u]
  BY <1>1, <1>22 DEF Typed
<1>24. PICK top \in Nat : /\ top = InitialValues + writes
                          /\ NewValue = top + 1 /\ (InitialValues + writes)' = top + 1
  <2>1. InitialValues + writes \in Nat BY TopIs
  <2>2. InitialValues \in Nat BY DEF InitialValues
  <2>3. writes \in Nat /\ writes' = writes + 1 BY <1>2 DEF Typed
  <2>4. NewValue = InitialValues + writes + 1 BY DEF NewValue
  <2>5. InitialValues + writes' = InitialValues + writes + 1 BY <2>2, <2>3
  <2>6. InitialValues' = InitialValues BY DEF InitialValues
  <2> QED BY <2>1, <2>4, <2>5, <2>6
<1>25. DataIs(Places, A, Commits, X, rows, added, removed, top) BY <1>17, <1>24 DEF DataInv
<1>26. DataIs(Places, A2, Commits, X2, rows, added', removed', top + 1)
  <2>1. PICK P, C, ad2, rm2 : P = Places /\ C = Commits /\ ad2 = added' /\ rm2 = removed' OBVIOUS
  <2>2. ValueOf(r) \subseteq {top + 1} BY <1>1, <1>24
  <2>3. p \in P /\ \A q \in P : A2[q] = IF q = p THEN r ELSE A[q] BY <2>1, <1>4, <1>18
  <2>4. \A u \in Txs : X2[u] = IF u = t THEN X[t] \union {p} ELSE X[u] BY <1>20
  <2>5. /\ \A u \in Txs : ad2[u] = IF u = t THEN (added[t] \union ValueOf(r)) \ ValueOf(A[p])
                                          ELSE added[u]
        /\ \A u \in Txs : rm2[u] = IF u = t THEN removed[t] \union ValueOf(A[p])
                                            ELSE removed[u]
    BY <2>1, <1>23
  <2>6. DataIs(P, A, C, X, rows, added, removed, top) BY <2>1, <1>25
  <2>7. WriteIs(P, A, X, added, removed, top, t, p, r, A2, X2, ad2, rm2)
    BY <2>2, <2>3, <2>5, <2>4, <1>21 DEF WriteIs
  <2>8. DataIs(P, A2, C, X2, rows, ad2, rm2, top + 1) BY <2>3, <2>6, <2>7, DataWrite
  <2> QED BY <2>1, <2>8
<1> QED BY <1>2, <1>7, <1>17, <1>19, <1>24, <1>26 DEF DataInv

LEMMA AppendData ==
  ASSUME CallInv, DataInv, NEW t \in Txs, moveToNewBlock(t) PROVE DataInv'
<1> USE DEF CallInv
<1>1. PICK new \in Nat : new = Len(blocks) + 1 /\ new \in 1..MaxBlocks
                         /\ Len(blocks) \in Nat /\ new # EndOfFile
                         /\ new \in Lockable /\ EndOfFile \in Lockable
  BY DEF moveToNewBlock, Typed, Lockable, EndOfFile
<1>2. /\ xlock' = [xlock EXCEPT ![EndOfFile] = t, ![new] = t]
      /\ blocks' = Append(blocks, EmptyBlock)
      /\ UNCHANGED <<undo, rows, added, removed, writes>>
  BY <1>1 DEF moveToNewBlock, historyVars
<1>3. /\ blocks' \in Seq(Blocks) /\ Len(blocks') = new /\ blocks'[new] = EmptyBlock
      /\ \A c \in 1..Len(blocks) : blocks'[c] = blocks[c]
  <2>1. EmptyBlock \in Blocks BY DEF EmptyBlock, Empty, Blocks, Records
  <2> QED BY <2>1, <1>1, <1>2, AppendProperties DEF Typed
<1>4. PICK P, P2 : P = Places /\ P2 = Places' OBVIOUS
<1>5. P \subseteq P2
  <2>1. DOMAIN blocks \subseteq DOMAIN blocks' BY <1>1, <1>3 DEF Typed
  <2> QED BY <2>1, <1>4 DEF Places
<1>6. ASSUME NEW p \in P PROVE At(p)' = At(p) /\ Committed(p)' = Committed(p)
  <2>1. p[1] \in 1..Len(blocks) /\ p[1] \in Lockable /\ p[1] # EndOfFile BY <1>4, PlaceIs
  <2>2. At(p)' = At(p) BY <2>1, <1>3 DEF At
  <2>3. p[1] # new BY <2>1, <1>1
  <2>4. xlock'[p[1]] = xlock[p[1]] BY <2>1, <2>3, <1>2 DEF Typed
  <2> QED BY <2>2, <2>4, <1>2 DEF Committed
<1>7. ASSUME NEW p \in P2 \ P PROVE At(p)' = Empty /\ Committed(p)' = Empty
  <2>1. p[1] = new /\ p[2] \in 1..Slots
    <3>1. PICK c \in DOMAIN blocks', s \in 1..Slots : p = <<c, s>> BY <1>4 DEF Places
    <3>2. c \notin DOMAIN blocks BY <3>1, <1>4, <1>7 DEF Places
    <3>3. c \in 1..new /\ c \notin 1..Len(blocks) BY <3>1, <3>2, <1>3 DEF Typed
    <3>4. c = new BY <3>3, <1>1
    <3> QED BY <3>1, <3>4
  <2>2. At(p)' = Empty BY <2>1, <1>3 DEF At, EmptyBlock
  <2>3. xlock'[p[1]] = t BY <2>1, <1>1, <1>2 DEF Typed
  <2>4. p \notin Changed(t) BY <1>4, <1>7 DEF ControlInv, ChangedIsLocked
  <2>5. FirstOf(undo[t], p, Empty) = Empty BY <2>4, NotChanged
  <2>6. Committed(p)' = FirstOf(undo[t], p, Empty) BY <2>2, <2>3, <1>2 DEF Committed
  <2> QED BY <2>2, <2>5, <2>6
<1>8. PICK A, A2, C, C2, X : /\ A = Actual /\ A2 = Actual' /\ C = Commits /\ C2 = Commits'
                             /\ X = Changes
  OBVIOUS
<1>9. Extended(P, A, P2, A2) /\ Extended(P, C, P2, C2)
  <2>1. \A p \in P2 : A2[p] = At(p)' /\ C2[p] = Committed(p)'
    BY <1>4, <1>8 DEF Actual, Commits
  <2>2. \A p \in P : A[p] = At(p) /\ C[p] = Committed(p) BY <1>4, <1>8 DEF Actual, Commits
  <2> QED BY <2>1, <2>2, <1>5, <1>6, <1>7 DEF Extended
<1>10. Changes' = X BY <1>2, <1>8 DEF Changes, Changed
<1>11. PICK top \in Nat : top = InitialValues + writes BY TopIs
<1>12. DataIs(P, A, C, X, rows, added, removed, top) BY <1>4, <1>8, <1>11 DEF DataInv
<1>13. DataIs(P2, A2, C2, X, rows, added, removed, top)
  BY <1>5, <1>9, <1>11, <1>12, DataGrows
<1> QED BY <1>2, <1>4, <1>8, <1>10, <1>11, <1>13 DEF DataInv, InitialValues

LEMMA CommitData ==
  ASSUME CallInv, DataInv, NEW t \in Txs, Commit(t) PROVE DataInv'
<1> USE DEF CallInv
<1>1. /\ xlock' = [b \in Lockable |-> IF xlock[b] = t THEN Nobody ELSE xlock[b]]
      /\ undo' = [undo EXCEPT ![t] = <<>>] /\ blocks' = blocks /\ writes' = writes
      /\ added' = [added EXCEPT ![t] = {}] /\ removed' = [removed EXCEPT ![t] = {}]
      /\ rows' = (rows \union added[t]) \ removed[t]
  BY DEF Commit, Release, Done
<1>2. Places' = Places /\ Actual' = Actual BY <1>1 DEF Places, Actual, At
<1>3. PICK P, A, C, C2, X, X2 : /\ P = Places /\ A = Actual /\ C = Commits /\ C2 = Commits'
                                /\ X = Changes /\ X2 = Changes'
  OBVIOUS
<1>4. Cleared(X, t, X2)
  <2>1. Changed(t)' = {} BY <1>1 DEF Changed, Typed
  <2>2. \A u \in Txs \ {t} : Changed(u)' = Changed(u) BY <1>1 DEF Changed, Typed
  <2> QED BY <2>1, <2>2, <1>3 DEF Changes, Cleared
<1>5. ASSUME NEW p \in P
      PROVE  C2[p] = IF p \in X[t] THEN A[p] ELSE C[p]
  <2>1. /\ p[1] \in Lockable /\ xlock[p[1]] \in Txs \union {Nobody}
        /\ At(p)' = At(p) /\ A[p] = At(p) /\ C[p] = Committed(p) /\ C2[p] = Committed(p)'
        /\ X[t] = Changed(t)
    BY <1>1, <1>2, <1>3, PlaceIs DEF At, Actual, Commits, Changes
  <2>2. CASE xlock[p[1]] = t
    <3>1. Committed(p)' = At(p) BY <2>1, <2>2, <1>1 DEF Committed
    <3>2. p \notin Changed(t) => Committed(p) = At(p) BY <1>3, <2>2, CommittedIs, NotChanged
    <3> QED BY <3>1, <3>2, <2>1
  <2>3. CASE xlock[p[1]] # t
    <3>1. p \notin Changed(t) BY <2>3, <1>3, PlaceIs
    <3>2. xlock'[p[1]] = xlock[p[1]] BY <2>1, <2>3, <1>1
    <3>3. xlock[p[1]] \in Txs => undo'[xlock[p[1]]] = undo[xlock[p[1]]]
      BY <2>3, <1>1 DEF Typed
    <3>4. Committed(p)' = Committed(p) BY <2>1, <3>2, <3>3 DEF Committed
    <3> QED BY <3>1, <3>4, <2>1
  <2> QED BY <2>2, <2>3
<1>6. Moved(P, A, C, X[t], C2) BY <1>5 DEF Moved
<1>7. PICK ad2, rm2 : ad2 = added' /\ rm2 = removed' OBVIOUS
<1>8. Cleared(added, t, ad2) /\ Cleared(removed, t, rm2) BY <1>1, <1>7 DEF Cleared, Typed
<1>9. PICK top \in Nat : top = InitialValues + writes BY TopIs
<1>10. DataIs(P, A, C, X, rows, added, removed, top) BY <1>3, <1>9 DEF DataInv
<1>11. DataIs(P, A, C2, X2, (rows \union added[t]) \ removed[t], ad2, rm2, top)
  BY <1>4, <1>6, <1>8, <1>9, <1>10, DataCommit
<1> QED BY <1>1, <1>2, <1>3, <1>7, <1>9, <1>11 DEF DataInv, InitialValues

LEMMA RollbackData ==
  ASSUME CallInv, DataInv, NEW t \in Txs, Rollback(t) PROVE DataInv'
<1> USE DEF CallInv
<1>1. /\ xlock' = [b \in Lockable |-> IF xlock[b] = t THEN Nobody ELSE xlock[b]]
      /\ undo' = [undo EXCEPT ![t] = <<>>] /\ writes' = writes /\ rows' = rows
      /\ added' = [added EXCEPT ![t] = {}] /\ removed' = [removed EXCEPT ![t] = {}]
  BY DEF Rollback, Release, Done
<1>2. /\ blocks' \in Seq(Blocks) /\ Len(blocks') = Len(blocks)
      /\ \A p \in Places : At(p)' = FirstOf(undo[t], p, At(p))
  BY RollbackIs, BeforeIs DEF At
<1>3. Places' = Places BY <1>2 DEF Places, Typed
<1>4. PICK P, A, A2, C, X, X2 : /\ P = Places /\ A = Actual /\ A2 = Actual' /\ C = Commits
                                /\ X = Changes /\ X2 = Changes'
  OBVIOUS
<1>5. Cleared(X, t, X2)
  <2>1. Changed(t)' = {} BY <1>1 DEF Changed, Typed
  <2>2. \A u \in Txs \ {t} : Changed(u)' = Changed(u) BY <1>1 DEF Changed, Typed
  <2> QED BY <2>1, <2>2, <1>4 DEF Changes, Cleared
<1>6. ASSUME NEW p \in P
      PROVE  /\ A2[p] = IF p \in X[t] THEN C[p] ELSE A[p]
             /\ Committed(p)' = Committed(p)
  <2>1. /\ p[1] \in Lockable /\ xlock[p[1]] \in Txs \union {Nobody}
        /\ A[p] = At(p) /\ A2[p] = At(p)' /\ C[p] = Committed(p) /\ X[t] = Changed(t)
    BY <1>3, <1>4, PlaceIs DEF Actual, Commits, Changes
  <2>2. At(p)' = FirstOf(undo[t], p, At(p)) BY <1>2, <1>4
  <2>3. CASE xlock[p[1]] = t
    <3>1. Committed(p) = At(p)' BY <2>2, <2>3, <1>4, CommittedIs
    <3>2. Committed(p)' = At(p)' BY <2>1, <2>3, <1>1 DEF Committed
    <3>3. p \notin Changed(t) => At(p)' = At(p) BY <2>2, NotChanged
    <3> QED BY <3>1, <3>2, <3>3, <2>1
  <2>4. CASE xlock[p[1]] # t
    <3>1. p \notin Changed(t) BY <2>4, <1>4, PlaceIs
    <3>2. At(p)' = At(p) BY <2>2, <3>1, NotChanged
    <3>3. xlock'[p[1]] = xlock[p[1]] BY <2>1, <2>4, <1>1
    <3>4. xlock[p[1]] \in Txs => undo'[xlock[p[1]]] = undo[xlock[p[1]]]
      BY <2>4, <1>1 DEF Typed
    <3>5. Committed(p)' = Committed(p) BY <2>1, <3>2, <3>3, <3>4 DEF Committed
    <3> QED BY <3>1, <3>2, <3>5, <2>1
  <2> QED BY <2>3, <2>4
<1>7. Moved(P, C, A, X[t], A2) BY <1>6 DEF Moved
<1>8. Commits' = Commits BY <1>3, <1>4, <1>6 DEF Commits
<1>9. PICK ad2, rm2 : ad2 = added' /\ rm2 = removed' OBVIOUS
<1>10. Cleared(added, t, ad2) /\ Cleared(removed, t, rm2) BY <1>1, <1>9 DEF Cleared, Typed
<1>11. PICK top \in Nat : top = InitialValues + writes BY TopIs
<1>12. DataIs(P, A, C, X, rows, added, removed, top) BY <1>4, <1>11 DEF DataInv
<1>13. DataIs(P, A2, C, X2, rows, ad2, rm2, top)
  BY <1>5, <1>7, <1>10, <1>11, <1>12, DataRollback
<1> QED BY <1>1, <1>3, <1>4, <1>8, <1>9, <1>11, <1>13 DEF DataInv, InitialValues

LEMMA InitData == ASSUME Init PROVE DataInv
<1> USE DEF Init
<1>1. CallInv BY InitCall
<1>2. \A t \in Txs : Changed(t) = {} BY DEF Changed
<1>3. \A p \in Places : Committed(p) = At(p)
  <2>1. \A b \in Lockable : xlock[b] = Nobody OBVIOUS
  <2> QED BY <2>1, <1>1, PlaceIs DEF Committed
<1>4. PICK P, A, X : /\ P = Places /\ A = Actual /\ A = Commits /\ X = Changes
  BY <1>3 DEF Actual, Commits
<1>5. \A p \in P : A[p] = At(p) BY <1>4 DEF Actual
<1>6. /\ \A p \in P : p \in UsedSlots(blocks) <=> A[p].used
      /\ \A p \in P : ValueAt(blocks, p) = A[p].val
      /\ UsedSlots(blocks) \subseteq P
  BY <1>4, <1>5 DEF UsedSlots, ValueAt, At, Places
<1>7. rows = Of(A, P) BY <1>6 DEF TableValues, Of
<1>8. Distinct(A, P) BY <1>6, InitialAssumption DEF Distinct
<1>9. rows \subseteq 1..(InitialValues + writes)
  <2> SUFFICES ASSUME NEW p \in P, A[p].used PROVE A[p].val \in 1..InitialValues
    BY <1>7 DEF Of, InitialValues
  <2>1. PICK I : I = [1..Slots -> [used : BOOLEAN, val : 0..InitialValues]] OBVIOUS
  <2>2. blocks \in Seq(I) BY <2>1, InitialAssumption
  <2>3. p[1] \in DOMAIN blocks /\ p[2] \in 1..Slots BY <1>4 DEF Places
  <2>4. blocks[p[1]] \in I BY <2>2, <2>3
  <2>5. A[p].val \in 0..InitialValues BY <2>1, <2>3, <2>4, <1>5 DEF At
  <2>6. A[p].val # 0 BY <1>6, InitialAssumption
  <2> QED BY <2>5, <2>6
<1>10. \A t \in Txs : X[t] = {} BY <1>2, <1>4 DEF Changes
<1>11. \A B : Of(B, {}) = {} BY DEF Of
<1>12. \A t \in Txs : added[t] = {} /\ removed[t] = {} OBVIOUS
<1>13. DataIs(P, A, A, X, rows, added, removed, InitialValues + writes)
  BY <1>7, <1>8, <1>9, <1>10, <1>11, <1>12 DEF DataIs
<1> QED BY <1>4, <1>13 DEF DataInv

LEMMA DataStep == ASSUME CallInv, DataInv, [Next]_vars PROVE DataInv'
<1>1. CASE UNCHANGED vars BY <1>1, QuietData DEF vars, historyVars
<1>2. ASSUME NEW t \in Txs, QuietStep(t) PROVE DataInv'
  <2>1. Quiet(t) BY <1>2, QuietInv
  <2> QED BY <2>1, QuietData DEF Quiet
<1>3. ASSUME NEW t \in Txs, Change(t) \/ moveToNewBlock(t) \/ Commit(t) \/ Rollback(t)
      PROVE  DataInv'
  BY <1>3, ChangeData, AppendData, CommitData, RollbackData
<1> QED BY <1>1, <1>2, <1>3, StepKinds DEF Next

THEOREM Data == Spec => [](CallInv /\ DataInv)
<1>1. Init => CallInv /\ DataInv BY InitCall, InitData
<1>2. CallInv /\ DataInv /\ [Next]_vars => (CallInv /\ DataInv)' BY CallStep, DataStep
<1> QED BY <1>1, <1>2, PTL DEF Spec

LEMMA TableValuesAre == TableValues = Of(Actual, Places)
<1>1. /\ \A p \in Places : p \in UsedSlots(blocks) <=> Actual[p].used
      /\ \A p \in Places : ValueAt(blocks, p) = Actual[p].val
      /\ UsedSlots(blocks) \subseteq Places
  BY DEF UsedSlots, ValueAt, Actual, At, Places
<1> QED BY <1>1 DEF TableValues, Of

LEMMA SameNumber ==
  ASSUME NEW S, IsFiniteSet(S), NEW T, NEW f \in [S -> T],
         \A x, y \in S : x # y => f[x] # f[y], \A v \in T : \E x \in S : f[x] = v
  PROVE  Cardinality(T) = Cardinality(S)
<1>1. f \in Bijection(S, T) BY DEF Bijection, Injection, Surjection, IsInjective
<1> QED BY <1>1, FS_Bijection DEF ExistsBijection

(* The file holds the committed records and the changes of the transactions *)
(* that have not ended, every value in one slot, whatever calls, commits     *)
(* and rollbacks there are (record/page.go, table_scan.go, tx/rollback.go).  *)
THEOREM TableIsKept == Spec => []RecordsAreKept
<1>1. ASSUME CallInv, DataInv PROVE RecordsAreKept
  <2> USE <1>1
  <2> DEFINE open == {t \in Txs : pc[t] # "done"}
  <2>1. TableValues = (rows \ UNION {removed[t] : t \in Txs}) \union UNION {added[t] : t \in Txs}
    BY TableValuesAre, DataValues DEF DataInv
  <2>2. ASSUME NEW t \in Txs, t \notin open PROVE removed[t] = {} /\ added[t] = {}
    BY <2>2 DEF CallInv, ControlInv, NothingDone
  <2>3. /\ UNION {removed[t] : t \in Txs} = UNION {removed[t] : t \in open}
        /\ UNION {added[t] : t \in Txs} = UNION {added[t] : t \in open}
    BY <2>2
  <2>4. IsFiniteSet(UsedSlots(blocks))
    <3>1. IsFiniteSet((DOMAIN blocks) \X (1..Slots))
      <4>1. PICK n \in Nat : DOMAIN blocks = 1..n BY DEF CallInv, Typed
      <4>2. IsFiniteSet(1..n) /\ IsFiniteSet(1..Slots)
        <5>1. n \in Int /\ Slots \in Int /\ 1 \in Int OBVIOUS
        <5> QED BY <5>1, FS_Interval
      <4> QED BY <4>1, <4>2, FS_Product
    <3>2. UsedSlots(blocks) \subseteq (DOMAIN blocks) \X (1..Slots) BY DEF UsedSlots
    <3> QED BY <3>1, <3>2, FS_Subset
  <2>5. Cardinality(TableValues) = Cardinality(UsedSlots(blocks))
    <3>1. PICK f : f = [p \in UsedSlots(blocks) |-> ValueAt(blocks, p)] OBVIOUS
    <3>2. f \in [UsedSlots(blocks) -> TableValues] BY <3>1 DEF TableValues
    <3>3. ASSUME NEW p \in UsedSlots(blocks), NEW q \in UsedSlots(blocks), p # q
          PROVE  f[p] # f[q]
      <4>1. p \in Places /\ q \in Places BY DEF UsedSlots, Places
      <4>2. Actual[p].used /\ Actual[q].used BY <4>1 DEF UsedSlots, Actual, At
      <4>3. Actual[p].val = f[p] /\ Actual[q].val = f[q]
        BY <4>1, <3>1 DEF ValueAt, Actual, At
      <4> QED BY <4>1, <4>2, <4>3, <3>3 DEF DataInv, DataIs, Distinct
    <3>4. \A v \in TableValues : \E p \in UsedSlots(blocks) : f[p] = v
      BY <3>1 DEF TableValues
    <3> QED BY <2>4, <3>2, <3>3, <3>4, SameNumber
  <2> QED BY <2>1, <2>3, <2>5 DEF RecordsAreKept
<1> QED BY <1>1, Data, PTL

(***************************************************************************)
(* Scans: as long as a transaction only reads, and no lock error was taken  *)
(* for an end, it has seen what is in the slots that it has passed, and has *)
(* locked their blocks.                                                    *)
(***************************************************************************)
Scanning(t) ==
  \/ pc[t] \in {"idle", "again", "ended"}
  \/ pc[t] \in {"search", "size"} /\ op[t] = "next"

WholeBlock(t) == pc[t] \in {"size", "ended"}

Passed(t) == {p \in Places : \/ p[1] < blk[t]
                             \/ p[1] = blk[t] /\ (WholeBlock(t) \/ p[2] <= slot[t])}

ScanIs(t) ==
  Scanning(t) /\ undo[t] = <<>> /\ ~missed[t] =>
    /\ \A p \in Passed(t) : t \in slock[p[1]]
    /\ ToSet(seen[t]) = Of(Actual, Passed(t))
    /\ \A i, j \in DOMAIN seen[t] : i # j => seen[t][i] # seen[t][j]

ScanInv == \A t \in Txs : ScanIs(t)

LEMMA RespectedScan ==
  ASSUME CallInv, CallInv', NEW u \in Txs, ScanIs(u), Respected(u) PROVE ScanIs(u)'
<1>1. Kept(u) /\ Len(blocks) \in Nat /\ Len(blocks') \in Nat /\ Len(blocks) <= Len(blocks')
  BY DEF Respected
<1>2. Scanning(u)' = Scanning(u) /\ WholeBlock(u)' = WholeBlock(u)
  BY <1>1 DEF Kept, Scanning, WholeBlock
<1>3. blk[u] \in 0..Len(blocks) BY DEF CallInv, ControlInv, Positioned
<1>4. DOMAIN blocks = 1..Len(blocks) /\ DOMAIN blocks' = 1..Len(blocks')
  BY DEF CallInv, Typed
<1>5. ASSUME NEW p PROVE p \in Passed(u)' <=> p \in Passed(u)
  <2>1. p \in Passed(u) => p \in Places' BY <1>1, <1>4 DEF Passed, Places
  <2>2. p \in Passed(u)' => p \in Places
    <3> SUFFICES ASSUME p \in Passed(u)' PROVE p \in Places OBVIOUS
    <3>1. PICK c \in 1..Len(blocks'), s \in 1..Slots : p = <<c, s>>
      BY <1>4 DEF Passed, Places
    <3>2. c <= blk[u] BY <3>1, <1>1, <1>3 DEF Passed, Kept
    <3>3. c \in 1..Len(blocks) BY <3>2, <1>1, <1>3
    <3> QED BY <3>1, <3>3, <1>4 DEF Places
  <2> QED BY <2>1, <2>2, <1>1, <1>2 DEF Passed, Kept
<1>6. SUFFICES ASSUME Scanning(u), undo[u] = <<>>, ~missed[u]
               PROVE  /\ \A p \in Passed(u) : u \in slock'[p[1]]
                      /\ ToSet(seen[u]) = Of(Actual, Passed(u))'
                      /\ \A i, j \in DOMAIN seen[u] : i # j => seen[u][i] # seen[u][j]
  BY <1>1, <1>2, <1>5 DEF ScanIs, Kept
<1>7. ASSUME NEW p \in Passed(u)
      PROVE  u \in slock'[p[1]] /\ Actual'[p] = Actual[p]
  <2>1. p \in Places /\ u \in slock[p[1]] BY <1>6 DEF ScanIs, Passed
  <2>2. p[1] \in Lockable /\ p[1] \in 1..Len(blocks) BY <2>1, PlaceIs
  <2>3. u \in slock'[p[1]] /\ blocks'[p[1]] = blocks[p[1]] BY <2>1, <2>2 DEF Respected
  <2>4. p \in Places' BY <1>5 DEF Passed
  <2> QED BY <2>1, <2>3, <2>4 DEF Actual, At
<1>8. Of(Actual, Passed(u))' = Of(Actual, Passed(u))
  <2>1. PICK A, A2, Q : A = Actual /\ A2 = Actual' /\ Q = Passed(u) OBVIOUS
  <2>2. Passed(u)' = Q BY <1>5, <2>1
  <2>3. ASSUME NEW v PROVE v \in Of(A2, Q) <=> v \in Of(A, Q) BY <2>1, <1>7, OfIs
  <2>4. Of(A2, Q) = Of(A, Q) BY <2>3
  <2> QED BY <2>1, <2>2, <2>4
<1> QED BY <1>6, <1>7, <1>8 DEF ScanIs

(* Nothing is passed yet. *)
LEMMA NothingPassed ==
  ASSUME Typed', NEW t \in Txs, pc'[t] = "idle", blk'[t] = 1, slot'[t] = 0, seen'[t] = <<>>
  PROVE  ScanIs(t)'
<1>1. ASSUME NEW p \in Passed(t)' PROVE FALSE
  <2>1. p[1] \in 1..Len(blocks') /\ p[2] \in 1..Slots BY DEF Passed, Places, Typed
  <2>2. Len(blocks') \in Nat BY DEF Typed
  <2>3. ~WholeBlock(t)' BY DEF WholeBlock
  <2> QED BY <2>1, <2>2, <2>3 DEF Passed
<1>2. Passed(t)' = {} BY <1>1
<1>3. Of(Actual, Passed(t))' = {} BY <1>2 DEF Of
<1>4. ToSet(seen[t])' = {} BY DEF ToSet
<1>5. DOMAIN seen'[t] = {} OBVIOUS
<1>6. ToSet(seen[t])' = Of(Actual, Passed(t))' BY <1>3, <1>4
<1> QED BY <1>2, <1>5, <1>6 DEF ScanIs

LEMMA FoundScan ==
  ASSUME CallInv, CallInv', DataInv, NEW t \in Txs, ScanIs(t), Found(t) PROVE ScanIs(t)'
<1> USE DEF CallInv
<1>1. PICK b, old, s : /\ b = blk[t] /\ old = slot[t] /\ s = Min(After(t, TRUE)) OBVIOUS
<1>2. b \in 1..Len(blocks) /\ old \in 0..Slots /\ Len(blocks) \in Nat
      /\ DOMAIN blocks = 1..Len(blocks) /\ b \in Lockable
  <2>1. b \in 1..Len(blocks) /\ old \in 0..Slots
    BY <1>1 DEF Found, ControlInv, Positioned, Typed
  <2> QED BY <2>1 DEF Typed, Lockable, EndOfFile
<1>3. /\ s \in (old + 1)..Slots /\ blocks[b][s].used
      /\ \A q \in (old + 1)..Slots : blocks[b][q].used => s <= q
  <2>1. After(t, TRUE) # {} /\ After(t, TRUE) \subseteq Nat
    <3>1. After(t, TRUE) # {} BY DEF Found
    <3>2. slot[t] \in Nat BY <1>1, <1>2
    <3> QED BY <3>1, <3>2 DEF After
  <2>2. s \in After(t, TRUE) /\ \A q \in After(t, TRUE) : s <= q BY <1>1, <2>1, LeastExists
  <2>3. \A q \in (old + 1)..Slots : blocks[b][q] \in Records
    <3>1. blocks[b] \in Blocks BY <1>2 DEF Typed
    <3> QED BY <3>1, <1>2 DEF Blocks
  <2>4. After(t, TRUE) = {q \in (old + 1)..Slots : blocks[b][q].used = TRUE}
    BY <1>1 DEF After
  <2> QED BY <2>2, <2>3, <2>4 DEF Records
<1>4. s \in 1..Slots /\ old < s BY <1>2, <1>3
<1>5. PICK v : v = blocks[b][s].val OBVIOUS
<1>6. /\ slot'[t] = s /\ seen'[t] = Append(seen[t], v) /\ pc'[t] = "idle"
      /\ UNCHANGED <<blocks, blk, undo, missed>>
      /\ slock' = [slock EXCEPT ![b] = slock[b] \union {t}]
      /\ op[t] = "next" /\ pc[t] \in {"search", "again"}
  <2>1. slot' = [slot EXCEPT ![t] = s] /\ slot'[t] = s BY <1>1 DEF Found, Typed
  <2>2. seen' = [seen EXCEPT ![t] = Append(seen[t], v)] BY <2>1, <1>1, <1>5 DEF Found
  <2> QED BY <2>1, <2>2, <1>1 DEF Found, SLock, Goto, Typed
<1>7. SUFFICES ASSUME undo[t] = <<>>, ~missed[t]
               PROVE  /\ \A p \in Passed(t)' : t \in slock'[p[1]]
                      /\ ToSet(seen[t])' = Of(Actual, Passed(t))'
                      /\ \A i, j \in DOMAIN seen'[t] : i # j => seen'[t][i] # seen'[t][j]
  BY <1>6 DEF ScanIs
<1>8. /\ \A p \in Passed(t) : t \in slock[p[1]]
      /\ ToSet(seen[t]) = Of(Actual, Passed(t))
      /\ \A i, j \in DOMAIN seen[t] : i # j => seen[t][i] # seen[t][j]
  BY <1>6, <1>7 DEF ScanIs, Scanning
<1>9. PICK A, Q, Q2, new : A = Actual /\ Q = Passed(t) /\ Q2 = Passed(t)' /\ new = <<b, s>>
  OBVIOUS
<1>10. new \in Places /\ A[new].used /\ A[new].val = v
  BY <1>2, <1>3, <1>4, <1>5, <1>9 DEF Places, Actual, At
<1>11. ASSUME NEW p \in Places
       PROVE  /\ p \in Q <=> p[1] < b \/ (p[1] = b /\ p[2] <= old)
              /\ p \in Q2 <=> p[1] < b \/ (p[1] = b /\ p[2] <= s)
  <2>1. ~WholeBlock(t) /\ ~WholeBlock(t)' BY <1>6 DEF WholeBlock
  <2>2. Places' = Places /\ blk'[t] = b /\ slot'[t] = s BY <1>1, <1>6 DEF Places
  <2> QED BY <2>1, <2>2, <1>1, <1>9 DEF Passed
<1>12. Q \subseteq Places /\ Q2 \subseteq Places BY <1>6, <1>9 DEF Passed, Places
<1>13. ASSUME NEW p \in Places PROVE p[1] \in 1..Len(blocks) /\ p[2] \in 1..Slots /\ p = <<p[1], p[2]>>
  BY PlaceIs
<1>14. ASSUME NEW p \in Q2 PROVE p \in Q \/ p = new \/ ~A[p].used
  <2>1. p \in Places BY <1>12
  <2>2. PICK c \in 1..Len(blocks), q \in 1..Slots : c = p[1] /\ q = p[2] /\ p = <<c, q>>
    BY <2>1, <1>13
  <2>3. c < b \/ (c = b /\ q <= s) BY <2>1, <2>2, <1>11
  <2>4. CASE c < b BY <2>1, <2>2, <2>4, <1>11
  <2>5. CASE c = b /\ q <= old BY <2>1, <2>2, <2>5, <1>11
  <2>6. CASE c = b /\ q = s BY <2>2, <2>6, <1>9
  <2>7. CASE c = b /\ old < q /\ q < s
    <3>1. q \in (old + 1)..Slots /\ ~(s <= q) BY <2>7, <1>2, <1>4
    <3>2. ~blocks[b][q].used BY <3>1, <1>3
    <3>3. A[p] = blocks[b][q] BY <2>1, <2>2, <2>7, <1>9 DEF Actual, At
    <3> QED BY <3>2, <3>3
  <2> QED BY <2>3, <2>4, <2>5, <2>6, <2>7, <1>2, <1>4
<1>15. new \in Q2 /\ new \notin Q /\ Q \subseteq Q2
  <2>1. new[1] = b /\ new[2] = s BY <1>9
  <2>2. new \in Q2 BY <2>1, <1>10, <1>11, <1>4
  <2>3. new \notin Q BY <2>1, <1>10, <1>11, <1>2, <1>4
  <2>4. ASSUME NEW p \in Q PROVE p \in Q2
    <3>1. p \in Places BY <1>12
    <3> QED BY <3>1, <1>2, <1>4, <1>11, <1>13
  <2> QED BY <2>2, <2>3, <2>4
<1>16. ASSUME NEW p \in Q2 PROVE t \in slock'[p[1]]
  <2>1. p \in Places BY <1>12
  <2>2. p[1] \in Lockable BY <2>1, PlaceIs
  <2>3. CASE p[1] = b BY <2>2, <2>3, <1>6 DEF Typed
  <2>4. CASE p[1] # b
    <3>1. p \in Q BY <2>1, <2>4, <1>11
    <3> QED BY <3>1, <2>2, <2>4, <1>6, <1>8, <1>9 DEF Typed
  <2> QED BY <2>3, <2>4
<1>17. ASSUME NEW w PROVE w \in Of(A, Q2) <=> w \in Of(A, Q) \/ w = v
  <2>1. w \in Of(A, Q2) <=> \E q \in Q2 : A[q].used /\ A[q].val = w BY OfIs
  <2>2. w \in Of(A, Q) <=> \E q \in Q : A[q].used /\ A[q].val = w BY OfIs
  <2> QED BY <2>1, <2>2, <1>10, <1>14, <1>15
<1>18. Of(Actual, Passed(t))' = Of(A, Q2) BY <1>6, <1>9 DEF Actual, At, Places
<1>19. PICK L, M : L = seen[t] /\ M = seen'[t] OBVIOUS
<1>20. PICK n \in Nat : /\ DOMAIN L = 1..n /\ DOMAIN M = 1..(n + 1) /\ M[n + 1] = v
                        /\ \A i \in 1..n : M[i] = L[i]
  <2>1. L \in Seq(Values \union {0}) BY <1>19 DEF Typed
  <2>2. M = Append(L, v) BY <1>6, <1>19
  <2>3. PICK n \in Nat : n = Len(L) /\ DOMAIN L = 1..n BY <2>1
  <2>4. v \in Values \union {0}
    <3>1. v = At(new).val /\ At(new) \in Records
      <4>1. new \in Places /\ A[new] = At(new) BY <1>9, <1>10 DEF Actual
      <4> QED BY <4>1, <1>10, PlaceIs
    <3> QED BY <3>1 DEF Records
  <2>5. Len(M) = n + 1 /\ M \in Seq(Values \union {0}) /\ M[n + 1] = v
        /\ \A i \in 1..n : M[i] = L[i]
    BY <2>1, <2>2, <2>3, <2>4, AppendProperties
  <2> QED BY <2>3, <2>5
<1>21. \A i \in 1..(n + 1) : i \in 1..n \/ i = n + 1 BY <1>20
<1>22. n + 1 \in 1..(n + 1) /\ \A i \in 1..n : i \in 1..(n + 1) BY <1>20
<1>23. ASSUME NEW w PROVE w \in ToSet(M) <=> w \in ToSet(L) \/ w = v
  <2>1. w \in ToSet(M) <=> \E i \in 1..(n + 1) : M[i] = w BY <1>20 DEF ToSet
  <2>2. w \in ToSet(L) <=> \E i \in 1..n : L[i] = w BY <1>20 DEF ToSet
  <2> QED BY <2>1, <2>2, <1>20, <1>21, <1>22
<1>24. ToSet(M) = Of(A, Q2)
  <2>1. ToSet(L) = Of(A, Q) BY <1>8, <1>9, <1>19
  <2> QED BY <2>1, <1>17, <1>23
<1>25. v \notin ToSet(L)
  <2> SUFFICES ASSUME v \in Of(A, Q) PROVE FALSE BY <1>8, <1>9, <1>19
  <2>1. PICK q \in Q : A[q].used /\ A[q].val = v BY OfIs
  <2>2. q # new /\ q \in Places BY <1>12, <1>15
  <2> QED BY <2>1, <2>2, <1>9, <1>10 DEF DataInv, DataIs, Distinct
<1>26. ASSUME NEW i \in DOMAIN M, NEW j \in DOMAIN M, i # j PROVE M[i] # M[j]
  <2>1. \A k \in 1..n : M[k] = L[k] /\ M[k] # v
    <3>1. \A k \in 1..n : L[k] \in ToSet(L) BY <1>20 DEF ToSet
    <3> QED BY <3>1, <1>20, <1>25
  <2>2. CASE i \in 1..n /\ j \in 1..n BY <2>1, <2>2, <1>8, <1>19, <1>20, <1>26
  <2>3. CASE i = n + 1 \/ j = n + 1 BY <2>1, <2>3, <1>20, <1>21, <1>26
  <2> QED BY <2>2, <2>3, <1>20, <1>21
<1>27. ToSet(seen[t])' = ToSet(M) BY <1>19
<1> QED BY <1>9, <1>16, <1>18, <1>19, <1>24, <1>26, <1>27

LEMMA QuietScan ==
  ASSUME CallInv, CallInv', DataInv, NEW t \in Txs, ScanIs(t), QuietStep(t) PROVE ScanIs(t)'
<1> USE DEF CallInv
<1>1. Quiet(t) BY QuietInv
<1>2. /\ UNCHANGED <<blocks, undo>> /\ Places' = Places /\ Actual' = Actual
      /\ \A b \in Lockable : t \in slock[b] => t \in slock'[b]
  <2>1. UNCHANGED <<blocks, undo>> BY <1>1 DEF Quiet
  <2>2. ASSUME NEW b \in Lockable, NEW c \in 0..Len(blocks), SLock(t, c), t \in slock[b]
        PROVE  t \in slock'[b]
    <3>1. slock' = [slock EXCEPT ![c] = slock[c] \union {t}] BY <2>2 DEF SLock
    <3> QED BY <3>1, <2>2 DEF Typed
  <2> QED BY <1>1, <2>1, <2>2 DEF Quiet, Places, Actual, At
(* Steps on which the scan stays where it is, or is read to the end of its block *)
<1>3. ASSUME Scanning(t), Passed(t)' = Passed(t), UNCHANGED <<seen, missed>>
      PROVE  ScanIs(t)'
  <2> SUFFICES ASSUME undo[t] = <<>>, ~missed[t]
               PROVE  /\ \A p \in Passed(t) : t \in slock'[p[1]]
                      /\ ToSet(seen[t]) = Of(Actual, Passed(t))
                      /\ \A i, j \in DOMAIN seen[t] : i # j => seen[t][i] # seen[t][j]
    BY <1>2, <1>3 DEF ScanIs
  <2>1. /\ \A p \in Passed(t) : t \in slock[p[1]]
        /\ ToSet(seen[t]) = Of(Actual, Passed(t))
        /\ \A i, j \in DOMAIN seen[t] : i # j => seen[t][i] # seen[t][j]
    BY <1>3 DEF ScanIs
  <2>2. \A p \in Passed(t) : p[1] \in Lockable BY PlaceIs DEF Passed
  <2> QED BY <1>2, <2>1, <2>2
<1>4. CASE NewTableScan(t) \/ CallInsert(t) \/ CallSet(t) \/ CallDelete(t)
  <2>1. ~Scanning(t)'
    BY <1>4 DEF NewTableScan, CallInsert, CallSet, CallDelete, Call, Goto, Scanning, Typed
  <2> QED BY <2>1 DEF ScanIs
<1>5. CASE CallNext(t)
  <2>1. /\ pc[t] = "idle" /\ pc'[t] = "search" /\ UNCHANGED <<blk, slot, seen, missed>>
    BY <1>5 DEF CallNext, Call, Goto, Typed
  <2>2. Scanning(t) BY <2>1 DEF Scanning
  <2>3. Passed(t)' = Passed(t) BY <2>1, <1>2 DEF Passed, WholeBlock
  <2> QED BY <2>1, <2>2, <2>3, <1>3
<1>6. CASE BeforeFirst(t)
  <2>1. pc'[t] = "idle" /\ blk'[t] = 1 /\ slot'[t] = 0 /\ seen'[t] = <<>>
    BY <1>6 DEF BeforeFirst, MoveToBlock, Goto, Typed
  <2> QED BY <2>1, NothingPassed
<1>7. CASE Found(t) BY <1>7, FoundScan
<1>8. CASE FoundEmpty(t) \/ ChangeTimesOut(t) \/ SizeTimesOut(t) \/ AppendFails(t)
  <2>1. ~Scanning(t)'
    BY <1>8 DEF FoundEmpty, ChangeTimesOut, SizeTimesOut, AppendFails, Goto, Scanning, Typed
  <2> QED BY <2>1 DEF ScanIs
<1>9. CASE SearchTimesOut(t)
  <2>1. missed'[t] \/ ~Scanning(t)'
    BY <1>9 DEF SearchTimesOut, NoSlot, Goto, Scanning, ControlInv, InOrder, Typed
  <2> QED BY <2>1 DEF ScanIs
<1>10. CASE NotFound(t)
  <2>1. CASE op[t] = "insert" \/ pc[t] = "again"
    <3>1. ~Scanning(t)'
      BY <1>10, <2>1 DEF NotFound, NoSlot, Goto, Scanning, ControlInv, InOrder, Typed
    <3> QED BY <3>1 DEF ScanIs
  <2>2. CASE op[t] = "next" /\ pc[t] = "search"
    <3>1. /\ pc'[t] = "size" /\ UNCHANGED <<op, blk, slot, seen, missed, undo>>
          /\ After(t, TRUE) = {}
          /\ slock' = [slock EXCEPT ![blk[t]] = slock[blk[t]] \union {t}]
      BY <1>10, <2>2 DEF NotFound, NoSlot, Goto, SLock, Typed
    <3>2. SUFFICES ASSUME undo[t] = <<>>, ~missed[t]
                   PROVE  /\ \A p \in Passed(t)' : t \in slock'[p[1]]
                          /\ ToSet(seen[t]) = Of(Actual, Passed(t))'
                          /\ \A i, j \in DOMAIN seen[t] : i # j => seen[t][i] # seen[t][j]
      BY <3>1 DEF ScanIs
    <3>3. /\ \A p \in Passed(t) : t \in slock[p[1]]
          /\ ToSet(seen[t]) = Of(Actual, Passed(t))
          /\ \A i, j \in DOMAIN seen[t] : i # j => seen[t][i] # seen[t][j]
      BY <2>2, <3>2 DEF ScanIs, Scanning
    <3>4. PICK A, Q, Q2 : A = Actual /\ Q = Passed(t) /\ Q2 = Passed(t)' OBVIOUS
    <3>5. PICK b, old : b = blk[t] /\ old = slot[t] /\ b \in Nat /\ old \in 0..Slots
                        /\ b \in Lockable
      <4>1. Len(blocks) \in Nat /\ Len(blocks) <= MaxBlocks /\ slot[t] \in 0..Slots
        BY DEF Typed
      <4>2. blk[t] \in 0..Len(blocks) BY DEF ControlInv, Positioned
      <4> QED BY <4>1, <4>2 DEF Lockable, EndOfFile
    <3>6. ASSUME NEW p \in Places
          PROVE  /\ p \in Q <=> p[1] < b \/ (p[1] = b /\ p[2] <= old)
                 /\ p \in Q2 <=> p[1] < b \/ p[1] = b
      <4>1. ~WholeBlock(t) /\ WholeBlock(t)' BY <2>2, <3>1 DEF WholeBlock
      <4> QED BY <4>1, <1>2, <3>1, <3>4, <3>5 DEF Passed
    <3>7. Q \subseteq Places /\ Q2 \subseteq Places BY <1>2, <3>4 DEF Passed
    <3>8. ASSUME NEW p \in Q2 PROVE t \in slock'[p[1]] /\ (p \in Q \/ ~A[p].used)
      <4>1. p \in Places BY <3>7
      <4>2. p[1] \in Lockable /\ p[1] \in 1..Len(blocks) /\ p[2] \in 1..Slots /\ At(p) \in Records
        BY <4>1, PlaceIs
      <4>3. CASE p \in Q BY <4>2, <4>3, <3>3, <3>4, <1>2
      <4>4. CASE p \notin Q
        <5>1. p[1] = b /\ ~(p[2] <= old) BY <4>1, <4>4, <3>6
        <5>2. p[2] \in (old + 1)..Slots BY <5>1, <4>2, <3>5
        <5>3. A[p] = blocks[b][p[2]] BY <5>1, <4>1, <3>4 DEF Actual, At
        <5>4. p[2] \notin After(t, TRUE) BY <3>1
        <5>5. blocks[b][p[2]].used # TRUE BY <5>2, <5>4, <3>5 DEF After
        <5>6. ~A[p].used BY <5>3, <5>5, <4>2, <5>1 DEF At, Records
        <5>7. t \in slock'[b] BY <3>1, <3>5 DEF Typed
        <5> QED BY <5>1, <5>6, <5>7
      <4> QED BY <4>3, <4>4
    <3>9. Q \subseteq Q2
      <4>1. ASSUME NEW p \in Q PROVE p \in Q2
        <5>1. p \in Places BY <3>7
        <5> QED BY <5>1, <3>6
      <4> QED BY <4>1
    <3>10. ASSUME NEW v PROVE v \in Of(A, Q2) <=> v \in Of(A, Q) BY <3>8, <3>9, OfIs
    <3>11. Of(A, Q2) = Of(A, Q) BY <3>10
    <3>12. Of(Actual, Passed(t))' = Of(A, Q2) BY <1>2, <3>4
    <3> QED BY <3>3, <3>4, <3>8, <3>11, <3>12
  <2> QED BY <1>10, <2>1, <2>2 DEF NotFound, ControlInv, InOrder
<1>11. CASE Opened(t)
  <2>1. CASE blocks = <<>>
    <3>1. ~Scanning(t)' BY <1>11, <2>1 DEF Opened, Goto, Scanning, Typed
    <3> QED BY <3>1 DEF ScanIs
  <2>2. CASE blocks # <<>>
    <3>1. pc'[t] = "idle" /\ blk'[t] = 1 /\ slot'[t] = 0 /\ seen'[t] = <<>>
      BY <1>11, <2>2 DEF Opened, MoveToBlock, Goto, ControlInv, NothingDone, Typed
    <3> QED BY <3>1, NothingPassed
  <2> QED BY <2>1, <2>2
<1>12. CASE AtLastBlock(t) \/ ToNextBlock(t)
  <2>1. CASE op[t] = "insert"
    <3>1. ~Scanning(t)' BY <1>12, <2>1 DEF AtLastBlock, ToNextBlock, Goto, Scanning, Typed
    <3> QED BY <3>1 DEF ScanIs
  <2>2. CASE op[t] = "next"
    <3>1. Scanning(t) /\ WholeBlock(t) /\ UNCHANGED <<seen, missed>>
      BY <1>12, <2>2 DEF AtLastBlock, ToNextBlock, Scanning, WholeBlock
    <3>2. CASE AtLastBlock(t)
      <4>1. WholeBlock(t)' /\ blk' = blk
        BY <2>2, <3>2 DEF AtLastBlock, Goto, WholeBlock, Typed
      <4>2. Passed(t)' = Passed(t) BY <3>1, <4>1, <1>2 DEF Passed
      <4> QED BY <3>1, <4>2, <1>3
    <3>3. CASE ToNextBlock(t)
      <4>1. ~WholeBlock(t)' /\ blk'[t] = blk[t] + 1 /\ slot'[t] = 0
        BY <2>2, <3>3 DEF ToNextBlock, MoveToBlock, Goto, WholeBlock, Typed
      <4>2. ASSUME NEW p \in Places PROVE p \in Passed(t)' <=> p \in Passed(t)
        <5>1. p[1] \in Nat /\ p[2] \in 1..Slots /\ blk[t] \in Nat
          <6>1. p[1] \in 1..Len(blocks) /\ p[2] \in 1..Slots BY PlaceIs
          <6>2. blk[t] \in Nat BY DEF Typed
          <6>3. p[1] \in Nat BY <6>1
          <6> QED BY <6>1, <6>2, <6>3
        <5>2. p \in Passed(t)' <=> p[1] < blk[t] + 1 BY <4>1, <5>1, <1>2 DEF Passed
        <5>3. p \in Passed(t) <=> p[1] < blk[t] \/ p[1] = blk[t] BY <3>1 DEF Passed
        <5> QED BY <5>1, <5>2, <5>3
      <4>3. Passed(t)' \subseteq Places /\ Passed(t) \subseteq Places BY <1>2 DEF Passed
      <4>4. Passed(t)' = Passed(t) BY <4>2, <4>3
      <4> QED BY <3>1, <4>4, <1>3
    <3> QED BY <1>12, <3>2, <3>3
  <2> QED BY <1>12, <2>1, <2>2 DEF AtLastBlock, ToNextBlock, ControlInv, InOrder
<1> QED BY <1>4, <1>5, <1>6, <1>7, <1>8, <1>9, <1>10, <1>11, <1>12 DEF QuietStep

LEMMA OwnScan ==
  ASSUME CallInv, CallInv', DataInv, NEW t \in Txs, ScanIs(t),
         QuietStep(t) \/ Change(t) \/ moveToNewBlock(t) \/ Commit(t) \/ Rollback(t)
  PROVE  ScanIs(t)'
<1> USE DEF CallInv
<1>1. CASE QuietStep(t) BY <1>1, QuietScan
<1>2. CASE Change(t)
  <2>1. PICK record : undo' = [undo EXCEPT ![t] = Append(undo[t], record)]
    BY <1>2, ChangeIs DEF Write
  <2>2. undo'[t] = Append(undo[t], record) /\ undo[t] \in Seq(LogRecords) BY <2>1 DEF Typed
  <2>3. undo'[t] # <<>> BY <2>2
  <2> QED BY <2>3 DEF ScanIs
<1>3. CASE moveToNewBlock(t)
  <2>1. CASE op[t] = "insert"
    <3>1. ~Scanning(t)'
      BY <1>3, <2>1 DEF moveToNewBlock, Goto, Scanning, Typed
    <3> QED BY <3>1 DEF ScanIs
  <2>2. CASE op[t] # "insert"
    <3>1. pc[t] = "append" /\ op[t] = "open"
      BY <1>3, <2>2 DEF moveToNewBlock, ControlInv, InOrder
    <3>2. blk[t] = 0 /\ seen[t] = <<>> /\ Len(blocks) = 0
      BY <3>1 DEF ControlInv, NothingDone, Holding
    <3>3. pc'[t] = "idle" /\ blk'[t] = Len(blocks) + 1 /\ slot'[t] = 0 /\ seen' = seen
      BY <1>3, <2>2 DEF moveToNewBlock, MoveToBlock, Goto, Typed
    <3> QED BY <3>2, <3>3, NothingPassed
  <2> QED BY <2>1, <2>2
<1>4. CASE Commit(t) \/ Rollback(t)
  <2>1. ~Scanning(t)' BY <1>4 DEF Commit, Rollback, Done, Goto, Scanning, Typed
  <2> QED BY <2>1 DEF ScanIs
<1> QED BY <1>1, <1>2, <1>3, <1>4

LEMMA ScanStep == ASSUME CallInv, DataInv, ScanInv, [Next]_vars PROVE ScanInv'
<1>1. CallInv' BY CallStep
<1>2. CASE UNCHANGED vars
  <2>1. /\ blocks' = blocks /\ pc' = pc /\ op' = op /\ blk' = blk /\ slot' = slot
        /\ undo' = undo /\ missed' = missed /\ seen' = seen /\ slock' = slock
    BY <1>2 DEF vars, scanVars
  <2>2. Places' = Places /\ Actual' = Actual BY <2>1 DEF Places, Actual, At
  <2>3. ASSUME NEW t PROVE Scanning(t)' = Scanning(t) /\ Passed(t)' = Passed(t)
    BY <2>1, <2>2 DEF Scanning, WholeBlock, Passed
  <2>4. ASSUME NEW t \in Txs PROVE ScanIs(t)'
    BY <2>1, <2>2, <2>3 DEF ScanInv, ScanIs
  <2> QED BY <2>4 DEF ScanInv
<1>3. ASSUME NEW t \in Txs,
             QuietStep(t) \/ Change(t) \/ moveToNewBlock(t) \/ Commit(t) \/ Rollback(t)
      PROVE  ScanInv'
  <2>1. \A u \in Txs \ {t} : Respected(u)
    BY <1>3, QuietInv, ChangeInv, AppendInv, CommitInv, RollbackInv
  <2>2. ASSUME NEW u \in Txs \ {t} PROVE ScanIs(u)'
    BY <2>1, <1>1, RespectedScan DEF ScanInv
  <2>3. ScanIs(t)' BY <1>1, <1>3, OwnScan DEF ScanInv
  <2> QED BY <2>2, <2>3 DEF ScanInv
<1> QED BY <1>2, <1>3, StepKinds DEF Next

THEOREM Scans == Spec => [](CallInv /\ DataInv /\ ScanInv)
<1>1. Init => ScanInv BY DEF Init, ScanInv, ScanIs, Scanning
<1>2. Init => CallInv /\ DataInv BY InitCall, InitData
<1>3. CallInv /\ DataInv /\ ScanInv /\ [Next]_vars => (CallInv /\ DataInv /\ ScanInv)'
  BY CallStep, DataStep, ScanStep
<1> QED BY <1>1, <1>2, <1>3, PTL DEF Spec

(* A transaction that has only read, and whose Next has returned false with  *)
(* no lock error on the way, has seen every record of the table exactly once, *)
(* and this stays so while it runs: the locks of the blocks and of the        *)
(* end-of-file marker leave no room for phantoms (tx/transaction.go, Size).  *)
THEOREM ScanIsComplete == Spec => []ScannedIsTable
<1>1. ASSUME CallInv, ScanInv PROVE ScannedIsTable
  <2> USE <1>1 DEF CallInv
  <2> SUFFICES ASSUME NEW t \in Txs, pc[t] = "ended", undo[t] = <<>>, ~missed[t]
               PROVE  /\ ToSet(seen[t]) = TableValues
                      /\ Len(seen[t]) = Cardinality(TableValues)
    BY DEF ScannedIsTable
  <2>1. blk[t] = Len(blocks) BY DEF ControlInv, Holding
  <2>2. ASSUME NEW p \in Places PROVE p \in Passed(t)
    <3>1. Len(blocks) \in Nat BY DEF Typed
    <3>2. p[1] \in 1..Len(blocks) BY PlaceIs
    <3>3. p[1] < Len(blocks) \/ p[1] = Len(blocks) BY <3>1, <3>2
    <3> QED BY <3>3, <2>1 DEF Passed, WholeBlock
  <2>3. Passed(t) = Places BY <2>2 DEF Passed
  <2>4. /\ ToSet(seen[t]) = Of(Actual, Places)
        /\ \A i, j \in DOMAIN seen[t] : i # j => seen[t][i] # seen[t][j]
    BY <2>3 DEF ScanInv, ScanIs, Scanning
  <2>5. ToSet(seen[t]) = TableValues BY <2>4, TableValuesAre
  <2>6. PICK L, T : L = seen[t] /\ T = TableValues OBVIOUS
  <2>7. PICK n \in Nat : n = Len(L) /\ DOMAIN L = 1..n /\ L \in Seq(Values \union {0})
    BY <2>6 DEF Typed
  <2>8. T = {L[i] : i \in 1..n} BY <2>5, <2>6, <2>7 DEF ToSet
  <2>9. IsFiniteSet(1..n) /\ Cardinality(1..n) = n
    <3>1. n \in Int /\ 1 \in Int OBVIOUS
    <3> QED BY <3>1, FS_Interval
  <2>10. Cardinality(T) = n
    <3>1. PICK f : f = [i \in 1..n |-> L[i]] OBVIOUS
    <3>2. f \in [1..n -> T] BY <3>1, <2>8
    <3>3. \A i, j \in 1..n : i # j => f[i] # f[j] BY <3>1, <2>4, <2>6, <2>7
    <3>4. \A v \in T : \E i \in 1..n : f[i] = v BY <3>1, <2>8
    <3> QED BY <3>2, <3>3, <3>4, <2>9, SameNumber
  <2> QED BY <2>5, <2>6, <2>7, <2>10
<1> QED BY <1>1, Scans, PTL
=============================================================================
