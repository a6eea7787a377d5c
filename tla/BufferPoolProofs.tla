-------------------------- MODULE BufferPoolProofs --------------------------
(***************************************************************************)
(* The safety properties of BufferPool, for every finite set of            *)
(* transactions, every set of blocks, every size of the pool and whichever *)
(* calls of the file manager fail.                                         *)
(***************************************************************************)
EXTENDS BufferPool, FiniteSetTheorems, WellFoundedInduction, TLAPS

(***************************************************************************)
(* The entries of the BufferLists and the goroutines inside a call: an     *)
(* entry has a buffer, Pin runs for a block without an entry, and a page   *)
(* that is being written has one.                                          *)
(***************************************************************************)
ListsWellFormed ==
  /\ \A t \in Txs, b \in Blocks : refs[t][b] > 0 => mine[t][b] # 0
  /\ \A t \in Txs :
       pc[t] \in {"pin", "pinWait"} => blk[t] \in Blocks /\ refs[t][blk[t]] = 0
  /\ \A t \in Txs : pc[t] = "logged" => blk[t] \in Blocks /\ refs[t][blk[t]] > 0

Bookkeeping ==
  /\ ListsWellFormed
  /\ OneBufferPerBlock
  /\ PinsAreEntries
  /\ AvailableIsUnpinned
  /\ SleeperIsBlocked

(***************************************************************************)
(* The inductive invariant of the counters.  No part of it stands alone: a *)
(* pin count of 0 shows that nobody uses the buffer only if the counts are *)
(* those of the entries, and a sleeper that could be served is one whom an *)
(* Unpin did not wake.                                                     *)
(***************************************************************************)
IInv == TypeOK /\ Bookkeeping

USE PoolAssumption DEF poolVars, waitVars, listVars, logVars, histVars

----------------------------------------------------------------------------
(* What the two searches of the pool return. *)
LEMMA LeastExists ==
  ASSUME NEW S, S \subseteq Nat, S # {}
  PROVE  \E i \in S : \A j \in S : i <= j
<1> DEFINE R == OpToRel(<, Nat)
<1>1. IsWellFoundedOn(R, Nat) BY NatLessThanWellFounded
<1>2. \A i, j \in Nat : j < i => <<j, i>> \in R BY DEF OpToRel
<1> HIDE DEF R
<1>3. PICK i \in S : \A j \in S : <<j, i>> \notin R BY <1>1, WFMin
<1>4. \A j \in S : ~(j < i) BY <1>2, <1>3
<1> QED BY <1>4

LEMMA ChosenIsUnpinned ==
  ASSUME Unpinned # {}
  PROVE  chooseUnpinnedBuffer \in Unpinned /\ chooseUnpinnedBuffer \in Buffers
<1>1. Unpinned \subseteq Buffers /\ Buffers \subseteq Nat BY DEF Unpinned, Buffers
<1>2. \E i \in Unpinned : \A j \in Unpinned : i <= j BY <1>1, LeastExists
<1> QED BY <1>1, <1>2 DEF chooseUnpinnedBuffer

LEMMA FoundIsHolding ==
  ASSUME NEW b, Holding(b) # {}
  PROVE  findExistingBuffer(b) \in Holding(b) /\ findExistingBuffer(b) \in Buffers
<1>1. Holding(b) \subseteq Buffers /\ Buffers \subseteq Nat BY DEF Holding, Buffers
<1>2. \E i \in Holding(b) : \A j \in Holding(b) : i <= j BY <1>1, LeastExists
<1> QED BY <1>1, <1>2 DEF findExistingBuffer

(* The sets that the counters count are finite. *)
LEMMA UsersFinite ==
  ASSUME NEW i
  PROVE  IsFiniteSet(Users(i)) /\ Cardinality(Users(i)) \in Nat
<1>1. Users(i) \subseteq Txs BY DEF Users
<1>2. IsFiniteSet(Users(i)) BY <1>1, FS_Subset
<1> QED BY <1>2, FS_CardinalityType

LEMMA BuffersCounted ==
  ASSUME NEW S \in SUBSET Buffers
  PROVE  IsFiniteSet(S) /\ Cardinality(S) \in 0..NumBuffers
<1>1. IsFiniteSet(Buffers) /\ Cardinality(Buffers) = NumBuffers
  BY FS_Interval DEF Buffers
<1>2. IsFiniteSet(S) /\ Cardinality(S) <= NumBuffers BY <1>1, FS_Subset
<1>3. Cardinality(S) \in Nat BY <1>2, FS_CardinalityType
<1> QED BY <1>2, <1>3

(* An unpinned buffer has no user, and it is in no entry. *)
LEMMA UnpinnedIsUnused ==
  ASSUME IInv, NEW i \in Unpinned, NEW t \in Txs, NEW b \in Blocks, refs[t][b] > 0
  PROVE  mine[t][b] # i
<1>1. i \in Buffers /\ pins[i] = 0
  BY DEF Unpinned, isPinned, IInv, TypeOK
<1>2. Users(i) = {}
  BY <1>1, UsersFinite, FS_EmptySet DEF IInv, Bookkeeping, PinsAreEntries
<1> QED BY <1>2 DEF Users

----------------------------------------------------------------------------
(* What Pin and Unpin do to the counters *)

(* tryToPin takes a buffer for t, which it found or has just relabelled. *)
LEMMA PinBufferKeeps ==
  ASSUME IInv, NEW t \in Txs, NEW i \in Buffers,
         pc[t] \in {"pin", "pinWait"}, t \notin waitSet,
         \/ i \in Holding(blk[t])
         \/ i \in Unpinned /\ Holding(blk[t]) = {},
         block' = [block EXCEPT ![i] = blk[t]],
         pinBuffer(t, i), waitSet' = waitSet
  PROVE  Bookkeeping' /\ numAvailable' \in 0..NumBuffers
<1> DEFINE c == blk[t]
<1> USE DEF IInv, Bookkeeping
<1>0. /\ c \in Blocks /\ c # NoBlock /\ refs[t][c] = 0
      /\ pins[i] \in Nat /\ pins' = [pins EXCEPT ![i] = @ + 1]
      /\ refs' = [refs EXCEPT ![t][c] = 1] /\ mine' = [mine EXCEPT ![t][c] = i]
  BY DEF TypeOK, ListsWellFormed, pinBuffer
<1>1. \A u \in Txs, b \in Blocks : refs[u][b] > 0 /\ mine[u][b] = i => b = c
  <2>1. CASE i \in Holding(c) BY <2>1 DEF Holding, PinsAreEntries
  <2>2. CASE i \in Unpinned BY <2>2, UnpinnedIsUnused
  <2> QED BY <2>1, <2>2
<1>2. ListsWellFormed'
  BY <1>0 DEF ListsWellFormed, TypeOK, pinBuffer, Return, Buffers
<1>3. OneBufferPerBlock' BY <1>0 DEF OneBufferPerBlock, TypeOK, Holding
<1>4. PinsAreEntries'
  <2>1. ASSUME NEW u \in Txs, NEW b \in Blocks, refs'[u][b] > 0
        PROVE  block'[mine'[u][b]] = b
    <3>1. CASE u = t /\ b = c BY <1>0, <3>1 DEF TypeOK
    <3>2. CASE ~(u = t /\ b = c)
      <4>1. refs[u][b] > 0 /\ mine'[u][b] = mine[u][b]
        BY <1>0, <2>1, <3>2 DEF TypeOK
      <4>2. mine[u][b] \in Buffers /\ block[mine[u][b]] = b
        BY <4>1 DEF TypeOK, ListsWellFormed, PinsAreEntries
      <4> QED BY <1>0, <1>1, <4>1, <4>2 DEF TypeOK
    <3> QED BY <3>1, <3>2
  <2>2. ASSUME NEW j \in Buffers PROVE pins'[j] = Cardinality(Users(j)')
    <3>1. CASE j = i
      <4>1. t \notin Users(i) BY <1>0, <1>1 DEF Users
      <4>2. Users(i)' = Users(i) \cup {t} BY <1>0 DEF Users, TypeOK
      <4>3. Cardinality(Users(i)') = Cardinality(Users(i)) + 1
        BY <4>1, <4>2, UsersFinite, FS_AddElement
      <4> QED BY <1>0, <3>1, <4>3 DEF PinsAreEntries, TypeOK
    <3>2. CASE j # i
      <4>1. Users(j)' = Users(j) BY <1>0, <3>2 DEF Users, TypeOK
      <4> QED BY <1>0, <3>2, <4>1 DEF PinsAreEntries, TypeOK
    <3> QED BY <3>1, <3>2
  <2> QED BY <2>1, <2>2 DEF PinsAreEntries
<1>5. AvailableIsUnpinned'
  <2>1. Unpinned' = Unpinned \ {i} BY <1>0 DEF Unpinned, isPinned, TypeOK
  <2>2. Cardinality(Unpinned') =
          IF i \in Unpinned THEN Cardinality(Unpinned) - 1 ELSE Cardinality(Unpinned)
    <3>1. PICK U : U = Unpinned OBVIOUS
    <3>2. IsFiniteSet(U) BY <3>1, BuffersCounted DEF Unpinned
    <3>3. Cardinality(U \ {i}) = IF i \in U THEN Cardinality(U) - 1 ELSE Cardinality(U)
      BY <3>2, FS_RemoveElement
    <3> QED BY <2>1, <3>1, <3>3
  <2>3. i \in Unpinned <=> ~isPinned(i) BY DEF Unpinned
  <2> QED BY <2>2, <2>3 DEF AvailableIsUnpinned, pinBuffer
<1>6. SleeperIsBlocked'
  <2> SUFFICES ASSUME NEW u \in waitSet
               PROVE  pc'[u] = "pinWait" /\ Unpinned' = {} /\ Holding(blk[u])' = {}
    BY DEF SleeperIsBlocked
  <2>1. u # t /\ u \in Txs /\ pc[u] = "pinWait" /\ Unpinned = {} /\ Holding(blk[u]) = {}
    BY DEF SleeperIsBlocked, TypeOK
  <2>2. pc'[u] = "pinWait" /\ blk'[u] = blk[u]
    BY <2>1 DEF pinBuffer, Return, TypeOK
  <2>3. Unpinned' = {} BY <1>0, <2>1 DEF Unpinned, isPinned, TypeOK
  <2>4. block' = block BY <2>1 DEF Holding, TypeOK
  <2> QED BY <2>1, <2>2, <2>3, <2>4 DEF Holding
<1>7. numAvailable' \in 0..NumBuffers
  BY <1>5, BuffersCounted DEF AvailableIsUnpinned, Unpinned
<1> QED BY <1>2, <1>3, <1>4, <1>5, <1>6, <1>7

(* The last Unpin of an entry gives its buffer back. *)
LEMMA UnpinBufferKeeps ==
  ASSUME IInv, NEW t \in Txs, NEW c \in Blocks, NEW i \in Buffers,
         pc[t] \in {"run", "unpinAll"}, refs[t][c] > 0, mine[t][c] = i,
         ManagerUnpin(i),
         refs' = [refs EXCEPT ![t][c] = 0], mine' = [mine EXCEPT ![t][c] = 0],
         pc' = pc, blk' = blk
  PROVE  /\ Bookkeeping' /\ numAvailable' \in 0..NumBuffers
         /\ pins' \in [Buffers -> Nat]
<1> USE DEF IInv, Bookkeeping
<1>0. /\ block[i] = c /\ pins[i] \in Nat
      /\ pins' = [pins EXCEPT ![i] = @ - 1] /\ block' = block
      /\ refs'[t][c] = 0
      /\ \A u \in Txs, b \in Blocks :
           ~(u = t /\ b = c) => refs'[u][b] = refs[u][b] /\ mine'[u][b] = mine[u][b]
  BY DEF TypeOK, ListsWellFormed, PinsAreEntries, ManagerUnpin
<1>1. t \in Users(i) BY DEF Users
<1>2. Users(i)' = Users(i) \ {t}
  <2>1. \A b \in Blocks : refs[t][b] > 0 /\ mine[t][b] = i => b = c
    BY <1>0 DEF PinsAreEntries
  <2> QED BY <1>0, <2>1 DEF Users
<1>3. Cardinality(Users(i)') = Cardinality(Users(i)) - 1
  <2>1. PICK U : U = Users(i) OBVIOUS
  <2>2. IsFiniteSet(U) BY <2>1, UsersFinite
  <2>3. Cardinality(U \ {t}) = IF t \in U THEN Cardinality(U) - 1 ELSE Cardinality(U)
    BY <2>2, FS_RemoveElement
  <2> QED BY <2>1, <2>3, <1>1, <1>2
<1>4. pins[i] > 0
  <2>1. Cardinality(Users(i)) # 0 BY <1>1, UsersFinite, FS_EmptySet
  <2> QED BY <1>0, <2>1 DEF PinsAreEntries
<1>5. ListsWellFormed' BY <1>0 DEF ListsWellFormed, TypeOK
<1>6. OneBufferPerBlock' BY <1>0 DEF OneBufferPerBlock
<1>7. PinsAreEntries'
  <2>1. \A u \in Txs, b \in Blocks : refs'[u][b] > 0 => block'[mine'[u][b]] = b
    BY <1>0 DEF PinsAreEntries
  <2>2. ASSUME NEW j \in Buffers PROVE pins'[j] = Cardinality(Users(j)')
    <3>1. CASE j = i BY <1>0, <1>3, <3>1 DEF PinsAreEntries, TypeOK
    <3>2. CASE j # i
      <4>1. Users(j)' = Users(j) BY <1>0, <3>2 DEF Users
      <4> QED BY <1>0, <3>2, <4>1 DEF PinsAreEntries, TypeOK
    <3> QED BY <3>1, <3>2
  <2> QED BY <2>1, <2>2 DEF PinsAreEntries
<1>8. AvailableIsUnpinned' /\ SleeperIsBlocked'
  <2>1. CASE pins[i] > 1
    <3>1. Unpinned' = Unpinned BY <1>0, <2>1 DEF Unpinned, isPinned, TypeOK
    <3>2. numAvailable' = numAvailable /\ waitSet' = waitSet
      BY <2>1 DEF ManagerUnpin
    <3> QED BY <1>0, <3>1, <3>2 DEF AvailableIsUnpinned, SleeperIsBlocked, Holding
  <2>2. CASE ~(pins[i] > 1)
    <3>1. Unpinned' = Unpinned \cup {i} /\ i \notin Unpinned
      BY <1>0, <1>4, <2>2 DEF Unpinned, isPinned, TypeOK
    <3>2. Cardinality(Unpinned') = Cardinality(Unpinned) + 1
      BY <3>1, BuffersCounted, FS_AddElement DEF Unpinned
    <3>3. numAvailable' = numAvailable + 1 /\ waitSet' = {}
      BY <2>2 DEF ManagerUnpin
    <3> QED BY <3>2, <3>3 DEF AvailableIsUnpinned, SleeperIsBlocked
  <2> QED BY <2>1, <2>2
<1>9. numAvailable' \in 0..NumBuffers
  BY <1>8, BuffersCounted DEF AvailableIsUnpinned, Unpinned
<1>10. pins' \in [Buffers -> Nat] BY <1>0, <1>4 DEF TypeOK
<1> QED BY <1>5, <1>6, <1>7, <1>8, <1>9, <1>10

(* A step that pins, unpins and relabels nothing, and puts nobody to sleep. *)
LEMMA CountsUntouched ==
  ASSUME IInv, ListsWellFormed',
         UNCHANGED <<block, pins, numAvailable, mine>>,
         \A t \in Txs, b \in Blocks : refs'[t][b] > 0 <=> refs[t][b] > 0,
         waitSet' \subseteq waitSet,
         \A t \in waitSet' : pc'[t] = pc[t] /\ blk'[t] = blk[t]
  PROVE  Bookkeeping'
<1> USE DEF IInv, Bookkeeping
<1>1. Unpinned' = Unpinned BY DEF Unpinned, isPinned
<1>2. \A i \in Buffers : Users(i)' = Users(i) BY DEF Users
<1>3. OneBufferPerBlock' BY DEF OneBufferPerBlock
<1>4. PinsAreEntries' BY <1>2 DEF PinsAreEntries
<1>5. AvailableIsUnpinned' BY <1>1 DEF AvailableIsUnpinned
<1>6. SleeperIsBlocked' BY <1>1 DEF SleeperIsBlocked, Holding
<1> QED BY <1>3, <1>4, <1>5, <1>6

(* Pin gives up after it has relabelled the buffer that it had chosen. *)
LEMMA RelabelKeeps ==
  ASSUME IInv, NEW t \in Txs, NEW i \in Unpinned,
         pc[t] \in {"pin", "pinWait"}, t \notin waitSet, Holding(blk[t]) = {},
         block' = [block EXCEPT ![i] = blk[t]], Return(t),
         UNCHANGED <<pins, numAvailable, waitSet, refs, mine>>
  PROVE  Bookkeeping'
<1> USE DEF IInv, Bookkeeping
<1>0. i \in Buffers /\ blk[t] \in Blocks BY DEF Unpinned, ListsWellFormed
<1>1. ListsWellFormed' BY DEF ListsWellFormed, TypeOK, Return
<1>2. OneBufferPerBlock' BY <1>0 DEF OneBufferPerBlock, TypeOK, Holding
<1>3. PinsAreEntries'
  <2>1. ASSUME NEW u \in Txs, NEW b \in Blocks, refs[u][b] > 0
        PROVE  block'[mine[u][b]] = b
    <3>1. mine[u][b] # i BY <2>1, UnpinnedIsUnused
    <3>2. mine[u][b] \in Buffers /\ block[mine[u][b]] = b
      BY <2>1 DEF TypeOK, ListsWellFormed, PinsAreEntries
    <3> QED BY <1>0, <3>1, <3>2 DEF TypeOK
  <2>2. \A j \in Buffers : Users(j)' = Users(j) BY DEF Users
  <2> QED BY <2>1, <2>2 DEF PinsAreEntries
<1>4. Unpinned' = Unpinned BY DEF Unpinned, isPinned
<1>5. waitSet = {} BY DEF SleeperIsBlocked
<1>6. AvailableIsUnpinned' /\ SleeperIsBlocked'
  BY <1>4, <1>5 DEF AvailableIsUnpinned, SleeperIsBlocked
<1> QED BY <1>1, <1>2, <1>3, <1>6

(* The flushes write pages and leave a typed disk. *)
LEMMA PagesTyped ==
  ASSUME TypeOK, NEW D \in SUBSET Buffers, WritePages(D)
  PROVE  /\ disk' \in [Blocks -> Page]
         /\ txnNum' \in [Buffers -> Txs \cup {NoTx}]
<1>1. ASSUME NEW b \in Blocks, \E i \in D : block[i] = b
      PROVE  contents[CHOOSE i \in D : block[i] = b] \in Page
  BY <1>1 DEF TypeOK
<1>2. disk' \in [Blocks -> Page] BY <1>1 DEF WritePages, TypeOK
<1>3. txnNum' \in [Buffers -> Txs \cup {NoTx}] BY DEF WritePages, TypeOK
<1> QED BY <1>2, <1>3

----------------------------------------------------------------------------
LEMMA InitIInv == Init => IInv
<1> SUFFICES ASSUME Init PROVE IInv OBVIOUS
<1>1. TypeOK BY DEF Init, TypeOK, Buffers, Page
<1>2. ListsWellFormed /\ OneBufferPerBlock /\ SleeperIsBlocked
  BY DEF Init, ListsWellFormed, OneBufferPerBlock, SleeperIsBlocked
<1>3. PinsAreEntries
  <2>1. \A i \in Buffers : Users(i) = {} BY DEF Init, Users
  <2>2. \A i \in Buffers : pins[i] = 0 BY DEF Init
  <2>3. \A t \in Txs, b \in Blocks : ~(refs[t][b] > 0) BY DEF Init
  <2> QED BY <2>1, <2>2, <2>3, FS_EmptySet DEF PinsAreEntries
<1>4. AvailableIsUnpinned
  <2>1. Unpinned = 1..NumBuffers BY DEF Init, Unpinned, isPinned, Buffers
  <2> QED BY <2>1, FS_Interval DEF Init, AvailableIsUnpinned
<1> QED BY <1>1, <1>2, <1>3, <1>4 DEF IInv, Bookkeeping

(* The outcomes of one try of Pin. *)
LEMMA TryToPinKeeps ==
  ASSUME IInv, NEW t \in Txs, pc[t] \in {"pin", "pinWait"}, t \notin waitSet, tryToPin(t)
  PROVE  IInv'
<1> USE DEF IInv
<1>0. blk[t] \in Blocks BY DEF Bookkeeping, ListsWellFormed
<1>1. CASE PinExisting(t)
  <2>1. PICK i \in Buffers : i \in Holding(blk[t]) /\ pinBuffer(t, i)
    BY <1>1, FoundIsHolding DEF PinExisting
  <2>2. block' = [block EXCEPT ![i] = blk[t]]
    BY <1>1, <2>1 DEF PinExisting, Holding, TypeOK
  <2>3. Bookkeeping' /\ numAvailable' \in 0..NumBuffers
    BY <1>1, <2>1, <2>2, PinBufferKeeps DEF PinExisting
  <2>4. TypeOK'
    BY <1>0, <1>1, <2>1, <2>3 DEF TypeOK, PinExisting, pinBuffer, Return, tryToPin
  <2> QED BY <2>3, <2>4
<1>2. CASE PinAssign(t)
  <2>1. PICK i \in Buffers :
          /\ i \in Unpinned /\ flush({i}) /\ pinBuffer(t, i)
          /\ block' = [block EXCEPT ![i] = blk[t]]
          /\ contents' = [contents EXCEPT ![i] = disk[blk[t]]]
    BY <1>2, ChosenIsUnpinned DEF PinAssign
  <2>2. Bookkeeping' /\ numAvailable' \in 0..NumBuffers
    BY <1>2, <2>1, PinBufferKeeps DEF PinAssign
  <2>3. /\ disk' \in [Blocks -> Page]
        /\ txnNum' \in [Buffers -> Txs \cup {NoTx}]
    BY <2>1, PagesTyped DEF flush, Dirty
  <2>4. contents' \in [Buffers -> Page] /\ lastSavedLSN' \in Nat
    BY <1>0, <2>1 DEF TypeOK, flush, LogFlushed
  <2>5. TypeOK'
    BY <1>0, <1>2, <2>1, <2>2, <2>3, <2>4
       DEF TypeOK, PinAssign, pinBuffer, Return, tryToPin
  <2> QED BY <2>2, <2>5
<1>3. CASE PinFlushFails(t)
  <2>1. /\ disk' \in [Blocks -> Page]
        /\ txnNum' \in [Buffers -> Txs \cup {NoTx}]
    BY <1>3, PagesTyped DEF PinFlushFails, flushFails, Dirty
  <2>2. TypeOK'
    BY <1>3, <2>1 DEF TypeOK, PinFlushFails, Return, tryToPin, flushFails, LogFlushed
  <2>3. ListsWellFormed'
    BY <1>3 DEF Bookkeeping, ListsWellFormed, TypeOK, PinFlushFails, Return
  <2>4. Bookkeeping'
    BY <1>3, <2>3, CountsUntouched DEF PinFlushFails, Return, TypeOK
  <2> QED BY <2>2, <2>4
<1>4. CASE PinReadFails(t)
  <2>1. PICK i \in Buffers :
          i \in Unpinned /\ flush({i}) /\ block' = [block EXCEPT ![i] = blk[t]]
    BY <1>4, ChosenIsUnpinned DEF PinReadFails
  <2>2. Bookkeeping' BY <1>4, <2>1, RelabelKeeps DEF PinReadFails
  <2>3. /\ disk' \in [Blocks -> Page]
        /\ txnNum' \in [Buffers -> Txs \cup {NoTx}]
    BY <2>1, PagesTyped DEF flush, Dirty
  <2>4. TypeOK'
    BY <1>0, <1>4, <2>1, <2>3
       DEF TypeOK, PinReadFails, Return, tryToPin, flush, LogFlushed
  <2> QED BY <2>2, <2>4
<1>5. CASE PinBlock(t)
  <2>1. TypeOK' BY <1>5 DEF TypeOK, PinBlock, tryToPin
  <2>2. ListsWellFormed'
    BY <1>0, <1>5 DEF Bookkeeping, ListsWellFormed, TypeOK, PinBlock
  <2>3. PinsAreEntries' /\ OneBufferPerBlock' /\ AvailableIsUnpinned'
    BY <1>5 DEF Bookkeeping, PinsAreEntries, Users, OneBufferPerBlock,
                AvailableIsUnpinned, Unpinned, isPinned, PinBlock
  <2>4. SleeperIsBlocked'
    BY <1>5 DEF Bookkeeping, SleeperIsBlocked, TypeOK, Unpinned, isPinned, Holding, PinBlock
  <2> QED BY <2>1, <2>2, <2>3, <2>4 DEF Bookkeeping
<1> QED BY <1>1, <1>2, <1>3, <1>4, <1>5 DEF tryToPin

LEMMA NextIInv == IInv /\ [Next]_vars => IInv'
<1> SUFFICES ASSUME IInv, [Next]_vars PROVE IInv' OBVIOUS
<1> USE DEF IInv
<1>0. \A t \in Txs : pc[t] # "pinWait" => t \notin waitSet
  BY DEF Bookkeeping, SleeperIsBlocked
<1>1. ASSUME NEW t \in Txs, Pin(t) \/ PinResume(t) PROVE IInv'
  BY <1>0, <1>1, TryToPinKeeps DEF Pin, PinResume
<1>2. ASSUME NEW t \in Txs, Expire(t) \/ AfterFunc(t) PROVE IInv'
  <2>1. TypeOK' BY <1>2 DEF TypeOK, Expire, AfterFunc
  <2>2. ListsWellFormed'
    BY <1>2 DEF Bookkeeping, ListsWellFormed, Expire, AfterFunc
  <2>3. Bookkeeping' BY <1>2, <2>2, CountsUntouched DEF Expire, AfterFunc
  <2> QED BY <2>1, <2>3
<1>3. ASSUME NEW t \in Txs, BufferAbort(t) PROVE IInv'
  <2>1. TypeOK' BY <1>3 DEF TypeOK, BufferAbort, Return
  <2>2. ListsWellFormed'
    BY <1>3 DEF TypeOK, Bookkeeping, ListsWellFormed, BufferAbort, Return
  <2>3. Bookkeeping'
    BY <1>3, <2>2, CountsUntouched DEF TypeOK, BufferAbort, Return
  <2> QED BY <2>1, <2>3
<1>4. ASSUME NEW t \in Txs, NEW b \in Blocks, CallPin(t, b) PROVE IInv'
  <2>1. CASE refs[t][b] > 0
    <3>1. refs[t][b] + 1 \in Nat /\ refs[t][b] + 1 > 0 BY <2>1 DEF TypeOK
    <3>2. refs' = [refs EXCEPT ![t][b] = refs[t][b] + 1] /\ pc' = pc /\ blk' = blk
      BY <1>4, <2>1 DEF CallPin
    <3>3. refs' \in [Txs -> [Blocks -> Nat]] BY <3>1, <3>2 DEF TypeOK
    <3>4. TypeOK' BY <1>4, <3>2, <3>3 DEF TypeOK, CallPin
    <3>5. \A u \in Txs, c \in Blocks : refs'[u][c] > 0 <=> refs[u][c] > 0
      BY <2>1, <3>1, <3>2 DEF TypeOK
    <3>6. ListsWellFormed'
      <4>1. \A u \in Txs, c \in Blocks : refs[u][c] = 0 => refs'[u][c] = 0
        BY <3>3, <3>5 DEF TypeOK
      <4> QED
        BY <1>4, <3>2, <3>5, <4>1 DEF Bookkeeping, ListsWellFormed, CallPin
    <3>7. Bookkeeping' BY <1>4, <3>2, <3>5, <3>6, CountsUntouched DEF CallPin
    <3> QED BY <3>4, <3>7
  <2>2. CASE ~(refs[t][b] > 0)
    <3>1. refs[t][b] = 0 BY <2>2 DEF TypeOK
    <3>2. refs' = refs /\ pc' = [pc EXCEPT ![t] = "pin"] /\ blk' = [blk EXCEPT ![t] = b]
      BY <1>4, <2>2 DEF CallPin
    <3>3. TypeOK' BY <1>4, <3>2 DEF TypeOK, CallPin
    <3>4. ListsWellFormed'
      BY <1>4, <3>1, <3>2 DEF TypeOK, Bookkeeping, ListsWellFormed, CallPin
    <3>5. Bookkeeping'
      BY <1>0, <1>4, <3>2, <3>4, CountsUntouched DEF TypeOK, CallPin
    <3> QED BY <3>3, <3>5
  <2> QED BY <2>1, <2>2
<1>5. ASSUME NEW t \in Txs, NEW b \in Blocks, Unpin(t, b) PROVE IInv'
  <2>1. CASE refs[t][b] = 1
    <3>1. PICK i \in Buffers : mine[t][b] = i
      BY <2>1 DEF TypeOK, Bookkeeping, ListsWellFormed
    <3>2. /\ refs' = [refs EXCEPT ![t][b] = 0] /\ mine' = [mine EXCEPT ![t][b] = 0]
          /\ ManagerUnpin(mine[t][b])
      BY <1>5, <2>1 DEF TypeOK, Unpin
    <3>3. /\ Bookkeeping' /\ numAvailable' \in 0..NumBuffers
          /\ pins' \in [Buffers -> Nat]
      BY <1>5, <2>1, <3>1, <3>2, UnpinBufferKeeps DEF Unpin
    <3>4. /\ refs' \in [Txs -> [Blocks -> Nat]]
          /\ mine' \in [Txs -> [Blocks -> Buffers \cup {0}]]
      BY <3>2 DEF TypeOK
    <3>5. /\ waitSet' \subseteq Txs
          /\ UNCHANGED <<block, contents, txnNum, lsn, expired, firing, pc, blk, recLSN,
                         disk, logVars, histVars>>
      BY <1>5, <2>1 DEF TypeOK, Unpin, ManagerUnpin
    <3>6. TypeOK' BY <3>3, <3>4, <3>5 DEF TypeOK
    <3> QED BY <3>3, <3>6
  <2>2. CASE refs[t][b] # 1
    <3>1. TypeOK' BY <1>5, <2>2 DEF TypeOK, Unpin
    <3>2. \A u \in Txs, c \in Blocks : refs'[u][c] > 0 <=> refs[u][c] > 0
      BY <1>5, <2>2 DEF TypeOK, Unpin
    <3>3. ListsWellFormed'
      BY <1>5, <2>2, <3>2 DEF TypeOK, Bookkeeping, ListsWellFormed, Unpin
    <3>4. Bookkeeping' BY <1>5, <2>2, <3>2, <3>3, CountsUntouched DEF Unpin
    <3> QED BY <3>1, <3>4
  <2> QED BY <2>1, <2>2
<1>6. ASSUME NEW t \in Txs, NEW b \in Blocks, UnpinEntry(t, b) PROVE IInv'
  <2>1. PICK i \in Buffers : mine[t][b] = i
    BY <1>6 DEF TypeOK, Bookkeeping, ListsWellFormed, UnpinEntry
  <2>2. /\ Bookkeeping' /\ numAvailable' \in 0..NumBuffers
        /\ pins' \in [Buffers -> Nat]
    BY <1>6, <2>1, UnpinBufferKeeps DEF UnpinEntry
  <2>3. /\ refs' \in [Txs -> [Blocks -> Nat]]
        /\ mine' \in [Txs -> [Blocks -> Buffers \cup {0}]]
    BY <1>6 DEF TypeOK, UnpinEntry
  <2>4. /\ waitSet' \subseteq Txs
        /\ UNCHANGED <<block, contents, txnNum, lsn, expired, firing, pc, blk, recLSN,
                       disk, logVars, histVars>>
    BY <1>6 DEF TypeOK, UnpinEntry, ManagerUnpin
  <2>5. TypeOK' BY <2>2, <2>3, <2>4 DEF TypeOK
  <2> QED BY <2>2, <2>5
<1>7. ASSUME NEW t \in Txs, UnpinAllReturn(t) \/ ReleaseLocks(t) PROVE IInv'
  <2>1. TypeOK'
    <3>1. /\ pc' \in [Txs -> {"run", "pin", "pinWait", "logged", "flushed", "unpinAll"}]
          /\ owner' \in [Blocks -> Txs \cup {NoTx}] /\ lastSavedLSN' \in Nat
      BY <1>7 DEF TypeOK, UnpinAllReturn, ReleaseLocks
    <3>2. UNCHANGED <<poolVars, waitVars, blk, listVars, recLSN, disk, latestLSN>>
      BY <1>7 DEF UnpinAllReturn, ReleaseLocks
    <3>3. UNCHANGED <<block, contents, pins, txnNum, lsn, numAvailable>> BY <3>2 DEF poolVars
    <3>4. UNCHANGED <<waitSet, expired, firing, refs, mine>> BY <3>2 DEF waitVars, listVars
    <3>5. UNCHANGED <<blk, recLSN, disk, latestLSN, latest, updates>>
      BY <1>7, <3>2 DEF UnpinAllReturn, ReleaseLocks, histVars
    <3> QED BY <3>1, <3>3, <3>4, <3>5 DEF TypeOK
  <2>2. ListsWellFormed'
    BY <1>7 DEF TypeOK, Bookkeeping, ListsWellFormed, UnpinAllReturn, ReleaseLocks
  <2>3. Bookkeeping'
    BY <1>0, <1>7, <2>2, CountsUntouched DEF TypeOK, UnpinAllReturn, ReleaseLocks
  <2> QED BY <2>1, <2>3
<1>8. ASSUME NEW t \in Txs, NEW b \in Blocks, NEW logIt \in BOOLEAN,
             StartSet(t, b, logIt)
      PROVE  IInv'
  <2>1. TypeOK' BY <1>8 DEF TypeOK, StartSet
  <2>2. ListsWellFormed'
    BY <1>8 DEF TypeOK, Bookkeeping, ListsWellFormed, StartSet
  <2>3. Bookkeeping' BY <1>0, <1>8, <2>2, CountsUntouched DEF TypeOK, StartSet
  <2> QED BY <2>1, <2>3
<1>9. ASSUME NEW t \in Txs, SetPage(t) PROVE IInv'
  <2>1. mine[t][blk[t]] \in Buffers /\ blk[t] \in Blocks
    BY <1>9 DEF TypeOK, Bookkeeping, ListsWellFormed, SetPage
  <2>2. contents' \in [Buffers -> Page]
    BY <1>9, <2>1 DEF TypeOK, SetPage, Page
  <2>3. TypeOK' BY <1>9, <2>1, <2>2 DEF TypeOK, SetPage, SetModified, Return
  <2>4. ListsWellFormed'
    BY <1>9 DEF TypeOK, Bookkeeping, ListsWellFormed, SetPage, Return
  <2>5. Bookkeeping'
    BY <1>0, <1>9, <2>4, CountsUntouched DEF TypeOK, SetPage, Return
  <2> QED BY <2>3, <2>5
<1>10. ASSUME NEW t \in Txs, FlushAll(t) \/ FlushAllFails(t) PROVE IInv'
  <2>1. /\ disk' \in [Blocks -> Page]
        /\ txnNum' \in [Buffers -> Txs \cup {NoTx}]
    <3>1. PICK D \in SUBSET Buffers : WritePages(D)
      BY <1>10 DEF FlushAll, FlushAllFails, flush, flushFails, Dirty
    <3> QED BY <3>1, PagesTyped
  <2>2. TypeOK'
    BY <1>10, <2>1
       DEF TypeOK, FlushAll, FlushAllFails, flush, flushFails, LogFlushed
  <2>3. ListsWellFormed'
    BY <1>10 DEF TypeOK, Bookkeeping, ListsWellFormed, FlushAll, FlushAllFails
  <2>4. Bookkeeping'
    BY <1>0, <1>10, <2>3, CountsUntouched DEF TypeOK, FlushAll, FlushAllFails
  <2> QED BY <2>2, <2>4
<1>11. CASE UNCHANGED vars
  <2>1. TypeOK' BY <1>11 DEF vars, TypeOK
  <2>2. ListsWellFormed' BY <1>11 DEF vars, Bookkeeping, ListsWellFormed
  <2>3. Bookkeeping' BY <1>11, <2>2, CountsUntouched DEF vars
  <2> QED BY <2>1, <2>3
<1> QED
  BY <1>1, <1>2, <1>3, <1>4, <1>5, <1>6, <1>7, <1>8, <1>9, <1>10, <1>11
     DEF Next, TxStep, ClientCall

(* The inductive invariant of the counters holds in every reachable state. *)
THEOREM Invariance == Spec => []IInv
BY InitIInv, NextIInv, PTL DEF Spec

(* Type correctness of the pool, the BufferLists and the log counters. *)
THEOREM TypeCorrect == Spec => []TypeOK
<1>1. IInv => TypeOK BY DEF IInv
<1> QED BY <1>1, Invariance, PTL

(* No interleaving of pins, failed reads and evictions puts a block into    *)
(* two buffers.                                                             *)
THEOREM NoBlockTwice == Spec => []OneBufferPerBlock
<1>1. IInv => OneBufferPerBlock BY DEF IInv, Bookkeeping
<1> QED BY <1>1, Invariance, PTL

(* A buffer has a pin for each transaction that has it in its BufferList,   *)
(* and keeps that transaction's block: pinned pages are never replaced; and *)
(* numAvailable counts the unpinned buffers.                                *)
THEOREM PinsCorrect == Spec => []PinsAreCounted
<1>1. IInv => PinsAreCounted BY DEF IInv, Bookkeeping, PinsAreCounted
<1> QED BY <1>1, Invariance, PTL

(* Unpin's Broadcast at a pin count of zero loses no wake-up: whoever still *)
(* sleeps in Pin could not be given a buffer.                               *)
THEOREM NoLostWakeup == Spec => []SleeperIsBlocked
<1>1. IInv => SleeperIsBlocked BY DEF IInv, Bookkeeping
<1> QED BY <1>1, Invariance, PTL

----------------------------------------------------------------------------
(* The write-ahead rule *)

(***************************************************************************)
(* The last logged update of a page is covered by the LSN of its buffer or *)
(* is already on disk.  An update without a record must keep the LSN, and  *)
(* a buffer keeps it across its reuse, so that both parts are needed.      *)
(***************************************************************************)
LSNsOrdered ==
  /\ lastSavedLSN <= latestLSN
  /\ \A t \in Txs : recLSN[t] <= latestLSN
  /\ \A i \in Buffers :
       /\ contents[i].lsn <= latestLSN
       /\ contents[i].lsn <= lsn[i] \/ contents[i].lsn <= lastSavedLSN

LogInv == LSNsOrdered /\ WriteAhead

(* A flush of D, whose log part may cover more buffers (E) than it writes. *)
LEMMA FlushIsAhead ==
  ASSUME IInv, LogInv, NEW D \in SUBSET Buffers, NEW E, D \subseteq E,
         LogFlushed(E), WritePages(D)
  PROVE  /\ lastSavedLSN' \in Nat
         /\ lastSavedLSN <= lastSavedLSN' /\ lastSavedLSN' <= latestLSN
         /\ \A b \in Blocks : disk'[b].lsn <= lastSavedLSN'
<1> USE DEF IInv, LogInv
<1>1. /\ lastSavedLSN' \in Nat
      /\ lastSavedLSN <= lastSavedLSN' /\ lastSavedLSN' <= latestLSN
  BY DEF LogFlushed, LSNsOrdered, TypeOK
<1>2. ASSUME NEW i \in D PROVE contents[i].lsn <= lastSavedLSN'
  <2>1. contents[i].lsn \in Nat /\ lsn[i] \in Int /\ lastSavedLSN \in Nat
    BY DEF TypeOK, Page
  <2>2. CASE lsn[i] >= lastSavedLSN
    <3>1. \E j \in E : lsn[j] >= lastSavedLSN BY <2>2
    <3>2. lastSavedLSN' = latestLSN BY <3>1 DEF LogFlushed
    <3> QED BY <3>2 DEF LSNsOrdered
  <2>3. CASE ~(lsn[i] >= lastSavedLSN)
    <3>1. contents[i].lsn <= lsn[i] \/ contents[i].lsn <= lastSavedLSN
      BY DEF LSNsOrdered
    <3> QED BY <1>1, <2>1, <2>3, <3>1
  <2> QED BY <2>2, <2>3
<1>3. ASSUME NEW b \in Blocks PROVE disk'[b].lsn <= lastSavedLSN'
  <2>1. CASE \E i \in D : block[i] = b
    <3>1. PICK i \in D : disk'[b] = contents[i] BY <2>1 DEF WritePages
    <3> QED BY <1>2, <3>1
  <2>2. CASE ~\E i \in D : block[i] = b
    <3>1. disk'[b] = disk[b] /\ disk[b].lsn \in Nat
      BY <2>2 DEF WritePages, TypeOK, Page
    <3> QED BY <1>1, <3>1 DEF WriteAhead, TypeOK
  <2> QED BY <2>1, <2>2
<1> QED BY <1>1, <1>3

LEMMA InitLogInv == Init => LogInv
BY DEF Init, LogInv, LSNsOrdered, WriteAhead

LEMMA NextLogInv == IInv /\ LogInv /\ [Next]_vars => LogInv'
<1> SUFFICES ASSUME IInv, LogInv, [Next]_vars PROVE LogInv' OBVIOUS
<1> USE DEF LogInv
<1>0. /\ TypeOK
      /\ \A i \in Buffers : contents[i].lsn \in Nat
      /\ \A b \in Blocks : disk[b].lsn \in Nat
  BY DEF IInv, TypeOK, Page
<1>1. ASSUME NEW t \in Txs, PinAssign(t), blk[t] \in Blocks, recLSN' = recLSN
      PROVE  LogInv'
  <2>1. PICK i \in Buffers :
          flush({i}) /\ contents' = [contents EXCEPT ![i] = disk[blk[t]]]
    BY <1>1, ChosenIsUnpinned DEF PinAssign
  <2>2. /\ lastSavedLSN' \in Nat
        /\ lastSavedLSN <= lastSavedLSN' /\ lastSavedLSN' <= latestLSN
        /\ WriteAhead'
    BY <2>1, FlushIsAhead DEF flush, Dirty, WriteAhead
  <2>3. lsn' = lsn /\ latestLSN' = latestLSN BY <1>1 DEF PinAssign
  <2>4. ASSUME NEW j \in Buffers
        PROVE  /\ contents'[j].lsn <= latestLSN
               /\ contents'[j].lsn <= lsn[j] \/ contents'[j].lsn <= lastSavedLSN'
    <3>1. CASE j = i
      BY <1>0, <1>1, <2>1, <2>2, <3>1 DEF LSNsOrdered, WriteAhead, TypeOK
    <3>2. CASE j # i
      <4>1. contents'[j] = contents[j] BY <2>1, <3>2 DEF TypeOK
      <4> QED BY <1>0, <2>2, <4>1 DEF LSNsOrdered, TypeOK
    <3> QED BY <3>1, <3>2
  <2> QED BY <1>1, <2>2, <2>3, <2>4 DEF LSNsOrdered
<1>2. ASSUME NEW D \in SUBSET Buffers, NEW E, D \subseteq E,
             LogFlushed(E), WritePages(D),
             UNCHANGED <<contents, lsn, recLSN, latestLSN>>
      PROVE  LogInv'
  <2>1. /\ lastSavedLSN' \in Nat
        /\ lastSavedLSN <= lastSavedLSN' /\ lastSavedLSN' <= latestLSN
        /\ WriteAhead'
    BY <1>2, FlushIsAhead DEF WriteAhead
  <2> QED BY <1>0, <1>2, <2>1 DEF LSNsOrdered, TypeOK
<1>3. ASSUME NEW t \in Txs, PinFlushFails(t) \/ PinReadFails(t), recLSN' = recLSN
      PROVE  LogInv'
  <2>1. CASE PinFlushFails(t)
    BY <1>2, <1>3, <2>1, ChosenIsUnpinned DEF PinFlushFails, flushFails, Dirty
  <2>2. CASE PinReadFails(t)
    BY <1>2, <1>3, <2>2, ChosenIsUnpinned DEF PinReadFails, flush, Dirty
  <2> QED BY <1>3, <2>1, <2>2
<1>4. ASSUME NEW t \in Txs, FlushAll(t) PROVE LogInv'
  BY <1>2, <1>4 DEF FlushAll, flush, Dirty
<1>5. ASSUME NEW t \in Txs, FlushAllFails(t) PROVE LogInv'
  BY <1>2, <1>5 DEF FlushAllFails, flushFails, Dirty
<1>6. ASSUME NEW t \in Txs, NEW b \in Blocks, NEW logIt \in BOOLEAN,
             StartSet(t, b, logIt)
      PROVE  LogInv'
  <2>1. UNCHANGED <<contents, lsn, disk, lastSavedLSN>> BY <1>6 DEF StartSet
  <2>2. /\ latestLSN' \in Nat /\ latestLSN <= latestLSN'
        /\ \A u \in Txs : recLSN'[u] <= latestLSN'
    <3>1. /\ latestLSN \in Nat /\ recLSN \in [Txs -> Nat \cup {-1}]
          /\ \A u \in Txs : recLSN[u] <= latestLSN
      BY <1>0 DEF LSNsOrdered, TypeOK
    <3>2. PICK l : l = IF logIt THEN latestLSN + 1 ELSE -1 OBVIOUS
    <3>3. /\ latestLSN' = IF logIt THEN latestLSN + 1 ELSE latestLSN
          /\ recLSN' = [recLSN EXCEPT ![t] = l]
      BY <1>6, <3>2 DEF StartSet
    <3> QED BY <3>1, <3>2, <3>3
  <2> QED BY <1>0, <2>1, <2>2 DEF LSNsOrdered, WriteAhead, TypeOK
<1>7. ASSUME NEW t \in Txs, SetPage(t), mine[t][blk[t]] \in Buffers PROVE LogInv'
  <2> DEFINE i == mine[t][blk[t]]
  <2>1. UNCHANGED <<disk, latestLSN, lastSavedLSN>> BY <1>7 DEF SetPage
  <2>2. \A u \in Txs : recLSN'[u] <= latestLSN
    BY <1>0, <1>7 DEF SetPage, LSNsOrdered, TypeOK
  <2>3. ASSUME NEW j \in Buffers
        PROVE  /\ contents'[j].lsn <= latestLSN
               /\ contents'[j].lsn <= lsn'[j] \/ contents'[j].lsn <= lastSavedLSN
    <3>1. CASE j = i /\ recLSN[t] >= 0
      <4>1. contents'[j].lsn = recLSN[t] /\ lsn'[j] = recLSN[t]
        BY <1>0, <1>7, <3>1 DEF SetPage, SetModified, TypeOK
      <4>2. recLSN[t] <= latestLSN /\ recLSN[t] \in Int
        BY <1>0 DEF LSNsOrdered, TypeOK
      <4> QED BY <4>1, <4>2
    <3>2. CASE ~(j = i /\ recLSN[t] >= 0)
      <4>1. contents'[j].lsn = contents[j].lsn /\ lsn'[j] = lsn[j]
        BY <1>0, <1>7, <3>2 DEF SetPage, SetModified, TypeOK
      <4>2. /\ contents[j].lsn <= latestLSN
            /\ contents[j].lsn <= lsn[j] \/ contents[j].lsn <= lastSavedLSN
        BY DEF LSNsOrdered
      <4> QED BY <4>1, <4>2
    <3> QED BY <3>1, <3>2
  <2> QED BY <2>1, <2>2, <2>3 DEF LSNsOrdered, WriteAhead
<1>8. ASSUME NEW t \in Txs, ReleaseLocks(t) PROVE LogInv'
  <2>1. /\ UNCHANGED <<contents, lsn, disk, recLSN, latestLSN>>
        /\ lastSavedLSN' = latestLSN /\ latestLSN \in Nat
    BY <1>0, <1>8 DEF ReleaseLocks, TypeOK
  <2> QED BY <1>0, <2>1 DEF LSNsOrdered, WriteAhead, TypeOK
<1>9. ASSUME UNCHANGED <<contents, lsn, recLSN, disk, logVars>> PROVE LogInv'
  BY <1>9 DEF LSNsOrdered, WriteAhead
<1>10. ASSUME NEW t \in Txs, Pin(t) \/ PinResume(t) PROVE LogInv'
  <2>1. tryToPin(t) /\ blk[t] \in Blocks
    BY <1>10 DEF Pin, PinResume, IInv, Bookkeeping, ListsWellFormed
  <2>2. CASE PinExisting(t) \/ PinBlock(t)
    BY <1>9, <2>1, <2>2 DEF PinExisting, PinBlock, tryToPin
  <2> QED BY <1>1, <1>3, <2>1, <2>2 DEF tryToPin
<1>11. ASSUME NEW t \in Txs, SetPage(t) PROVE LogInv'
  <2>1. mine[t][blk[t]] \in Buffers
    BY <1>11 DEF SetPage, IInv, TypeOK, Bookkeeping, ListsWellFormed
  <2> QED BY <1>7, <1>11, <2>1
<1>12. ASSUME NEW t \in Txs, NEW b \in Blocks,
              CallPin(t, b) \/ Unpin(t, b) \/ UnpinEntry(t, b)
       PROVE  LogInv'
  BY <1>9, <1>12 DEF CallPin, Unpin, UnpinEntry, ManagerUnpin
<1>13. ASSUME NEW t \in Txs,
              Expire(t) \/ AfterFunc(t) \/ BufferAbort(t) \/ UnpinAllReturn(t)
       PROVE  LogInv'
  BY <1>9, <1>13 DEF Expire, AfterFunc, BufferAbort, UnpinAllReturn
<1>14. CASE UNCHANGED vars BY <1>9, <1>14 DEF vars
<1> QED
  BY <1>4, <1>5, <1>6, <1>8, <1>10, <1>11, <1>12, <1>13, <1>14
     DEF Next, TxStep, ClientCall

(* The write-ahead rule holds: no page reaches the disk before the log      *)
(* record of its last logged update, whichever calls fail.                  *)
THEOREM WriteAheadHolds == Spec => []WriteAhead
<1>1. LogInv => WriteAhead BY DEF LogInv
<1> QED BY <1>1, InitLogInv, NextLogInv, Invariance, PTL DEF Spec

----------------------------------------------------------------------------
(* Commit leaves nothing in memory, and pages are found where they are *)

(* A modified buffer has the last version of its block, and the transaction *)
(* that modified it still has the exclusive lock.                           *)
DirtyIsLatest ==
  \A i \in Buffers : txnNum[i] # NoTx =>
    /\ block[i] \in Blocks
    /\ owner[block[i]] = txnNum[i]
    /\ contents[i].ver = latest[block[i]]

InModifiedBuffer(b) == \E i \in Buffers : block[i] = b /\ txnNum[i] # NoTx

DiskOrModified == \A b \in Blocks : disk[b].ver = latest[b] \/ InModifiedBuffer(b)

(* Whoever writes a page has its lock, and whoever has flushed is clean. *)
PhasesWellFormed ==
  \A t \in Txs :
    /\ pc[t] = "logged" => owner[blk[t]] = t
    /\ pc[t] = "flushed" => \A i \in Buffers : txnNum[i] # t

DataInv == DirtyIsLatest /\ DiskOrModified /\ PhasesWellFormed

(* What the flushes of a set of buffers leave. *)
LEMMA FlushedIsOnDisk ==
  ASSUME IInv, DataInv, NEW D \in SUBSET Buffers, WritePages(Dirty(D))
  PROVE  /\ \A b \in Blocks :
              \/ disk'[b].ver = latest[b]
              \/ \E i \in Buffers : block[i] = b /\ txnNum'[i] # NoTx
         /\ \A i \in Buffers : txnNum'[i] \in {txnNum[i], NoTx}
         /\ \A i \in D : txnNum'[i] = NoTx
<1> USE DEF IInv, DataInv, Dirty
<1>1. ASSUME NEW b \in Blocks, \A i \in Buffers : block[i] = b => txnNum'[i] = NoTx
      PROVE  disk'[b].ver = latest[b]
  <2>1. CASE \E i \in Dirty(D) : block[i] = b
    <3>1. PICK i \in Dirty(D) : block[i] = b /\ disk'[b] = contents[i]
      BY <2>1 DEF WritePages
    <3> QED BY <3>1 DEF DirtyIsLatest
  <2>2. CASE ~\E i \in Dirty(D) : block[i] = b
    <3>1. disk'[b] = disk[b] BY <2>2 DEF WritePages
    <3>2. \A i \in Buffers : block[i] = b => txnNum[i] = NoTx
      BY <1>1, <2>2 DEF WritePages
    <3> QED BY <3>1, <3>2 DEF DiskOrModified, InModifiedBuffer
  <2> QED BY <2>1, <2>2
<1>2. \A i \in Buffers : txnNum'[i] \in {txnNum[i], NoTx} BY DEF WritePages
<1>3. \A i \in D : txnNum'[i] = NoTx BY DEF WritePages
<1> QED BY <1>1, <1>2, <1>3

(* Flushes that leave the pool's labels and pages, and the locks, alone. *)
LEMMA FlushKeepsData ==
  ASSUME IInv, DataInv, NEW D \in SUBSET Buffers, WritePages(Dirty(D)),
         UNCHANGED <<block, contents, histVars>>
  PROVE  DirtyIsLatest' /\ DiskOrModified'
<1>1. DirtyIsLatest' BY FlushedIsOnDisk DEF DataInv, DirtyIsLatest
<1>2. DiskOrModified' BY FlushedIsOnDisk DEF DiskOrModified, InModifiedBuffer
<1> QED BY <1>1, <1>2

(* The reuse of a buffer: flushed, relabelled, and perhaps read. *)
LEMMA ReuseKeepsData ==
  ASSUME IInv, DataInv, NEW i \in Buffers, WritePages(Dirty({i})), NEW b \in Blocks,
         block' = [block EXCEPT ![i] = b],
         \A j \in Buffers \ {i} : contents'[j] = contents[j],
         UNCHANGED histVars
  PROVE  DirtyIsLatest' /\ DiskOrModified'
<1>1. txnNum'[i] = NoTx /\ \A j \in Buffers : txnNum'[j] \in {txnNum[j], NoTx}
  BY FlushedIsOnDisk
<1>2. \A j \in Buffers \ {i} : block'[j] = block[j] BY DEF IInv, TypeOK
<1>3. DirtyIsLatest' BY <1>1, <1>2 DEF DataInv, DirtyIsLatest
<1>4. DiskOrModified'
  <2> SUFFICES ASSUME NEW c \in Blocks PROVE disk'[c].ver = latest'[c] \/ InModifiedBuffer(c)'
    BY DEF DiskOrModified
  <2>1. CASE disk'[c].ver = latest[c] BY <2>1
  <2>2. CASE \E j \in Buffers : block[j] = c /\ txnNum'[j] # NoTx
    BY <1>1, <1>2, <2>2 DEF InModifiedBuffer
  <2> QED BY <2>1, <2>2, FlushedIsOnDisk
<1> QED BY <1>3, <1>4

LEMMA InitDataInv == Init => DataInv
BY DEF Init, DataInv, DirtyIsLatest, DiskOrModified, PhasesWellFormed

LEMMA NextDataInv == IInv /\ DataInv /\ [Next]_vars => DataInv'
<1> SUFFICES ASSUME IInv, DataInv, [Next]_vars PROVE DataInv' OBVIOUS
<1> USE DEF DataInv
<1>0. TypeOK /\ OneBufferPerBlock BY DEF IInv, Bookkeeping
<1>1. ASSUME NEW t \in Txs, tryToPin(t), blk[t] \in Blocks, pc[t] \in {"pin", "pinWait"}
      PROVE  DataInv'
  <2>0. UNCHANGED <<recLSN, histVars>> BY <1>1 DEF tryToPin
  <2>1. CASE PinExisting(t) \/ PinBlock(t)
    BY <1>0, <1>1, <2>0, <2>1
       DEF PinExisting, PinBlock, pinBuffer, Return, TypeOK, DirtyIsLatest,
           DiskOrModified, InModifiedBuffer, PhasesWellFormed
  <2>2. CASE PinAssign(t)
    <3>1. PICK i \in Buffers :
            /\ flush({i}) /\ pinBuffer(t, i)
            /\ block' = [block EXCEPT ![i] = blk[t]]
            /\ contents' = [contents EXCEPT ![i] = disk[blk[t]]]
      BY <2>2, ChosenIsUnpinned DEF PinAssign
    <3>2. \A j \in Buffers \ {i} : contents'[j] = contents[j]
      BY <1>0, <3>1 DEF TypeOK
    <3>3. DirtyIsLatest' /\ DiskOrModified'
      BY <1>1, <2>0, <3>1, <3>2, ReuseKeepsData DEF flush
    <3>4. \A j \in Buffers : txnNum'[j] \in {txnNum[j], NoTx}
      BY <3>1, FlushedIsOnDisk DEF flush
    <3>5. PhasesWellFormed'
      BY <1>0, <2>0, <3>1, <3>4 DEF PhasesWellFormed, pinBuffer, Return, TypeOK
    <3> QED BY <3>3, <3>5
  <2>3. CASE PinFlushFails(t)
    <3>1. WritePages(Dirty({})) /\ UNCHANGED <<block, contents>> /\ Return(t)
      BY <2>3 DEF PinFlushFails, flushFails
    <3>2. DirtyIsLatest' /\ DiskOrModified' BY <2>0, <3>1, FlushKeepsData
    <3>3. \A j \in Buffers : txnNum'[j] \in {txnNum[j], NoTx}
      BY <3>1, FlushedIsOnDisk
    <3>4. PhasesWellFormed'
      BY <1>0, <2>0, <3>1, <3>3 DEF PhasesWellFormed, Return, TypeOK
    <3> QED BY <3>2, <3>4
  <2>4. CASE PinReadFails(t)
    <3>1. PICK i \in Buffers :
            flush({i}) /\ block' = [block EXCEPT ![i] = blk[t]]
      BY <2>4, ChosenIsUnpinned DEF PinReadFails
    <3>2. Return(t) /\ contents' = contents BY <2>4 DEF PinReadFails
    <3>3. DirtyIsLatest' /\ DiskOrModified'
      BY <1>1, <2>0, <3>1, <3>2, ReuseKeepsData DEF flush
    <3>4. \A j \in Buffers : txnNum'[j] \in {txnNum[j], NoTx}
      BY <3>1, FlushedIsOnDisk DEF flush
    <3>5. PhasesWellFormed'
      BY <1>0, <2>0, <3>2, <3>4 DEF PhasesWellFormed, Return, TypeOK
    <3> QED BY <3>3, <3>5
  <2> QED BY <1>1, <2>1, <2>2, <2>3, <2>4 DEF tryToPin
<1>2. ASSUME NEW t \in Txs, Pin(t) \/ PinResume(t) PROVE DataInv'
  <2>1. tryToPin(t) /\ blk[t] \in Blocks /\ pc[t] \in {"pin", "pinWait"}
    BY <1>2 DEF Pin, PinResume, IInv, Bookkeeping, ListsWellFormed
  <2> QED BY <1>1, <2>1
<1>3. ASSUME NEW t \in Txs, FlushAll(t) PROVE DataInv'
  <2> DEFINE D == {i \in Buffers : txnNum[i] = t}
  <2>1. WritePages(Dirty(D)) /\ UNCHANGED <<block, contents, histVars, blk>>
        /\ pc' = [pc EXCEPT ![t] = "flushed"]
    BY <1>3 DEF FlushAll, flush
  <2>2. DirtyIsLatest' /\ DiskOrModified' BY <2>1, FlushKeepsData
  <2>3. \A j \in Buffers : txnNum'[j] \in {txnNum[j], NoTx} /\ txnNum'[j] # t
    BY <2>1, FlushedIsOnDisk
  <2>4. PhasesWellFormed' BY <1>0, <2>1, <2>3 DEF PhasesWellFormed, TypeOK
  <2> QED BY <2>2, <2>4
<1>4. ASSUME NEW t \in Txs, FlushAllFails(t) PROVE DataInv'
  <2>1. PICK D \in SUBSET Buffers :
          WritePages(Dirty(D)) /\ UNCHANGED <<block, contents, histVars, blk, pc>>
    <3>1. PICK k \in Buffers : flushFails({i \in Buffers : txnNum[i] = t /\ i < k}, k)
      BY <1>4 DEF FlushAllFails
    <3> QED BY <1>4, <3>1 DEF FlushAllFails, flushFails
  <2>2. DirtyIsLatest' /\ DiskOrModified' BY <2>1, FlushKeepsData
  <2>3. \A j \in Buffers : txnNum'[j] \in {txnNum[j], NoTx} BY <2>1, FlushedIsOnDisk
  <2>4. PhasesWellFormed' BY <1>0, <2>1, <2>3 DEF PhasesWellFormed, TypeOK
  <2> QED BY <2>2, <2>4
<1>5. ASSUME NEW t \in Txs, NEW b \in Blocks, NEW logIt \in BOOLEAN,
             StartSet(t, b, logIt)
      PROVE  DataInv'
  <2>1. /\ UNCHANGED <<block, contents, txnNum, disk, latest>>
        /\ owner[b] \in {NoTx, t} /\ owner' = [owner EXCEPT ![b] = t]
        /\ pc' = [pc EXCEPT ![t] = "logged"] /\ blk' = [blk EXCEPT ![t] = b]
    BY <1>5 DEF StartSet
  <2>2. DirtyIsLatest' BY <1>0, <2>1 DEF DirtyIsLatest, TypeOK
  <2>3. DiskOrModified' BY <2>1 DEF DiskOrModified, InModifiedBuffer
  <2>4. PhasesWellFormed'
    <3>1. ASSUME NEW u \in Txs, u # t, pc[u] = "logged" PROVE owner'[blk[u]] = u
      <4>1. blk[u] \in Blocks /\ owner[blk[u]] = u
        BY <3>1 DEF IInv, Bookkeeping, ListsWellFormed, PhasesWellFormed
      <4> QED BY <1>0, <2>1, <3>1, <4>1 DEF TypeOK
    <3> QED BY <1>0, <2>1, <3>1 DEF PhasesWellFormed, TypeOK
  <2> QED BY <2>2, <2>3, <2>4
<1>6. ASSUME NEW t \in Txs, SetPage(t) PROVE DataInv'
  <2>1. PICK i \in Buffers : i = mine[t][blk[t]]
    BY <1>6 DEF SetPage, IInv, TypeOK, Bookkeeping, ListsWellFormed
  <2>2. PICK b \in Blocks : b = blk[t] /\ block[i] = b /\ owner[b] = t
    BY <1>6, <2>1 DEF SetPage, IInv, Bookkeeping, ListsWellFormed, PinsAreEntries,
                      PhasesWellFormed
  <2>3. /\ UNCHANGED <<block, disk, owner>>
        /\ txnNum' = [txnNum EXCEPT ![i] = t]
        /\ latest' = [latest EXCEPT ![b] = updates + 1]
        /\ contents'[i].ver = updates + 1
        /\ \A j \in Buffers \ {i} : contents'[j] = contents[j]
        /\ pc' = [pc EXCEPT ![t] = "run"] /\ blk' = [blk EXCEPT ![t] = NoBlock]
    BY <1>0, <1>6, <2>1, <2>2 DEF SetPage, SetModified, Return, TypeOK
  <2>4. \A j \in Buffers \ {i} : block[j] # b
    BY <1>0, <2>2 DEF OneBufferPerBlock
  <2>5. DirtyIsLatest' BY <1>0, <2>2, <2>3, <2>4 DEF DirtyIsLatest, TypeOK
  <2>6. DiskOrModified'
    BY <1>0, <2>2, <2>3 DEF DiskOrModified, InModifiedBuffer, TypeOK
  <2>7. PhasesWellFormed'
    BY <1>0, <1>6, <2>3 DEF PhasesWellFormed, TypeOK, SetPage
  <2> QED BY <2>5, <2>6, <2>7
<1>7. ASSUME NEW t \in Txs, ReleaseLocks(t) PROVE DataInv'
  <2>1. /\ UNCHANGED <<block, contents, txnNum, disk, latest, blk>>
        /\ owner' = [b \in Blocks |-> IF owner[b] = t THEN NoTx ELSE owner[b]]
        /\ pc' = [pc EXCEPT ![t] = "unpinAll"]
        /\ \A i \in Buffers : txnNum[i] # t
    BY <1>7 DEF ReleaseLocks, PhasesWellFormed
  <2>2. DirtyIsLatest' BY <2>1 DEF DirtyIsLatest
  <2>3. DiskOrModified' BY <2>1 DEF DiskOrModified, InModifiedBuffer
  <2>4. PhasesWellFormed'
    BY <1>0, <2>1 DEF PhasesWellFormed, TypeOK, IInv, Bookkeeping, ListsWellFormed
  <2> QED BY <2>2, <2>3, <2>4
<1>8. ASSUME UNCHANGED <<block, contents, txnNum, disk, histVars>>,
             \A t \in Txs : pc'[t] \in {"logged", "flushed"} => pc'[t] = pc[t] /\ blk'[t] = blk[t]
      PROVE  DataInv'
  BY <1>8 DEF DirtyIsLatest, DiskOrModified, InModifiedBuffer, PhasesWellFormed
<1>9. ASSUME NEW t \in Txs, NEW b \in Blocks,
             CallPin(t, b) \/ Unpin(t, b) \/ UnpinEntry(t, b)
      PROVE  DataInv'
  BY <1>0, <1>8, <1>9 DEF CallPin, Unpin, UnpinEntry, ManagerUnpin, TypeOK
<1>10. ASSUME NEW t \in Txs,
              Expire(t) \/ AfterFunc(t) \/ BufferAbort(t) \/ UnpinAllReturn(t)
       PROVE  DataInv'
  BY <1>0, <1>8, <1>10
     DEF Expire, AfterFunc, BufferAbort, UnpinAllReturn, Return, TypeOK
<1>11. CASE UNCHANGED vars BY <1>8, <1>11 DEF vars
<1> QED
  BY <1>2, <1>3, <1>4, <1>5, <1>6, <1>7, <1>9, <1>10, <1>11
     DEF Next, TxStep, ClientCall

(* When the exclusive lock of a block is released, its last version is on   *)
(* disk, although other transactions evict and flush in between.            *)
THEOREM CommittedIsOnDisk == Spec => []UnlockedIsOnDisk
<1>1. TypeOK /\ DataInv => UnlockedIsOnDisk
  BY DEF DataInv, DirtyIsLatest, DiskOrModified, InModifiedBuffer, UnlockedIsOnDisk, TypeOK
<1> QED BY <1>1, InitDataInv, NextDataInv, Invariance, TypeCorrect, PTL DEF Spec

(* Every buffer has the last version of its block: what a failed read of    *)
(* assignToBlock breaks, and nothing else does.                             *)
BufferedIsLatest ==
  \A i \in Buffers : block[i] \in Blocks => contents[i].ver = latest[block[i]]

LEMMA NextBufferedIsLatest ==
  ASSUME "read" \notin Faults
  PROVE  IInv /\ DataInv /\ BufferedIsLatest /\ [Next]_vars => BufferedIsLatest'
<1> SUFFICES ASSUME IInv, DataInv, BufferedIsLatest, [Next]_vars PROVE BufferedIsLatest'
  OBVIOUS
<1>0. TypeOK /\ OneBufferPerBlock BY DEF IInv, Bookkeeping
<1>1. ASSUME UNCHANGED <<block, contents, latest>> PROVE BufferedIsLatest'
  BY <1>1 DEF BufferedIsLatest
<1>2. ASSUME NEW t \in Txs, Pin(t) \/ PinResume(t) PROVE BufferedIsLatest'
  <2>1. tryToPin(t) /\ blk[t] \in Blocks /\ latest' = latest
    BY <1>2 DEF Pin, PinResume, IInv, Bookkeeping, ListsWellFormed, tryToPin
  <2>2. CASE PinAssign(t)
    <3>1. PICK i \in Buffers :
            /\ block' = [block EXCEPT ![i] = blk[t]]
            /\ contents' = [contents EXCEPT ![i] = disk[blk[t]]]
      BY <2>2, ChosenIsUnpinned DEF PinAssign
    <3>2. disk[blk[t]].ver = latest[blk[t]]
      BY <2>1, <2>2 DEF PinAssign, Holding, DataInv, DiskOrModified, InModifiedBuffer
    <3> QED BY <1>0, <2>1, <3>1, <3>2 DEF BufferedIsLatest, TypeOK
  <2>3. CASE PinReadFails(t) BY <2>3 DEF PinReadFails
  <2>4. CASE PinExisting(t) \/ PinFlushFails(t) \/ PinBlock(t)
    BY <1>1, <2>1, <2>4 DEF PinExisting, PinFlushFails, PinBlock
  <2> QED BY <2>1, <2>2, <2>3, <2>4 DEF tryToPin
<1>3. ASSUME NEW t \in Txs, SetPage(t) PROVE BufferedIsLatest'
  <2>1. PICK i \in Buffers, b \in Blocks : i = mine[t][b] /\ b = blk[t] /\ block[i] = b
    BY <1>3 DEF SetPage, IInv, TypeOK, Bookkeeping, ListsWellFormed, PinsAreEntries
  <2>2. /\ block' = block /\ latest' = [latest EXCEPT ![b] = updates + 1]
        /\ contents'[i].ver = updates + 1
        /\ \A j \in Buffers \ {i} : contents'[j] = contents[j]
    BY <1>0, <1>3, <2>1 DEF SetPage, TypeOK
  <2>3. \A j \in Buffers \ {i} : block[j] # b BY <1>0, <2>1 DEF OneBufferPerBlock
  <2> QED BY <1>0, <2>1, <2>2, <2>3 DEF BufferedIsLatest, TypeOK
<1>4. ASSUME NEW t \in Txs, NEW b \in Blocks,
             \/ CallPin(t, b) \/ Unpin(t, b) \/ UnpinEntry(t, b)
             \/ \E logIt \in BOOLEAN : StartSet(t, b, logIt)
      PROVE  BufferedIsLatest'
  BY <1>1, <1>4 DEF CallPin, Unpin, UnpinEntry, ManagerUnpin, StartSet
<1>5. ASSUME NEW t \in Txs,
             \/ Expire(t) \/ AfterFunc(t) \/ BufferAbort(t) \/ UnpinAllReturn(t)
             \/ FlushAll(t) \/ FlushAllFails(t) \/ ReleaseLocks(t)
      PROVE  BufferedIsLatest'
  BY <1>1, <1>5 DEF Expire, AfterFunc, BufferAbort, UnpinAllReturn, FlushAll,
                    FlushAllFails, ReleaseLocks
<1>6. CASE UNCHANGED vars BY <1>1, <1>6 DEF vars
<1> QED BY <1>2, <1>3, <1>4, <1>5, <1>6 DEF Next, TxStep, ClientCall

(* If no read of the file manager fails, the last version of every block is *)
(* where a Pin looks for it.                                                *)
THEOREM LatestReachable ==
  ASSUME "read" \notin Faults PROVE Spec => []LatestIsReachable
<1>1. Init => BufferedIsLatest BY DEF Init, BufferedIsLatest
<1>2. DataInv /\ BufferedIsLatest => LatestIsReachable
  BY DEF DataInv, DiskOrModified, InModifiedBuffer, BufferedIsLatest,
         LatestIsReachable, Holding
<1>3. IInv /\ DataInv /\ BufferedIsLatest /\ [Next]_vars => BufferedIsLatest'
  BY NextBufferedIsLatest
<1> QED BY <1>1, <1>2, <1>3, InitDataInv, NextDataInv, Invariance, PTL DEF Spec

(* If no read fails, a transaction finds the last version of a block in the *)
(* buffer that it pinned, as the comment of assignToBlock promises.         *)
THEOREM PinnedLatest ==
  ASSUME "read" \notin Faults PROVE Spec => []PinnedIsLatest
<1>1. IInv /\ LatestIsReachable => PinnedIsLatest
  <2> SUFFICES ASSUME IInv, LatestIsReachable, NEW t \in Txs, NEW b \in Blocks,
                      refs[t][b] > 0
               PROVE  contents[mine[t][b]].ver = latest[b]
    BY DEF PinnedIsLatest
  <2>1. mine[t][b] \in Holding(b)
    BY DEF IInv, TypeOK, Bookkeeping, ListsWellFormed, PinsAreEntries, Holding
  <2> QED BY <2>1 DEF LatestIsReachable
<1> QED BY <1>1, LatestReachable, Invariance, PTL
=============================================================================
