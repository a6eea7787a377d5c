-------------------------- MODULE LockTableProofs --------------------------
(***************************************************************************)
(* The safety properties of LockTable, for every finite set of transactions *)
(* and every set of blocks.                                                  *)
(***************************************************************************)
EXTENDS LockTable, FiniteSetTheorems, TLAPS

(***************************************************************************)
(* The inductive invariant.  CountMatchesHolders alone is not inductive:    *)
(* XLock grants on a count of at most 1, which is right only because the    *)
(* caller's own shared lock is in that count (CallsWellFormed).             *)
(***************************************************************************)
IInv ==
  /\ TypeOK
  /\ CallsWellFormed
  /\ CountMatchesHolders
  /\ SleepingReaderIsBlocked
  /\ DeadlineIsHeard

USE TxsAssumption

----------------------------------------------------------------------------
(* The holders of a block are finitely many, so that they can be counted. *)
LEMMA HoldersFinite ==
  ASSUME NEW b \in Blocks
  PROVE  IsFiniteSet(SHolders(b)) /\ Cardinality(SHolders(b)) \in Nat
<1>1. SHolders(b) \subseteq Txs BY DEF SHolders
<1>2. IsFiniteSet(SHolders(b)) BY <1>1, FS_Subset
<1> QED BY <1>2, FS_CardinalityType

(* What SLock's `val + 1` does to the holders of the granted block. *)
LEMMA ShareCounts ==
  ASSUME TypeOK, NEW t \in Txs, NEW b \in Blocks, OnlyReaders(b),
         held[t][b] = "none", held' = [held EXCEPT ![t][b] = "s"],
         locks' = [locks EXCEPT ![b] = @ + 1]
  PROVE  OnlyReaders(b)'
<1>1. SHolders(b)' = SHolders(b) \cup {t} /\ t \notin SHolders(b)
  BY DEF SHolders, TypeOK
<1>2. Cardinality(SHolders(b)') = Cardinality(SHolders(b)) + 1
  BY <1>1, HoldersFinite, FS_AddElement
<1>3. XHolders(b)' = {} BY DEF XHolders, OnlyReaders, TypeOK
<1>4. locks'[b] = locks[b] + 1 BY DEF TypeOK
<1> QED BY <1>2, <1>3, <1>4 DEF OnlyReaders

(* A transaction that shares a block and sees a count of at most 1 is its   *)
(* only holder: what makes the test of hasOtherSLocks right.                *)
LEMMA CountOneIsAlone ==
  ASSUME TypeOK, NEW t \in Txs, NEW b \in Blocks, OneWriter(b) \/ OnlyReaders(b),
         held[t][b] = "s", ~(locks[b] > 1)
  PROVE  /\ SHolders(b) = {t}
         /\ XHolders(b) = {}
         /\ locks[b] = 1
<1>1. t \in SHolders(b) BY DEF SHolders
<1>2. OnlyReaders(b) BY <1>1 DEF OneWriter
<1>3. /\ IsFiniteSet(SHolders(b) \ {t})
      /\ Cardinality(SHolders(b) \ {t}) = Cardinality(SHolders(b)) - 1
  BY <1>1, HoldersFinite, FS_RemoveElement
<1>4. Cardinality(SHolders(b) \ {t}) \in Nat BY <1>3, FS_CardinalityType
<1>5. Cardinality(SHolders(b) \ {t}) = 0 /\ locks[b] = 1
  BY <1>2, <1>3, <1>4, HoldersFinite DEF OnlyReaders
<1>6. SHolders(b) \ {t} = {} BY <1>3, <1>5, FS_EmptySet
<1> QED BY <1>1, <1>2, <1>5, <1>6 DEF OnlyReaders

(* What Unlock does to the holders of the block it releases. *)
LEMMA UnlockCounts ==
  ASSUME TypeOK, NEW t \in Txs, NEW b \in Blocks, OneWriter(b) \/ OnlyReaders(b),
         held[t][b] # "none", held' = [held EXCEPT ![t][b] = "none"],
         locks' = [locks EXCEPT ![b] = IF locks[b] > 1 THEN @ - 1 ELSE 0]
  PROVE  OnlyReaders(b)'
<1>1. CASE held[t][b] = "x"
  <2>1. t \in XHolders(b) BY <1>1 DEF XHolders
  <2>2. OneWriter(b) BY <2>1 DEF OnlyReaders
  <2>3. XHolders(b) = {t} BY <2>1, <2>2 DEF OneWriter
  <2>4. XHolders(b)' = {} /\ SHolders(b)' = {}
    BY <2>2, <2>3 DEF OneWriter, SHolders, XHolders, TypeOK
  <2>5. locks'[b] = 0 BY <2>2 DEF OneWriter, TypeOK
  <2> QED BY <2>4, <2>5, FS_EmptySet DEF OnlyReaders
<1>2. CASE held[t][b] = "s"
  <2>1. t \in SHolders(b) BY <1>2 DEF SHolders
  <2>2. OnlyReaders(b) BY <2>1 DEF OneWriter
  <2>3. SHolders(b)' = SHolders(b) \ {t} BY <1>2 DEF SHolders, TypeOK
  <2>4. XHolders(b)' = {} BY <2>2 DEF XHolders, OnlyReaders, TypeOK
  <2>5. CASE locks[b] > 1
    <3>1. Cardinality(SHolders(b)') = Cardinality(SHolders(b)) - 1
      BY <2>1, <2>3, HoldersFinite, FS_RemoveElement
    <3>2. locks'[b] = locks[b] - 1 BY <2>5 DEF TypeOK
    <3> QED BY <2>2, <2>4, <3>1, <3>2 DEF OnlyReaders
  <2>6. CASE ~(locks[b] > 1)
    <3>1. SHolders(b) = {t} BY <1>2, <2>6, CountOneIsAlone
    <3>2. SHolders(b)' = {} BY <2>3, <3>1
    <3>3. locks'[b] = 0 BY <2>6 DEF TypeOK
    <3> QED BY <2>4, <3>2, <3>3, FS_EmptySet DEF OnlyReaders
  <2> QED BY <2>5, <2>6
<1> QED BY <1>1, <1>2 DEF TypeOK, Modes

(* A block whose count and holders a step leaves alone keeps its count. *)
LEMMA OtherBlockKept ==
  ASSUME NEW b \in Blocks, OneWriter(b) \/ OnlyReaders(b),
         locks'[b] = locks[b], \A t \in Txs : held'[t][b] = held[t][b]
  PROVE  OneWriter(b)' \/ OnlyReaders(b)'
<1>1. SHolders(b)' = SHolders(b) /\ XHolders(b)' = XHolders(b)
  BY DEF SHolders, XHolders
<1> QED BY <1>1 DEF OneWriter, OnlyReaders

----------------------------------------------------------------------------
(* Both critical sections that can grant a shared lock, and both that can   *)
(* grant an exclusive one, keep the inductive invariant.                     *)
LEMMA SLockGrantKeeps ==
  ASSUME IInv, NEW t \in Txs, pc[t] \in {"slock", "slockWait"}, t \notin waitSet,
         SLockGrant(t)
  PROVE  IInv'
<1> DEFINE c == blk[t]
<1>0. c \in Blocks /\ held[t][c] = "none" /\ locks[c] \in Int /\ ~(locks[c] < 0)
  BY DEF IInv, TypeOK, CallsWellFormed, SLockGrant, hasXLock
<1>1. TypeOK' BY DEF IInv, TypeOK, SLockGrant, Modes, Control
<1>2. CallsWellFormed'
  BY <1>0 DEF IInv, TypeOK, CallsWellFormed, SLockGrant, Waiting, Modes, Control
<1>3. CountMatchesHolders'
  <2> SUFFICES ASSUME NEW b \in Blocks PROVE OneWriter(b)' \/ OnlyReaders(b)'
    BY DEF CountMatchesHolders
  <2>1. CASE b = c
    <3>1. OnlyReaders(c) BY <1>0 DEF IInv, CountMatchesHolders, OneWriter
    <3> QED BY <1>0, <2>1, <3>1, ShareCounts DEF IInv, SLockGrant
  <2>2. CASE b # c
    <3>1. locks'[b] = locks[b] /\ \A u \in Txs : held'[u][b] = held[u][b]
      BY <1>0, <2>2 DEF IInv, TypeOK, SLockGrant
    <3> QED BY <3>1, OtherBlockKept DEF IInv, CountMatchesHolders
  <2> QED BY <2>1, <2>2
<1>4. SleepingReaderIsBlocked'
  BY <1>0 DEF IInv, TypeOK, SleepingReaderIsBlocked, SLockGrant, hasXLock
<1>5. DeadlineIsHeard' BY DEF IInv, TypeOK, DeadlineIsHeard, SLockGrant
<1> QED BY <1>1, <1>2, <1>3, <1>4, <1>5 DEF IInv

LEMMA XLockGrantKeeps ==
  ASSUME IInv, NEW t \in Txs, pc[t] \in {"xlock", "xlockWait"}, t \notin waitSet,
         XLockGrant(t)
  PROVE  IInv'
<1> DEFINE c == blk[t]
<1>0. c \in Blocks /\ held[t][c] = "s" /\ ~(locks[c] > 1)
  BY DEF IInv, TypeOK, CallsWellFormed, XLockGrant, hasOtherSLocks
<1>1. TypeOK' BY DEF IInv, TypeOK, XLockGrant, Modes, Control
<1>2. CallsWellFormed'
  BY <1>0 DEF IInv, TypeOK, CallsWellFormed, XLockGrant, Waiting, Modes, Control
<1>3. CountMatchesHolders'
  <2> SUFFICES ASSUME NEW b \in Blocks PROVE OneWriter(b)' \/ OnlyReaders(b)'
    BY DEF CountMatchesHolders
  <2>1. CASE b = c
    <3>1. SHolders(b) = {t} /\ XHolders(b) = {}
      BY <1>0, <2>1, CountOneIsAlone DEF IInv, CountMatchesHolders
    <3>2. SHolders(b)' = {} /\ XHolders(b)' = {t}
      BY <1>0, <2>1, <3>1 DEF IInv, TypeOK, XLockGrant, SHolders, XHolders
    <3>3. locks'[b] = -1 BY <1>0, <2>1 DEF IInv, TypeOK, XLockGrant
    <3> QED BY <3>2, <3>3 DEF OneWriter
  <2>2. CASE b # c
    <3>1. locks'[b] = locks[b] /\ \A u \in Txs : held'[u][b] = held[u][b]
      BY <1>0, <2>2 DEF IInv, TypeOK, XLockGrant
    <3> QED BY <3>1, OtherBlockKept DEF IInv, CountMatchesHolders
  <2> QED BY <2>1, <2>2
<1>4. SleepingReaderIsBlocked'
  BY <1>0 DEF IInv, TypeOK, SleepingReaderIsBlocked, XLockGrant, hasXLock
<1>5. DeadlineIsHeard' BY DEF IInv, TypeOK, DeadlineIsHeard, XLockGrant
<1> QED BY <1>1, <1>2, <1>3, <1>4, <1>5 DEF IInv

(* A step that leaves the table and all the Managers alone keeps the count. *)
LEMMA CountUntouched ==
  ASSUME CountMatchesHolders, UNCHANGED <<locks, held>>
  PROVE  CountMatchesHolders'
BY DEF CountMatchesHolders, OneWriter, OnlyReaders, SHolders, XHolders

LEMMA UnlockKeeps ==
  ASSUME IInv, NEW t \in Txs, NEW c \in Blocks, Unlock(t, c)
  PROVE  IInv'
<1> USE DEF unlockBlock
<1>0. /\ locks' = [locks EXCEPT ![c] = IF locks[c] > 1 THEN @ - 1 ELSE 0]
      /\ held' = [held EXCEPT ![t][c] = "none"] /\ held[t][c] # "none"
  BY DEF IInv, TypeOK, Unlock
<1>1. TypeOK' BY DEF IInv, TypeOK, Unlock, Modes
<1>2. CallsWellFormed'
  BY DEF IInv, TypeOK, CallsWellFormed, Unlock, Waiting, Modes
<1>3. CountMatchesHolders'
  <2> SUFFICES ASSUME NEW b \in Blocks PROVE OneWriter(b)' \/ OnlyReaders(b)'
    BY DEF CountMatchesHolders
  <2>1. CASE b = c BY <1>0, <2>1, UnlockCounts DEF IInv, CountMatchesHolders
  <2>2. CASE b # c
    <3>1. locks'[b] = locks[b] /\ \A u \in Txs : held'[u][b] = held[u][b]
      BY <1>0, <2>2 DEF IInv, TypeOK
    <3> QED BY <3>1, OtherBlockKept DEF IInv, CountMatchesHolders
  <2> QED BY <2>1, <2>2
<1>4. SleepingReaderIsBlocked'
  BY DEF IInv, TypeOK, SleepingReaderIsBlocked, Unlock, hasXLock
<1>5. DeadlineIsHeard' BY DEF IInv, TypeOK, DeadlineIsHeard, Unlock
<1> QED BY <1>1, <1>2, <1>3, <1>4, <1>5 DEF IInv

----------------------------------------------------------------------------
LEMMA InitIInv == Init => IInv
<1> SUFFICES ASSUME Init PROVE IInv OBVIOUS
<1>1. TypeOK BY DEF Init, TypeOK, Modes, Control
<1>2. CallsWellFormed BY DEF Init, CallsWellFormed
<1>3. CountMatchesHolders
  <2> SUFFICES ASSUME NEW b \in Blocks PROVE OnlyReaders(b)
    BY DEF CountMatchesHolders
  <2>1. SHolders(b) = {} /\ XHolders(b) = {} BY DEF Init, SHolders, XHolders
  <2> QED BY <2>1, FS_EmptySet DEF Init, OnlyReaders
<1>4. SleepingReaderIsBlocked /\ DeadlineIsHeard
  BY DEF Init, SleepingReaderIsBlocked, DeadlineIsHeard
<1> QED BY <1>1, <1>2, <1>3, <1>4 DEF IInv

LEMMA NextIInv == IInv /\ [Next]_vars => IInv'
<1> SUFFICES ASSUME IInv, [Next]_vars PROVE IInv' OBVIOUS
<1> USE DEF IInv
<1>1. ASSUME NEW t \in Txs, NEW b \in Blocks, CallSLock(t, b) PROVE IInv'
  <2>0. t \notin waitSet BY <1>1 DEF CallsWellFormed, Waiting, CallSLock
  <2>1. TypeOK' BY <1>1 DEF TypeOK, CallSLock, Control
  <2>2. CallsWellFormed'
    BY <1>1, <2>0 DEF TypeOK, CallsWellFormed, CallSLock, Waiting, Modes
  <2>3. CountMatchesHolders' BY <1>1, CountUntouched DEF CallSLock
  <2>4. SleepingReaderIsBlocked'
    BY <1>1, <2>0 DEF TypeOK, SleepingReaderIsBlocked, CallSLock, hasXLock
  <2>5. DeadlineIsHeard' BY <1>1 DEF DeadlineIsHeard, CallSLock
  <2> QED BY <2>1, <2>2, <2>3, <2>4, <2>5
<1>2. ASSUME NEW t \in Txs, NEW b \in Blocks, CallXLock(t, b) PROVE IInv'
  <2>0. t \notin waitSet BY <1>2 DEF CallsWellFormed, Waiting, CallXLock
  <2>1. TypeOK' BY <1>2 DEF TypeOK, CallXLock, Control
  <2>2. CallsWellFormed'
    BY <1>2, <2>0 DEF TypeOK, CallsWellFormed, CallXLock, Waiting, Modes
  <2>3. CountMatchesHolders' BY <1>2, CountUntouched DEF CallXLock
  <2>4. SleepingReaderIsBlocked'
    BY <1>2, <2>0 DEF TypeOK, SleepingReaderIsBlocked, CallXLock, hasXLock
  <2>5. DeadlineIsHeard' BY <1>2 DEF DeadlineIsHeard, CallXLock
  <2> QED BY <2>1, <2>2, <2>3, <2>4, <2>5
<1>3. ASSUME NEW t \in Txs, SLock(t) \/ SLockResume(t)
      PROVE  IInv'
  <2>0. pc[t] \in {"slock", "slockWait"} /\ t \notin waitSet
    BY <1>3 DEF SLock, SLockResume, CallsWellFormed, Waiting
  <2>1. CASE SLockGrant(t) BY <2>0, <2>1, SLockGrantKeeps
  <2>2. CASE SLockBlock(t)
    <3>1. TypeOK' BY <2>2 DEF TypeOK, SLockBlock, Control
    <3>2. CallsWellFormed'
      BY <2>0, <2>2 DEF TypeOK, CallsWellFormed, SLockBlock, Waiting, Control
    <3>3. CountMatchesHolders' BY <2>2, CountUntouched DEF SLockBlock
    <3>4. SleepingReaderIsBlocked'
      BY <2>2 DEF TypeOK, SleepingReaderIsBlocked, SLockBlock, hasXLock
    <3>5. ~expired[t] BY <1>3, <2>0 DEF SLock, SLockResume, CallsWellFormed, Waiting
    <3>6. DeadlineIsHeard' BY <2>2, <3>5 DEF DeadlineIsHeard, SLockBlock
    <3> QED BY <3>1, <3>2, <3>3, <3>4, <3>6
  <2> QED BY <1>3, <2>1, <2>2 DEF SLock, SLockResume
<1>4. ASSUME NEW t \in Txs, XLock(t) \/ XLockResume(t)
      PROVE  IInv'
  <2>0. pc[t] \in {"xlock", "xlockWait"} /\ t \notin waitSet
    BY <1>4 DEF XLock, XLockResume, CallsWellFormed, Waiting
  <2>1. CASE XLockGrant(t) BY <2>0, <2>1, XLockGrantKeeps
  <2>2. CASE XLockBlock(t)
    <3>1. TypeOK' BY <2>2 DEF TypeOK, XLockBlock, Control
    <3>2. CallsWellFormed'
      BY <2>0, <2>2 DEF TypeOK, CallsWellFormed, XLockBlock, Waiting
    <3>3. CountMatchesHolders' BY <2>2, CountUntouched DEF XLockBlock
    <3>4. SleepingReaderIsBlocked'
      BY <2>2 DEF TypeOK, SleepingReaderIsBlocked, XLockBlock, hasXLock
    <3>5. ~expired[t] BY <1>4, <2>0 DEF XLock, XLockResume, CallsWellFormed, Waiting
    <3>6. DeadlineIsHeard' BY <2>2, <3>5 DEF DeadlineIsHeard, XLockBlock
    <3> QED BY <3>1, <3>2, <3>3, <3>4, <3>6
  <2> QED BY <1>4, <2>1, <2>2 DEF XLock, XLockResume
<1>5. ASSUME NEW t \in Txs, Expire(t) \/ AfterFunc(t) \/ LockAbort(t)
      PROVE  IInv'
  <2>1. TypeOK' BY <1>5 DEF TypeOK, Expire, AfterFunc, LockAbort, Control
  <2>2. CallsWellFormed'
    <3>1. CASE Expire(t) BY <3>1 DEF TypeOK, CallsWellFormed, Expire, Waiting
    <3>2. CASE AfterFunc(t) BY <3>2 DEF CallsWellFormed, AfterFunc, Waiting
    <3>3. CASE LockAbort(t) BY <3>3 DEF TypeOK, CallsWellFormed, LockAbort, Waiting
    <3> QED BY <1>5, <3>1, <3>2, <3>3
  <2>3. CountMatchesHolders' BY <1>5, CountUntouched DEF Expire, AfterFunc, LockAbort
  <2>4. SleepingReaderIsBlocked' /\ DeadlineIsHeard'
    BY <1>5 DEF TypeOK, SleepingReaderIsBlocked, DeadlineIsHeard, Expire, AfterFunc,
                LockAbort, hasXLock
  <2> QED BY <2>1, <2>2, <2>3, <2>4
<1>6. ASSUME NEW t \in Txs, StartRelease(t) PROVE IInv'
  <2>0. t \notin waitSet BY <1>6 DEF CallsWellFormed, Waiting, StartRelease
  <2>1. TypeOK' BY <1>6 DEF TypeOK, StartRelease, Control
  <2>2. CallsWellFormed'
    BY <1>6, <2>0 DEF TypeOK, CallsWellFormed, StartRelease, Waiting
  <2>3. CountMatchesHolders' BY <1>6, CountUntouched DEF StartRelease
  <2>4. SleepingReaderIsBlocked' /\ DeadlineIsHeard'
    BY <1>6, <2>0 DEF TypeOK, SleepingReaderIsBlocked, DeadlineIsHeard, StartRelease, hasXLock
  <2> QED BY <2>1, <2>2, <2>3, <2>4
<1>7. ASSUME NEW t \in Txs, ReleaseReturn(t) PROVE IInv'
  <2>0. t \notin waitSet BY <1>7 DEF CallsWellFormed, Waiting, ReleaseReturn
  <2>1. TypeOK' BY <1>7 DEF TypeOK, ReleaseReturn, Control
  <2>2. CallsWellFormed'
    BY <1>7, <2>0 DEF TypeOK, CallsWellFormed, ReleaseReturn, Waiting
  <2>3. CountMatchesHolders' BY <1>7, CountUntouched DEF ReleaseReturn
  <2>4. SleepingReaderIsBlocked' /\ DeadlineIsHeard'
    BY <1>7, <2>0 DEF TypeOK, SleepingReaderIsBlocked, DeadlineIsHeard, ReleaseReturn, hasXLock
  <2> QED BY <2>1, <2>2, <2>3, <2>4
<1>8. ASSUME NEW t \in Txs, NEW b \in Blocks, Unlock(t, b) PROVE IInv'
  BY <1>8, UnlockKeeps
<1>9. CASE UNCHANGED vars
  <2>1. CountMatchesHolders' BY <1>9, CountUntouched DEF vars
  <2>2. TypeOK' /\ CallsWellFormed' /\ SleepingReaderIsBlocked' /\ DeadlineIsHeard'
    BY <1>9 DEF vars, TypeOK, CallsWellFormed, SleepingReaderIsBlocked,
                DeadlineIsHeard, Waiting, hasXLock
  <2> QED BY <2>1, <2>2
<1> QED
  BY <1>1, <1>2, <1>3, <1>4, <1>5, <1>6, <1>7, <1>8, <1>9 DEF Next, TxStep, ClientCall

(* The inductive invariant holds in every reachable state. *)
THEOREM Invariance == Spec => []IInv
BY InitIInv, NextIInv, PTL DEF Spec

(* Type correctness of the lock manager's state. *)
THEOREM TypeCorrect == Spec => []TypeOK
<1>1. IInv => TypeOK BY DEF IInv
<1> QED BY <1>1, Invariance, PTL

(* The integer of every block tells the locks that the Managers have on it, *)
(* through any interleaving of grants, upgrades, time-outs and releases.     *)
THEOREM CountCorrect == Spec => []CountMatchesHolders
<1>1. IInv => CountMatchesHolders BY DEF IInv
<1> QED BY <1>1, Invariance, PTL

(* A sleeping reader is behind an exclusive lock: no wake-up of a reader is *)
(* ever lost.                                                               *)
THEOREM NoLostReaderWakeup == Spec => []SleepingReaderIsBlocked
<1>1. IInv => SleepingReaderIsBlocked BY DEF IInv
<1> QED BY <1>1, Invariance, PTL

(* A goroutine past its deadline is awake or about to be woken. *)
THEOREM DeadlineHeard == Spec => []DeadlineIsHeard
<1>1. IInv => DeadlineIsHeard BY DEF IInv
<1> QED BY <1>1, Invariance, PTL

----------------------------------------------------------------------------
(* A grant decided on the integer is one that the lock service allows. *)
LEMMA StepRefines == IInv /\ [Next]_vars => [Service!Next]_held
<1> SUFFICES ASSUME IInv, [Next]_vars PROVE [Service!Next]_held OBVIOUS
<1>1. ASSUME NEW t \in Txs, SLock(t) \/ SLockResume(t), SLockGrant(t)
      PROVE  Service!Share(t, blk[t])
  <2>1. held[t][blk[t]] = "none" /\ blk[t] \in Blocks
    BY <1>1 DEF IInv, TypeOK, CallsWellFormed, SLock, SLockResume
  <2>2. XHolders(blk[t]) = {}
    BY <1>1, <2>1 DEF IInv, CountMatchesHolders, OneWriter, OnlyReaders, SLockGrant, hasXLock
  <2> QED BY <1>1, <2>1, <2>2 DEF Service!Share, Service!SetMode, XHolders, SLockGrant
<1>2. ASSUME NEW t \in Txs, XLock(t) \/ XLockResume(t), XLockGrant(t)
      PROVE  Service!Upgrade(t, blk[t])
  <2>1. held[t][blk[t]] = "s" /\ blk[t] \in Blocks
    BY <1>2 DEF IInv, TypeOK, CallsWellFormed, XLock, XLockResume
  <2>2. SHolders(blk[t]) = {t} /\ XHolders(blk[t]) = {}
    BY <1>2, <2>1, CountOneIsAlone
       DEF IInv, CountMatchesHolders, XLockGrant, hasOtherSLocks
  <2>3. \A u \in Txs \ {t} : held[u][blk[t]] = "none"
    BY <2>1, <2>2 DEF SHolders, XHolders, IInv, TypeOK, Modes
  <2> QED BY <1>2, <2>1, <2>3 DEF Service!Upgrade, Service!SetMode, XLockGrant
<1>3. ASSUME NEW t \in Txs, NEW b \in Blocks, Unlock(t, b)
      PROVE  Service!Release(t, b)
  BY <1>3 DEF Unlock, Service!Release, Service!SetMode
<1>4. ASSUME NEW t \in Txs, SLock(t) \/ SLockResume(t) \/ XLock(t) \/ XLockResume(t)
      PROVE  [Service!Next]_held
  <2>1. blk[t] \in Blocks BY DEF IInv, TypeOK
  <2>2. CASE SLockBlock(t) \/ XLockBlock(t) BY <2>2 DEF SLockBlock, XLockBlock
  <2> QED
    BY <1>1, <1>2, <1>4, <2>1, <2>2
       DEF SLock, SLockResume, XLock, XLockResume, Service!Next
<1>5. ASSUME NEW t \in Txs, ClientCall(t) \/ Expire(t) \/ AfterFunc(t) \/ LockAbort(t)
                            \/ ReleaseReturn(t)
      PROVE  UNCHANGED held
  BY <1>5 DEF ClientCall, CallSLock, CallXLock, StartRelease, Expire, AfterFunc,
              LockAbort, ReleaseReturn
<1> QED BY <1>3, <1>4, <1>5 DEF Next, TxStep, vars, Service!Next

(* The integer lock table implements the lock service, whose grants look at *)
(* the locks of every transaction.                                          *)
THEOREM Refinement == Spec => ImplementsLockService
<1>1. Init => Service!Init BY DEF Init, Service!Init
<1> QED BY <1>1, StepRefines, Invariance, PTL DEF Spec, ImplementsLockService, Service!Spec
=============================================================================
