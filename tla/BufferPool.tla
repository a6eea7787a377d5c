----------------------------- MODULE BufferPool -----------------------------
(***************************************************************************)
(* buffer.Manager with its Buffers and the naive replacement strategy       *)
(* (package buffer), and the BufferList through which a transaction uses    *)
(* it (tx/buffer_list.go).                                                   *)
(*                                                                         *)
(* Every transaction runs on a goroutine of its own; a critical section of  *)
(* the manager's mutex is one action.  Outside it run the page accesses of  *)
(* Transaction.Set*, in two steps: the log record, then the page.           *)
(*                                                                         *)
(* Abstracted: the contents of a page are a version number and the LSN of   *)
(* the last logged update in it; a log is the two counters latestLSN and    *)
(* lastSavedLSN of log.Manager (LSNs count update records only); the lock   *)
(* table is the owner of the exclusive lock of every block.  Blocks exist   *)
(* in their file before they are pinned.  The deadline of Pin may pass at   *)
(* any time while it waits.  BufferList.UnpinAll drops an entry with its    *)
(* Unpin, where the code replaces the private map after the last one.       *)
(***************************************************************************)
EXTENDS Integers, FiniteSets

CONSTANTS Txs, Blocks, NoTx, NoBlock,
          NumBuffers,  \* size of the pool
          Faults,      \* the calls of the file manager that may fail
          MaxUpdates,  \* no update begins after that many
          MaxRefs      \* bound on the reference count of a BufferList entry

ASSUME PoolAssumption ==
  /\ IsFiniteSet(Txs)
  /\ NoTx \notin Txs
  /\ NoBlock \notin Blocks
  /\ NumBuffers \in Nat \ {0}
  /\ Faults \subseteq {"read", "write"}
  /\ MaxUpdates \in Nat
  /\ MaxRefs \in Nat \ {0}

Buffers == 1..NumBuffers   \* indices into Manager.bufferPool
Page == [ver : Nat, lsn : Nat]

VARIABLES
  block, contents, pins, txnNum, lsn,  \* the fields of every Buffer
  numAvailable,                        \* Manager.numAvailable
  waitSet, expired, firing,            \* Pin's sleepers, deadlines, AfterFuncs
  pc, blk,       \* where the goroutine of a transaction is, and its block
  refs, mine,    \* BufferList.buffers: refCount and buffer (0: no entry)
  recLSN,        \* the LSN that Set* got from the recovery manager
  disk,          \* the blocks on disk
  latestLSN, lastSavedLSN,             \* log.Manager
  owner,         \* who has the exclusive lock of a block
  latest, updates   \* the version last written to a block; all the updates

poolVars == <<block, contents, pins, txnNum, lsn, numAvailable>>
waitVars == <<waitSet, expired, firing>>
listVars == <<refs, mine>>
logVars == <<latestLSN, lastSavedLSN>>
histVars == <<owner, latest, updates>>
vars == <<poolVars, waitVars, pc, blk, listVars, recLSN, disk, logVars, histVars>>

Init ==
  /\ block = [i \in Buffers |-> NoBlock]
  /\ contents = [i \in Buffers |-> [ver |-> 0, lsn |-> 0]]
  /\ pins = [i \in Buffers |-> 0]
  /\ txnNum = [i \in Buffers |-> NoTx]
  /\ lsn = [i \in Buffers |-> -1]
  /\ numAvailable = NumBuffers
  /\ waitSet = {}
  /\ expired = [t \in Txs |-> FALSE]
  /\ firing = [t \in Txs |-> FALSE]
  /\ pc = [t \in Txs |-> "run"]
  /\ blk = [t \in Txs |-> NoBlock]
  /\ refs = [t \in Txs |-> [b \in Blocks |-> 0]]
  /\ mine = [t \in Txs |-> [b \in Blocks |-> 0]]
  /\ recLSN = [t \in Txs |-> -1]
  /\ disk = [b \in Blocks |-> [ver |-> 0, lsn |-> 0]]
  /\ latestLSN = 0
  /\ lastSavedLSN = 0
  /\ owner = [b \in Blocks |-> NoTx]
  /\ latest = [b \in Blocks |-> 0]
  /\ updates = 0

----------------------------------------------------------------------------
(* Buffer and replacement strategy *)

isPinned(i) == pins[i] > 0

Unpinned == {i \in Buffers : ~isPinned(i)}

(* the first unpinned buffer of the pool *)
chooseUnpinnedBuffer == CHOOSE i \in Unpinned : \A j \in Unpinned : i <= j

(* Mutant: the search for a block's buffer skips the unpinned ones. *)
Holding_Pinned(b) == {i \in Buffers : block[i] = b /\ isPinned(i)}

Holding(b) == {i \in Buffers : block[i] = b}

findExistingBuffer(b) == CHOOSE i \in Holding(b) : \A j \in Holding(b) : i <= j

(***************************************************************************)
(* Buffer.flush of the buffers in D, one after the other: a dirty buffer    *)
(* has the log flushed up to its lsn, then its page written, then it is     *)
(* clean.                                                                   *)
(***************************************************************************)
(* Mutant: a buffer without an LSN is taken to be clean. *)
Dirty_WithLSN(D) == {i \in D : txnNum[i] # NoTx /\ lsn[i] >= 0}

Dirty(D) == {i \in D : txnNum[i] # NoTx}

(* log.Manager.Flush writes everything appended so far, or nothing *)
LogFlushed(D) ==
  lastSavedLSN' = IF \E i \in D : lsn[i] >= lastSavedLSN THEN latestLSN ELSE lastSavedLSN

WritePages(D) ==
  /\ disk' = [b \in Blocks |->
                IF \E i \in D : block[i] = b
                  THEN contents[CHOOSE i \in D : block[i] = b]
                  ELSE disk[b]]
  /\ txnNum' = [i \in Buffers |-> IF i \in D THEN NoTx ELSE txnNum[i]]

flush(D) == LogFlushed(Dirty(D)) /\ WritePages(Dirty(D))

(* the Write of k fails after the flushes of D: k is still dirty *)
flushFails(D, k) ==
  /\ "write" \in Faults
  /\ txnNum[k] # NoTx
  /\ LogFlushed(Dirty(D) \cup {k})
  /\ WritePages(Dirty(D))

(* Mutant: an update that was not logged resets the LSN of the buffer. *)
SetModified_Overwrites(i, t, l) ==
  /\ txnNum' = [txnNum EXCEPT ![i] = t]
  /\ lsn' = [lsn EXCEPT ![i] = l]

(***************************************************************************)
(* SetModified: an update that was not logged (lsn < 0) keeps the LSN of    *)
(* the buffer.                                                              *)
(***************************************************************************)
SetModified(i, t, l) ==
  /\ txnNum' = [txnNum EXCEPT ![i] = t]
  /\ lsn' = [lsn EXCEPT ![i] = IF l >= 0 THEN l ELSE @]

----------------------------------------------------------------------------
(* Manager.Pin, called by BufferList.Pin for a block without an entry *)

Return(t) ==
  /\ pc' = [pc EXCEPT ![t] = "run"]
  /\ blk' = [blk EXCEPT ![t] = NoBlock]
  /\ expired' = [expired EXCEPT ![t] = FALSE]

(* Mutant: every pin takes a buffer off the available ones. *)
pinBuffer_AlwaysCounts(t, i) ==
  /\ numAvailable' = numAvailable - 1
  /\ pins' = [pins EXCEPT ![i] = @ + 1]
  /\ refs' = [refs EXCEPT ![t][blk[t]] = 1]
  /\ mine' = [mine EXCEPT ![t][blk[t]] = i]
  /\ Return(t)

(* the end of tryToPin, and the new entry of the BufferList *)
pinBuffer(t, i) ==
  /\ numAvailable' = IF isPinned(i) THEN numAvailable ELSE numAvailable - 1
  /\ pins' = [pins EXCEPT ![i] = @ + 1]
  /\ refs' = [refs EXCEPT ![t][blk[t]] = 1]
  /\ mine' = [mine EXCEPT ![t][blk[t]] = i]
  /\ Return(t)

PinExisting(t) ==
  /\ Holding(blk[t]) # {}
  /\ pinBuffer(t, findExistingBuffer(blk[t]))
  /\ UNCHANGED <<block, contents, txnNum, lsn, waitSet, firing, disk, logVars>>

(* assignToBlock: flush, relabel, read, unpinned; then the pin *)
PinAssign(t) ==
  /\ Holding(blk[t]) = {}
  /\ Unpinned # {}
  /\ LET i == chooseUnpinnedBuffer IN
       /\ flush({i})
       /\ block' = [block EXCEPT ![i] = blk[t]]
       /\ contents' = [contents EXCEPT ![i] = disk[blk[t]]]
       /\ pinBuffer(t, i)
  /\ UNCHANGED <<lsn, waitSet, firing, latestLSN>>

(* the write of the old block fails, and Pin returns the error *)
PinFlushFails(t) ==
  /\ Holding(blk[t]) = {}
  /\ Unpinned # {}
  /\ flushFails({}, chooseUnpinnedBuffer)
  /\ Return(t)
  /\ UNCHANGED <<block, contents, pins, lsn, numAvailable, waitSet, firing, listVars,
                 latestLSN>>

(* the read of the new block fails, after the buffer has its label *)
PinReadFails(t) ==
  /\ Holding(blk[t]) = {}
  /\ Unpinned # {}
  /\ "read" \in Faults
  /\ LET i == chooseUnpinnedBuffer IN
       /\ flush({i})
       /\ block' = [block EXCEPT ![i] = blk[t]]
  /\ Return(t)
  /\ UNCHANGED <<contents, pins, lsn, numAvailable, waitSet, firing, listVars, latestLSN>>

PinBlock(t) ==
  /\ Holding(blk[t]) = {}
  /\ Unpinned = {}
  /\ pc' = [pc EXCEPT ![t] = "pinWait"]
  /\ waitSet' = waitSet \cup {t}
  /\ UNCHANGED <<poolVars, expired, firing, blk, listVars, disk, logVars>>

tryToPin(t) ==
  /\ \/ PinExisting(t) \/ PinAssign(t) \/ PinFlushFails(t) \/ PinReadFails(t)
     \/ PinBlock(t)
  /\ UNCHANGED <<recLSN, histVars>>

Pin(t) == pc[t] = "pin" /\ tryToPin(t)

PinResume(t) ==
  /\ pc[t] = "pinWait"
  /\ t \notin waitSet
  /\ ~expired[t]
  /\ tryToPin(t)

Expire(t) ==
  /\ pc[t] = "pinWait"
  /\ ~expired[t]
  /\ ~firing[t]   \* no AfterFunc goroutine is late by a whole maxWaitTime
  /\ expired' = [expired EXCEPT ![t] = TRUE]
  /\ firing' = [firing EXCEPT ![t] = TRUE]
  /\ UNCHANGED <<poolVars, waitSet, pc, blk, listVars, recLSN, disk, logVars, histVars>>

AfterFunc(t) ==
  /\ firing[t]
  /\ firing' = [firing EXCEPT ![t] = FALSE]
  /\ waitSet' = {}
  /\ UNCHANGED <<poolVars, expired, pc, blk, listVars, recLSN, disk, logVars, histVars>>

(* Mutant: a timed-out wait begins again with a new deadline. *)
BufferAbort_FreshDeadline(t) ==
  /\ pc[t] = "pinWait"
  /\ t \notin waitSet
  /\ expired[t]
  /\ waitSet' = waitSet \cup {t}
  /\ expired' = [expired EXCEPT ![t] = FALSE]
  /\ UNCHANGED <<poolVars, firing, pc, blk, listVars, recLSN, disk, logVars, histVars>>

BufferAbort(t) ==
  /\ pc[t] = "pinWait"
  /\ t \notin waitSet
  /\ expired[t]
  /\ Return(t)
  /\ UNCHANGED <<poolVars, waitSet, firing, listVars, recLSN, disk, logVars, histVars>>

----------------------------------------------------------------------------
(* BufferList *)

CallPin(t, b) ==
  /\ pc[t] = "run"
  /\ refs[t][b] < MaxRefs
  /\ IF refs[t][b] > 0
       THEN refs' = [refs EXCEPT ![t][b] = @ + 1] /\ UNCHANGED <<pc, blk>>
       ELSE /\ pc' = [pc EXCEPT ![t] = "pin"]
            /\ blk' = [blk EXCEPT ![t] = b]
            /\ UNCHANGED refs
  /\ UNCHANGED <<poolVars, waitVars, mine, recLSN, disk, logVars, histVars>>

(* Mutants: no Broadcast; numAvailable counts every Unpin. *)
ManagerUnpin_NoBroadcast(i) ==
  /\ pins' = [pins EXCEPT ![i] = @ - 1]
  /\ numAvailable' = IF pins[i] > 1 THEN numAvailable ELSE numAvailable + 1
  /\ UNCHANGED <<block, contents, txnNum, lsn, waitSet>>

ManagerUnpin_CountsAll(i) ==
  /\ pins' = [pins EXCEPT ![i] = @ - 1]
  /\ numAvailable' = numAvailable + 1
  /\ waitSet' = {}
  /\ UNCHANGED <<block, contents, txnNum, lsn>>

(* Manager.Unpin *)
ManagerUnpin(i) ==
  /\ pins' = [pins EXCEPT ![i] = @ - 1]
  /\ IF pins[i] > 1
       THEN UNCHANGED <<numAvailable, waitSet>>
       ELSE numAvailable' = numAvailable + 1 /\ waitSet' = {}
  /\ UNCHANGED <<block, contents, txnNum, lsn>>

Unpin(t, b) ==
  /\ pc[t] = "run"
  /\ refs[t][b] > 0
  /\ refs' = [refs EXCEPT ![t][b] = @ - 1]
  /\ IF refs[t][b] = 1
       THEN /\ ManagerUnpin(mine[t][b])
            /\ mine' = [mine EXCEPT ![t][b] = 0]
       ELSE UNCHANGED <<poolVars, waitSet, mine>>
  /\ UNCHANGED <<expired, firing, pc, blk, recLSN, disk, logVars, histVars>>

(* one turn of the loop of UnpinAll *)
UnpinEntry(t, b) ==
  /\ pc[t] = "unpinAll"
  /\ refs[t][b] > 0
  /\ ManagerUnpin(mine[t][b])
  /\ refs' = [refs EXCEPT ![t][b] = 0]
  /\ mine' = [mine EXCEPT ![t][b] = 0]
  /\ UNCHANGED <<expired, firing, pc, blk, recLSN, disk, logVars, histVars>>

UnpinAllReturn(t) ==
  /\ pc[t] = "unpinAll"
  /\ \A b \in Blocks : refs[t][b] = 0
  /\ pc' = [pc EXCEPT ![t] = "run"]
  /\ UNCHANGED <<poolVars, waitVars, blk, listVars, recLSN, disk, logVars, histVars>>

----------------------------------------------------------------------------
(* Transaction: updates of a pinned page under its exclusive lock; commit *)

(* XLock, GetBuffer and the log record; a page is formatted and an update *)
(* undone without one                                                     *)
StartSet(t, b, logIt) ==
  /\ pc[t] = "run"
  /\ refs[t][b] > 0
  /\ owner[b] \in {NoTx, t}
  /\ updates < MaxUpdates
  /\ owner' = [owner EXCEPT ![b] = t]
  /\ latestLSN' = IF logIt THEN latestLSN + 1 ELSE latestLSN
  /\ recLSN' = [recLSN EXCEPT ![t] = IF logIt THEN latestLSN + 1 ELSE -1]
  /\ pc' = [pc EXCEPT ![t] = "logged"]
  /\ blk' = [blk EXCEPT ![t] = b]
  /\ UNCHANGED <<poolVars, waitVars, listVars, disk, lastSavedLSN, latest, updates>>

(* the new value goes into the page, and the buffer is marked *)
SetPage(t) ==
  /\ pc[t] = "logged"
  /\ LET i == mine[t][blk[t]] IN
       /\ contents' = [contents EXCEPT ![i] =
            [ver |-> updates + 1, lsn |-> IF recLSN[t] >= 0 THEN recLSN[t] ELSE @.lsn]]
       /\ SetModified(i, t, recLSN[t])
  /\ updates' = updates + 1
  /\ latest' = [latest EXCEPT ![blk[t]] = updates + 1]
  /\ Return(t)
  /\ recLSN' = [recLSN EXCEPT ![t] = -1]
  /\ UNCHANGED <<block, pins, numAvailable, waitSet, firing, listVars, disk, logVars,
                 owner>>

(* Mutant: pinned buffers are left for later. *)
FlushAll_Unpinned(t) ==
  /\ pc[t] = "run"
  /\ flush({i \in Unpinned : txnNum[i] = t})
  /\ pc' = [pc EXCEPT ![t] = "flushed"]
  /\ UNCHANGED <<block, contents, pins, lsn, numAvailable, waitVars, blk, listVars,
                 recLSN, latestLSN, histVars>>

(* Commit and Rollback: Manager.FlushAll, the buffers of t in one go *)
FlushAll(t) ==
  /\ pc[t] = "run"
  /\ flush({i \in Buffers : txnNum[i] = t})
  /\ pc' = [pc EXCEPT ![t] = "flushed"]
  /\ UNCHANGED <<block, contents, pins, lsn, numAvailable, waitVars, blk, listVars,
                 recLSN, latestLSN, histVars>>

(* a Write of FlushAll fails after it flushed some; Commit returns the error *)
FlushAllFails(t) ==
  /\ pc[t] = "run"
  /\ \E k \in {i \in Buffers : txnNum[i] = t} :
       flushFails({i \in Buffers : txnNum[i] = t /\ i < k}, k)
  /\ UNCHANGED <<block, contents, pins, lsn, numAvailable, waitVars, pc, blk, listVars,
                 recLSN, latestLSN, histVars>>

(* the commit record is flushed, and the locks are released before the pins *)
ReleaseLocks(t) ==
  /\ pc[t] = "flushed"
  /\ lastSavedLSN' = latestLSN
  /\ owner' = [b \in Blocks |-> IF owner[b] = t THEN NoTx ELSE owner[b]]
  /\ pc' = [pc EXCEPT ![t] = "unpinAll"]
  /\ UNCHANGED <<poolVars, waitVars, blk, listVars, recLSN, disk, latestLSN, latest,
                 updates>>

----------------------------------------------------------------------------
TxStep(t) ==
  \/ Pin(t) \/ PinResume(t) \/ BufferAbort(t)
  \/ \E b \in Blocks : UnpinEntry(t, b)
  \/ UnpinAllReturn(t) \/ SetPage(t) \/ ReleaseLocks(t)

ClientCall(t) ==
  \/ \E b \in Blocks : CallPin(t, b) \/ Unpin(t, b)
  \/ \E b \in Blocks, logIt \in BOOLEAN : StartSet(t, b, logIt)
  \/ FlushAll(t) \/ FlushAllFails(t)

Next == \E t \in Txs : TxStep(t) \/ ClientCall(t) \/ Expire(t) \/ AfterFunc(t)

Spec == Init /\ [][Next]_vars

(***************************************************************************)
(* A goroutine inside the buffer manager keeps running, deadlines pass and  *)
(* AfterFunc goroutines get to run; clients need not call anything.         *)
(***************************************************************************)
Fairness ==
  \A t \in Txs : WF_vars(TxStep(t)) /\ WF_vars(Expire(t)) /\ WF_vars(AfterFunc(t))

FairSpec == Spec /\ Fairness

----------------------------------------------------------------------------
(* Every variable has its type. *)
TypeOK ==
  /\ block \in [Buffers -> Blocks \cup {NoBlock}]
  /\ contents \in [Buffers -> Page]
  /\ pins \in [Buffers -> Nat]
  /\ txnNum \in [Buffers -> Txs \cup {NoTx}]
  /\ lsn \in [Buffers -> Nat \cup {-1}]
  /\ numAvailable \in 0..NumBuffers
  /\ waitSet \subseteq Txs
  /\ expired \in [Txs -> BOOLEAN]
  /\ firing \in [Txs -> BOOLEAN]
  /\ pc \in [Txs -> {"run", "pin", "pinWait", "logged", "flushed", "unpinAll"}]
  /\ blk \in [Txs -> Blocks \cup {NoBlock}]
  /\ refs \in [Txs -> [Blocks -> Nat]]
  /\ mine \in [Txs -> [Blocks -> Buffers \cup {0}]]
  /\ recLSN \in [Txs -> Nat \cup {-1}]
  /\ disk \in [Blocks -> Page]
  /\ latestLSN \in Nat
  /\ lastSavedLSN \in Nat
  /\ owner \in [Blocks -> Txs \cup {NoTx}]
  /\ latest \in [Blocks -> Nat]
  /\ updates \in Nat

(***************************************************************************)
(* No block is in two buffers: an update made through one of them would be  *)
(* lost when the other one is written.                                      *)
(***************************************************************************)
OneBufferPerBlock ==
  \A i, j \in Buffers : block[i] = block[j] /\ block[i] # NoBlock => i = j

(***************************************************************************)
(* The pin count of a buffer is the number of transactions with an entry    *)
(* for its block, whose entry leads to that very buffer: a buffer is never  *)
(* replaced under a transaction that uses it, and never stays pinned for    *)
(* one that does not.                                                       *)
(***************************************************************************)
Users(i) == {t \in Txs : \E b \in Blocks : refs[t][b] > 0 /\ mine[t][b] = i}

PinsAreEntries ==
  /\ \A t \in Txs, b \in Blocks : refs[t][b] > 0 => block[mine[t][b]] = b
  /\ \A i \in Buffers : pins[i] = Cardinality(Users(i))

(***************************************************************************)
(* numAvailable, the counter that Pin and Unpin keep by hand, is the number *)
(* of unpinned buffers, through failures of the file manager too.           *)
(***************************************************************************)
AvailableIsUnpinned == numAvailable = Cardinality(Unpinned)

(* Both countings agree with what is counted. *)
PinsAreCounted == PinsAreEntries /\ AvailableIsUnpinned

(***************************************************************************)
(* A goroutine asleep in Pin could not be served: every buffer is pinned    *)
(* and none holds its block.  (Unpin broadcasts only when a pin count       *)
(* reaches zero.)                                                           *)
(***************************************************************************)
SleeperIsBlocked ==
  \A t \in waitSet : pc[t] = "pinWait" /\ Unpinned = {} /\ Holding(blk[t]) = {}

(***************************************************************************)
(* Whoever pins a block sees its last update: the buffer that holds a block *)
(* has its latest version, and a block in no buffer has it on disk.         *)
(***************************************************************************)
LatestIsReachable ==
  \A b \in Blocks :
    IF Holding(b) = {} THEN disk[b].ver = latest[b]
                       ELSE \A i \in Holding(b) : contents[i].ver = latest[b]

(***************************************************************************)
(* The same for the reader of a page, as the comment of assignToBlock has   *)
(* it ("reads the contents of the specified block into the contents of the  *)
(* buffer"): the buffer of a pinned block has the block's latest version.   *)
(***************************************************************************)
PinnedIsLatest ==
  \A t \in Txs, b \in Blocks : refs[t][b] > 0 => contents[mine[t][b]].ver = latest[b]

(***************************************************************************)
(* Commit leaves nothing behind in memory: a block whose exclusive lock is  *)
(* free is up to date on disk, whoever evicted or flushed it in between.    *)
(***************************************************************************)
UnlockedIsOnDisk == \A b \in Blocks : owner[b] = NoTx => disk[b].ver = latest[b]

(***************************************************************************)
(* The write-ahead rule: the log record of an update is on disk before the  *)
(* page is, also when an update without a record follows in the same page.  *)
(***************************************************************************)
WriteAhead == \A b \in Blocks : disk[b].lsn <= lastSavedLSN

(* Every Pin returns, with a buffer or with an error. *)
EveryPinReturns == \A t \in Txs : pc[t] \in {"pin", "pinWait"} ~> pc[t] = "run"
=============================================================================
