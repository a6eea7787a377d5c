----------------------------- MODULE LockTable -----------------------------
(***************************************************************************)
(* tx/concurrency: the global LockTable (lock_table.go) and the            *)
(* concurrency.Manager of every transaction (manager.go).                   *)
(*                                                                         *)
(* Every transaction runs on a goroutine of its own.  A critical section of *)
(* lt.mu is one action; between two of them any other goroutine may run:    *)
(* between the SLock and the XLock call of Manager.XLock, between the       *)
(* Unlock calls of Manager.Release, while a goroutine sleeps in cond.Wait   *)
(* and between its wake-up and its return from Wait.                        *)
(*                                                                         *)
(* Abstracted: the 10 s of maxWaitTime (a deadline may pass at any time     *)
(* while a call waits); a missing key of the lock map is the value 0, as    *)
(* reading it gives in Go; a transaction that has released its locks        *)
(* begins again as a new one.  Manager.Release drops an entry of m.locks    *)
(* with the Unlock of its block, where the code replaces the whole map      *)
(* after the last one: the map is private to the goroutine, and only the    *)
(* loop itself reads it in between.                                         *)
(***************************************************************************)
EXTENDS Integers, FiniteSets

CONSTANTS Txs,     \* the transactions, one goroutine each
          Blocks   \* the blocks (the end-of-file marker of a file is one)

ASSUME TxsAssumption == IsFiniteSet(Txs)

VARIABLES
  locks,    \* LockTable.locks: -1 exclusive, n >= 0 the number of shared locks
  held,     \* Manager.locks of every transaction
  pc,       \* where the transaction's goroutine is
  want,     \* the Manager method in progress: "s" SLock, "x" XLock
  blk,      \* its argument
  waitSet,  \* the goroutines on the notify list of lt.cond
  expired,  \* whether the context of the pending call is past its deadline
  firing    \* whether its AfterFunc goroutine still has to broadcast

vars == <<locks, held, pc, want, blk, waitSet, expired, firing>>

Modes == {"none", "s", "x"}

(***************************************************************************)
(* "run"        outside the lock manager                                   *)
(* "slock"      about to enter LockTable.SLock                             *)
(* "slockWait"  in its cond.Wait: asleep, or woken and waiting for lt.mu   *)
(* "xlock", "xlockWait"  the same for LockTable.XLock                      *)
(* "aborted"    a lock call returned an error; the client must roll back   *)
(* "release"    in Manager.Release                                         *)
(***************************************************************************)
Control == {"run", "slock", "slockWait", "xlock", "xlockWait", "aborted", "release"}

Waiting(t) == pc[t] \in {"slockWait", "xlockWait"}

Init ==
  /\ locks = [b \in Blocks |-> 0]
  /\ held = [t \in Txs |-> [b \in Blocks |-> "none"]]
  /\ pc = [t \in Txs |-> "run"]
  /\ want = [t \in Txs |-> "s"]
  /\ blk \in [Txs -> Blocks]
  /\ waitSet = {}
  /\ expired = [t \in Txs |-> FALSE]
  /\ firing = [t \in Txs |-> FALSE]

hasXLock(b) == locks[b] < 0

(* Mutant: an off-by-one in the count of the other locks. *)
hasOtherSLocks_TwoAllowed(b) == locks[b] > 2

hasOtherSLocks(b) == locks[b] > 1

----------------------------------------------------------------------------
(* concurrency.Manager: the calls that reach the lock table *)

CallSLock(t, b) ==
  /\ pc[t] = "run"
  /\ held[t][b] = "none"
  /\ pc' = [pc EXCEPT ![t] = "slock"]
  /\ want' = [want EXCEPT ![t] = "s"]
  /\ blk' = [blk EXCEPT ![t] = b]
  /\ UNCHANGED <<locks, held, waitSet, expired, firing>>

(* Mutant: XLock does not ask for the shared lock first. *)
CallXLock_NoSLock(t, b) ==
  /\ pc[t] = "run"
  /\ held[t][b] # "x"
  /\ pc' = [pc EXCEPT ![t] = "xlock"]
  /\ want' = [want EXCEPT ![t] = "x"]
  /\ blk' = [blk EXCEPT ![t] = b]
  /\ UNCHANGED <<locks, held, waitSet, expired, firing>>

CallXLock(t, b) ==
  /\ pc[t] = "run"
  /\ held[t][b] # "x"
  /\ pc' = [pc EXCEPT ![t] = IF held[t][b] = "none" THEN "slock" ELSE "xlock"]
  /\ want' = [want EXCEPT ![t] = "x"]
  /\ blk' = [blk EXCEPT ![t] = b]
  /\ UNCHANGED <<locks, held, waitSet, expired, firing>>

----------------------------------------------------------------------------
(* LockTable.SLock *)

SLockGrant(t) ==
  /\ ~hasXLock(blk[t])
  /\ locks' = [locks EXCEPT ![blk[t]] = @ + 1]
  /\ held' = [held EXCEPT ![t][blk[t]] = "s"]
  /\ pc' = [pc EXCEPT ![t] = IF want[t] = "x" THEN "xlock" ELSE "run"]
  /\ expired' = [expired EXCEPT ![t] = FALSE]
  /\ UNCHANGED <<want, blk, waitSet, firing>>

SLockBlock(t) ==
  /\ hasXLock(blk[t])
  /\ pc' = [pc EXCEPT ![t] = "slockWait"]
  /\ waitSet' = waitSet \cup {t}
  /\ UNCHANGED <<locks, held, want, blk, expired, firing>>

SLock(t) ==
  /\ pc[t] = "slock"
  /\ SLockGrant(t) \/ SLockBlock(t)

SLockResume(t) ==
  /\ pc[t] = "slockWait"
  /\ t \notin waitSet
  /\ ~expired[t]
  /\ SLockGrant(t) \/ SLockBlock(t)

(* LockTable.XLock *)

XLockGrant(t) ==
  /\ ~hasOtherSLocks(blk[t])
  /\ locks' = [locks EXCEPT ![blk[t]] = -1]
  /\ held' = [held EXCEPT ![t][blk[t]] = "x"]
  /\ pc' = [pc EXCEPT ![t] = "run"]
  /\ expired' = [expired EXCEPT ![t] = FALSE]
  /\ UNCHANGED <<want, blk, waitSet, firing>>

XLockBlock(t) ==
  /\ hasOtherSLocks(blk[t])
  /\ pc' = [pc EXCEPT ![t] = "xlockWait"]
  /\ waitSet' = waitSet \cup {t}
  /\ UNCHANGED <<locks, held, want, blk, expired, firing>>

XLock(t) ==
  /\ pc[t] = "xlock"
  /\ XLockGrant(t) \/ XLockBlock(t)

XLockResume(t) ==
  /\ pc[t] = "xlockWait"
  /\ t \notin waitSet
  /\ ~expired[t]
  /\ XLockGrant(t) \/ XLockBlock(t)

----------------------------------------------------------------------------
(* Deadlines: ctx.Err() is looked at only after Wait, and before the lock *)

(* Mutant: the context has no AfterFunc. *)
Expire_NoAfterFunc(t) ==
  /\ Waiting(t)
  /\ ~expired[t]
  /\ expired' = [expired EXCEPT ![t] = TRUE]
  /\ UNCHANGED <<locks, held, pc, want, blk, waitSet, firing>>

Expire(t) ==
  /\ Waiting(t)
  /\ ~expired[t]
  /\ ~firing[t]   \* no AfterFunc goroutine is late by a whole maxWaitTime
  /\ expired' = [expired EXCEPT ![t] = TRUE]
  /\ firing' = [firing EXCEPT ![t] = TRUE]
  /\ UNCHANGED <<locks, held, pc, want, blk, waitSet>>

AfterFunc(t) ==
  /\ firing[t]
  /\ firing' = [firing EXCEPT ![t] = FALSE]
  /\ waitSet' = {}
  /\ UNCHANGED <<locks, held, pc, want, blk, expired>>

(* Mutant: a timed-out wait begins again with a new deadline. *)
LockAbort_FreshDeadline(t) ==
  /\ Waiting(t)
  /\ t \notin waitSet
  /\ expired[t]
  /\ waitSet' = waitSet \cup {t}
  /\ expired' = [expired EXCEPT ![t] = FALSE]
  /\ UNCHANGED <<locks, held, pc, want, blk, firing>>

LockAbort(t) ==
  /\ Waiting(t)
  /\ t \notin waitSet
  /\ expired[t]
  /\ pc' = [pc EXCEPT ![t] = "aborted"]
  /\ expired' = [expired EXCEPT ![t] = FALSE]
  /\ UNCHANGED <<locks, held, want, blk, waitSet, firing>>

----------------------------------------------------------------------------
(* Manager.Release, called by Transaction.Commit and Rollback *)

StartRelease(t) ==
  /\ pc[t] \in {"run", "aborted"}
  /\ pc' = [pc EXCEPT ![t] = "release"]
  /\ UNCHANGED <<locks, held, want, blk, waitSet, expired, firing>>

(* Mutants: no Broadcast; the count of an exclusive lock decremented. *)
unlockBlock_NoBroadcast(b) ==
  /\ locks' = [locks EXCEPT ![b] = IF @ > 1 THEN @ - 1 ELSE 0]
  /\ UNCHANGED waitSet

unlockBlock_Decrements(b) ==
  IF locks[b] # 1
    THEN locks' = [locks EXCEPT ![b] = @ - 1] /\ UNCHANGED waitSet
    ELSE locks' = [locks EXCEPT ![b] = 0] /\ waitSet' = {}

(* LockTable.Unlock *)
unlockBlock(b) ==
  IF locks[b] > 1
    THEN locks' = [locks EXCEPT ![b] = @ - 1] /\ UNCHANGED waitSet
    ELSE locks' = [locks EXCEPT ![b] = 0] /\ waitSet' = {}

(* one turn of the loop of Release *)
Unlock(t, b) ==
  /\ pc[t] = "release"
  /\ held[t][b] # "none"
  /\ held' = [held EXCEPT ![t][b] = "none"]
  /\ unlockBlock(b)
  /\ UNCHANGED <<pc, want, blk, expired, firing>>

ReleaseReturn(t) ==
  /\ pc[t] = "release"
  /\ \A b \in Blocks : held[t][b] = "none"
  /\ pc' = [pc EXCEPT ![t] = "run"]
  /\ UNCHANGED <<locks, held, want, blk, waitSet, expired, firing>>

----------------------------------------------------------------------------
TxStep(t) ==
  \/ SLock(t) \/ SLockResume(t)
  \/ XLock(t) \/ XLockResume(t)
  \/ LockAbort(t)
  \/ \E b \in Blocks : Unlock(t, b)
  \/ ReleaseReturn(t)

ClientCall(t) ==
  \/ \E b \in Blocks : CallSLock(t, b) \/ CallXLock(t, b)
  \/ StartRelease(t)

Next == \E t \in Txs : TxStep(t) \/ ClientCall(t) \/ Expire(t) \/ AfterFunc(t)

Spec == Init /\ [][Next]_vars

(***************************************************************************)
(* A goroutine inside the lock manager keeps running (sync.Mutex starves   *)
(* nobody), a deadline passes, and an AfterFunc goroutine gets to run.      *)
(* Nothing is assumed of the clients: they may never call anything again.   *)
(***************************************************************************)
Fairness ==
  \A t \in Txs : WF_vars(TxStep(t)) /\ WF_vars(Expire(t)) /\ WF_vars(AfterFunc(t))

FairSpec == Spec /\ Fairness

----------------------------------------------------------------------------
SHolders(b) == {t \in Txs : held[t][b] = "s"}
XHolders(b) == {t \in Txs : held[t][b] = "x"}

OneWriter(b) ==
  /\ locks[b] = -1
  /\ SHolders(b) = {}
  /\ \E t \in Txs : XHolders(b) = {t}

OnlyReaders(b) ==
  /\ locks[b] = Cardinality(SHolders(b))
  /\ XHolders(b) = {}

(* Every variable has its type, and a call in progress is on a block. *)
TypeOK ==
  /\ locks \in [Blocks -> Nat \cup {-1}]
  /\ held \in [Txs -> [Blocks -> Modes]]
  /\ pc \in [Txs -> Control]
  /\ want \in [Txs -> {"s", "x"}]
  /\ blk \in [Txs -> Blocks]
  /\ waitSet \subseteq Txs
  /\ expired \in [Txs -> BOOLEAN]
  /\ firing \in [Txs -> BOOLEAN]

(***************************************************************************)
(* The one integer that LockTable.locks keeps for a block tells the locks  *)
(* that all the Managers together believe to have on it: -1 when one of     *)
(* them has it exclusively and nobody else has any lock, otherwise the      *)
(* number of shared locks.  SLock, XLock and Unlock all trust it.           *)
(***************************************************************************)
CountMatchesHolders == \A b \in Blocks : OneWriter(b) \/ OnlyReaders(b)

(***************************************************************************)
(* A reader asleep in SLock's cond.Wait is behind an exclusive lock: the   *)
(* Broadcast of Unlock never misses one, so that a reader never runs into   *)
(* its deadline while its block is free.                                    *)
(***************************************************************************)
SleepingReaderIsBlocked ==
  \A t \in waitSet : pc[t] = "slockWait" => hasXLock(blk[t])

(***************************************************************************)
(* The same for XLock, as its comment has it ("placed on a wait list until *)
(* the locks are released"): a transaction asleep in XLock's cond.Wait      *)
(* shares the block with another one.                                       *)
(***************************************************************************)
SleepingWriterIsBlocked ==
  \A t \in waitSet : pc[t] = "xlockWait" => hasOtherSLocks(blk[t])

(* Only a goroutine in cond.Wait is on the notify list or past a deadline,  *)
(* and a goroutine in XLock has the shared lock that XLock assumes: what    *)
(* makes the invariants above inductive.                                    *)
CallsWellFormed ==
  /\ \A t \in waitSet : Waiting(t)
  /\ \A t \in Txs :
       /\ expired[t] => Waiting(t)
       /\ pc[t] \in {"slock", "slockWait"} => held[t][blk[t]] = "none"
       /\ pc[t] \in {"xlock", "xlockWait"} => held[t][blk[t]] = "s"

(***************************************************************************)
(* A goroutine past its deadline does not sleep on: it is awake, or the     *)
(* AfterFunc that takes lt.mu and broadcasts is still to come.               *)
(***************************************************************************)
DeadlineIsHeard ==
  \A t \in waitSet : expired[t] => firing[t]

(***************************************************************************)
(* The integer table implements the lock service: a grant decided on the   *)
(* count alone is one that the locks of all transactions allow.             *)
(***************************************************************************)
Service == INSTANCE LockService WITH granted <- held

ImplementsLockService == Service!Spec

(***************************************************************************)
(* Every lock request returns, with the lock or with an error: the cycle    *)
(* of two transactions that both want to upgrade is broken by the deadline. *)
(* And Release comes to its end although other transactions run between its *)
(* Unlock calls: it never waits.                                            *)
(***************************************************************************)
EveryCallReturns ==
  \A t \in Txs :
    /\ pc[t] \in {"slock", "slockWait", "xlock", "xlockWait"}
         ~> pc[t] \in {"run", "aborted"}
    /\ pc[t] = "release" ~> pc[t] = "run"
=============================================================================
