------------------------------ MODULE Recovery ------------------------------
(***************************************************************************)
(* Transactions (tx/transaction.go), their RecoveryManager                  *)
(* (tx/recovery_manager.go) and log records (tx/log_record.go and the       *)
(* record types), through crashes and restarts (server/godb.go).            *)
(*                                                                         *)
(* Several transactions interleave; a crash may come between any two steps. *)
(* Below them, taken from what LockTable.tla and BufferPool.tla show: a     *)
(* block has one writer at a time, which keeps it until its Release; the    *)
(* buffers show the latest contents of a block, and a dirty buffer may be   *)
(* written at any time for another block's sake, after the log.             *)
(*                                                                         *)
(* Abstracted: a block holds one value; the position of a record in the log *)
(* is its LSN (log.Manager counts from zero again in every process, and     *)
(* compares only LSNs of its own); the blocks of the log file are not       *)
(* modelled (a full one is written before the next record, LogPageFull);    *)
(* shared locks and waiting: a transaction that cannot have a lock does not *)
(* take the step, and may roll back instead.                                *)
(***************************************************************************)
EXTENDS Integers, Sequences, FiniteSets

CONSTANTS Blocks, NoBlock, Values, NoValue, Initial,
          MaxTx,         \* transaction numbers of one process
          MaxUpdates,    \* no update begins when the log has that many
          MaxCrashes, MaxRollbacks

ASSUME RecoveryAssumption ==
  /\ NoBlock \notin Blocks /\ NoValue \notin Values
  /\ Initial \in [Blocks -> Values]
  /\ MaxTx \in Nat \ {0}
  /\ MaxUpdates \in Nat /\ MaxCrashes \in Nat /\ MaxRollbacks \in Nat

Txs == 1..MaxTx   \* nextTxNumber counts from 1 in every process
Nobody == 0

VARIABLES
  log,      \* the log records, those not yet written included
  saved,    \* how many of them are on disk
  disk,     \* the blocks on disk
  mem,      \* the blocks as the buffers show them
  dirty,    \* Buffer.txnNum of the block's buffer, or Nobody
  lsn,      \* its Buffer.lsn
  xlock,    \* the transaction with the exclusive lock
  nextTx,   \* nextTxNum
  pc,       \* where a transaction is, see Control
  kind,     \* what it finishes with: "commit", "rollback" or "checkpoint"
  blk,      \* the block of its update in progress
  pos,      \* how many records its log iterator has still to return
  done,     \* finishedTransactions of the recovery in progress
  stable,   \* the values of the last durable commits, for the properties
  crashes, rollbacks   \* how many there were, for the bounds

logVars == <<log, saved>>
dataVars == <<disk, mem, dirty, lsn>>
txVars == <<nextTx, pc, kind, blk, pos, done>>
vars == <<logVars, dataVars, xlock, txVars, stable, crashes, rollbacks>>

(***************************************************************************)
(* "none" not begun; "run" between two calls; "logged" inside Set*, the     *)
(* record appended; "recover" in doRecover; "undo" in doRollback;           *)
(* "finish" before, "flushed" after FlushAll; "appended" the last record    *)
(* is in the log; "release" it is on disk; "done"; "stuck" Rollback         *)
(* returned an error, and the locks are never released.                     *)
(***************************************************************************)
Control == {"none", "run", "logged", "recover", "undo", "finish", "flushed",
            "appended", "release", "done", "stuck"}

SetRecord(t, b, v) == [op |-> "set", tx |-> t, blk |-> b, val |-> v]
EndRecord(k, t) == [op |-> k, tx |-> t, blk |-> NoBlock, val |-> NoValue]

(* NewGoDB on a new directory: transaction 1 has committed the catalog *)
Init ==
  /\ log = <<EndRecord("commit", 1)>>
  /\ saved = 1
  /\ disk = Initial /\ mem = Initial /\ stable = Initial
  /\ dirty = [b \in Blocks |-> Nobody]
  /\ lsn = [b \in Blocks |-> -1]
  /\ xlock = [b \in Blocks |-> Nobody]
  /\ nextTx = 2
  /\ pc = [t \in Txs |-> IF t = 1 THEN "done" ELSE "none"]
  /\ kind = [t \in Txs |-> "commit"]
  /\ blk = [t \in Txs |-> NoBlock]
  /\ pos = [t \in Txs |-> 0]
  /\ done = {}
  /\ crashes = 0 /\ rollbacks = 0

----------------------------------------------------------------------------
(* Log records, as CreateLogRecord reads them back *)

(* NewRollbackRecord reads the number at offset 0, where the operation is *)
RollbackOp == 3

TxNumber(r) ==
  CASE r.op = "checkpoint" -> -1
    [] r.op = "rollback" -> RollbackOp
    [] OTHER -> r.tx

isUpdateOf(r, t) == r.op = "set" /\ TxNumber(r) = t

----------------------------------------------------------------------------
(* log.Manager.  When records reach the disk, the commits among them are    *)
(* durable: their transactions still have their locks, so the buffers show  *)
(* what they wrote.                                                         *)

Committing == {t \in Txs : pc[t] = "appended" /\ kind[t] = "commit"}

SaveLog ==
  /\ saved' = Len(log)
  /\ stable' = [b \in Blocks |-> IF xlock[b] \in Committing THEN mem[b] ELSE stable[b]]

Flush(needed) ==
  IF needed THEN SaveLog ELSE UNCHANGED <<saved, stable>>

LogPageFull ==
  /\ saved < Len(log)
  /\ SaveLog
  /\ UNCHANGED <<log, dataVars, xlock, txVars, crashes, rollbacks>>

(* Mutant: the page is written before its log records. *)
FlushBuffers_NoLog(D) ==
  /\ disk' = [b \in Blocks |-> IF b \in D THEN mem[b] ELSE disk[b]]
  /\ dirty' = [b \in Blocks |-> IF b \in D THEN Nobody ELSE dirty[b]]
  /\ UNCHANGED <<saved, stable>>

(* Buffer.flush of the buffers of D; Flush writes when lsn >= lastSavedLSN *)
FlushBuffers(D) ==
  /\ Flush(\E b \in D : lsn[b] >= saved)
  /\ disk' = [b \in Blocks |-> IF b \in D THEN mem[b] ELSE disk[b]]
  /\ dirty' = [b \in Blocks |-> IF b \in D THEN Nobody ELSE dirty[b]]

(* the buffer of b, not pinned, is taken for another block *)
Evict(b) ==
  /\ dirty[b] # Nobody
  /\ ~\E t \in Txs : pc[t] = "logged" /\ blk[t] = b
  /\ FlushBuffers({b})
  /\ UNCHANGED <<log, mem, lsn, xlock, txVars, crashes, rollbacks>>

----------------------------------------------------------------------------
(* Transaction *)

At(t, from) == pc[t] = from
Goto(t, to) == pc' = [pc EXCEPT ![t] = to]

(* Mutant: a number may be given out twice. *)
Begin_Reused(t) ==
  /\ pc[1] = "done"
  /\ nextTx' = nextTx + 1
  /\ Goto(t, "run")
  /\ UNCHANGED <<logVars, dataVars, xlock, kind, blk, pos, done, stable, crashes,
                 rollbacks>>

Begin(t) ==
  /\ t = nextTx
  /\ pc[1] = "done"
  /\ nextTx' = nextTx + 1
  /\ Goto(t, "run")
  /\ UNCHANGED <<logVars, dataVars, xlock, kind, blk, pos, done, stable, crashes,
                 rollbacks>>

(* Set*: the lock, and the log record with the old value *)
StartSet(t, b) ==
  /\ At(t, "run") /\ t # 1
  /\ Cardinality({i \in 1..Len(log) : log[i].op = "set"}) < MaxUpdates
  /\ xlock[b] \in {Nobody, t}
  /\ xlock' = [xlock EXCEPT ![b] = t]
  /\ log' = Append(log, SetRecord(t, b, mem[b]))
  /\ pos' = [pos EXCEPT ![t] = Len(log) + 1]
  /\ blk' = [blk EXCEPT ![t] = b]
  /\ Goto(t, "logged")
  /\ UNCHANGED <<saved, dataVars, nextTx, kind, done, stable, crashes, rollbacks>>

(* the page and the marks of its buffer *)
WritePage(t, b, v) ==
  /\ mem' = [mem EXCEPT ![b] = v]
  /\ dirty' = [dirty EXCEPT ![b] = t]

SetPage(t, v) ==
  /\ At(t, "logged")
  /\ WritePage(t, blk[t], v)
  /\ lsn' = [lsn EXCEPT ![blk[t]] = pos[t]]
  /\ pos' = [pos EXCEPT ![t] = 0]
  /\ blk' = [blk EXCEPT ![t] = NoBlock]
  /\ Goto(t, "run")
  /\ UNCHANGED <<logVars, disk, xlock, nextTx, kind, done, stable, crashes,
                 rollbacks>>

----------------------------------------------------------------------------
(* Commit, and what it shares with Rollback and Recover: FlushAll, the last *)
(* record, Flush, Release.                                                  *)

StartCommit(t) ==
  /\ At(t, "run")
  /\ Goto(t, "finish")
  /\ kind' = [kind EXCEPT ![t] = "commit"]
  /\ UNCHANGED <<logVars, dataVars, xlock, nextTx, blk, pos, done, stable, crashes,
                 rollbacks>>

(* Mutant: Commit leaves the pages to be written later. *)
FlushAll_Skipped(t) ==
  /\ At(t, "finish")
  /\ Goto(t, "flushed")
  /\ UNCHANGED <<logVars, dataVars, xlock, nextTx, kind, blk, pos, done, stable, crashes,
                 rollbacks>>

FlushAll(t) ==
  /\ At(t, "finish")
  /\ FlushBuffers({b \in Blocks : dirty[b] = t})
  /\ Goto(t, "flushed")
  /\ UNCHANGED <<log, mem, lsn, xlock, nextTx, kind, blk, pos, done, crashes, rollbacks>>

AppendLast(t) ==
  /\ At(t, "flushed")
  /\ log' = Append(log, EndRecord(kind[t], t))
  /\ pos' = [pos EXCEPT ![t] = Len(log) + 1]
  /\ Goto(t, "appended")
  /\ UNCHANGED <<saved, dataVars, xlock, nextTx, kind, blk, done, stable, crashes,
                 rollbacks>>

(* Mutant: the last record is not flushed. *)
FlushLast_Skipped(t) ==
  /\ At(t, "appended")
  /\ pos' = [pos EXCEPT ![t] = 0]
  /\ Goto(t, IF kind[t] = "checkpoint" THEN "run" ELSE "release")
  /\ UNCHANGED <<logVars, dataVars, xlock, nextTx, kind, blk, done, stable, crashes,
                 rollbacks>>

(* after the checkpoint, transaction 1 goes on to open the catalog *)
FlushLast(t) ==
  /\ At(t, "appended")
  /\ Flush(pos[t] >= saved)
  /\ pos' = [pos EXCEPT ![t] = 0]
  /\ Goto(t, IF kind[t] = "checkpoint" THEN "run" ELSE "release")
  /\ UNCHANGED <<log, dataVars, xlock, nextTx, kind, blk, done, crashes, rollbacks>>

Release(t) ==
  /\ At(t, "release")
  /\ xlock' = [b \in Blocks |-> IF xlock[b] = t THEN Nobody ELSE xlock[b]]
  /\ Goto(t, "done")
  /\ UNCHANGED <<logVars, dataVars, nextTx, kind, blk, pos, done, stable, crashes,
                 rollbacks>>

----------------------------------------------------------------------------
(* Rollback *)

(* doRollback takes an iterator, which flushes the log *)
StartRollback(t) ==
  /\ At(t, "run") /\ t # 1
  /\ rollbacks < MaxRollbacks
  /\ rollbacks' = rollbacks + 1
  /\ SaveLog
  /\ pos' = [pos EXCEPT ![t] = Len(log)]
  /\ kind' = [kind EXCEPT ![t] = "rollback"]
  /\ Goto(t, "undo")
  /\ UNCHANGED <<log, dataVars, xlock, nextTx, blk, done, crashes>>

(* Mutant: the iterator begins behind the last record. *)
ToUndo_OffByOne(t) == {i \in 1..(pos[t] - 1) : isUpdateOf(log[i], t)}

(* records of t that the iterator of t has still to return; there is no     *)
(* Start record that could end the loop                                     *)
ToUndo(t) == {i \in 1..pos[t] : isUpdateOf(log[i], t)}

Latest(I) == CHOOSE i \in I : \A j \in I : j <= i

(* Mutant: the old value is restored without the lock. *)
Undo_Unlocked(t, r) == WritePage(t, r.blk, r.val) /\ UNCHANGED xlock

(* Undo: pin, SetInt without logging, unpin *)
Undo(t, r) ==
  /\ WritePage(t, r.blk, r.val)
  /\ xlock' = [xlock EXCEPT ![r.blk] = t]

UndoNext(t) ==
  /\ At(t, "undo")
  /\ ToUndo(t) # {}
  /\ LET i == Latest(ToUndo(t)) IN
       /\ xlock[log[i].blk] \in {Nobody, t}
       /\ Undo(t, log[i])
       /\ pos' = [pos EXCEPT ![t] = i - 1]
  /\ UNCHANGED <<logVars, disk, lsn, nextTx, pc, kind, blk, done, stable, crashes,
                 rollbacks>>

(* the lock of a block to restore is another transaction's until the        *)
(* deadline: Rollback returns the error                                     *)
UndoFails(t) ==
  /\ At(t, "undo")
  /\ ToUndo(t) # {}
  /\ xlock[log[Latest(ToUndo(t))].blk] \notin {Nobody, t}
  /\ Goto(t, "stuck")
  /\ UNCHANGED <<logVars, dataVars, xlock, nextTx, kind, blk, pos, done, stable, crashes,
                 rollbacks>>

UndoDone(t) ==
  /\ At(t, "undo")
  /\ ToUndo(t) = {}
  /\ pos' = [pos EXCEPT ![t] = 0]
  /\ Goto(t, "finish")
  /\ UNCHANGED <<logVars, dataVars, xlock, nextTx, kind, blk, done, stable, crashes,
                 rollbacks>>

----------------------------------------------------------------------------
(* Crash, restart and recovery *)

(* what was not written is gone; NewGoDB begins transaction 1 and Recover *)
Crash ==
  /\ crashes < MaxCrashes
  /\ crashes' = crashes + 1
  /\ log' = SubSeq(log, 1, saved)
  /\ mem' = disk
  /\ dirty' = [b \in Blocks |-> Nobody]
  /\ lsn' = [b \in Blocks |-> -1]
  /\ xlock' = [b \in Blocks |-> Nobody]
  /\ nextTx' = 2
  /\ pc' = [t \in Txs |-> IF t = 1 THEN "recover" ELSE "none"]
  /\ kind' = [t \in Txs |-> IF t = 1 THEN "checkpoint" ELSE "commit"]
  /\ blk' = [t \in Txs |-> NoBlock]
  /\ pos' = [t \in Txs |-> IF t = 1 THEN saved ELSE 0]
  /\ done' = {}
  /\ UNCHANGED <<saved, disk, stable, rollbacks>>

(* what doRecover does with a record, when the transactions in fin have     *)
(* already been found finished                                              *)
Finishes(r) == r.op \in {"commit", "rollback"}

MustUndo(r, fin) == r.op = "set" /\ TxNumber(r) \notin fin

(* Mutant: the iterator does not move on. *)
RecoverNext_Stays ==
  /\ At(1, "recover")
  /\ pos[1] > 0
  /\ LET r == log[pos[1]] IN
       /\ r.op # "checkpoint"
       /\ done' = IF Finishes(r) THEN done \cup {TxNumber(r)} ELSE done
       /\ IF MustUndo(r, done) THEN Undo(1, r) ELSE UNCHANGED <<mem, dirty, xlock>>
  /\ UNCHANGED <<logVars, disk, lsn, nextTx, pc, kind, blk, pos, stable, crashes,
                 rollbacks>>

RecoverNext ==
  /\ At(1, "recover")
  /\ pos[1] > 0
  /\ LET r == log[pos[1]] IN
       /\ r.op # "checkpoint"
       /\ done' = IF Finishes(r) THEN done \cup {TxNumber(r)} ELSE done
       /\ IF MustUndo(r, done) THEN Undo(1, r) ELSE UNCHANGED <<mem, dirty, xlock>>
  /\ pos' = [pos EXCEPT ![1] = @ - 1]
  /\ UNCHANGED <<logVars, disk, lsn, nextTx, pc, kind, blk, stable, crashes, rollbacks>>

RecoverDone ==
  /\ At(1, "recover")
  /\ pos[1] > 0 => log[pos[1]].op = "checkpoint"
  /\ pos' = [pos EXCEPT ![1] = 0]
  /\ done' = {}
  /\ Goto(1, "finish")
  /\ UNCHANGED <<logVars, dataVars, xlock, nextTx, kind, blk, stable, crashes, rollbacks>>

----------------------------------------------------------------------------
TxStep(t) ==
  \/ \E v \in Values : SetPage(t, v)
  \/ FlushAll(t) \/ AppendLast(t) \/ FlushLast(t) \/ Release(t)
  \/ UndoNext(t) \/ UndoFails(t) \/ UndoDone(t)

ClientCall(t) ==
  \/ Begin(t) \/ (\E b \in Blocks : StartSet(t, b)) \/ StartCommit(t) \/ StartRollback(t)

Next ==
  \/ \E t \in Txs : TxStep(t) \/ ClientCall(t)
  \/ RecoverNext \/ RecoverDone
  \/ \E b \in Blocks : Evict(b)
  \/ LogPageFull
  \/ Crash

Spec == Init /\ [][Next]_vars

(* The goroutine that restarts the database runs, until a crash, and it     *)
(* commits its transaction after the recovery.                              *)
Fairness ==
  WF_vars(RecoverNext \/ RecoverDone \/ TxStep(1) \/ StartCommit(1))

FairSpec == Spec /\ Fairness

----------------------------------------------------------------------------
(* Every variable has its type. *)
TypeOK ==
  /\ \A i \in 1..Len(log) :
       /\ log[i].op \in {"set", "commit", "rollback", "checkpoint"}
       /\ log[i].tx \in Txs /\ log[i].blk \in Blocks \cup {NoBlock}
  /\ saved \in 0..Len(log)
  /\ disk \in [Blocks -> Values] /\ mem \in [Blocks -> Values]
  /\ stable \in [Blocks -> Values]
  /\ dirty \in [Blocks -> Txs \cup {Nobody}] /\ xlock \in [Blocks -> Txs \cup {Nobody}]
  /\ lsn \in [Blocks -> Nat \cup {-1}]
  /\ nextTx \in 2..(MaxTx + 1)
  /\ pc \in [Txs -> Control]
  /\ kind \in [Txs -> {"commit", "rollback", "checkpoint"}]
  /\ blk \in [Txs -> Blocks \cup {NoBlock}]
  /\ pos \in [Txs -> Nat]
  /\ done \subseteq Txs \cup {RollbackOp}

(***************************************************************************)
(* A block that nobody has locked shows the values of the last durable      *)
(* commit, in the buffers and on disk: what the next transaction will read  *)
(* and log as the old value is never what an unfinished, rolled-back or     *)
(* crashed transaction wrote.                                               *)
(***************************************************************************)
UnlockedIsCommitted ==
  \A b \in Blocks :
    pc[1] = "done" /\ xlock[b] = Nobody => mem[b] = stable[b] /\ disk[b] = stable[b]

(***************************************************************************)
(* Once Recover writes its checkpoint, which no later recovery looks        *)
(* behind, every block on disk has its last committed value.                *)
(***************************************************************************)
CheckpointIsCommitted ==
  pc[1] \in {"flushed", "appended"} /\ kind[1] = "checkpoint" => disk = stable

(* The disk is right wherever nobody will repair it any more. *)
DiskIsCommitted == UnlockedIsCommitted /\ CheckpointIsCommitted

(***************************************************************************)
(* A page on disk with a value that is not the committed one can be undone: *)
(* its update record is durable, and a recovery will come to it.            *)
(***************************************************************************)
CheckpointsIn(I) == {i \in I : log[i].op = "checkpoint"}

UncommittedIsLogged ==
  \A b \in Blocks : disk[b] # stable[b] =>
    \E i \in 1..saved :
      /\ log[i].op = "set" /\ log[i].blk = b
      /\ CheckpointsIn((i + 1)..saved) = {}

(***************************************************************************)
(* The transaction that a dirty buffer is marked with still has the lock of *)
(* the block, also when its rollback has failed: so the FlushAll of a       *)
(* transaction finds all of its pages, and none is marked by another one.   *)
(***************************************************************************)
DirtyIsLocked == \A b \in Blocks : dirty[b] # Nobody => xlock[b] = dirty[b]

(***************************************************************************)
(* A rollback changes nothing but the pages its transaction has updated,    *)
(* those it has locked: "We have successfully undone all the changes        *)
(* related to this transaction".                                            *)
(***************************************************************************)
UndoIsOwn(t) ==
  \A b \in Blocks :
    pc[t] = "undo" /\ pc'[t] = "undo" /\ pos'[t] < pos[t] /\ mem'[b] # mem[b]
      => xlock[b] = t

RollbackIsOwn == [][\A t \in Txs : UndoIsOwn(t)]_vars

(***************************************************************************)
(* Before the first crash, while all transaction numbers are new, a rollback *)
(* undoes all of its transaction and nothing else: it changes no page but   *)
(* its own, and once its locks are free the blocks have their last committed *)
(* values again, also when the pages were replaced in between and other     *)
(* transactions have committed.                                            *)
(***************************************************************************)
RollbackIsExact ==
  [][/\ crashes = 0 => \A t \in Txs : UndoIsOwn(t)
     /\ crashes' = 0 => UnlockedIsCommitted']_vars

(***************************************************************************)
(* The store that a restart would find, from the disk alone: of the updates *)
(* since the last checkpoint on disk that no later record finishes, the     *)
(* oldest one has the value that the block gets back.                       *)
(***************************************************************************)
SinceCheckpoint == {i \in 1..saved : CheckpointsIn(i..saved) = {}}

Unfinished(b) ==
  {i \in SinceCheckpoint :
     /\ log[i].op = "set" /\ log[i].blk = b
     /\ ~\E j \in (i + 1)..saved :
          Finishes(log[j]) /\ TxNumber(log[j]) = TxNumber(log[i])}

AfterRestart ==
  [b \in Blocks |->
     IF Unfinished(b) = {} THEN disk[b]
     ELSE log[CHOOSE i \in Unfinished(b) : \A j \in Unfinished(b) : i <= j].val]

(* what a transaction has written and may still lose *)
InFlight(t) ==
  /\ t # 1
  /\ \/ pc[t] \in {"run", "logged"}
     \/ kind[t] = "commit" /\ pc[t] \in {"finish", "flushed"}
     \/ kind[t] = "commit" /\ pc[t] = "appended" /\ pos[t] > saved

Work ==
  [t \in Txs |-> [b \in Blocks |-> IF InFlight(t) /\ xlock[b] = t THEN mem[b] ELSE NoValue]]

(***************************************************************************)
(* Log, buffers and recovery together are an atomic store: at every moment  *)
(* what a restart would find changes only by the commit of whole            *)
(* transactions, and a crash, in recovery too, changes nothing.             *)
(***************************************************************************)
Store == INSTANCE AtomicStore WITH store <- AfterRestart, work <- Work

ImplementsAtomicStore == Store!Spec

(* Recovery comes to its end, or to a crash, however often it is begun. *)
RecoveryReturns == (pc[1] = "recover") ~> (pc[1] = "done")
=============================================================================
