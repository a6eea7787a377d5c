----------------------------- MODULE TableScan ------------------------------
(***************************************************************************)
(* Concurrent table scans: query/table/table_scan.go on record/page.go, with *)
(* the locks, Size, Append and the undo of tx/transaction.go.               *)
(*                                                                         *)
(* Every transaction has one scan on the same table.  Of a call of the scan *)
(* each request for a lock is a step of its own, with other transactions in *)
(* between: the block's shared lock (searchAfter), its upgrade (setFlag,    *)
(* SetX), the shared lock of the end-of-file marker (Size) and its upgrade  *)
(* (Append).  A request that cannot be granted waits or, after its time, is *)
(* an error; several callers in table_scan.go take that error for "no slot  *)
(* found".  A transaction that gets an error rolls back (cmd/godb/main.go). *)
(*                                                                         *)
(* Abstracted: a record is a flag and one value, which no two records share;*)
(* locks are those of LockService.tla; pins are BufferPool's and left out.  *)
(***************************************************************************)
EXTENDS Integers, SequencesExt

CONSTANTS Txs,
          Slots,         \* records that fit into a block
          InitialTables, \* what the file may hold at first: blocks of slots
          MaxBlocks, MaxWrites   \* bounds

Nobody == 0

(* Values that a table may have at first, no two records the same *)
InitialValues == MaxBlocks * Slots

UsedSlots(file) == {p \in (DOMAIN file) \X (1..Slots) : file[p[1]][p[2]].used}
ValueAt(file, p) == file[p[1]][p[2]].val

ASSUME TableAssumption ==
  /\ IsFiniteSet(Txs) /\ Txs # {} /\ Nobody \notin Txs
  /\ Slots \in Nat \ {0} /\ MaxBlocks \in Nat /\ MaxWrites \in Nat

ASSUME InitialAssumption ==
  \A file \in InitialTables :
    /\ file \in Seq([1..Slots -> [used : BOOLEAN, val : 0..InitialValues]])
    /\ Len(file) <= MaxBlocks
    /\ \A p, q \in UsedSlots(file) :
         /\ ValueAt(file, p) # 0
         /\ p # q => ValueAt(file, p) # ValueAt(file, q)

VARIABLES
  blocks,        \* the file, as the buffers show it: flags and values
  slock, xlock,  \* who has the shared, the exclusive lock of a block
  pc,            \* what the transaction's scan is about to do, see Control
  op,            \* the call it is in
  blk, slot,     \* recordPage and currentSlot; slot 0: before the first
  found,         \* newSlot of InsertAfter, from its search to its setFlag; else 0
  undo,          \* the transaction's log records: <<block, slot, old record>>
  seen,          \* the values that Next has returned since the first block
  missed,        \* has one of those Nexts taken a lock error for an end?
  rows,          \* the values of all committed records
  added, removed,  \* what an open transaction has done to them
  writes

scanVars == <<pc, op, blk, slot, found>>
historyVars == <<rows, added, removed, writes>>
vars == <<blocks, slock, xlock, scanVars, undo, seen, missed, historyVars>>

EndOfFile == 0     \* the number of the end-of-file marker, tx.EndOfFile
Lockable == EndOfFile..MaxBlocks
(* A call that begins under the bound ends its write when others have, too *)
WritesBound == MaxWrites + Cardinality(Txs) - 1
Values == 1..(InitialValues + WritesBound)

Empty == [used |-> FALSE, val |-> 0]
EmptyBlock == [s \in 1..Slots |-> Empty]
Used(v) == [used |-> TRUE, val |-> v]

(***************************************************************************)
(* "none" no scan; "opening" in NewTableScan; "idle" between two calls;     *)
(* "search" in searchAfter; "again" in the second NextAfter of Next; "flag" *)
(* before setFlag or a SetX; "size" in Size; "append" in Append; "ended"    *)
(* after Next has returned false; "failed" an error was returned; "done"    *)
(***************************************************************************)
Control == {"none", "opening", "idle", "search", "again", "flag", "size", "append",
            "ended", "failed", "done"}

Goto(t, where) == pc' = [pc EXCEPT ![t] = where]

-----------------------------------------------------------------------------
(* Locks: what the lock table grants *)

CanSLock(t, b) == xlock[b] \in {Nobody, t}

(* Mutant: an upgrade does not look for other readers *)
CanXLock_OtherReaders(t, b) == xlock[b] \in {Nobody, t}

CanXLock(t, b) == xlock[b] \in {Nobody, t} /\ slock[b] \subseteq {t}

(* Mutant: the end-of-file marker is not locked *)
SLock_NotMarker(t, b) ==
  /\ CanSLock(t, b)
  /\ slock' = IF b = EndOfFile THEN slock ELSE [slock EXCEPT ![b] = @ \union {t}]
  /\ UNCHANGED xlock

SLock(t, b) ==
  /\ CanSLock(t, b)
  /\ slock' = [slock EXCEPT ![b] = @ \union {t}]
  /\ UNCHANGED xlock

(* Every upgrade here is of a lock that an earlier step has taken *)
XLock(t, b) ==
  /\ CanXLock(t, b)
  /\ xlock' = [xlock EXCEPT ![b] = t]
  /\ UNCHANGED slock

Release(t) ==
  /\ slock' = [b \in Lockable |-> slock[b] \ {t}]
  /\ xlock' = [b \in Lockable |-> IF xlock[b] = t THEN Nobody ELSE xlock[b]]

-----------------------------------------------------------------------------
(* The record page *)

(* The slots of a block with the given flag, after the current one *)
After(t, flag) == {s \in (slot[t] + 1)..Slots : blocks[blk[t]][s].used = flag}

(* A logged write of a record: first its old value *)
Write(t, b, s, new) ==
  /\ undo' = [undo EXCEPT ![t] = Append(@, <<b, s, blocks[b][s]>>)]
  /\ blocks' = [blocks EXCEPT ![b][s] = new]

TableValues == {ValueAt(blocks, p) : p \in UsedSlots(blocks)}

-----------------------------------------------------------------------------
Init ==
  /\ blocks \in InitialTables
  /\ slock = [b \in Lockable |-> {}] /\ xlock = [b \in Lockable |-> Nobody]
  /\ pc = [t \in Txs |-> "none"] /\ op = [t \in Txs |-> "open"]
  /\ blk = [t \in Txs |-> 0] /\ slot = [t \in Txs |-> 0] /\ found = [t \in Txs |-> 0]
  /\ undo = [t \in Txs |-> <<>>]
  /\ seen = [t \in Txs |-> <<>>] /\ missed = [t \in Txs |-> FALSE]
  /\ rows = TableValues
  /\ added = [t \in Txs |-> {}] /\ removed = [t \in Txs |-> {}]
  /\ writes = 0

(* A client's call, up to its first request for a lock *)
Call(t, name, where) ==
  /\ op' = [op EXCEPT ![t] = name]
  /\ Goto(t, where)
  /\ UNCHANGED <<blocks, slock, xlock, blk, slot, found, undo, historyVars>>

NewTableScan(t) == pc[t] = "none" /\ Call(t, "open", "opening") /\ UNCHANGED <<seen, missed>>

CallNext(t) == pc[t] = "idle" /\ Call(t, "next", "search") /\ UNCHANGED <<seen, missed>>

CallInsert(t) ==
  /\ pc[t] \in {"idle", "ended"} /\ writes < MaxWrites
  /\ Call(t, "insert", "search")
  /\ UNCHANGED <<seen, missed>>

(* SetX and Delete are for the record that Next has found *)
OnRecord(t) == slot[t] # 0 /\ blocks[blk[t]][slot[t]].used

CallSet(t) ==
  /\ pc[t] = "idle" /\ OnRecord(t) /\ writes < MaxWrites
  /\ Call(t, "set", "flag")
  /\ UNCHANGED <<seen, missed>>

CallDelete(t) ==
  /\ pc[t] = "idle" /\ OnRecord(t) /\ writes < MaxWrites
  /\ Call(t, "delete", "flag")
  /\ UNCHANGED <<seen, missed>>

MoveToBlock(t, b) ==
  /\ blk' = [blk EXCEPT ![t] = b]
  /\ slot' = [slot EXCEPT ![t] = 0]

BeforeFirst(t) ==
  /\ pc[t] \in {"idle", "ended"}
  /\ MoveToBlock(t, 1)
  /\ Goto(t, "idle")
  /\ seen' = [seen EXCEPT ![t] = <<>>]
  /\ missed' = [missed EXCEPT ![t] = FALSE]
  /\ UNCHANGED <<blocks, slock, xlock, op, found, undo, historyVars>>

(* NextAfter finds a record *)
Found(t) ==
  /\ pc[t] \in {"search", "again"} /\ op[t] = "next"
  /\ After(t, TRUE) # {}
  /\ SLock(t, blk[t])
  /\ slot' = [slot EXCEPT ![t] = Min(After(t, TRUE))]
  /\ seen' = [seen EXCEPT ![t] = Append(@, blocks[blk[t]][slot'[t]].val)]
  /\ Goto(t, "idle")
  /\ UNCHANGED <<blocks, op, blk, found, undo, missed, historyVars>>

(* InsertAfter finds an empty slot, under the shared lock of the block *)
FoundEmpty(t) ==
  /\ pc[t] = "search" /\ op[t] = "insert"
  /\ After(t, FALSE) # {}
  /\ SLock(t, blk[t])
  /\ found' = [found EXCEPT ![t] = Min(After(t, FALSE))]
  /\ Goto(t, "flag")
  /\ UNCHANGED <<blocks, op, blk, slot, undo, seen, missed, historyVars>>

(* Next looks into one more block only, and then returns the error *)
NoSlot(t) == Goto(t, IF pc[t] = "again" THEN "failed" ELSE "size")

NotFound(t) ==
  /\ pc[t] \in {"search", "again"}
  /\ After(t, op[t] = "next") = {}
  /\ SLock(t, blk[t])
  /\ NoSlot(t)
  /\ UNCHANGED <<blocks, op, blk, slot, found, undo, seen, missed, historyVars>>

(* The shared lock of the block cannot be had: no slot is found *)
SearchTimesOut(t) ==
  /\ pc[t] \in {"search", "again"}
  /\ ~CanSLock(t, blk[t])
  /\ NoSlot(t)
  /\ missed' = [missed EXCEPT ![t] = @ \/ op[t] = "next"]
  /\ UNCHANGED <<blocks, slock, xlock, op, blk, slot, found, undo, seen, historyVars>>

NewValue == InitialValues + writes + 1

(* setFlag of the slot that was found, whatever is there by now, and, while  *)
(* the block is locked anyway, the client's SetX of the new record's value   *)
InsertRecord(t) ==
  /\ op[t] = "insert"
  /\ Write(t, blk[t], found[t], Used(NewValue))
  /\ slot' = [slot EXCEPT ![t] = found[t]]
  /\ added' = [added EXCEPT ![t] = @ \union {NewValue}]
  /\ UNCHANGED removed

SetRecord(t) ==
  LET old == blocks[blk[t]][slot[t]].val IN
  /\ op[t] = "set"
  /\ Write(t, blk[t], slot[t], Used(NewValue))
  /\ added' = [added EXCEPT ![t] = (@ \union {NewValue}) \ {old}]
  /\ removed' = [removed EXCEPT ![t] = @ \union {old}]
  /\ UNCHANGED slot

DeleteRecord(t) ==
  LET old == blocks[blk[t]][slot[t]] IN
  /\ op[t] = "delete"
  /\ Write(t, blk[t], slot[t], [old EXCEPT !.used = FALSE])
  /\ added' = [added EXCEPT ![t] = @ \ {old.val}]
  /\ removed' = [removed EXCEPT ![t] = @ \union {old.val}]
  /\ UNCHANGED slot

Change(t) ==
  /\ pc[t] = "flag"
  /\ XLock(t, blk[t])
  /\ InsertRecord(t) \/ SetRecord(t) \/ DeleteRecord(t)
  /\ found' = [found EXCEPT ![t] = 0]
  /\ writes' = writes + 1
  /\ Goto(t, "idle")
  /\ UNCHANGED <<op, blk, seen, missed, rows>>

(* The exclusive lock cannot be had: Insert looks further on *)
ChangeTimesOut(t) ==
  /\ pc[t] = "flag"
  /\ ~CanXLock(t, blk[t])
  /\ Goto(t, IF op[t] = "insert" THEN "size" ELSE "failed")
  /\ found' = [found EXCEPT ![t] = 0]
  /\ UNCHANGED <<blocks, slock, xlock, op, blk, slot, undo, seen, missed, historyVars>>

(* Transaction.Size, and what the caller does next *)
Opened(t) ==
  /\ pc[t] = "opening"
  /\ SLock(t, EndOfFile)
  /\ IF blocks = <<>> THEN Goto(t, "append") /\ UNCHANGED <<blk, slot>>
                      ELSE Goto(t, "idle") /\ MoveToBlock(t, 1)
  /\ UNCHANGED <<blocks, op, found, undo, seen, missed, historyVars>>

AtLastBlock(t) ==
  /\ pc[t] = "size"
  /\ SLock(t, EndOfFile)
  /\ blk[t] = Len(blocks)
  /\ Goto(t, IF op[t] = "next" THEN "ended" ELSE "append")
  /\ UNCHANGED <<blocks, op, blk, slot, found, undo, seen, missed, historyVars>>

(* Mutant: the last block is taken for one with a successor *)
ToNextBlock_PastEnd(t) ==
  /\ pc[t] = "size"
  /\ SLock(t, EndOfFile)
  /\ MoveToBlock(t, blk[t] + 1)
  /\ Goto(t, IF op[t] = "next" THEN "again" ELSE "search")
  /\ UNCHANGED <<blocks, op, found, undo, seen, missed, historyVars>>

(* Mutant: the scan stays in its block *)
ToNextBlock_Same(t) ==
  /\ pc[t] = "size"
  /\ SLock(t, EndOfFile)
  /\ blk[t] # Len(blocks)
  /\ MoveToBlock(t, blk[t])
  /\ Goto(t, IF op[t] = "next" THEN "again" ELSE "search")
  /\ UNCHANGED <<blocks, op, found, undo, seen, missed, historyVars>>

ToNextBlock(t) ==
  /\ pc[t] = "size"
  /\ SLock(t, EndOfFile)
  /\ blk[t] # Len(blocks)
  /\ MoveToBlock(t, blk[t] + 1)
  /\ Goto(t, IF op[t] = "next" THEN "again" ELSE "search")
  /\ UNCHANGED <<blocks, op, found, undo, seen, missed, historyVars>>

SizeTimesOut(t) ==
  /\ pc[t] \in {"opening", "size"}
  /\ ~CanSLock(t, EndOfFile)
  /\ Goto(t, "failed")
  /\ UNCHANGED <<blocks, slock, xlock, op, blk, slot, found, undo, seen, missed, historyVars>>

(* Append, Pin and Format: the new block is all zeros, which is what Format *)
(* writes, without log records, under the exclusive lock of the block       *)
moveToNewBlock(t) ==
  LET new == Len(blocks) + 1 IN
  /\ pc[t] = "append" /\ new <= MaxBlocks
  /\ CanXLock(t, EndOfFile)
  /\ slock' = [slock EXCEPT ![new] = @ \union {t}]
  /\ xlock' = [xlock EXCEPT ![EndOfFile] = t, ![new] = t]
  /\ blocks' = Append(blocks, EmptyBlock)
  /\ MoveToBlock(t, new)
  /\ Goto(t, IF op[t] = "insert" THEN "search" ELSE "idle")
  /\ UNCHANGED <<op, found, undo, seen, missed, historyVars>>

(* The bound on blocks stands for a full disk *)
AppendFails(t) ==
  /\ pc[t] = "append"
  /\ ~CanXLock(t, EndOfFile) \/ Len(blocks) = MaxBlocks
  /\ Goto(t, "failed")
  /\ UNCHANGED <<blocks, slock, xlock, op, blk, slot, found, undo, seen, missed, historyVars>>

(* Nobody uses the scan any more *)
Done(t) ==
  /\ Goto(t, "done")
  /\ op' = [op EXCEPT ![t] = "open"]
  /\ blk' = [blk EXCEPT ![t] = 0] /\ slot' = [slot EXCEPT ![t] = 0]
  /\ found' = [found EXCEPT ![t] = 0]
  /\ undo' = [undo EXCEPT ![t] = <<>>]
  /\ seen' = [seen EXCEPT ![t] = <<>>] /\ missed' = [missed EXCEPT ![t] = FALSE]

Commit(t) ==
  /\ pc[t] \in {"idle", "ended"}
  /\ Release(t)
  /\ rows' = (rows \union added[t]) \ removed[t]
  /\ added' = [added EXCEPT ![t] = {}] /\ removed' = [removed EXCEPT ![t] = {}]
  /\ Done(t)
  /\ UNCHANGED <<blocks, writes>>

(* The log records of the transaction, the last one first *)
Undone(t) ==
  LET restore(r, file) == [file EXCEPT ![r[1]][r[2]] = r[3]]
  IN FoldRight(restore, undo[t], blocks)

Rollback(t) ==
  /\ pc[t] \in {"idle", "ended", "failed"}
  /\ blocks' = Undone(t)
  /\ Release(t)
  /\ added' = [added EXCEPT ![t] = {}] /\ removed' = [removed EXCEPT ![t] = {}]
  /\ Done(t)
  /\ UNCHANGED <<rows, writes>>

(* The steps of a call that has begun *)
Step(t) ==
  \/ Found(t) \/ FoundEmpty(t) \/ NotFound(t) \/ SearchTimesOut(t)
  \/ Change(t) \/ ChangeTimesOut(t)
  \/ Opened(t) \/ AtLastBlock(t) \/ ToNextBlock(t) \/ SizeTimesOut(t)
  \/ moveToNewBlock(t) \/ AppendFails(t)

Next == \E t \in Txs :
  \/ NewTableScan(t) \/ CallNext(t) \/ CallInsert(t) \/ CallSet(t) \/ CallDelete(t)
  \/ BeforeFirst(t)
  \/ Step(t)
  \/ Commit(t) \/ Rollback(t)

Spec == Init /\ [][Next]_vars /\ \A t \in Txs : WF_vars(Step(t))

-----------------------------------------------------------------------------
(* Properties *)

Records == [used : BOOLEAN, val : Values \union {0}]

TypeOK ==
  /\ blocks \in Seq([1..Slots -> Records]) /\ Len(blocks) <= MaxBlocks
  /\ slock \in [Lockable -> SUBSET Txs] /\ xlock \in [Lockable -> Txs \union {Nobody}]
  /\ pc \in [Txs -> Control] /\ op \in [Txs -> {"open", "next", "insert", "set", "delete"}]
  /\ \A t \in Txs : /\ blk[t] \in 0..Len(blocks)
                   /\ slot[t] \in 0..Slots /\ found[t] \in 0..Slots
  /\ rows \subseteq Values /\ writes \in 0..WritesBound

(* A transaction that has read the table to its end, and changed nothing,   *)
(* has seen every record once; and as long as it runs nobody adds, changes  *)
(* or removes one: the shared locks of the blocks and of the end-of-file    *)
(* marker leave no room for phantoms (Transaction.Size: "necessary to       *)
(* prevent ... phantom reads"), provided no Next has swallowed a lock error.*)
ScannedIsTable ==
  \A t \in Txs :
    pc[t] = "ended" /\ undo[t] = <<>> /\ ~missed[t] =>
      /\ ToSet(seen[t]) = TableValues
      /\ Len(seen[t]) = Cardinality(TableValues)

(* Next returns false only "if there are no more records to scan"           *)
(* (table_scan.go:61), whatever locks other transactions have.              *)
EndIsEnd ==
  \A t \in Txs : pc[t] = "ended" /\ undo[t] = <<>> => ToSet(seen[t]) = TableValues

(* The file holds the committed records and what open transactions have     *)
(* changed, each value in one slot: the slot that Insert has found under    *)
(* its shared lock is still empty when setFlag writes it, after a wait that *)
(* others' steps come into, so no two Inserts take the same slot; a rollback *)
(* brings back what was there and removes what was added; and the blocks    *)
(* that Format has written without log records do no harm.                  *)
RecordsAreKept ==
  LET open == {t \in Txs : pc[t] # "done"}
  IN /\ TableValues = (rows \ UNION {removed[t] : t \in open}) \union UNION {added[t] : t \in open}
     /\ Cardinality(UsedSlots(blocks)) = Cardinality(TableValues)

(* Every call returns, with a result or an error: Insert's loop over the    *)
(* blocks ends although its lock errors count as full blocks, and waiting   *)
(* ends at the time limit (TableScan.Insert, Next, NewTableScan).           *)
InCall(t) == pc[t] \in {"opening", "search", "again", "flag", "size", "append"}
EveryCallReturns == \A t \in Txs : InCall(t) ~> ~InCall(t)
=============================================================================
