# Verification of godb

godb is a small relational database in Go: SQL on top of scans and indexes, on
top of transactions with two-phase locking, write-ahead logging and a buffer
pool. This directory holds TLA+ models of it, the TLC configurations that check
them, and TLAPS proofs. Paths below are relative to `src/`.

## 1. The system

One process opens one database directory (`server/godb.go`). Everything in it is
shared by goroutines, one per transaction; there is one file manager, log
manager, buffer manager and lock table per database.

| Component | State | Operations | Uses |
|---|---|---|---|
| file manager (`file/`) | open files, one mutex | Read, Write, Append of blocks; Length | the file system |
| log manager (`log/`) | log page, current block, `latestLSN`, `lastSavedLSN`, a mutex | Append, Flush, Iterator | file manager |
| buffer manager (`buffer/`) | the pool: block, contents, pins, txnNum, lsn of every buffer; `numAvailable`; mutex and condition | Pin (waits, with a deadline), Unpin, FlushAll | file and log manager |
| buffer list (`tx/buffer_list.go`) | per transaction: buffer and reference count of a block | Pin, Unpin, UnpinAll | buffer manager |
| lock table (`tx/concurrency/lock_table.go`) | one integer per block; mutex and condition | SLock, XLock (wait, with a deadline), Unlock | |
| concurrency manager (`tx/concurrency/manager.go`) | per transaction: its locks | SLock, XLock, Release | lock table |
| recovery manager, log records (`tx/`) | the log's contents | Commit, Rollback, Recover, the old value of every Set* | log and buffer manager, transaction |
| transaction (`tx/transaction.go`) | its number and managers | Get*, Set*, Pin, Unpin, Size, Append, Commit, Rollback, Recover | all of the above |
| record page, layout, table scan (`record/`, `query/table/`) | slots with flags; current slot | Next, Insert, Delete, Get*, Set* | transaction |
| scans and predicates (`query/`) | the positions of the inputs | Next, BeforeFirst | table scan |
| B+ tree and hash index (`index/`) | leaf and directory pages; buckets | BeforeFirst, Next, Insert, Delete | transaction, table scan |
| metadata (`metadata/`) | catalog tables; the cache of statistics | CreateTable, GetLayout, GetStatInfo, ... | table scan |
| planner, parser (`plan/`, `parse/`) | none | | metadata, scans |
| server, command (`server/`, `cmd/`) | | start of a process, the read loop | everything |

What is hard in it:

* waiting: `SLock`, `XLock` and `Pin` sleep on a condition variable, are woken
  by `Broadcast`, and give up at a deadline that an `AfterFunc` goroutine announces;
* state kept twice: lock counts against the locks of the transactions,
  `numAvailable` against pins, pins against buffer lists, the two LSN counters
  against the blocks of the log;
* replacement of dirty pages of running transactions, before their commit;
* a crash between any two writes, in recovery too;
* operations that do not hold the mutex their neighbours hold (`log.Manager.Iterator`,
  `file.Manager.Length`);
* error returns in the middle of a sequence (`FlushAll`, `doRollback`, `Commit`);
* scans that change the table they read, and searches that take "I could not
  lock this block" for "there is nothing in it";
* structures that grow by splitting, with an error possible at every level;
* a language whose text is taken apart, stored (views) and taken apart again.

`PROJECT.json` lists these hazards line by line with the properties that answer them.

What makes the parts correct:

* lock table: one writer or any number of readers; the integer tells the locks;
  nobody sleeps who could go on; every request returns;
* buffer manager: one buffer per block, not replaced while in use; no update
  lost; committed pages and, before them, their log records on disk; every Pin returns;
* log manager: the records on disk are a prefix of the log, what was flushed
  stays, an iterator returns all of it backwards;
* recovery: atomic, durable transactions; recovery comes to its end;
* table scan: serializable scans and changes, whatever other transactions do;
* B+ tree: a set of entries; a search finds what is there, and ends;
* SQL: a statement does what the relational algebra says its text means.

## 2. The modules

| Module | Models | |
|---|---|---|
| `LockService` | what two-phase locking promises: who may be granted what | abstract |
| `LockTable` | `lock_table.go` and `manager.go` of `tx/concurrency` | implements `LockService` |
| `LockTableProofs` | theorems about `LockTable` | TLAPS |
| `BufferPool` | package `buffer`, `buffer_list.go`, the order of steps of Set* and Commit | |
| `BufferPoolProofs` | theorems about `BufferPool` | TLAPS |
| `DurableLog` | an append-only log whose unsaved end is lost in a crash | abstract |
| `LogManager` | package `log` with the blocks of the log file | implements `DurableLog` |
| `LogManagerProofs` | theorems about `LogManager` | TLAPS |
| `AtomicStore` | a store that changes by whole commits only | abstract |
| `Recovery` | transaction, recovery manager, log records, restart | implements `AtomicStore` while nobody rolls back |
| `RecoveryProofs` | theorems about `Recovery` | TLAPS |
| `TableScan` | `table_scan.go` and `record/page.go`, with the locks, Size, Append and undo of `transaction.go` | |
| `TableScanProofs` | theorems about `TableScan` | TLAPS |
| `IndexEntries` | a set of index entries with commit and rollback | abstract |
| `BTree` | package `index/btree` | implements `IndexEntries` |
| `BTreeProofs` | theorems about the structure of the files in `BTree` | TLAPS |
| `BTreeEntriesProofs` | theorems about their entries, on `BTreeProofs` | TLAPS |
| `Query` | `query/*.go`: values, predicates, iterators (operators only) | |
| `Parser` | `lexer.go`, `parser.go`, and the way back from a query to its text (operators only) | |
| `Layout` | `layout.go`, `alignment.go` (operators only) | |
| `Catalog` | `table_manager.go`: the catalogs of tables and fields, on `Layout` | |
| `LayoutProofs` | theorems about `Layout` and `Catalog` | TLAPS |
| `Session` | `runStmt`, both planners and the view manager, on `Parser`, `Query` and `Catalog` | |
| `MC*` | instances for TLC (symmetry, initial values, statements) | |

They build on one another as the code does: `Recovery` takes of the log what
`DurableLog` promises (its `log` and `saved`), of the lock table that a block has
one writer until `Release` (`LockService`), and of the buffers that whoever looks
at a block sees its latest contents (`LatestIsReachable`) and that the log is
written before the page (`WriteAhead`). `TableScan` takes the locks as
`LockService` has them and a rollback that is alone with its log records
(`RollbackIsExact`); `BTree` has one transaction at a time, whose changes are
all kept or all undone (`ImplementsAtomicStore`). `Session` takes of `TableScan`
that a scan returns the records of its table, in order, or fails.

### LockTable

`locks` is the map of `LockTable`, `held` the maps of the managers. A critical
section of `lt.mu` is one action: `SLock` and `XLock` either grant or put the
goroutine on the notify list (`waitSet`) of `lt.cond`; a `Broadcast` empties the
list; `SLockResume` and `XLockResume` are the turns of the wait loop; `Expire`,
`AfterFunc` and `LockAbort` are the deadline, its broadcast, and the error that a
waiter returns when it finds `ctx.Err()` set. `Manager.XLock` is two calls,
`SLock` and then `XLock`, with others in between; `Manager.Release` is one
`Unlock` per block. The 10 seconds of a deadline are left out: it may pass at
any time while a call waits.

### BufferPool

Buffers are numbered as in the pool, and the naive strategy takes the first
unpinned one. `Pin` has an action for each way through `tryToPin`: the block is
in a buffer, or one is assigned to it (flush, relabel, read), or the flush or
the read fails, or the caller sleeps. The contents of a page are a version
number and the LSN of the last logged update in it. `StartSet` and `SetPage` are
the two halves of `Transaction.Set*` (log record; page and marks), `FlushAll`
and `ReleaseLocks` the steps of Commit and Rollback that the pool sees.
`Faults` says which calls of the file manager may fail.

### LogManager

A record is one word of a page and carries its number in the log; word 0 is the
boundary. An `Append` that needs a new block takes five steps (flush, extend the
file, reset the header, write the block, put the record), so that a crash or
the unlocked flush of an `Iterator` may come between. `Overlap` says whether an
Iterator may be made during an Append: the code allows it, and
`LogManagerIterator.cfg` shows what follows; the passing run has everything else. `Faults` has the calls that may fail in Append. A failed
`appendNewBlock` leaves no current block: records that fit are still put into
the page, and the next write panics, which is a `Crash`.

### Recovery

A block holds one value. `log`, `saved`, `disk`, `mem`, `dirty` and `lsn` are
the log, how much of it is on disk, the blocks on disk and as the buffers show
them, and the marks of their buffers. Commit, Rollback and Recover are sequences
of actions (`FlushAll`, `AppendLast`, `FlushLast`, `Release`; `UndoNext`;
`RecoverNext`) and `Evict` and `LogPageFull` write pages and log at any time in
between. `Crash` keeps what is on disk and begins recovery as transaction 1.
What `TxNumber` returns is what the record types read back from the bytes, the
rollback record's mistake included. The refinement mapping computes from the
disk alone what a restart would find (`AfterRestart`).

### TableScan

Every transaction has one scan on one table. `blocks` is the file as the buffers
show it, a flag and one value per slot; `slock` and `xlock` are the locks of the
blocks and, as block 0, of the end-of-file marker. The control state `pc` is
where the scan stands between two requests for a lock: `search` before
`searchAfter`, `flag` before an upgrade in `setFlag` or `SetX`, `size` and
`append` before those methods of the transaction. Each has an action for the
lock that is granted and one for the lock that is not, with what the caller
makes of the error: `searchAfter` passes it on, and `Next` and `Insert` both
take it for "no slot found". The slot that `InsertAfter` has found under the shared lock is
kept in `found`, and its flag is set there once the exclusive lock is granted,
whatever the slot holds by then: only the locks keep two Inserts from taking the same one. `Format` writes without log records, so `undo` does
not have it. `seen` is what `Next` has returned since the scan was last before
its first record; `rows`, `added` and `removed` are what the table should hold.

### BTree

A file is a function from block numbers to pages; a page has its records, in
order, and its two header numbers (`extra1` and `extra2`: sibling of a leaf; level and
leftmost child of a directory page). `LeafInsert`, `DirInsert`, `insertEntry`
and `makeNewRoot` return the changed file and the entry that the level above has
to take. `Insert` is a whole `Index.Insert`. Three actions are Inserts that fail:
`InsertFailsInLeaf` when a leaf has split and the record is in neither half,
`InsertFails` between the levels, at level `stop`, and `InsertFailsInDir` when a
directory page has split and its new entry is in neither half; the creation of
the index may fail too. The transaction then has nothing to do but to
roll back, as every caller in the code does. `parted` is a history variable: a split has put equal
keys into two leaves, at any time so far. Nothing in the code prevents it, and
no action is held back by it; the properties about searches, cursors and the
directory have `~parted` as their hypothesis. `Rollback` restores the pages that
existed and leaves zeros in those that did not: the log has every byte that was
written, and the file does not shrink. The refinement mapping is the set of
entries along the leaf chain, with those of the last commit.

### Query, Parser, Layout, Catalog, Session

`Query` has the iterators as records, and `Next` and `BeforeFirst` as operators
that return the iterator moved on; a product is a left-deep tree. A value is its
Go type and a number that orders it; a date that was read from a page has
another location than one that was parsed, and `==` tells them apart (`Stored`).
`Parser` is the recursive descent on tokens: a text is a sequence of tokens with
the lexer's rules for what it cannot read (`Lexed`). `ConstantText` of `Session`
is what `Expression.String` makes of a constant when a view is stored.

`Catalog` has the rows of the two catalogs and what becomes of them:
`AddTable` is `TableManager.CreateTable`, `GetLayout` looks the rows of a name up
again, as the code does: the first size, every field, the last row of a
field that has several. `CatalogSpec` is any sequence of CREATE TABLEs, each with
a name of its own and fields with different names, which the code takes for
granted. In `Session` the action `CreateTable` is a statement around `AddTable`,
and `CreatesAssumption` says that its client keeps to this.

`Session` is one client. `CreateTable`, `CreateView` and `ExecuteInsert` are
whole statements; a SELECT, DELETE or UPDATE begins (`RunQuery`,
`ExecuteDelete`, `ExecuteModify`: parse, plan and open) and then takes a step for
every record (`QueryRow`, `DeleteRow`, `ModifyRow`), any of which may fail
(`NextFails`). `Positions` says whether the client calls `BeforeFirst` on its plan's
scan: `runStmt` does not, and `sql_join` shows what follows; the passing run
has a client that does. Each statement carries what its client means by the text
(`means`), so that the parser, the planner and the stored text of views are all
between the question and the answer.

## 3. What the runs check

Passing runs:

| Run | Instance | Shows |
|---|---|---|
| `lock_table` | 3 transactions, 1 block | `CountMatchesHolders`, `SleepingReaderIsBlocked`, `DeadlineIsHeard`, `EveryCallReturns`, refinement of `LockService` |
| `pool_pins` | 2 transactions, 3 blocks, 2 buffers, reads fail | `OneBufferPerBlock`, `PinsAreCounted`, `SleeperIsBlocked`, `EveryPinReturns` |
| `pool_contents` | 2 transactions, 2 blocks, 1 buffer, 3 updates, writes fail | `LatestIsReachable`, `UnlockedIsOnDisk`, `WriteAhead` |
| `log_safety` | 2 goroutines, 5 records, 2 per block, 2 crashes, failing calls | `FlushedIsDurable`, `IteratorReturnsLog`, refinement of `DurableLog` |
| `recovery_commit` | 2 transactions after the first, 2 blocks, 2 updates, 2 crashes | `DiskIsCommitted`, `UncommittedIsLogged`, refinement of `AtomicStore` |
| `recovery_rollback` | the same with 2 rollbacks and 1 crash | `DirtyIsLocked`, `RecoveryReturns`; before the crash `RollbackIsExact` |
| `table_scan` | 2 transactions, up to 3 blocks of 2 slots, 2 writes and one more under way | no phantoms (`ScannedIsTable`), no slot taken twice and exact undo (`RecordsAreKept`), `EveryCallReturns` |
| `btree` | leaves and directory pages of 2 records, 6 records, two of them with one key, 4 changes in 2 transactions | refinement of `IndexEntries`, and that searches end; as long as no split has parted equal keys, `SearchIsRight`, `DirectoryMatchesChain`, `CursorSkipsNothing` |
| `sql_session` | 2 tables, 3 views (one of a view, one of itself), 15 statements, 5 changes | `QueryIsAnswered`, `UpdateIsRelational`, `LayoutIsSound`, `SubPredicatesConjoin`, `EveryStatementEnds` |

Runs that find what the repository says of the code to be violated (see
"findings" in `PROJECT.json` for the lines):

| Run | What happens |
|---|---|
| `lock_upgrade_wakeup` | the release that would let a waiting upgrade go on wakes nobody; it sleeps into its deadline as the only holder |
| `recovery_tx_numbers` | transaction numbers repeat after a restart, and a rollback undoes updates of an earlier process |
| `sql_join` | nobody positions a product before its first `Next`: a query over two tables with records panics as soon as it reads a field of the left one |

Further configurations, to be run by hand, reproduce deviations that the passing
runs are arranged to stay clear of. Each ends with TLC's counterexample:

| Configuration | Module | What happens |
|---|---|---|
| `BufferPoolReadFault.cfg` | `MCBufferPool` | after a failed read the buffer is labelled with a block it does not hold (`buffer/buffer.go:71`), and the next Pin returns it |
| `LogManagerIterator.cfg` | `MCLogManager` | an Iterator made during Appends moves `lastSavedLSN` past records not on disk (`log/manager.go:71`); their commit's Flush does nothing |
| `LogManagerZeroBlock.cfg` | `MCLogManager` | a crash inside `appendNewBlock` leaves a block of zeros (`log/manager.go:114`) that no later start can read |
| `RecoveryRollbackRecord.cfg` | `MCRecovery` | a rollback record reads back as one of transaction 3 (`tx/rollback.go:17`), and recovery undoes too little or too much |
| `BTreeDuplicates.cfg` | `MCBTree` | equal keys are split apart (`index/btree/leaf.go:127`), and search does not see those in the left leaf: `SearchFinds`, which is `SearchIsRight` without its hypothesis, against `index/index.go:6-12` |
| `TableScanEnd.cfg` | `MCTableScan` | a lock error in `searchAfter` ends a scan before the end of the table (`query/table/table_scan.go:66`), where line 61 says "It returns false if there are no more records to scan." |
| `SqlView.cfg` | `MCSession` | a view's string constant is stored without its quotes (`query/expression.go:55`) and read back as a field or a number |

### Bounds

* Locks are per block, and the conditions compare a count with 0 or 1: three
  transactions give two readers and an upgrade, two sleepers and a newcomer. What
  one block leaves out, wake-ups meant for another block, is in the proofs.
* Two buffers for three blocks, or one for two, make replacement and waiting the
  normal case: one transaction can pin all of the pool and the other one sleep.
* `MaxUpdates` = 3 in `pool_contents`: a logged and an unlogged update of one
  page and one of another, the case that the LSN rule of `SetModified` is for.
  `MaxRefs` = 2: an entry counted twice. `MaxUpdates` = 0 in `pool_pins`: pins
  do not depend on contents.
* `PageSize` = 2 and five records: three blocks, so the iterator goes back over two.
* Two crashes in `recovery_commit`: the second one during, or just after, the
  recovery from the first. Two updates in the log at a time: both of one
  transaction, on one block or two, or one each.
* In `recovery_commit` nobody rolls back, and two properties of
  `recovery_rollback` speak of the first process only, because rollbacks and
  restarts together are what the two violation runs show to be wrong.

* `table_scan` begins without a file, with a full block and one with a hole, and
  with an empty block in the middle; two writes are one by each transaction, or
  two by one, which its undo must take back in reverse, and there is room for a
  block that a scan has not seen.
* Pages of two records in `btree` split at the second insert into a page. The
  transactions begin without files, or with an index whose directory root is
  full, so that the next splits make a new root: four changes reach every
  branch. Cursors look for the key that two records share; in some behaviours
  these come to lie in two leaves (`parted`), in others they stay in one.
* One buffer in `pool_contents`: what needs two of them, a dirty page that comes
  back into another buffer and a `FlushAll` that fails halfway, is in the proofs only.
* `sql_session` has for each kind of statement one that succeeds and one that
  fails, every type of column that the parser knows, a join in both orders, and
  joins of views. Five changes fill both tables, change a row a predicate is
  about, and use a deleted slot again.

Deadlock is checked where a transaction can always do something more; in
`LogManager`, `Recovery`, `BTree` and `TableScan` the system stops
when the bounded numbers of records, transactions, writes and crashes are used up.

### Fairness

`lock_table` and `pool_pins` assume that a goroutine inside the manager
keeps running (Go's scheduler is preemptive, and `sync.Mutex` hands over to a
waiter that has starved for a millisecond), that deadlines pass and that
`AfterFunc` goroutines get to run. Nothing is assumed of the clients.
`recovery_rollback` assumes only that the goroutine that restarts the database runs.
`table_scan` assumes that a call that has begun takes its next step: it gets its
lock or its time-out. `sql_session` assumes that a statement that has begun goes on
to its next record and to its end. Nothing is assumed of when clients call.

## 4. What is proved

`LockTableProofs`, for any finite set of transactions and any set of blocks:

* `TypeCorrect`, `CountCorrect`, `NoLostReaderWakeup`, `DeadlineHeard`: the
  safety invariants of `lock_table`;
* `Refinement`: `LockTable` implements `LockService`.

The inductive invariant `IInv` is the conjunction of these invariants with
`CallsWellFormed`. `CountMatchesHolders` alone is not inductive: that `XLock` may
take a count of 1 for its own lock needs to know that its caller has the shared
lock (`CallsWellFormed`), and that no other has needs `Cardinality` of the
readers to be 1 (lemma `CountOneIsAlone`). The only assumption is that the
transactions are finitely many (`TxsAssumption`), for the counts to be numbers.


`BufferPoolProofs`, for any finite set of transactions, any set of blocks, any
size of the pool and any set of failing calls (`PoolAssumption`):

* `TypeCorrect`, `NoBlockTwice`, `PinsCorrect`, `NoLostWakeup`: the safety
  invariants of `pool_pins`;
* `WriteAheadHolds` and `CommittedIsOnDisk`: the write-ahead rule and the force
  of pages at commit, with failing reads as well as failing writes;
* `LatestReachable` and `PinnedLatest`: where the last version of a block is,
  under the assumption that no read fails (`"read" \notin Faults`).
  `BufferPoolReadFault.cfg` shows that this assumption is needed, the theorem that
  nothing else is.

The argument has three layers. `IInv` is the bookkeeping: the invariants
of `pool_pins` with `ListsWellFormed`. They need one another: a pin count of 0
means that nobody uses a buffer only because pin counts are the numbers of
entries (lemma `UnpinnedIsUnused`, by `Cardinality`), so a buffer that is reused
is in no entry; and an Unpin that wakes nobody leaves no buffer free because
sleepers have seen none. `LogInv` adds the order of the LSNs: the last logged
update in a page is covered by its buffer's LSN or already saved
(`LSNsOrdered`), which holds since an unlogged update keeps the LSN and a buffer
keeps it when it is reused. `DataInv` adds the locks: a modified buffer has the
last version of its block and its modifier still has the exclusive lock
(`DirtyIsLatest`), and a block that is not current on disk is in a modified
buffer (`DiskOrModified`). That the pool's searches find a buffer
(`ChosenIsUnpinned`, `FoundIsHolding`) rests on the well-ordering of the naturals.

`LogManagerProofs`, for any page size, any finite set of goroutines, any number
of records and crashes and any set of failing calls (`LogAssumption`):

* `TypeCorrect`, without further conditions;
* `Invariant`, `FlushedStays`, `ReturnsLog` and `Refinement` (of `DurableLog`),
  if no Iterator is made during an Append (`~Overlap`).
  `LogManagerIterator.cfg` shows what happens otherwise: `FlushedIsDurable` fails,
  and with it the refinement.

`FlushedIsDurable` says that two counters can stand for the contents of the file. The
invariant therefore says what the file contains: the records are in the blocks
in order, and all blocks but the last are full or without a header (`BlocksInv`); the log page is the
last block with the records appended since, at whichever of the five steps an
Append is (`PageInv`); the number of records on disk lies between
`lastSavedLSN` and `latestLSN`, and is all of them whenever the page is about to
be replaced (`WrittenInv`); and an iterator has ahead of it, in its copy of a page and
the blocks before, what it has not returned (`IteratorInv`). In the refinement
putting a record is `Append`, writing the page is `Persist`, and the start of a process
is `Crash`; all other steps change nothing.

`RecoveryProofs`, for any blocks and values, and any numbers of transactions,
updates, rollbacks and crashes (`RecoveryAssumption`):

* `TypeCorrect`, `DirtyLocked`: in every behaviour;
* `CommittedIsOnDisk`, `UncommittedCanBeUndone`: as long as a rollback and a
  crash have not met in one behaviour (`rollbacks = 0 \/ crashes = 0`);
* `RollbackExact`: before the first crash;
* `Refinement`: while nobody rolls back, `Recovery` implements `AtomicStore`.

The hypotheses are those of the runs, and two configurations show
that they are needed: `RecoveryRollbackRecord.cfg` for a crash after a rollback, and
`RecoveryTxNumbers.cfg` for a rollback after a crash. What the theorems add is any number of
crashes, in recoveries of recoveries, and any number of transactions at a time.

`LockInv` holds always: the log is typed, nobody begins before the restart is
done, dirty buffers belong to the holders of locks. The rest (`IInv`) is about
what the log says of the data. In normal work (`NormalInv`): a transaction has locks on
exactly the blocks it has logged; its first record about a block has the
committed value; a block differs from its committed value only by an owner whose
record is covered by the buffer's LSN, and on disk only if that record is on disk;
a rollback has restored what lies behind its position. In recovery: the oldest
unfinished update of a block on disk has its committed value, and the blocks
whose records the scan has passed have theirs, however far an earlier recovery had come.
`DiskIsCommitted` cannot do without these: that a restart will find the right value
depends on every record between the last checkpoint and the end of the log. In
the refinement the abstract store is what a restart would find; `StartSet` and `SetPage`
may be a `Write`, the step that saves a commit record is `Commit`, `Crash` is `Abort`, and
evictions, flushes and all of recovery change nothing.

`TableScanProofs`, for any finite set of transactions, any
number of blocks, slots and writes, and any first contents of the table
(`TableAssumption`; `InitialAssumption`: records that a table may have, no two
alike, which lets a value stand for its record):

* `TypeCorrect`, and `Calls`, the invariant of control and locks;
* `TableIsKept`: no slot is taken by two records, none is lost, and a rollback leaves
  exactly what was committed. That a slot found empty under the shared lock is
  still empty under the exclusive one is part of the invariant (`Target`), not of the model;
* `ScanIsComplete`: no phantoms. A scan that met no lock error has seen each
  record once.

`CallInv` says for each place in the code which locks the transaction has there
and what it has undone if it fails; its step from one transaction to another is the lemma that whatever
one of them does leaves the others alone (`Respected`): blocks that `u` has locked keep
their contents, the file does not shrink, and does not grow under `u`'s lock on the end-of-file
marker. A rollback is a fold over the log records from the newest to the oldest;
`UndoneIs` proves that it leaves in every slot what was there before the first of
the changes, by looking at a least counterexample. `DataInv` describes the file by
what the rollback of every writer would leave (`Committed`), with the records `added` and
`removed` by each. `ScanInv` is the promise of an unfinished scan: the slots it has passed are
in blocks on which it has a lock, and their records are what it has seen.
Both need `CallInv`: that a new record goes to a slot
nobody else has chosen holds since an exclusive lock is granted to the only
holder of a shared one.

`BTreeProofs` and `BTreeEntriesProofs`, for any finite set of records, any keys, any size
of pages from two records on, any index to begin with that Inserts can make, Inserts that fail anywhere, and any number of changes
and transactions (`BTreeAssumption`). With equal keys split apart or not:

* `TypeCorrect`: no page overflows, every link leads to a block of its file, every
  child is one level below its page;
* `Refinement`: `BTree` implements `IndexEntries`;
* `SearchesEnd`: the sibling links run in a circle only if the transaction that
  made the files has rolled back.

In every behaviour, with the hypothesis `~parted` inside the property (of the index
to begin with too: `Init` looks whether equal keys are apart in it):

* `SearchAnswers`: a search that ends has returned every entry of its key;
* `CursorReturnsAll`: so has a cursor, although Inserts and their splits move
  the records under it;
* `DirectoryKeepsStep`: the leaves that the directory points to, from left to
  right, are those of the sibling chain.

`BTreeDuplicates.cfg` shows that the hypothesis is needed. The proofs show `OrderInv`
as long as `parted` is false; it stays true once it is (`PartedStays`).

`TypeInv` is about the files and about what a rollback would bring back, which has no more
blocks than they. It has to be general enough for a directory that an Insert has left halfway:
`Directory` says of every page, whether the root leads to it or not, that its children are one level
below, and that level is what makes `search` and `dir.insert` well-founded
(`SearchUnfolds`, `InsertUnfolds`: a least level without a value leads to a contradiction).
`TreeInv` adds that the directory leads to no other leaves than those of the
chain, so that a record is never put, or looked for, where the cursor does not
come; a failed Insert only leaves it behind, with too few leaves. The chain is characterised as the least
set with block 0 that no link leaves (`Chained`), and its end by there being
no set of blocks that the links only lead back into (`NoCircle`): both are kept by a
split, which puts one block between two of the chain (`ChainParted`).

The last three theorems rest on `OrderInv`, which gives every page a range of
keys: a function `RL` for the leaves and one, `RD`, for the pages of the
directory, under an existential quantifier, since the code keeps neither.
`Ordered` says that the ranges rise along the chain and that the keys of a leaf
lie in its range; `Ranked` that the root has all of the integers and that the
records of a directory page share its range out among the children as
`findDirSlot` does. A split of a page halves a range (`Half`), and until the
entry for the new half has arrived in the level above, that level still
describes the ranges before (`Due`). An Insert that fails stops there, so that a
search may start too far to the left: `Usable` says no more than that, and it is
enough for the search to find its entries along the links. The same holds of a page that has split without
its new entry (`HalvesApart` for a leaf, `HalvesLead` for a directory page). While no Insert has
failed there is a `Ranked` directory as well (`Standing`), and a rollback comes
back to such a tree (`Whole`). A cursor has ahead of it, from its block and slot
on, what it owes and has not returned (`CursorOwes`). For `DirectoryKeepsStep`
the chain and the leaves under the root are both `Line`s, sequences of leaves
whose ranges rise and share all keys out, and for given ranges there is only one
(`LineOnce`).

`LayoutProofs`, for any schema whose columns have the types of the parser and
lengths from 0 on:

* `NewLayoutIsSound`: what `NewLayout` computes has the properties of `LayoutIsSound`;
* `FieldsArePacked`: sorted by alignment, the fields have no unused bytes between them.

The offsets are a recursive function (`FieldEnds`), which is shown to exist and to
grow by looking at a least position where it does not. That the end of a slot is aligned for all
of its fields is due to the alignments 1, 2, 4 and 8 dividing one another
(`LargestDivides`), and that no padding is needed to every length being a multiple of its alignment.

For `CatalogSpec`, with any tables and any such schemas:

* `CatalogIsSound`: `LayoutIsSound`, the property of `sql_session`, of every
  layout that `GetLayout` puts together.

The invariant (`Catalogued`) is that a table has one row in the one catalog and
adjacent rows in the other, which describe one order of its fields; new rows
come after them. That `Session` changes these two catalogs by `AddTable` only is
plain from its actions; it is not a theorem, as none can be about `Session`.

Only model-checked:

* liveness (`EveryCallReturns`, `EveryPinReturns`, `RecoveryReturns`,
  `EveryStatementEnds`): fairness and ENABLED are beyond the prover;
* `Session` with `Parser` and `Query`, whose operators are RECURSIVE: `TypeOK`,
  `QueryIsAnswered`, `UpdateIsRelational` and `SubPredicatesConjoin`. Of the
  properties of `sql_session`, `LayoutIsSound` alone is proved.

## 5. What is not modelled, and the plan

Not modelled:

* bytes: the layout of pages and log records, strings longer than their column
  (nothing checks them, `record/page.go:90`), half-written blocks (the code has
  no protection against them), characters of a statement;
* the hash index, which is a table scan per bucket, and the index catalog: no
  planner opens or maintains an index, so a client never meets one;
* statistics and cost estimates: no planner chooses by them. `StatManager` also
  holds its mutex while it waits for locks, which delays but cannot block others
  for longer than a lock's time limit;
* the first start of a database: whether to create the catalog is decided by
  the existence of the directory (`server/godb.go:54`);
* in the B+ tree, a creation that fails before the root has its block: the next
  transaction would take the leaf file for an index and read its root from behind
  the end of the directory file, where `file.Manager.Read` leaves the buffer's
  old contents (`file/manager.go:85-90`); and the block that a failing Insert
  has appended but linked to nothing, which no page ever leads to;
* a failing Commit, whose caller drops its locks and pins (`cmd/godb/main.go:110`),
  and a log that cannot be read in recovery (`tx/recovery_manager.go:174`);
* the command's read loop.

Locks are released together in `Recovery` and `TableScan` and one by one in
`LockTable`. `Session` has one client: what several do to one table is
`TableScan`'s question.

Next, in this order:

1. `Recovery` with failing reads of the log and with a Commit that fails and keeps
   its locks and pins.
2. `HashIndex` on `TableScan`; creation of the catalog with a crash in between.
