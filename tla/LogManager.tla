----------------------------- MODULE LogManager -----------------------------
(***************************************************************************)
(* log.Manager and log.Iterator (package log): the log page, the blocks of  *)
(* the log file, Append, Flush and Iterator, through crashes and restarts.   *)
(*                                                                         *)
(* Append and Flush hold the manager's mutex; Iterator flushes the page     *)
(* without it.  The steps of an Append that needs a new block are actions   *)
(* of their own: a crash, or the flush of an Iterator, may come between.    *)
(*                                                                         *)
(* Abstracted: a record is its number in the log and fills one word of a    *)
(* page; word 0 is the header, the boundary.  A block of the file is        *)
(* written as a whole.  A record is put into the page in one step, although *)
(* an Iterator may write the page halfway through.                          *)
(***************************************************************************)
EXTENDS Integers, Sequences, FiniteSets

CONSTANTS Procs,       \* goroutines
          Free, Boot,  \* nobody has the mutex; NewLogManager is running
          PageSize,    \* records of a page
          Faults,      \* calls of the file manager that may fail in Append
          Overlap,     \* may the flush of an Iterator overlap an Append?
          MaxRecords, MaxCrashes

ASSUME LogAssumption ==
  /\ Free \notin Procs /\ Boot \notin Procs /\ Free # Boot
  /\ PageSize \in Nat \ {0}
  /\ Faults \subseteq {"append", "write"}
  /\ Overlap \in BOOLEAN
  /\ MaxRecords \in Nat /\ MaxCrashes \in Nat

VARIABLES
  disk,          \* the blocks of the log file
  page, cur,     \* logPage and the number of currentBlock (0: nil)
  latestLSN, lastSavedLSN,
  base,          \* the records that were on disk when the process began
  mu, stage,     \* who has the mutex, and how far its Append is
  pc,            \* where a goroutine is
  it,            \* its Iterator: block number, page and position
  seen, from,    \* what it has returned, and the records it began with
  promised,      \* the last record that a Flush has returned for
  crashes

fileVars == <<disk>>
memVars == <<page, cur, latestLSN, lastSavedLSN>>
lockVars == <<mu, stage>>
iterVars == <<it, seen, from>>
vars == <<fileVars, memVars, base, lockVars, pc, iterVars, promised, crashes>>

BlockSize == PageSize + 1
Junk == 0

(* fm.Append writes zeros; boundary 0 is no position of a record *)
ZeroPage == [boundary |-> 0, rec |-> [i \in 0..PageSize |-> Junk]]

RecordsIn(pg) == {pg.rec[i] : i \in pg.boundary..PageSize} \ {Junk}
OnDisk == UNION {RecordsIn(disk[k]) : k \in 1..Len(disk)}

NoIterator == [blk |-> 0, pos |-> 0, page |-> ZeroPage]

Init ==
  /\ disk = <<>>
  /\ page = ZeroPage /\ cur = 0
  /\ latestLSN = 0 /\ lastSavedLSN = 0 /\ base = 0
  /\ mu = Boot /\ stage = "append"
  /\ pc = [p \in Procs |-> "idle"]
  /\ it = [p \in Procs |-> NoIterator]
  /\ seen = [p \in Procs |-> <<>>]
  /\ from = [p \in Procs |-> 0]
  /\ promised = 0
  /\ crashes = 0

(* the window of Iterator() in which it writes without the mutex *)
Flushing(p) == pc[p] \in {"written", "saved"}

Undisturbed == Overlap \/ \A p \in Procs : ~Flushing(p)

----------------------------------------------------------------------------
(* Manager.flush *)

WritePage == disk' = [disk EXCEPT ![cur] = page]

flush == cur # 0 /\ WritePage /\ lastSavedLSN' = latestLSN

(***************************************************************************)
(* Append                                                                   *)
(***************************************************************************)
(* Mutant: the header is counted as room for a record. *)
Fits_OffByOne == page.boundary - 1 >= 0

Fits == page.boundary - 1 >= 1

PutRecord ==
  /\ page' = [page EXCEPT !.boundary = @ - 1, !.rec[page.boundary - 1] = base + latestLSN + 1]
  /\ latestLSN' = latestLSN + 1

(* A record that fits is put into the page even when a failed Append has    *)
(* left currentBlock nil.  A write of the nil block panics, here, in Flush   *)
(* and in Iterator, and the process ends: Crash.                             *)
Append_(p) ==
  /\ pc[p] = "idle" /\ mu = Free /\ Undisturbed
  /\ base + latestLSN < MaxRecords
  /\ \/ Fits /\ PutRecord /\ UNCHANGED lockVars
     \/ ~Fits /\ cur # 0 /\ mu' = p /\ stage' = "flush" /\ UNCHANGED <<page, latestLSN>>
  /\ UNCHANGED <<fileVars, cur, lastSavedLSN, base, pc, iterVars, promised, crashes>>

(* Mutant: the full page is not written before its block is left. *)
AppendFlush_Skipped ==
  /\ stage = "flush"
  /\ stage' = "append"
  /\ UNCHANGED <<fileVars, memVars, base, mu, pc, iterVars, promised, crashes>>

AppendFlush ==
  /\ stage = "flush"
  /\ flush
  /\ stage' = "append"
  /\ UNCHANGED <<page, cur, latestLSN, base, mu, pc, iterVars, promised, crashes>>

(* appendNewBlock, also called by NewLogManager for an empty file *)
AppendBlock ==
  /\ stage = "append"
  /\ disk' = Append(disk, ZeroPage)
  /\ stage' = "header"
  /\ UNCHANGED <<memVars, base, mu, pc, iterVars, promised, crashes>>

SetHeader ==
  /\ stage = "header"
  /\ page' = [page EXCEPT !.boundary = BlockSize]
  /\ stage' = "write"
  /\ UNCHANGED <<fileVars, cur, latestLSN, lastSavedLSN, base, mu, pc, iterVars, promised,
                 crashes>>

WriteBlock ==
  /\ stage = "write"
  /\ disk' = [disk EXCEPT ![Len(disk)] = page]
  /\ cur' = Len(disk)
  /\ IF mu = Boot THEN mu' = Free /\ stage' = "idle" ELSE mu' = mu /\ stage' = "put"
  /\ UNCHANGED <<page, latestLSN, lastSavedLSN, base, pc, iterVars, promised, crashes>>

AppendPut ==
  /\ stage = "put"
  /\ PutRecord
  /\ mu' = Free /\ stage' = "idle"
  /\ UNCHANGED <<fileVars, cur, lastSavedLSN, base, pc, iterVars, promised, crashes>>

(* a call of the file manager fails: Append returns the error, and has set  *)
(* currentBlock to nil if it was one of appendNewBlock's                     *)
AppendFails ==
  /\ mu # Boot
  /\ \/ stage \in {"flush", "write"} /\ "write" \in Faults
     \/ stage = "append" /\ "append" \in Faults
  /\ cur' = IF stage = "flush" THEN cur ELSE 0
  /\ mu' = Free /\ stage' = "idle"
  /\ UNCHANGED <<fileVars, page, latestLSN, lastSavedLSN, base, pc, iterVars, promised,
                 crashes>>

(***************************************************************************)
(* Flush: for a commit record, or for a page about to be written, whose     *)
(* last record may be older than the latest one                             *)
(***************************************************************************)
Flush(p, lsn) ==
  /\ pc[p] = "idle" /\ mu = Free
  /\ IF lsn >= lastSavedLSN THEN flush ELSE UNCHANGED <<disk, lastSavedLSN>>
  /\ promised' = IF base + lsn > promised THEN base + lsn ELSE promised
  /\ UNCHANGED <<page, cur, latestLSN, base, lockVars, pc, iterVars, crashes>>

----------------------------------------------------------------------------
(* Manager.Iterator: the flush, without the mutex, then NewIterator *)

IteratorWrite(p) ==
  /\ pc[p] = "idle" /\ (Overlap \/ mu = Free) /\ Undisturbed
  /\ mu # Boot /\ cur # 0
  /\ WritePage
  /\ pc' = [pc EXCEPT ![p] = "written"]
  /\ UNCHANGED <<memVars, base, lockVars, iterVars, promised, crashes>>

IteratorSave(p) ==
  /\ pc[p] = "written"
  /\ lastSavedLSN' = latestLSN
  /\ pc' = [pc EXCEPT ![p] = "saved"]
  /\ UNCHANGED <<fileVars, page, cur, latestLSN, base, lockVars, iterVars, promised, crashes>>

(* Mutant: a block's last record is passed over. *)
moveToBlock_Skips(k) == [blk |-> k, pos |-> disk[k].boundary + 1, page |-> disk[k]]

moveToBlock(k) == [blk |-> k, pos |-> disk[k].boundary, page |-> disk[k]]

NewIterator(p) ==
  /\ pc[p] = "saved"
  /\ cur # 0
  /\ it' = [it EXCEPT ![p] = moveToBlock(cur)]
  /\ from' = [from EXCEPT ![p] = Cardinality(OnDisk)]
  /\ pc' = [pc EXCEPT ![p] = "iterating"]
  /\ UNCHANGED <<fileVars, memVars, base, lockVars, seen, promised, crashes>>

(* Iterator.HasNext, and where Next will read *)
HasNext(i) == i.pos < BlockSize \/ i.blk > 1
Positioned(i) == IF i.pos = BlockSize THEN moveToBlock(i.blk - 1) ELSE i

IteratorNext(p) ==
  /\ pc[p] = "iterating"
  /\ HasNext(it[p])
  /\ LET i == Positioned(it[p]) IN
       /\ i.pos < BlockSize   \* otherwise GetBytes panics
       /\ seen' = [seen EXCEPT ![p] = Append(@, i.page.rec[i.pos])]
       /\ it' = [it EXCEPT ![p] = [i EXCEPT !.pos = @ + 1]]
  /\ UNCHANGED <<fileVars, memVars, base, lockVars, pc, from, promised, crashes>>

(* the caller has seen enough; the Iterator has nothing to close *)
IteratorDrop(p) ==
  /\ pc[p] = "iterating"
  /\ pc' = [pc EXCEPT ![p] = "idle"]
  /\ it' = [it EXCEPT ![p] = NoIterator]
  /\ seen' = [seen EXCEPT ![p] = <<>>]
  /\ from' = [from EXCEPT ![p] = 0]
  /\ UNCHANGED <<fileVars, memVars, base, lockVars, promised, crashes>>

----------------------------------------------------------------------------
(* A crash, and NewLogManager in the next process *)

(* Mutant: the last block is taken for an empty one. *)
ReadLastBlock_Fresh ==
  /\ page' = [ZeroPage EXCEPT !.boundary = BlockSize]
  /\ cur' = Len(disk)

ReadLastBlock == page' = disk[Len(disk)] /\ cur' = Len(disk)

NewLogManager ==
  /\ latestLSN' = 0 /\ lastSavedLSN' = 0
  /\ base' = Cardinality(OnDisk)
  /\ IF disk = <<>>
       THEN page' = ZeroPage /\ cur' = 0 /\ mu' = Boot /\ stage' = "append"
       ELSE ReadLastBlock /\ mu' = Free /\ stage' = "idle"

Crash ==
  /\ crashes < MaxCrashes
  /\ crashes' = crashes + 1
  /\ NewLogManager
  /\ pc' = [p \in Procs |-> "idle"]
  /\ it' = [p \in Procs |-> NoIterator]
  /\ seen' = [p \in Procs |-> <<>>]
  /\ from' = [p \in Procs |-> 0]
  /\ UNCHANGED <<fileVars, promised>>

----------------------------------------------------------------------------
Next ==
  \/ \E p \in Procs :
       \/ Append_(p)
       \/ \E lsn \in -1..latestLSN : Flush(p, lsn)
       \/ IteratorWrite(p) \/ IteratorSave(p) \/ NewIterator(p)
       \/ IteratorNext(p) \/ IteratorDrop(p)
  \/ AppendFlush \/ AppendBlock \/ SetHeader \/ WriteBlock \/ AppendPut \/ AppendFails
  \/ Crash

Spec == Init /\ [][Next]_vars

----------------------------------------------------------------------------
(* Every variable has its type; the header of a page holds no record. *)
IsPage(pg) ==
  /\ pg.boundary \in 0..BlockSize
  /\ DOMAIN pg.rec = 0..PageSize
  /\ pg.rec[0] = Junk /\ \A i \in 1..PageSize : pg.rec[i] \in 0..MaxRecords

TypeOK ==
  /\ \A k \in 1..Len(disk) : IsPage(disk[k])
  /\ IsPage(page) /\ cur \in 0..Len(disk)
  /\ latestLSN \in 0..MaxRecords /\ lastSavedLSN \in 0..latestLSN
  /\ base \in 0..MaxRecords /\ promised \in 0..MaxRecords
  /\ mu \in Procs \cup {Free, Boot}
  /\ stage \in {"idle", "flush", "append", "header", "write", "put"}
  /\ pc \in [Procs -> {"idle", "written", "saved", "iterating"}]
  /\ \A p \in Procs : it[p].blk \in 0..Len(disk) /\ it[p].pos \in 0..BlockSize

(***************************************************************************)
(* A record that a Flush has returned for is on disk for good, although     *)
(* Flush looks at two counters only: what is committed, and what the        *)
(* write-ahead rule needs, survives the changes of block and the crashes.   *)
(***************************************************************************)
FlushedIsDurable == 1..promised \subseteq OnDisk

(***************************************************************************)
(* An Iterator returns the records that were in the log when it was made,   *)
(* every one once and the newest first, while others append and flush; and  *)
(* when it says that there is a next one, there is.  (The zeros of a block  *)
(* that a crash has left without a header come back as empty records.)      *)
(***************************************************************************)
Returned(p) == {k \in 1..Len(seen[p]) : seen[p][k] # Junk}
Remaining(p) == from[p] - Cardinality(Returned(p))

IteratorReturnsLog ==
  \A p \in Procs : pc[p] = "iterating" =>
    /\ \A k \in Returned(p) :
         seen[p][k] = from[p] - Cardinality({i \in Returned(p) : i < k})
    /\ IF HasNext(it[p]) THEN Positioned(it[p]).pos < BlockSize
                         ELSE Remaining(p) = 0

(***************************************************************************)
(* "The beginning of the buffer contains the location of the last-written   *)
(* record (the "boundary")": so it has to be in the page that a process     *)
(* begins with.                                                             *)
(***************************************************************************)
RestartFindsBoundary == mu # Boot => page.boundary # 0

(* The page, its blocks and the two counters implement a durable log. *)
Log == INSTANCE DurableLog
         WITH appended <- base + latestLSN, durable <- Cardinality(OnDisk)

ImplementsDurableLog == Log!Spec
=============================================================================
