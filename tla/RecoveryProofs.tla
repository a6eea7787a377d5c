--------------------------- MODULE RecoveryProofs ---------------------------
(***************************************************************************)
(* The safety properties of Recovery, for every set of blocks and values,  *)
(* every number of transactions and updates, any number of crashes, and    *)
(* crashes in recovery too.                                                *)
(***************************************************************************)
EXTENDS Recovery, SequenceTheorems, WellFoundedInduction, TLAPS

(***************************************************************************)
(* The inductive invariant has two parts.  The first holds in every        *)
(* behaviour, whatever becomes of the data.                                *)
(***************************************************************************)
Records == [op : {"set", "commit", "rollback", "checkpoint"}, tx : Txs,
            blk : Blocks \cup {NoBlock}, val : Values \cup {NoValue}]

(* The log is a sequence of records, and all positions are in it. *)
LogTyped ==
  /\ log \in Seq(Records)
  /\ \A i \in 1..Len(log) :
       log[i].op = "set" => log[i].blk \in Blocks /\ log[i].val \in Values
  /\ \A t \in Txs : pos[t] <= Len(log)
  /\ \A b \in Blocks : lsn[b] <= Len(log)

(* Nobody begins before transaction 1 has done its work, and it alone       *)
(* recovers.                                                               *)
RestartFirst ==
  /\ pc[1] # "done" => \A t \in Txs \ {1} : pc[t] = "none"
  /\ pc[1] \notin {"none", "logged", "undo", "stuck"} /\ kind[1] # "rollback"
  /\ pc[1] = "recover" => kind[1] = "checkpoint"
  /\ pc[1] = "release" => kind[1] = "commit"
  /\ \A t \in Txs \ {1} : pc[t] # "recover" /\ kind[t] # "checkpoint"
  /\ \A t \in Txs : t >= nextTx => pc[t] = "none"

(* Between its log record and the page, a Set* has the lock. *)
LoggedIsLocked ==
  \A t \in Txs : pc[t] = "logged" => blk[t] \in Blocks /\ xlock[blk[t]] = t

(* No page is left to be written for a transaction after its FlushAll. *)
FlushedIsClean ==
  \A t \in Txs, b \in Blocks :
    pc[t] \in {"none", "flushed", "appended", "release", "done"} => dirty[b] # t

CleanIsWritten == \A b \in Blocks : dirty[b] = Nobody => disk[b] = mem[b]

LockInv ==
  /\ TypeOK /\ LogTyped /\ RestartFirst
  /\ LoggedIsLocked /\ FlushedIsClean /\ CleanIsWritten /\ DirtyIsLocked

USE RecoveryAssumption DEF Txs, Nobody, logVars, dataVars, txVars, At, Goto

----------------------------------------------------------------------------
LEMMA InitLockInv == Init => LockInv
<1> SUFFICES ASSUME Init PROVE LockInv OBVIOUS
<1>1. log \in Seq(Records) /\ Len(log) = 1 /\ log[1] = EndRecord("commit", 1)
  BY DEF Init, Records, EndRecord
<1>2. TypeOK BY <1>1 DEF Init, TypeOK, Control, EndRecord
<1>3. LogTyped BY <1>1 DEF Init, LogTyped, EndRecord
<1> QED
  BY <1>2, <1>3 DEF Init, LockInv, RestartFirst, LoggedIsLocked, FlushedIsClean,
                    CleanIsWritten, DirtyIsLocked

(* What the log is after an append *)
LEMMA Appended ==
  ASSUME LogTyped, NEW r \in Records, log' = Append(log, r)
  PROVE  /\ log' \in Seq(Records) /\ Len(log') = Len(log) + 1
         /\ \A i \in 1..Len(log) : log'[i] = log[i]
         /\ log'[Len(log) + 1] = r
BY AppendProperties DEF LogTyped

(* The types of the variables that a flush of buffers changes *)
LEMMA FlushTyped ==
  ASSUME LockInv, log' = log, NEW D \in SUBSET Blocks, FlushBuffers(D)
  PROVE  /\ saved' \in 0..Len(log')
         /\ stable' \in [Blocks -> Values] /\ disk' \in [Blocks -> Values]
         /\ dirty' \in [Blocks -> Txs \cup {Nobody}]
<1> USE DEF LockInv, TypeOK
<1>1. Len(log) \in Nat BY DEF LogTyped
<1>2. SaveLog \/ UNCHANGED <<saved, stable>> BY DEF FlushBuffers, Flush
<1>3. saved' \in 0..Len(log') BY <1>1, <1>2 DEF SaveLog
<1>4. stable' \in [Blocks -> Values] BY <1>2 DEF SaveLog
<1> QED BY <1>3, <1>4 DEF FlushBuffers

(* A set of positions has a least and a latest member. *)
LEMMA LeastExists ==
  ASSUME NEW S, S \subseteq Nat, S # {}
  PROVE  \E i \in S : \A j \in S : i <= j
<1> DEFINE R == OpToRel(<, Nat)
<1>1. IsWellFoundedOn(R, Nat) BY NatLessThanWellFounded
<1>2. \A i, j \in Nat : j < i => <<j, i>> \in R BY DEF OpToRel
<1> HIDE DEF R
<1>3. PICK i \in S : \A j \in S : <<j, i>> \notin R BY <1>1, WFMin
<1>4. \A j \in S : ~(j < i) BY <1>2, <1>3
<1> QED BY <1>4

LEMMA LatestExists ==
  ASSUME NEW n \in Nat, NEW I \in SUBSET (1..n), I # {}
  PROVE  Latest(I) \in I /\ \A j \in I : j <= Latest(I)
<1> DEFINE S == {n - i : i \in I}
<1>1. \A i \in I : i \in Nat /\ i <= n OBVIOUS
<1>2. S \subseteq Nat /\ S # {}
  <2>1. \A i \in I : n - i \in Nat BY <1>1
  <2> QED BY <2>1
<1>3. PICK m \in S : \A k \in S : m <= k BY <1>2, LeastExists
<1>4. PICK i \in I : m = n - i BY <1>3
<1>5. ASSUME NEW j \in I PROVE j <= i
  <2>1. n - j \in S OBVIOUS
  <2>2. n - i <= n - j BY <1>3, <1>4, <2>1
  <2> QED BY <1>1, <2>2
<1> QED BY <1>4, <1>5 DEF Latest

(* The record that a rollback comes to next *)
LEMMA NextToUndo ==
  ASSUME LockInv, NEW t \in Txs, ToUndo(t) # {}, NEW i, i = Latest(ToUndo(t))
  PROVE  /\ i \in 1..pos[t] /\ i \in 1..Len(log)
         /\ log[i].op = "set" /\ log[i].tx = t
         /\ log[i].blk \in Blocks /\ log[i].val \in Values
         /\ \A j \in 1..pos[t] : isUpdateOf(log[j], t) => j <= i
<1>1. pos[t] \in Nat /\ pos[t] <= Len(log) /\ Len(log) \in Nat
  BY DEF LockInv, TypeOK, LogTyped
<1>2. ToUndo(t) \in SUBSET (1..pos[t]) BY DEF ToUndo
<1>3. i \in ToUndo(t) /\ \A j \in ToUndo(t) : j <= i BY <1>1, <1>2, LatestExists
<1>4. i \in 1..pos[t] /\ isUpdateOf(log[i], t) BY <1>3 DEF ToUndo
<1> QED BY <1>1, <1>3 DEF ToUndo, isUpdateOf, TxNumber, LockInv, LogTyped

(* The record that recovery comes to next *)
LEMMA NextToRecover ==
  ASSUME LockInv, NEW r, pos[1] > 0, r = log[pos[1]]
  PROVE  /\ pos[1] \in 1..Len(log) /\ r \in Records
         /\ r.op = "set" => r.blk \in Blocks /\ r.val \in Values
         /\ TxNumber(r) \in Txs \cup {RollbackOp, -1}
         /\ Finishes(r) => TxNumber(r) \in Txs \cup {RollbackOp}
<1>1. pos[1] \in 1..Len(log) BY DEF LockInv, TypeOK, LogTyped
<1>2. r \in Records BY <1>1 DEF LockInv, LogTyped
<1> QED BY <1>1, <1>2 DEF LockInv, LogTyped, TxNumber, Finishes, Records

LEMMA NextLockInv == LockInv /\ [Next]_vars => LockInv'
<1> SUFFICES ASSUME LockInv, [Next]_vars PROVE LockInv' OBVIOUS
<1> USE DEF LockInv
<1>1. ASSUME NEW t \in Txs, Begin(t) PROVE LockInv'
  <2>1. TypeOK' BY <1>1 DEF Begin, TypeOK, Control
  <2>2. LogTyped' BY <1>1 DEF Begin, TypeOK, LogTyped
  <2>3. RestartFirst' BY <1>1 DEF Begin, TypeOK, RestartFirst
  <2>4. LoggedIsLocked' /\ DirtyIsLocked'
    BY <1>1 DEF Begin, TypeOK, LoggedIsLocked, DirtyIsLocked, FlushedIsClean
  <2>5. FlushedIsClean' BY <1>1 DEF Begin, TypeOK, FlushedIsClean, DirtyIsLocked
  <2>6. CleanIsWritten' BY <1>1 DEF Begin, TypeOK, CleanIsWritten
  <2> QED BY <2>1, <2>2, <2>3, <2>4, <2>5, <2>6
<1>2. ASSUME NEW t \in Txs, NEW b \in Blocks, StartSet(t, b) PROVE LockInv'
  <2>1. TypeOK' BY <1>2 DEF StartSet, SetRecord, TypeOK, Control
  <2>2. LogTyped'
    <3>1. SetRecord(t, b, mem[b]) \in Records BY DEF SetRecord, Records, TypeOK
    <3>2. /\ log' \in Seq(Records) /\ Len(log') = Len(log) + 1
          /\ \A i \in 1..Len(log) : log'[i] = log[i]
          /\ log'[Len(log) + 1] = SetRecord(t, b, mem[b])
      BY <1>2, <3>1, Appended DEF StartSet
    <3>3. \A i \in 1..Len(log') :
            log'[i].op = "set" => log'[i].blk \in Blocks /\ log'[i].val \in Values
      <4>1. /\ log'[Len(log) + 1].blk \in Blocks
            /\ log'[Len(log) + 1].val \in Values
        BY <3>2 DEF SetRecord, TypeOK
      <4> QED BY <3>2, <4>1 DEF LogTyped
    <3>4. Len(log) \in Nat BY DEF LogTyped
    <3>5. \A u \in Txs : pos'[u] <= Len(log')
      <4>1. pos' = [pos EXCEPT ![t] = Len(log) + 1] BY <1>2 DEF StartSet
      <4>2. \A u \in Txs : pos[u] \in Nat /\ pos[u] <= Len(log) BY DEF TypeOK, LogTyped
      <4> QED BY <3>4, <3>2, <4>1, <4>2 DEF TypeOK
    <3>6. \A c \in Blocks : lsn'[c] <= Len(log')
      <4>1. \A c \in Blocks : lsn[c] \in Int /\ lsn[c] <= Len(log) BY DEF TypeOK, LogTyped
      <4> QED BY <1>2, <3>4, <3>2, <4>1 DEF StartSet
    <3> QED BY <3>2, <3>3, <3>5, <3>6 DEF LogTyped
  <2>3. RestartFirst' BY <1>2 DEF StartSet, SetRecord, TypeOK, RestartFirst
  <2>4. LoggedIsLocked' /\ DirtyIsLocked'
    BY <1>2 DEF StartSet, SetRecord, TypeOK, LoggedIsLocked, DirtyIsLocked, FlushedIsClean
  <2>5. FlushedIsClean'
    BY <1>2 DEF StartSet, SetRecord, TypeOK, FlushedIsClean, DirtyIsLocked
  <2>6. CleanIsWritten' BY <1>2 DEF StartSet, SetRecord, TypeOK, CleanIsWritten
  <2> QED BY <2>1, <2>2, <2>3, <2>4, <2>5, <2>6
<1>3. ASSUME NEW t \in Txs, NEW v \in Values, SetPage(t, v) PROVE LockInv'
  <2>1. TypeOK' BY <1>3 DEF SetPage, WritePage, TypeOK, Control
  <2>2. LogTyped' BY <1>3 DEF SetPage, WritePage, TypeOK, LogTyped
  <2>3. RestartFirst' BY <1>3 DEF SetPage, WritePage, TypeOK, RestartFirst
  <2>4. LoggedIsLocked' /\ DirtyIsLocked'
    BY <1>3 DEF SetPage, WritePage, TypeOK, LoggedIsLocked, DirtyIsLocked, FlushedIsClean
  <2>5. FlushedIsClean'
    BY <1>3 DEF SetPage, WritePage, TypeOK, FlushedIsClean, DirtyIsLocked
  <2>6. CleanIsWritten' BY <1>3 DEF SetPage, WritePage, TypeOK, CleanIsWritten
  <2> QED BY <2>1, <2>2, <2>3, <2>4, <2>5, <2>6
<1>4. ASSUME NEW t \in Txs, StartCommit(t) PROVE LockInv'
  <2>1. TypeOK' BY <1>4 DEF StartCommit, TypeOK, Control
  <2>2. LogTyped' BY <1>4 DEF StartCommit, TypeOK, LogTyped
  <2>3. RestartFirst' BY <1>4 DEF StartCommit, TypeOK, RestartFirst
  <2>4. LoggedIsLocked' /\ DirtyIsLocked'
    BY <1>4 DEF StartCommit, TypeOK, LoggedIsLocked, DirtyIsLocked, FlushedIsClean
  <2>5. FlushedIsClean' BY <1>4 DEF StartCommit, TypeOK, FlushedIsClean, DirtyIsLocked
  <2>6. CleanIsWritten' BY <1>4 DEF StartCommit, TypeOK, CleanIsWritten
  <2> QED BY <2>1, <2>2, <2>3, <2>4, <2>5, <2>6
<1>5. ASSUME NEW t \in Txs, FlushAll(t) PROVE LockInv'
  <2>1. FlushBuffers({c \in Blocks : dirty[c] = t}) /\ {c \in Blocks : dirty[c] = t} \in SUBSET Blocks
    BY <1>5 DEF FlushAll
  <2>2. TypeOK' BY <1>5, <2>1, FlushTyped DEF FlushAll, TypeOK, Control
  <2>3. LogTyped' BY <1>5 DEF FlushAll, TypeOK, LogTyped
  <2>4. RestartFirst' BY <1>5 DEF FlushAll, TypeOK, RestartFirst
  <2>5. LoggedIsLocked' /\ DirtyIsLocked'
    BY <1>5, <2>1
       DEF FlushAll, FlushBuffers, TypeOK, LoggedIsLocked, DirtyIsLocked, FlushedIsClean
  <2>6. FlushedIsClean'
    BY <1>5, <2>1 DEF FlushAll, FlushBuffers, TypeOK, FlushedIsClean, DirtyIsLocked
  <2>7. CleanIsWritten' BY <1>5, <2>1 DEF FlushAll, FlushBuffers, TypeOK, CleanIsWritten
  <2> QED BY <2>2, <2>3, <2>4, <2>5, <2>6, <2>7
<1>6. ASSUME NEW t \in Txs, AppendLast(t) PROVE LockInv'
  <2>1. TypeOK'
    <3>1. EndRecord(kind[t], t) \in Records BY DEF TypeOK, EndRecord, Records
    <3>2. /\ log' \in Seq(Records) /\ Len(log) \in Nat /\ Len(log') = Len(log) + 1
      BY <1>6, <3>1, Appended DEF AppendLast, LogTyped
    <3>3. \A i \in 1..Len(log') : log'[i] \in Records BY <3>2
    <3>4. saved' \in 0..Len(log') BY <1>6, <3>2 DEF AppendLast, TypeOK
    <3>5. pc' \in [Txs -> Control] /\ pos' \in [Txs -> Nat]
      BY <1>6, <3>2 DEF AppendLast, TypeOK, Control
    <3> QED BY <1>6, <3>3, <3>4, <3>5 DEF AppendLast, TypeOK, Records
  <2>2. LogTyped'
    <3>1. EndRecord(kind[t], t) \in Records BY DEF EndRecord, Records, TypeOK
    <3>2. /\ log' \in Seq(Records) /\ Len(log') = Len(log) + 1
          /\ \A i \in 1..Len(log) : log'[i] = log[i]
          /\ log'[Len(log) + 1].op # "set"
      <4>1. EndRecord(kind[t], t).op # "set" BY DEF EndRecord, TypeOK
      <4> QED BY <1>6, <3>1, <4>1, Appended DEF AppendLast
    <3>3. \A i \in 1..Len(log') :
            log'[i].op = "set" => log'[i].blk \in Blocks /\ log'[i].val \in Values
      BY <3>2 DEF LogTyped
    <3>4. \A u \in Txs : pos'[u] <= Len(log') BY <1>6, <3>2 DEF AppendLast, TypeOK, LogTyped
    <3>5. \A c \in Blocks : lsn'[c] <= Len(log')
      BY <1>6 DEF AppendLast, TypeOK, LogTyped
    <3> QED BY <3>2, <3>3, <3>4, <3>5 DEF LogTyped
  <2>3. RestartFirst' BY <1>6 DEF AppendLast, EndRecord, TypeOK, RestartFirst
  <2>4. LoggedIsLocked' /\ DirtyIsLocked'
    BY <1>6 DEF AppendLast, EndRecord, TypeOK, LoggedIsLocked, DirtyIsLocked, FlushedIsClean
  <2>5. FlushedIsClean'
    BY <1>6 DEF AppendLast, EndRecord, TypeOK, FlushedIsClean, DirtyIsLocked
  <2>6. CleanIsWritten' BY <1>6 DEF AppendLast, EndRecord, TypeOK, CleanIsWritten
  <2> QED BY <2>1, <2>2, <2>3, <2>4, <2>5, <2>6
<1>7. ASSUME NEW t \in Txs, FlushLast(t) PROVE LockInv'
  <2>1. TypeOK' BY <1>7 DEF FlushLast, Flush, SaveLog, TypeOK, Control
  <2>2. LogTyped' BY <1>7 DEF FlushLast, Flush, SaveLog, TypeOK, LogTyped
  <2>3. RestartFirst' BY <1>7 DEF FlushLast, Flush, SaveLog, TypeOK, RestartFirst
  <2>4. LoggedIsLocked' /\ DirtyIsLocked'
    BY <1>7
       DEF FlushLast, Flush, SaveLog, TypeOK, LoggedIsLocked, DirtyIsLocked, FlushedIsClean
  <2>5. FlushedIsClean'
    BY <1>7 DEF FlushLast, Flush, SaveLog, TypeOK, FlushedIsClean, DirtyIsLocked
  <2>6. CleanIsWritten' BY <1>7 DEF FlushLast, Flush, SaveLog, TypeOK, CleanIsWritten
  <2> QED BY <2>1, <2>2, <2>3, <2>4, <2>5, <2>6
<1>8. ASSUME NEW t \in Txs, Release(t) PROVE LockInv'
  <2>1. TypeOK' BY <1>8 DEF Release, TypeOK, Control
  <2>2. LogTyped' BY <1>8 DEF Release, TypeOK, LogTyped
  <2>3. RestartFirst' BY <1>8 DEF Release, TypeOK, RestartFirst
  <2>4. LoggedIsLocked' /\ DirtyIsLocked'
    BY <1>8 DEF Release, TypeOK, LoggedIsLocked, DirtyIsLocked, FlushedIsClean
  <2>5. FlushedIsClean' BY <1>8 DEF Release, TypeOK, FlushedIsClean, DirtyIsLocked
  <2>6. CleanIsWritten' BY <1>8 DEF Release, TypeOK, CleanIsWritten
  <2> QED BY <2>1, <2>2, <2>3, <2>4, <2>5, <2>6
<1>9. ASSUME NEW t \in Txs, StartRollback(t) PROVE LockInv'
  <2>1. TypeOK' BY <1>9 DEF StartRollback, SaveLog, TypeOK, Control
  <2>2. LogTyped' BY <1>9 DEF StartRollback, SaveLog, TypeOK, LogTyped
  <2>3. RestartFirst' BY <1>9 DEF StartRollback, SaveLog, TypeOK, RestartFirst
  <2>4. LoggedIsLocked' /\ DirtyIsLocked'
    BY <1>9
       DEF StartRollback, SaveLog, TypeOK, LoggedIsLocked, DirtyIsLocked, FlushedIsClean
  <2>5. FlushedIsClean'
    BY <1>9 DEF StartRollback, SaveLog, TypeOK, FlushedIsClean, DirtyIsLocked
  <2>6. CleanIsWritten' BY <1>9 DEF StartRollback, SaveLog, TypeOK, CleanIsWritten
  <2> QED BY <2>1, <2>2, <2>3, <2>4, <2>5, <2>6
<1>10. ASSUME NEW t \in Txs, UndoNext(t) PROVE LockInv'
  <2> DEFINE i == Latest(ToUndo(t))
  <2>1. /\ i \in 1..pos[t] /\ log[i].blk \in Blocks /\ log[i].val \in Values
        /\ xlock[log[i].blk] \in {Nobody, t}
        /\ mem' = [mem EXCEPT ![log[i].blk] = log[i].val]
        /\ dirty' = [dirty EXCEPT ![log[i].blk] = t]
        /\ xlock' = [xlock EXCEPT ![log[i].blk] = t]
        /\ pos' = [pos EXCEPT ![t] = i - 1]
    BY <1>10, NextToUndo DEF UndoNext, Undo, WritePage
  <2> HIDE DEF i
  <2>2. TypeOK' BY <1>10, <2>1 DEF UndoNext, TypeOK, Control
  <2>3. LogTyped' BY <1>10, <2>1 DEF UndoNext, TypeOK, LogTyped
  <2>4. RestartFirst' BY <1>10 DEF UndoNext, TypeOK, RestartFirst
  <2>5. LoggedIsLocked' /\ DirtyIsLocked'
    BY <1>10, <2>1 DEF UndoNext, TypeOK, LoggedIsLocked, DirtyIsLocked
  <2>6. FlushedIsClean' BY <1>10, <2>1 DEF UndoNext, TypeOK, FlushedIsClean
  <2>7. CleanIsWritten' BY <1>10, <2>1 DEF UndoNext, TypeOK, CleanIsWritten
  <2> QED BY <2>2, <2>3, <2>4, <2>5, <2>6, <2>7
<1>11. ASSUME NEW t \in Txs, UndoFails(t) PROVE LockInv'
  <2>1. TypeOK' BY <1>11 DEF UndoFails, TypeOK, Control
  <2>2. LogTyped' BY <1>11 DEF UndoFails, TypeOK, LogTyped
  <2>3. RestartFirst' BY <1>11 DEF UndoFails, TypeOK, RestartFirst
  <2>4. LoggedIsLocked' /\ DirtyIsLocked'
    BY <1>11 DEF UndoFails, TypeOK, LoggedIsLocked, DirtyIsLocked, FlushedIsClean
  <2>5. FlushedIsClean' BY <1>11 DEF UndoFails, TypeOK, FlushedIsClean, DirtyIsLocked
  <2>6. CleanIsWritten' BY <1>11 DEF UndoFails, TypeOK, CleanIsWritten
  <2> QED BY <2>1, <2>2, <2>3, <2>4, <2>5, <2>6
<1>12. ASSUME NEW t \in Txs, UndoDone(t) PROVE LockInv'
  <2>1. TypeOK' BY <1>12 DEF UndoDone, TypeOK, Control
  <2>2. LogTyped' BY <1>12 DEF UndoDone, TypeOK, LogTyped
  <2>3. RestartFirst' BY <1>12 DEF UndoDone, TypeOK, RestartFirst
  <2>4. LoggedIsLocked' /\ DirtyIsLocked'
    BY <1>12 DEF UndoDone, TypeOK, LoggedIsLocked, DirtyIsLocked, FlushedIsClean
  <2>5. FlushedIsClean' BY <1>12 DEF UndoDone, TypeOK, FlushedIsClean, DirtyIsLocked
  <2>6. CleanIsWritten' BY <1>12 DEF UndoDone, TypeOK, CleanIsWritten
  <2> QED BY <2>1, <2>2, <2>3, <2>4, <2>5, <2>6
<1>13. ASSUME RecoverNext PROVE LockInv'
  <2> DEFINE r == log[pos[1]]
  <2>1. /\ pos[1] \in 1..Len(log) /\ pos[1] - 1 \in Nat
        /\ pos' = [pos EXCEPT ![1] = pos[1] - 1]
        /\ done' \subseteq Txs \cup {RollbackOp}
        /\ \/ UNCHANGED <<mem, dirty, xlock>>
           \/ /\ r.blk \in Blocks /\ r.val \in Values
              /\ mem' = [mem EXCEPT ![r.blk] = r.val]
              /\ dirty' = [dirty EXCEPT ![r.blk] = 1]
              /\ xlock' = [xlock EXCEPT ![r.blk] = 1]
    <3>1. /\ pos[1] \in 1..Len(log) /\ pos[1] - 1 \in Nat
          /\ r.op = "set" => r.blk \in Blocks /\ r.val \in Values
          /\ Finishes(r) => TxNumber(r) \in Txs \cup {RollbackOp}
      BY <1>13, NextToRecover DEF RecoverNext
    <3>2. done' \subseteq Txs \cup {RollbackOp} BY <1>13, <3>1 DEF RecoverNext, TypeOK
    <3>3. pos' = [pos EXCEPT ![1] = pos[1] - 1] BY <1>13 DEF RecoverNext
    <3>4. CASE MustUndo(r, done)
      BY <1>13, <3>1, <3>2, <3>3, <3>4 DEF RecoverNext, MustUndo, Undo, WritePage
    <3>5. CASE ~MustUndo(r, done) BY <1>13, <3>1, <3>2, <3>3, <3>5 DEF RecoverNext
    <3> QED BY <3>4, <3>5
  <2> HIDE DEF r
  <2>2. TypeOK'
    <3>1. mem' \in [Blocks -> Values] BY <2>1 DEF TypeOK
    <3>2. dirty' \in [Blocks -> Txs \cup {Nobody}]
      <4>1. dirty \in [Blocks -> Txs \cup {Nobody}] /\ 1 \in Txs BY DEF TypeOK
      <4> QED BY <2>1, <4>1
    <3>3. xlock' \in [Blocks -> Txs \cup {Nobody}]
      <4>1. xlock \in [Blocks -> Txs \cup {Nobody}] /\ 1 \in Txs BY DEF TypeOK
      <4> QED BY <2>1, <4>1
    <3>4. pos' \in [Txs -> Nat] BY <2>1 DEF TypeOK
    <3> QED BY <1>13, <2>1, <3>1, <3>2, <3>3, <3>4 DEF RecoverNext, TypeOK
  <2>3. LogTyped' BY <1>13, <2>1 DEF RecoverNext, TypeOK, LogTyped
  <2>4. RestartFirst' BY <1>13 DEF RecoverNext, TypeOK, RestartFirst
  <2>5. LoggedIsLocked' /\ DirtyIsLocked'
    <3>1. \A t \in Txs : t # 1 => pc[t] = "none" BY <1>13 DEF RecoverNext, RestartFirst
    <3>2. \A b \in Blocks : dirty[b] \in {1, Nobody}
      BY <3>1 DEF FlushedIsClean, TypeOK
    <3>3. LoggedIsLocked' BY <1>13, <3>1 DEF RecoverNext, LoggedIsLocked
    <3>4. DirtyIsLocked' BY <2>1, <3>2 DEF DirtyIsLocked, TypeOK
    <3> QED BY <3>3, <3>4
  <2>6. FlushedIsClean' BY <1>13, <2>1 DEF RecoverNext, TypeOK, FlushedIsClean
  <2>7. CleanIsWritten' BY <1>13, <2>1 DEF RecoverNext, TypeOK, CleanIsWritten
  <2> QED BY <2>2, <2>3, <2>4, <2>5, <2>6, <2>7
<1>14. ASSUME RecoverDone PROVE LockInv'
  <2>1. TypeOK' BY <1>14 DEF RecoverDone, TypeOK, Control
  <2>2. LogTyped' BY <1>14 DEF RecoverDone, TypeOK, LogTyped
  <2>3. RestartFirst' BY <1>14 DEF RecoverDone, TypeOK, RestartFirst
  <2>4. LoggedIsLocked' /\ DirtyIsLocked'
    BY <1>14 DEF RecoverDone, TypeOK, LoggedIsLocked, DirtyIsLocked, FlushedIsClean
  <2>5. FlushedIsClean' BY <1>14 DEF RecoverDone, TypeOK, FlushedIsClean, DirtyIsLocked
  <2>6. CleanIsWritten' BY <1>14 DEF RecoverDone, TypeOK, CleanIsWritten
  <2> QED BY <2>1, <2>2, <2>3, <2>4, <2>5, <2>6
<1>15. ASSUME NEW b \in Blocks, Evict(b) PROVE LockInv'
  <2>1. FlushBuffers({b}) /\ {b} \in SUBSET Blocks BY <1>15 DEF Evict
  <2>2. TypeOK' BY <1>15, <2>1, FlushTyped DEF Evict, TypeOK, Control
  <2>3. LogTyped' BY <1>15 DEF Evict, TypeOK, LogTyped
  <2>4. RestartFirst' BY <1>15 DEF Evict, TypeOK, RestartFirst
  <2>5. LoggedIsLocked' /\ DirtyIsLocked'
    BY <1>15, <2>1
       DEF Evict, FlushBuffers, TypeOK, LoggedIsLocked, DirtyIsLocked, FlushedIsClean
  <2>6. FlushedIsClean'
    BY <1>15, <2>1 DEF Evict, FlushBuffers, TypeOK, FlushedIsClean, DirtyIsLocked
  <2>7. CleanIsWritten' BY <1>15, <2>1 DEF Evict, FlushBuffers, TypeOK, CleanIsWritten
  <2> QED BY <2>2, <2>3, <2>4, <2>5, <2>6, <2>7
<1>16. ASSUME LogPageFull PROVE LockInv'
  <2>1. TypeOK' BY <1>16 DEF LogPageFull, SaveLog, TypeOK, Control
  <2>2. LogTyped' BY <1>16 DEF LogPageFull, SaveLog, TypeOK, LogTyped
  <2>3. RestartFirst' BY <1>16 DEF LogPageFull, SaveLog, TypeOK, RestartFirst
  <2>4. LoggedIsLocked' /\ DirtyIsLocked'
    BY <1>16 DEF LogPageFull, SaveLog, TypeOK, LoggedIsLocked, DirtyIsLocked, FlushedIsClean
  <2>5. FlushedIsClean'
    BY <1>16 DEF LogPageFull, SaveLog, TypeOK, FlushedIsClean, DirtyIsLocked
  <2>6. CleanIsWritten' BY <1>16 DEF LogPageFull, SaveLog, TypeOK, CleanIsWritten
  <2> QED BY <2>1, <2>2, <2>3, <2>4, <2>5, <2>6
<1>17. ASSUME Crash PROVE LockInv'
  <2>1. /\ log' \in Seq(Records) /\ Len(log') = saved /\ saved \in 0..Len(log)
        /\ saved \in Nat /\ \A i \in 1..saved : log'[i] = log[i] /\ log[i] \in Records
    <3>1. saved \in Nat /\ saved <= Len(log) /\ \A i \in 1..saved : log[i] \in Records
      BY DEF TypeOK, LogTyped
    <3> QED BY <1>17, <3>1, SubSeqProperties DEF Crash
  <2>2. TypeOK'
    <3>1. \A i \in 1..Len(log') :
            /\ log'[i].op \in {"set", "commit", "rollback", "checkpoint"}
            /\ log'[i].tx \in Txs /\ log'[i].blk \in Blocks \cup {NoBlock}
      BY <2>1 DEF Records
    <3>2. pos' \in [Txs -> Nat] BY <1>17, <2>1 DEF Crash
    <3>3. pc' \in [Txs -> Control] BY <1>17 DEF Crash, Control
    <3>4. /\ saved' \in 0..Len(log') /\ nextTx' \in 2..(MaxTx + 1)
          /\ done' \subseteq Txs \cup {RollbackOp}
      BY <1>17, <2>1 DEF Crash
    <3>5. /\ disk' \in [Blocks -> Values] /\ mem' \in [Blocks -> Values]
          /\ stable' \in [Blocks -> Values] /\ dirty' \in [Blocks -> Txs \cup {Nobody}]
          /\ xlock' \in [Blocks -> Txs \cup {Nobody}] /\ lsn' \in [Blocks -> Nat \cup {-1}]
      BY <1>17 DEF Crash, TypeOK
    <3>6. /\ kind' \in [Txs -> {"commit", "rollback", "checkpoint"}]
          /\ blk' \in [Txs -> Blocks \cup {NoBlock}]
      BY <1>17 DEF Crash
    <3> QED BY <3>1, <3>2, <3>3, <3>4, <3>5, <3>6 DEF TypeOK
  <2>3. LogTyped'
    <3>1. \A i \in 1..Len(log') :
            log'[i].op = "set" => log'[i].blk \in Blocks /\ log'[i].val \in Values
      BY <2>1 DEF LogTyped
    <3>2. \A t \in Txs : pos'[t] <= saved BY <1>17, <2>1 DEF Crash
    <3>3. \A b \in Blocks : lsn'[b] <= saved BY <1>17, <2>1 DEF Crash
    <3> QED BY <2>1, <3>1, <3>2, <3>3 DEF LogTyped
  <2>4. RestartFirst' BY <1>17 DEF Crash, TypeOK, RestartFirst
  <2> QED
    BY <1>17, <2>2, <2>3, <2>4
       DEF Crash, LoggedIsLocked, DirtyIsLocked, FlushedIsClean, CleanIsWritten
<1>18. CASE UNCHANGED vars
  BY <1>18 DEF vars, TypeOK, LogTyped, RestartFirst, LoggedIsLocked, DirtyIsLocked,
               FlushedIsClean, CleanIsWritten
<1> QED
  BY <1>1, <1>2, <1>3, <1>4, <1>5, <1>6, <1>7, <1>8, <1>9, <1>10, <1>11, <1>12, <1>13,
     <1>14, <1>15, <1>16, <1>17, <1>18 DEF Next, TxStep, ClientCall

(* What a transaction holds and what is left to write, in every reachable    *)
(* state. *)
THEOREM LocksInvariant == Spec => []LockInv
BY InitLockInv, NextLockInv, PTL DEF Spec

(* Type correctness of the transactions, the log and the buffers. *)
THEOREM TypeCorrect == Spec => []TypeOK
<1>1. LockInv => TypeOK BY DEF LockInv
<1> QED BY <1>1, LocksInvariant, PTL

(* FlushAll finds all the pages of its transaction: whoever a dirty buffer  *)
(* is marked with has the lock of its block, through rollbacks that fail    *)
(* and recoveries that undo.                                               *)
THEOREM DirtyLocked == Spec => []DirtyIsLocked
<1>1. LockInv => DirtyIsLocked BY DEF LockInv
<1> QED BY <1>1, LocksInvariant, PTL

----------------------------------------------------------------------------
(***************************************************************************)
(* The second part is about the data.  It holds until a rollback and a     *)
(* crash have met in one behaviour: the transaction numbers of a rollback  *)
(* record are read wrongly, and a rollback after a restart undoes records  *)
(* of earlier processes (see RollbackIsOwn).                               *)
(***************************************************************************)
Sound == rollbacks = 0 \/ crashes = 0

CountsTyped == rollbacks \in Nat /\ crashes \in Nat

NoRollback ==
  rollbacks = 0 => /\ \A i \in 1..Len(log) : log[i].op # "rollback"
                   /\ \A t \in Txs : kind[t] # "rollback"

NoCrash ==
  crashes = 0 => /\ \A i \in 1..Len(log) : log[i].op # "checkpoint"
                 /\ \A t \in Txs : kind[t] # "checkpoint"

Least(i, I) == i \in I /\ \A j \in I : i <= j

(* The records that the transactions of this process have written, once it  *)
(* has done with recovery, and those of them about one block                *)
Recent == {i \in 1..Len(log) : \A k \in i..Len(log) : log[k].op # "checkpoint"}
Recs(t, b) == {i \in Recent : log[i].op = "set" /\ log[i].tx = t /\ log[i].blk = b}

(* What t has written is committed: the commit record is on disk *)
Durable(t) ==
  /\ kind[t] = "commit"
  /\ pc[t] = "release" \/ (pc[t] = "appended" /\ pos[t] <= saved)

(* t may have written to b, and may still lose it *)
OwnedBy(t, b) == t # 1 /\ xlock[b] = t /\ ~Durable(t)

(* A record of t about b lies before the mark of the buffer, or is on disk   *)
Marked(t, b) == \E i \in Recs(t, b) : i <= lsn[b]
Saved(t, b) == \E i \in Recs(t, b) : i <= saved

(* A transaction has the locks of the blocks it has logged, until it ends,  *)
(* and no other.                                                           *)
RecsLocked ==
  \A t \in Txs, b \in Blocks : Recs(t, b) # {} =>
    t # 1 /\ pc[t] # "none" /\ (pc[t] # "done" => xlock[b] = t)

LocksHaveRecs ==
  \A t \in Txs, b \in Blocks : xlock[b] = t =>
    pc[t] \notin {"none", "done"} /\ (t # 1 => Recs(t, b) # {})

(* The first of them has the committed value. *)
FirstIsStable ==
  \A t \in Txs, b \in Blocks : OwnedBy(t, b) =>
    \A i \in Recs(t, b) : Least(i, Recs(t, b)) => log[i].val = stable[b]

(* Only an owner has changed a block, in the buffers or on disk, and has    *)
(* logged it before: the lsn of the buffer, or the disk, knows.             *)
MemIsStable ==
  \A b \in Blocks : mem[b] # stable[b] =>
    \E t \in Txs : OwnedBy(t, b) /\ Marked(t, b)

DiskIsStable ==
  \A b \in Blocks : disk[b] # stable[b] =>
    \E t \in Txs : OwnedBy(t, b) /\ Saved(t, b)

(* A rollback has restored the values of the records behind its position.   *)
UndoneIsRestored ==
  \A t \in Txs, b \in Blocks : xlock[b] = t =>
    /\ pc[t] = "undo" =>
         \A i \in Recs(t, b) :
           (i > pos[t] /\ \A j \in Recs(t, b) : j > pos[t] => i <= j) => mem[b] = log[i].val
    /\ pc[t] \in {"finish", "flushed", "appended", "release"} /\ kind[t] = "rollback"
         => mem[b] = stable[b]

(* Between its log record and the page, the record of a Set* is its last    *)
(* one; the buffers are marked with all others.                             *)
LoggedHasRec ==
  \A t \in Txs, b \in Blocks : pc[t] = "logged" /\ blk[t] = b =>
    pos[t] \in Recs(t, b) /\ \A i \in Recs(t, b) : i <= pos[t]

RecsAreMarked ==
  \A t \in Txs, b \in Blocks : xlock[b] = t =>
    \A i \in Recs(t, b) : i <= lsn[b] \/ (pc[t] = "logged" /\ pos[t] = i)

(* The last record of a transaction, where it is and what lies before it    *)
EndIsLast ==
  \A t \in Txs :
    /\ pc[t] = "appended" => pos[t] \in 1..Len(log) /\ log[pos[t]] = EndRecord(kind[t], t)
    /\ pc[t] = "appended" => \A b \in Blocks : \A i \in Recs(t, b) : i < pos[t]
    /\ pc[t] \in {"undo", "stuck"} => kind[t] = "rollback"

EndIsSaved ==
  \A t \in Txs : \A j \in Recent : Finishes(log[j]) /\ log[j].tx = t =>
    /\ pc[t] \in {"appended", "release", "done"}
    /\ pc[t] = "appended" => j = pos[t]
    /\ pc[t] \in {"release", "done"} => j <= saved

CommitIsSaved ==
  \A t \in Txs : pc[t] \in {"release", "done"} /\ kind[t] = "commit" =>
    \A b \in Blocks : \A i \in Recs(t, b) :
      \E j \in (i + 1)..saved : log[j] = EndRecord("commit", t)

NormalInv ==
  /\ RecsLocked /\ LocksHaveRecs
  /\ FirstIsStable /\ MemIsStable /\ DiskIsStable /\ UndoneIsRestored
  /\ LoggedHasRec /\ RecsAreMarked /\ EndIsLast /\ EndIsSaved /\ CommitIsSaved

(* No checkpoint waits to be written, but that of the recovery. *)
CheckpointIsSaved == \A k \in 1..Len(log) : log[k].op = "checkpoint" => k <= saved

Recovering ==
  kind[1] = "checkpoint" /\ pc[1] \in {"recover", "finish", "flushed", "appended"}

(* Of the updates that nobody has finished, the first one has the value     *)
(* that a block gets back; without one, the disk has it.                    *)
RestartIsStable ==
  \A b \in Blocks :
    /\ Unfinished(b) = {} => disk[b] = stable[b]
    /\ \A i \in Unfinished(b) : Least(i, Unfinished(b)) => log[i].val = stable[b]

(* Recovery has restored the values of the records behind its position,     *)
(* however far an earlier one may have come.                                *)
RecoveredSoFar ==
  pc[1] = "recover" =>
    /\ \A k \in (pos[1] + 1)..saved : log[k].op # "checkpoint"
    /\ \A n : n \in done <=> \E k \in (pos[1] + 1)..saved :
                                Finishes(log[k]) /\ TxNumber(log[k]) = n
    /\ \A b \in Blocks :
         /\ Unfinished(b) = {} => mem[b] = stable[b]
         /\ \A i \in Unfinished(b) :
              (i > pos[1] /\ \A j \in Unfinished(b) : j > pos[1] => i <= j)
                => mem[b] = log[i].val

RecoveredAll ==
  /\ pc[1] # "recover" => mem = stable
  /\ pc[1] \in {"flushed", "appended"} => disk = stable
  /\ pc[1] = "appended" => pos[1] = Len(log) /\ log[pos[1]].op = "checkpoint"
  /\ IF pc[1] = "appended" THEN saved >= Len(log) - 1 ELSE saved = Len(log)

RecoveryLocks == \A b \in Blocks : xlock[b] \in {Nobody, 1}

RecoverInv == RestartIsStable /\ RecoveredSoFar /\ RecoveredAll /\ RecoveryLocks

DataInv ==
  /\ CountsTyped /\ NoRollback /\ NoCrash
  /\ Sound /\ Recovering => RecoverInv
  /\ Sound /\ ~Recovering => NormalInv /\ CheckpointIsSaved

IInv == LockInv /\ DataInv

----------------------------------------------------------------------------
(* The records of a transaction when the log does not change, and when      *)
(* something is appended to it                                             *)
LEMMA RecsAre ==
  ASSUME LockInv, NEW t, NEW b, NEW i \in Recs(t, b)
  PROVE  /\ i \in Nat /\ i \in 1..Len(log) /\ i \in Recent
         /\ log[i].op = "set" /\ log[i].tx = t /\ log[i].blk = b
BY DEF Recs, Recent, LockInv, LogTyped

LEMMA RecsSame ==
  ASSUME log' = log
  PROVE  Recent' = Recent /\ \A t, b : Recs(t, b)' = Recs(t, b)
BY DEF Recent, Recs

LEMMA RecsAppended ==
  ASSUME LockInv, NEW r \in Records, log' = Append(log, r), r.op # "checkpoint"
  PROVE  /\ Recent' = Recent \cup {Len(log) + 1}
         /\ \A t, b : Recs(t, b)' = Recs(t, b) \cup
              (IF r.op = "set" /\ r.tx = t /\ r.blk = b THEN {Len(log) + 1} ELSE {})
<1>1. /\ Len(log) \in Nat /\ Len(log') = Len(log) + 1
      /\ \A i \in 1..Len(log) : log'[i] = log[i]
      /\ log'[Len(log) + 1] = r
  BY Appended DEF LockInv, LogTyped
<1>2. Recent' = Recent \cup {Len(log) + 1} BY <1>1 DEF Recent
<1>3. \A i \in Recent : i \in 1..Len(log) BY DEF Recent
<1> QED BY <1>1, <1>2, <1>3 DEF Recs

(* What a write of the log, if any, does: a transaction whose commit record  *)
(* it saves has the locks of the blocks that change, and both the buffers   *)
(* and the disk show what it wrote.                                         *)
LEMMA SaveEffect ==
  ASSUME LockInv, EndIsLast, SaveLog \/ UNCHANGED <<saved, stable>>
  PROVE  /\ saved' \in Nat /\ saved <= saved' /\ saved' <= Len(log)
         /\ \A b \in Blocks : xlock[b] = Nobody => stable'[b] = stable[b]
         /\ \A t \in Txs, b \in Blocks : xlock[b] = t =>
              \/ stable'[b] = stable[b]
              \/ /\ pc[t] = "appended" /\ kind[t] = "commit" /\ pos[t] <= saved'
                 /\ stable'[b] = mem[b] /\ stable'[b] = disk[b]
         /\ \A t \in Txs, b \in Blocks :
              /\ xlock[b] = t /\ pc[t] = "appended" /\ kind[t] = "commit"
              /\ pos[t] <= saved' /\ ~(pos[t] <= saved)
              => stable'[b] = mem[b] /\ stable'[b] = disk[b]
<1>1. Len(log) \in Nat /\ saved \in Nat /\ saved <= Len(log)
  BY DEF LockInv, LogTyped, TypeOK
<1>2. CASE UNCHANGED <<saved, stable>> BY <1>1, <1>2
<1>3. CASE SaveLog
  <2>1. ASSUME NEW t \in Txs, NEW b \in Blocks, xlock[b] = t, t \in Committing
        PROVE  stable'[b] = mem[b] /\ stable'[b] = disk[b] /\ pos[t] <= Len(log)
    <3>1. stable'[b] = mem[b] BY <1>3, <2>1 DEF SaveLog
    <3>2. dirty[b] # t BY <2>1 DEF Committing, LockInv, FlushedIsClean
    <3>3. dirty[b] = Nobody BY <2>1, <3>2 DEF LockInv, DirtyIsLocked
    <3>4. disk[b] = mem[b] BY <3>3 DEF LockInv, CleanIsWritten
    <3> QED BY <3>1, <3>4 DEF LockInv, LogTyped
  <2>2. \A b \in Blocks : xlock[b] \notin Committing => stable'[b] = stable[b]
    BY <1>3 DEF SaveLog
  <2>3. \A t \in Txs : t \in Committing <=> pc[t] = "appended" /\ kind[t] = "commit"
    BY DEF Committing
  <2>4. \A t \in Txs : pos[t] <= Len(log) BY DEF LockInv, LogTyped
  <2>5. saved' = Len(log) BY <1>3 DEF SaveLog
  <2>6. Nobody \notin Committing BY DEF Committing
  <2> QED BY <1>1, <2>1, <2>2, <2>3, <2>4, <2>5, <2>6
<1> QED BY <1>2, <1>3

(* The record that a rollback comes to is about a block that it has locked.  *)
LEMMA UndoOwned ==
  ASSUME LockInv, NoRollback, NoCrash, Sound, NormalInv,
         NEW t \in Txs, pc[t] = "undo", ToUndo(t) # {}
  PROVE  /\ kind[t] = "rollback" /\ t # 1
         /\ \E i \in Nat, b \in Blocks, val \in Values :
              /\ i = Latest(ToUndo(t)) /\ b = log[i].blk /\ val = log[i].val
              /\ i \in 1..pos[t] /\ i \in Recs(t, b) /\ xlock[b] = t
              /\ \A c : \A j \in Recs(t, c) : j > i - 1 => (j = i /\ c = b) \/ j > pos[t]
<1>1. PICK i \in Nat, b \in Blocks, val \in Values :
        /\ i = Latest(ToUndo(t)) /\ b = log[i].blk /\ val = log[i].val
        /\ i \in 1..pos[t] /\ i \in 1..Len(log)
        /\ log[i].op = "set" /\ log[i].tx = t
        /\ \A j \in 1..pos[t] : isUpdateOf(log[j], t) => j <= i
  BY NextToUndo
<1>2. kind[t] = "rollback" BY DEF NormalInv, EndIsLast
<1>3. crashes = 0 BY <1>2 DEF NoRollback, Sound
<1>4. pos[t] \in Nat BY DEF LockInv, TypeOK
<1>5. i \in Recs(t, b) BY <1>1, <1>3, <1>4 DEF NoCrash, Recent, Recs
<1>6. t # 1 /\ xlock[b] = t BY <1>5 DEF NormalInv, RecsLocked
<1>7. ASSUME NEW c, NEW j \in Recs(t, c), j > i - 1, ~(j > pos[t]) PROVE j = i /\ c = b
  <2>1. /\ j \in Nat /\ j \in 1..Len(log)
        /\ log[j].op = "set" /\ log[j].tx = t /\ log[j].blk = c
    BY RecsAre
  <2>2. j \in 1..pos[t] /\ isUpdateOf(log[j], t)
    BY <1>4, <1>7, <2>1 DEF isUpdateOf, TxNumber
  <2>3. j <= i BY <1>1, <2>2
  <2> QED BY <1>1, <1>7, <2>1, <2>3
<1>8. \A c : \A j \in Recs(t, c) : j > i - 1 => (j = i /\ c = b) \/ j > pos[t] BY <1>7
<1> QED BY <1>1, <1>2, <1>5, <1>6, <1>8

(***************************************************************************)
(* Between two recoveries.                                                  *)
(***************************************************************************)
LEMMA NormalStep ==
  ASSUME LockInv, NoRollback, NoCrash, Sound, ~Recovering, NormalInv,
         [Next]_vars, ~Crash
  PROVE  NormalInv'
<1> USE DEF NormalInv
<1> DEFINE Saves ==
      /\ saved' \in Nat /\ saved <= saved' /\ saved' <= Len(log)
      /\ \A b \in Blocks : xlock[b] = Nobody => stable'[b] = stable[b]
      /\ \A t \in Txs, b \in Blocks : xlock[b] = t =>
           \/ stable'[b] = stable[b]
           \/ /\ pc[t] = "appended" /\ kind[t] = "commit" /\ pos[t] <= saved'
              /\ stable'[b] = mem[b] /\ stable'[b] = disk[b]
      /\ \A t \in Txs, b \in Blocks :
           /\ xlock[b] = t /\ pc[t] = "appended" /\ kind[t] = "commit"
           /\ pos[t] <= saved' /\ ~(pos[t] <= saved)
           => stable'[b] = mem[b] /\ stable'[b] = disk[b]
<1>1. SaveLog \/ UNCHANGED <<saved, stable>> => Saves BY SaveEffect
<1>2. /\ Len(log) \in Nat /\ saved \in Nat /\ saved <= Len(log) /\ 1 \in Txs
      /\ \A t \in Txs : pos[t] \in Nat /\ pos[t] <= Len(log)
      /\ \A b \in Blocks : lsn[b] \in Int /\ lsn[b] <= Len(log)
      /\ \A b \in Blocks : xlock[b] \in Txs \cup {Nobody}
  <2>1. \A b \in Blocks : lsn[b] \in Nat \cup {-1} BY DEF LockInv, TypeOK
  <2>2. \A b \in Blocks : lsn[b] \in Int BY <2>1
  <2> HIDE DEF Saves
  <2>3. Len(log) \in Nat BY DEF LockInv, LogTyped
  <2>4. saved \in 0..Len(log) /\ pos \in [Txs -> Nat] /\ xlock \in [Blocks -> Txs \cup {Nobody}]
    BY DEF LockInv, TypeOK
  <2>5. /\ \A t \in Txs : pos[t] <= Len(log)
        /\ \A b \in Blocks : lsn[b] <= Len(log)
    BY DEF LockInv, LogTyped
  <2>6. saved \in Nat /\ saved <= Len(log) /\ 1 \in Txs BY <2>3, <2>4
  <2>7. \A t \in Txs : pos[t] \in Nat BY <2>4
  <2>8. \A b \in Blocks : xlock[b] \in Txs \cup {Nobody} BY <2>4
  <2> QED BY <2>2, <2>3, <2>5, <2>6, <2>7, <2>8
<1>3. /\ pc \in [Txs -> Control] /\ kind \in [Txs -> {"commit", "rollback", "checkpoint"}]
      /\ blk \in [Txs -> Blocks \cup {NoBlock}] /\ pos \in [Txs -> Nat]
      /\ xlock \in [Blocks -> Txs \cup {Nobody}] /\ lsn \in [Blocks -> Nat \cup {-1}]
      /\ mem \in [Blocks -> Values] /\ disk \in [Blocks -> Values]
      /\ stable \in [Blocks -> Values] /\ dirty \in [Blocks -> Txs \cup {Nobody}]
  BY DEF LockInv, TypeOK
<1>4. \A t, b : \A i \in Recs(t, b) :
        /\ i \in Nat /\ i \in 1..Len(log) /\ i <= Len(log) /\ i \in Recent
        /\ log[i].op = "set" /\ log[i].tx = t /\ log[i].blk = b
  BY RecsAre
<1>5. \A j \in Recent : j \in Nat /\ j \in 1..Len(log) BY DEF Recent
<1>6. UNCHANGED log => Recent' = Recent /\ \A t, b : Recs(t, b)' = Recs(t, b) BY RecsSame
<1>7. ASSUME NEW t \in Txs, Begin(t) PROVE NormalInv'
  <2>1. pc[t] = "none" BY <1>7 DEF Begin, LockInv, RestartFirst
  <2>2. log' = log /\ Recent' = Recent /\ \A u, c : Recs(u, c)' = Recs(u, c)
    BY <1>7, <1>6 DEF Begin, logVars
  <2>3. /\ pc'[t] = "run" /\ \A u \in Txs : u # t => pc'[u] = pc[u]
        /\ UNCHANGED <<saved, stable, disk, mem, lsn, xlock, kind, pos, blk>>
    BY <1>7, <1>3 DEF Begin, logVars, dataVars, txVars
  <2>4. \A u, c : Saved(u, c) => Saved(u, c)'
    BY <1>2, <1>4, <2>2, <2>3 DEF Saved
  <2>5. \A u, c : Marked(u, c) => Marked(u, c)'
    BY <1>2, <1>4, <2>2, <2>3 DEF Marked
  <2>6. RecsLocked'
    BY <2>2, <2>3, <2>1 DEF RecsLocked
  <2>7. LocksHaveRecs'
    BY <2>2, <2>3 DEF LocksHaveRecs
  <2>8. FirstIsStable'
    BY <2>2, <2>3, <2>1 DEF FirstIsStable, OwnedBy, Durable
  <2>9. MemIsStable'
    BY <2>3, <2>5 DEF MemIsStable, OwnedBy, Durable
  <2>10. DiskIsStable'
    BY <2>3, <2>4 DEF DiskIsStable, OwnedBy, Durable
  <2>11. UndoneIsRestored'
    BY <2>2, <2>3 DEF UndoneIsRestored
  <2>12. LoggedHasRec'
    BY <2>2, <2>3 DEF LoggedHasRec
  <2>13. RecsAreMarked'
    BY <2>2, <2>3, <2>1 DEF RecsAreMarked
  <2>14. EndIsLast'
    BY <2>2, <2>3 DEF EndIsLast
  <2>15. EndIsSaved'
    BY <2>2, <2>3, <2>1 DEF EndIsSaved
  <2>16. CommitIsSaved'
    BY <2>2, <2>3 DEF CommitIsSaved
  <2> QED BY <2>6, <2>7, <2>8, <2>9, <2>10, <2>11, <2>12, <2>13, <2>14, <2>15, <2>16
<1>8. ASSUME NEW t \in Txs, NEW b \in Blocks, StartSet(t, b) PROVE NormalInv'
  <2>1. /\ t # 1 /\ pc[t] = "run" /\ xlock[b] \in {Nobody, t}
        /\ xlock'[b] = t /\ \A c \in Blocks : c # b => xlock'[c] = xlock[c]
        /\ \A c \in Blocks, u \in Txs : xlock[c] = u => xlock'[c] = u
        /\ \A c \in Blocks, u \in Txs : xlock'[c] = u => xlock[c] = u \/ (c = b /\ u = t)
    BY <1>8, <1>3 DEF StartSet
  <2> DEFINE n == Len(log) + 1
             r == SetRecord(t, b, mem[b])
  <2>2. /\ Recent' = Recent \cup {n} /\ Recs(t, b)' = Recs(t, b) \cup {n}
        /\ \A u, c : u # t \/ c # b => Recs(u, c)' = Recs(u, c)
        /\ \A i \in 1..Len(log) : log'[i] = log[i]
        /\ log'[n] = r /\ r.op = "set" /\ r.val = mem[b] /\ Len(log') = n
    <3>1. r \in Records /\ r.op = "set" /\ r.tx = t /\ r.blk = b /\ r.val = mem[b]
      BY DEF SetRecord, Records, LockInv, TypeOK
    <3>2. log' = Append(log, r) BY <1>8 DEF StartSet
    <3> HIDE DEF r
    <3>3. /\ Recent' = Recent \cup {n}
          /\ \A u, c : Recs(u, c)' = Recs(u, c) \cup
              (IF r.op = "set" /\ r.tx = u /\ r.blk = c THEN {n} ELSE {})
      BY <3>1, <3>2, RecsAppended
    <3>4. /\ \A i \in 1..Len(log) : log'[i] = log[i]
          /\ log'[n] = r /\ Len(log') = n
      BY <3>1, <3>2, Appended DEF LockInv
    <3>5. \A u, c : u # t \/ c # b => Recs(u, c)' = Recs(u, c) BY <3>1, <3>3
    <3> QED BY <3>1, <3>3, <3>4, <3>5
  <2>3. n \in Nat /\ \A i \in 1..Len(log) : i < n BY <1>2
  <2> HIDE DEF n, r
  <2>4. /\ pc'[t] = "logged" /\ \A u \in Txs : u # t => pc'[u] = pc[u]
        /\ pos'[t] = n /\ \A u \in Txs : u # t => pos'[u] = pos[u]
        /\ blk'[t] = b /\ \A u \in Txs : u # t => blk'[u] = blk[u]
        /\ UNCHANGED <<saved, stable, disk, mem, lsn, kind>>
    BY <1>8, <1>3 DEF StartSet, dataVars, n
  <2>5. \A u, c : Saved(u, c) => Saved(u, c)'
    BY <1>2, <1>4, <2>2, <2>4 DEF Saved
  <2>6. \A u, c : Marked(u, c) => Marked(u, c)'
    BY <1>2, <1>4, <2>2, <2>4 DEF Marked
  <2>7. RecsLocked'
    BY <2>2, <2>4, <2>1 DEF RecsLocked
  <2>8. LocksHaveRecs'
    <3>1. Recs(t, b)' # {} /\ pc'[t] = "logged" BY <2>2, <2>4
    <3>2. ASSUME NEW u \in Txs, NEW c \in Blocks, xlock[c] = u, u # 1, u # t \/ c # b
          PROVE  Recs(u, c)' # {}
      BY <2>2, <3>2 DEF LocksHaveRecs
    <3>3. \A u \in Txs : pc[u] \notin {"none", "done"} => pc'[u] \notin {"none", "done"}
      BY <2>4
    <3> QED BY <2>1, <3>1, <3>2, <3>3 DEF LocksHaveRecs
  <2>9. FirstIsStable'
    <3>1. ASSUME NEW u \in Txs, NEW c \in Blocks, OwnedBy(u, c)', u # t \/ c # b
          PROVE  OwnedBy(u, c) /\ Recs(u, c)' = Recs(u, c)
      BY <1>2, <2>1, <2>2, <2>4, <3>1 DEF OwnedBy, Durable
    <3>2. ASSUME NEW i \in Recs(t, b)', Least(i, Recs(t, b)')
          PROVE  log'[i].val = stable[b]
      <4>1. CASE xlock[b] = t
        <5>1. Recs(t, b) # {} /\ OwnedBy(t, b)
          BY <2>1, <4>1 DEF LocksHaveRecs, OwnedBy, Durable
        <5>2. i \in Recs(t, b) /\ Least(i, Recs(t, b))
          BY <1>4, <2>2, <2>3, <3>2, <5>1 DEF Least
        <5>3. log[i].val = stable[b] BY <5>1, <5>2 DEF FirstIsStable
        <5> QED BY <1>4, <2>2, <5>2, <5>3
      <4>2. CASE xlock[b] = Nobody
        <5>1. Recs(t, b) = {} BY <2>1, <4>2 DEF RecsLocked
        <5>2. i = n BY <2>2, <5>1
        <5>3. mem[b] = stable[b] BY <4>2 DEF MemIsStable, OwnedBy
        <5> QED BY <2>2, <5>2, <5>3
      <4> QED BY <2>1, <4>1, <4>2
    <3> QED BY <1>4, <2>2, <2>4, <3>1, <3>2 DEF FirstIsStable, Least
  <2>10. MemIsStable'
    <3>1. \A u \in Txs, c \in Blocks : OwnedBy(u, c) => OwnedBy(u, c)'
      BY <1>2, <2>1, <2>4 DEF OwnedBy, Durable
    <3> QED BY <2>4, <2>6, <3>1 DEF MemIsStable
  <2>11. DiskIsStable'
    <3>1. \A u \in Txs, c \in Blocks : OwnedBy(u, c) => OwnedBy(u, c)'
      BY <1>2, <2>1, <2>4 DEF OwnedBy, Durable
    <3> QED BY <2>4, <2>5, <3>1 DEF DiskIsStable
  <2>12. UndoneIsRestored'
    <3>1. ASSUME NEW u \in Txs, NEW c \in Blocks, pc'[u] # "logged", xlock'[c] = u
          PROVE  u # t /\ xlock[c] = u /\ Recs(u, c)' = Recs(u, c)
      BY <2>1, <2>2, <2>4, <3>1
    <3> QED BY <1>4, <2>2, <2>4, <3>1 DEF UndoneIsRestored
  <2>13. LoggedHasRec'
    <3>1. n \in Recs(t, b)' /\ \A i \in Recs(t, b)' : i <= n BY <1>4, <2>2, <2>3
    <3>2. \A u \in Txs, c \in Blocks : u # t => Recs(u, c)' = Recs(u, c) BY <2>2
    <3> QED BY <2>4, <3>1, <3>2 DEF LoggedHasRec
  <2>14. RecsAreMarked'
    <3>1. ASSUME NEW u \in Txs, NEW c \in Blocks, xlock'[c] = u, NEW i \in Recs(u, c)'
          PROVE  i <= lsn'[c] \/ (pc'[u] = "logged" /\ pos'[u] = i)
      <4>1. CASE i \in Recs(u, c)
        <5>1. xlock[c] = u BY <2>1, <3>1, <4>1 DEF RecsLocked
        <5>2. CASE u = t BY <2>1, <2>4, <4>1, <5>1, <5>2 DEF RecsAreMarked
        <5>3. CASE u # t BY <2>4, <4>1, <5>1, <5>3 DEF RecsAreMarked
        <5> QED BY <5>2, <5>3
      <4>2. CASE i \notin Recs(u, c) BY <2>2, <2>4, <3>1, <4>2
      <4> QED BY <4>1, <4>2
    <3> QED BY <3>1 DEF RecsAreMarked
  <2>15. EndIsLast'
    <3>1. \A u \in Txs, c \in Blocks : u # t => Recs(u, c)' = Recs(u, c) BY <2>2
    <3>2. \A u \in Txs : u # t => pc'[u] = pc[u] /\ pos'[u] = pos[u] BY <2>4
    <3>3. kind' = kind /\ pc'[t] = "logged" BY <2>4
    <3>4. \A i \in 1..Len(log) : i \in 1..Len(log') BY <1>2, <2>2, <2>3
    <3> QED BY <2>2, <3>1, <3>2, <3>3, <3>4 DEF EndIsLast
  <2>16. EndIsSaved'
    <3>1. ASSUME NEW j \in Recent', Finishes(log'[j]) PROVE j \in Recent /\ log'[j] = log[j]
      BY <1>5, <2>2, <3>1 DEF Finishes
    <3> QED BY <2>1, <2>4, <3>1 DEF EndIsSaved, Finishes
  <2>17. CommitIsSaved'
    <3>1. \A u \in Txs, c \in Blocks : u # t => Recs(u, c)' = Recs(u, c) BY <2>2
    <3>2. saved' = saved /\ kind' = kind /\ \A u \in Txs : u # t => pc'[u] = pc[u] BY <2>4
    <3>3. pc'[t] = "logged" BY <2>4
    <3>4. ASSUME NEW u \in Txs, pc'[u] \in {"release", "done"}, kind'[u] = "commit",
                 NEW c \in Blocks, NEW i \in Recs(u, c)'
          PROVE  \E j \in (i + 1)..saved' : log'[j] = EndRecord("commit", u)
      <4>1. u # t /\ i \in Recs(u, c) BY <3>1, <3>3, <3>4
      <4>2. PICK j \in (i + 1)..saved : log[j] = EndRecord("commit", u)
        BY <3>2, <3>4, <4>1 DEF CommitIsSaved
      <4>3. i \in Nat BY <1>4, <4>1
      <4> QED BY <1>2, <2>2, <3>2, <4>2, <4>3
    <3> QED BY <3>4 DEF CommitIsSaved
  <2> QED BY <2>7, <2>8, <2>9, <2>10, <2>11, <2>12, <2>13, <2>14, <2>15, <2>16, <2>17
<1>9. ASSUME NEW t \in Txs, NEW v \in Values, SetPage(t, v) PROVE NormalInv'
  <2>1. PICK b \in Blocks :
        /\ b = blk[t] /\ pc[t] = "logged" /\ xlock[b] = t
        /\ mem'[b] = v /\ \A c \in Blocks : c # b => mem'[c] = mem[c]
        /\ lsn'[b] = pos[t] /\ \A c \in Blocks : c # b => lsn'[c] = lsn[c]
        /\ \A u \in Txs : u # t => blk'[u] = blk[u]
    BY <1>9, <1>3 DEF SetPage, WritePage, LockInv, LoggedIsLocked
  <2>2. /\ pos[t] \in Recs(t, b) /\ \A i \in Recs(t, b) : i <= pos[t]
         /\ t # 1
    BY <2>1 DEF LoggedHasRec, RecsLocked
  <2>3. log' = log /\ Recent' = Recent /\ \A u, c : Recs(u, c)' = Recs(u, c)
    BY <1>9, <1>6 DEF SetPage, logVars
  <2>4. /\ pc'[t] = "run" /\ \A u \in Txs : u # t => pc'[u] = pc[u]
        /\ pos'[t] = 0 /\ \A u \in Txs : u # t => pos'[u] = pos[u]
        /\ UNCHANGED <<saved, stable, disk, xlock, kind>>
    BY <1>9, <1>3 DEF SetPage, logVars, dataVars, txVars
  <2>5. \A u, c : Saved(u, c) => Saved(u, c)'
    BY <1>2, <1>4, <2>3, <2>4 DEF Saved
  <2>6. Marked(t, b)' /\ \A u : \A c \in Blocks : c # b /\ Marked(u, c) => Marked(u, c)'
    <3>1. pos[t] \in Recs(t, b)' /\ pos[t] <= lsn'[b] BY <1>2, <2>1, <2>2, <2>3
    <3> QED BY <2>1, <2>3, <3>1 DEF Marked
  <2>7. RecsLocked'
    BY <2>3, <2>4, <2>1 DEF RecsLocked
  <2>8. LocksHaveRecs'
    BY <2>3, <2>4 DEF LocksHaveRecs
  <2>9. FirstIsStable'
    <3>1. \A u \in Txs, c \in Blocks : OwnedBy(u, c)' => OwnedBy(u, c)
      BY <1>2, <2>1, <2>4 DEF OwnedBy, Durable
    <3> QED BY <2>3, <2>4, <3>1 DEF FirstIsStable, Least
  <2>10. MemIsStable'
    BY <2>4, <2>6, <2>1, <2>2 DEF MemIsStable, OwnedBy, Durable
  <2>11. DiskIsStable'
    BY <2>4, <2>5 DEF DiskIsStable, OwnedBy, Durable
  <2>12. UndoneIsRestored'
    <3>1. ASSUME NEW u \in Txs, NEW c \in Blocks, xlock[c] = u, pc'[u] # "run"
          PROVE  u # t /\ mem'[c] = mem[c]
      BY <2>1, <2>4, <3>1
    <3>2. \A u \in Txs : u # t => pc'[u] = pc[u] /\ pos'[u] = pos[u] BY <2>4
    <3>3. stable' = stable /\ xlock' = xlock /\ kind' = kind /\ pc'[t] = "run" BY <2>4
    <3> QED BY <2>3, <3>1, <3>2, <3>3 DEF UndoneIsRestored
  <2>13. LoggedHasRec'
    BY <2>3, <2>4, <2>1 DEF LoggedHasRec
  <2>14. RecsAreMarked'
    BY <1>4, <2>3, <2>4, <2>1, <2>2 DEF RecsAreMarked
  <2>15. EndIsLast'
    <3>1. \A u \in Txs : u # t => pc'[u] = pc[u] /\ pos'[u] = pos[u] BY <2>4
    <3>2. kind' = kind /\ pc'[t] = "run" BY <2>4
    <3> QED BY <2>3, <3>1, <3>2 DEF EndIsLast
  <2>16. EndIsSaved'
    BY <2>3, <2>4, <2>1 DEF EndIsSaved
  <2>17. CommitIsSaved'
    BY <2>3, <2>4 DEF CommitIsSaved
  <2> QED BY <2>7, <2>8, <2>9, <2>10, <2>11, <2>12, <2>13, <2>14, <2>15, <2>16, <2>17
<1>10. ASSUME NEW t \in Txs, StartCommit(t) PROVE NormalInv'
  <2>1. pc[t] = "run" BY <1>10 DEF StartCommit
  <2>2. log' = log /\ Recent' = Recent /\ \A u, c : Recs(u, c)' = Recs(u, c)
    BY <1>10, <1>6 DEF StartCommit, logVars
  <2>3. /\ pc'[t] = "finish" /\ \A u \in Txs : u # t => pc'[u] = pc[u]
        /\ kind'[t] = "commit" /\ \A u \in Txs : u # t => kind'[u] = kind[u]
        /\ UNCHANGED <<saved, stable, disk, mem, lsn, xlock, pos, blk>>
    BY <1>10, <1>3 DEF StartCommit, logVars, dataVars, txVars
  <2>4. \A u, c : Saved(u, c) => Saved(u, c)'
    BY <1>2, <1>4, <2>2, <2>3 DEF Saved
  <2>5. \A u, c : Marked(u, c) => Marked(u, c)'
    BY <1>2, <1>4, <2>2, <2>3 DEF Marked
  <2>6. RecsLocked'
    BY <2>2, <2>3, <2>1 DEF RecsLocked
  <2>7. LocksHaveRecs'
    BY <2>2, <2>3 DEF LocksHaveRecs
  <2>8. FirstIsStable'
    BY <2>2, <2>3, <2>1 DEF FirstIsStable, OwnedBy, Durable
  <2>9. MemIsStable'
    BY <2>3, <2>5 DEF MemIsStable, OwnedBy, Durable
  <2>10. DiskIsStable'
    BY <2>3, <2>4 DEF DiskIsStable, OwnedBy, Durable
  <2>11. UndoneIsRestored'
    BY <2>2, <2>3 DEF UndoneIsRestored
  <2>12. LoggedHasRec'
    BY <2>2, <2>3 DEF LoggedHasRec
  <2>13. RecsAreMarked'
    BY <2>2, <2>3, <2>1 DEF RecsAreMarked
  <2>14. EndIsLast'
    BY <2>2, <2>3 DEF EndIsLast
  <2>15. EndIsSaved'
    BY <2>2, <2>3, <2>1 DEF EndIsSaved
  <2>16. CommitIsSaved'
    BY <2>2, <2>3 DEF CommitIsSaved
  <2> QED BY <2>6, <2>7, <2>8, <2>9, <2>10, <2>11, <2>12, <2>13, <2>14, <2>15, <2>16
<1>11. ASSUME NEW t \in Txs, FlushAll(t) PROVE NormalInv'
  <2>1. pc[t] = "finish" BY <1>11 DEF FlushAll
  <2>2. \A c \in Blocks : \/ disk'[c] = disk[c]
                          \/ disk'[c] = mem[c] /\ (lsn[c] < saved \/ saved' = Len(log))
    <3>1. PICK D \in SUBSET Blocks : FlushBuffers(D) BY <1>11 DEF FlushAll
    <3>2. \A c \in Blocks : disk'[c] = IF c \in D THEN mem[c] ELSE disk[c]
      BY <3>1 DEF FlushBuffers
    <3>3. \A c \in D : lsn[c] >= saved => saved' = Len(log)
      BY <3>1 DEF FlushBuffers, Flush, SaveLog
    <3>4. \A c \in Blocks : lsn[c] >= saved \/ lsn[c] < saved BY <1>2
    <3> QED BY <3>2, <3>3, <3>4
  <2>3. log' = log /\ Recent' = Recent /\ \A u, c : Recs(u, c)' = Recs(u, c)
    BY <1>11, <1>6 DEF FlushAll, logVars
  <2>4. /\ pc'[t] = "flushed" /\ \A u \in Txs : u # t => pc'[u] = pc[u]
        /\ UNCHANGED <<mem, lsn, xlock, kind, pos, blk>>
    BY <1>11, <1>3 DEF FlushAll, logVars, dataVars, txVars
  <2>5. Saves
    <3>1. SaveLog \/ UNCHANGED <<saved, stable>> BY <1>11 DEF FlushAll, FlushBuffers, Flush
    <3> QED BY <3>1, <1>1
  <2>6. \A u, c : Saved(u, c) => Saved(u, c)'
    BY <1>2, <1>4, <2>3, <2>4, <2>5 DEF Saved
  <2>7. \A u, c : Marked(u, c) => Marked(u, c)'
    BY <1>2, <1>4, <2>3, <2>4 DEF Marked
  <2>8. \A u \in Txs, c \in Blocks :
           OwnedBy(u, c) /\ ~OwnedBy(u, c)' => stable'[c] = mem[c] /\ stable'[c] = disk[c]
    BY <2>4, <2>5 DEF OwnedBy, Durable
  <2>9. \A c \in Blocks :
           stable'[c] # stable[c] => stable'[c] = mem[c] /\ stable'[c] = disk[c]
    BY <1>2, <2>5
  <2>10. \A u : \A c \in Blocks : Marked(u, c) /\ (lsn[c] < saved \/ saved' = Len(log)) => Saved(u, c)'
    <3>1. ASSUME NEW u, NEW c \in Blocks, lsn[c] < saved \/ saved' = Len(log),
                 NEW i \in Recs(u, c), i <= lsn[c]
          PROVE  i \in Recs(u, c)' /\ i <= saved'
      <4>1. i \in Nat /\ i <= Len(log) BY <1>4
      <4> QED BY <1>2, <2>3, <2>5, <3>1, <4>1
    <3> QED BY <3>1 DEF Marked, Saved
  <2>11. RecsLocked'
    BY <2>3, <2>4, <2>1 DEF RecsLocked
  <2>12. LocksHaveRecs'
    BY <2>3, <2>4 DEF LocksHaveRecs
  <2>13. FirstIsStable'
    BY <1>2, <2>3, <2>4, <2>5, <2>1 DEF FirstIsStable, OwnedBy, Durable
  <2>14. MemIsStable'
    BY <2>4, <2>7, <2>8, <2>9 DEF MemIsStable
  <2>15. DiskIsStable'
    BY <2>2, <2>4, <2>6, <2>8, <2>9, <2>10 DEF DiskIsStable, MemIsStable
  <2>16. UndoneIsRestored'
    BY <2>3, <2>4, <2>5, <2>1 DEF UndoneIsRestored
  <2>17. LoggedHasRec'
    BY <2>3, <2>4 DEF LoggedHasRec
  <2>18. RecsAreMarked'
    BY <2>3, <2>4, <2>1 DEF RecsAreMarked
  <2>19. EndIsLast'
    BY <2>3, <2>4 DEF EndIsLast
  <2>20. EndIsSaved'
    BY <1>2, <1>5, <2>3, <2>4, <2>5, <2>1 DEF EndIsSaved
  <2>21. CommitIsSaved'
    BY <1>2, <2>3, <2>4, <2>5 DEF CommitIsSaved
  <2> QED BY <2>11, <2>12, <2>13, <2>14, <2>15, <2>16, <2>17, <2>18, <2>19, <2>20, <2>21
<1>12. ASSUME NEW t \in Txs, AppendLast(t) PROVE NormalInv'
  <2>1. kind[t] # "checkpoint" /\ pc[t] = "flushed"
    BY <1>12 DEF AppendLast, Recovering, LockInv, RestartFirst
  <2>2. /\ Recent' = Recent \cup {Len(log) + 1}
        /\ \A u, c : Recs(u, c)' = Recs(u, c)
        /\ \A i \in 1..Len(log) : log'[i] = log[i]
        /\ log'[Len(log) + 1] = EndRecord(kind[t], t) /\ Len(log') = Len(log) + 1
    <3> DEFINE r == EndRecord(kind[t], t)
    <3>1. r \in Records /\ r.op \notin {"set", "checkpoint"}
      BY <1>3, <2>1 DEF EndRecord, Records
    <3>2. log' = Append(log, r) BY <1>12 DEF AppendLast
    <3> HIDE DEF r
    <3>3. /\ Recent' = Recent \cup {Len(log) + 1}
          /\ \A u, c : Recs(u, c)' = Recs(u, c) \cup
              (IF r.op = "set" /\ r.tx = u /\ r.blk = c THEN {Len(log) + 1} ELSE {})
      BY <3>1, <3>2, RecsAppended
    <3>4. /\ \A i \in 1..Len(log) : log'[i] = log[i]
          /\ log'[Len(log) + 1] = r /\ Len(log') = Len(log) + 1
      BY <3>1, <3>2, Appended DEF LockInv
    <3> QED BY <3>1, <3>3, <3>4 DEF r
  <2>3. /\ pc'[t] = "appended" /\ \A u \in Txs : u # t => pc'[u] = pc[u]
        /\ pos'[t] = Len(log) + 1 /\ \A u \in Txs : u # t => pos'[u] = pos[u]
        /\ UNCHANGED <<saved, stable, disk, mem, lsn, xlock, kind, blk>>
    BY <1>12, <1>3 DEF AppendLast, logVars, dataVars, txVars
  <2>4. \A u, c : Saved(u, c) => Saved(u, c)'
    BY <1>2, <1>4, <2>2, <2>3 DEF Saved
  <2>5. \A u, c : Marked(u, c) => Marked(u, c)'
    BY <1>2, <1>4, <2>2, <2>3 DEF Marked
  <2>6. RecsLocked'
    BY <2>2, <2>3, <2>1 DEF RecsLocked
  <2>7. LocksHaveRecs'
    BY <2>2, <2>3 DEF LocksHaveRecs
  <2>8. FirstIsStable'
    <3>1. \A u \in Txs, c \in Blocks : OwnedBy(u, c)' => OwnedBy(u, c)
      BY <1>2, <2>1, <2>3 DEF OwnedBy, Durable
    <3>2. \A u, c : \A i \in Recs(u, c) : log'[i] = log[i] BY <1>4, <2>2
    <3>3. SUFFICES ASSUME NEW u \in Txs, NEW c \in Blocks, OwnedBy(u, c)',
                          NEW i \in Recs(u, c)', Least(i, Recs(u, c)')
                   PROVE  log'[i].val = stable'[c]
      BY DEF FirstIsStable, Least
    <3>4. Recs(u, c)' = Recs(u, c) BY <2>2
    <3>5. log[i].val = stable[c] BY <3>1, <3>3, <3>4 DEF FirstIsStable
    <3> QED BY <2>3, <3>2, <3>4, <3>5
  <2>9. MemIsStable'
    <3>1. \A u \in Txs, c \in Blocks : OwnedBy(u, c) => OwnedBy(u, c)'
      BY <1>2, <2>1, <2>3 DEF OwnedBy, Durable
    <3> QED BY <2>3, <2>5, <3>1 DEF MemIsStable
  <2>10. DiskIsStable'
    <3>1. \A u \in Txs, c \in Blocks : OwnedBy(u, c) => OwnedBy(u, c)'
      BY <1>2, <2>1, <2>3 DEF OwnedBy, Durable
    <3> QED BY <2>3, <2>4, <3>1 DEF DiskIsStable
  <2>11. UndoneIsRestored'
    BY <1>4, <2>2, <2>3, <2>1 DEF UndoneIsRestored
  <2>12. LoggedHasRec'
    BY <2>2, <2>3 DEF LoggedHasRec
  <2>13. RecsAreMarked'
    BY <2>2, <2>3, <2>1 DEF RecsAreMarked
  <2>14. EndIsLast'
    BY <1>4, <2>2, <2>3 DEF EndIsLast
  <2>15. EndIsSaved'
    BY <1>5, <2>2, <2>3, <2>1 DEF EndIsSaved, EndRecord
  <2>16. CommitIsSaved'
    <3>1. ASSUME NEW u \in Txs, NEW c \in Blocks, NEW i \in Recs(u, c)', kind'[u] = "commit",
                 pc'[u] \in {"release", "done"}
          PROVE  \E j \in (i + 1)..saved' : log'[j] = EndRecord("commit", u)
      <4>1. u # t /\ kind[u] = "commit" /\ pc[u] \in {"release", "done"} /\ i \in Recs(u, c)
        BY <2>1, <2>2, <2>3, <3>1
      <4>2. PICK j \in (i + 1)..saved : log[j] = EndRecord("commit", u)
        BY <4>1 DEF CommitIsSaved
      <4>3. j \in 1..Len(log) /\ saved' = saved BY <1>2, <1>4, <2>3, <4>1
      <4> QED BY <2>2, <4>2, <4>3
    <3> QED BY <3>1 DEF CommitIsSaved
  <2> QED BY <2>6, <2>7, <2>8, <2>9, <2>10, <2>11, <2>12, <2>13, <2>14, <2>15, <2>16
<1>13. ASSUME NEW t \in Txs, FlushLast(t) PROVE NormalInv'
  <2>1. /\ kind[t] # "checkpoint" /\ pc[t] = "appended"
        /\ pos[t] < saved \/ saved' = Len(log)
        /\ saved' = saved \/ saved' = Len(log)
    BY <1>13, <1>2 DEF FlushLast, Flush, SaveLog, Recovering, LockInv, RestartFirst
  <2>2. log' = log /\ Recent' = Recent /\ \A u, c : Recs(u, c)' = Recs(u, c)
    BY <1>13, <1>6 DEF FlushLast, logVars
  <2>3. /\ pc'[t] = "release" /\ \A u \in Txs : u # t => pc'[u] = pc[u]
        /\ pos'[t] = 0 /\ \A u \in Txs : u # t => pos'[u] = pos[u]
        /\ UNCHANGED <<mem, disk, lsn, xlock, kind, blk>>
    BY <1>13, <1>3, <2>1 DEF FlushLast, dataVars
  <2>4. Saves
    <3>1. SaveLog \/ UNCHANGED <<saved, stable>> BY <1>13 DEF FlushLast, Flush
    <3> QED BY <3>1, <1>1
  <2>5. \A u, c : Saved(u, c) => Saved(u, c)'
    BY <1>2, <1>4, <2>2, <2>3, <2>4 DEF Saved
  <2>6. \A u, c : Marked(u, c) => Marked(u, c)'
    BY <1>2, <1>4, <2>2, <2>3 DEF Marked
  <2>7. \A u \in Txs, c \in Blocks :
           OwnedBy(u, c) /\ ~OwnedBy(u, c)' => stable'[c] = mem[c] /\ stable'[c] = disk[c]
    BY <1>2, <2>3, <2>4, <2>1 DEF OwnedBy, Durable
  <2>8. \A c \in Blocks :
           stable'[c] # stable[c] => stable'[c] = mem[c] /\ stable'[c] = disk[c]
    BY <1>2, <2>4
  <2>9. RecsLocked'
    BY <2>2, <2>3, <2>1 DEF RecsLocked
  <2>10. LocksHaveRecs'
    BY <2>2, <2>3 DEF LocksHaveRecs
  <2>11. FirstIsStable'
    BY <1>2, <1>5, <2>2, <2>3, <2>4 DEF FirstIsStable, OwnedBy, Durable
  <2>12. MemIsStable'
    BY <2>3, <2>6, <2>7, <2>8 DEF MemIsStable
  <2>13. DiskIsStable'
    BY <2>3, <2>5, <2>7, <2>8 DEF DiskIsStable
  <2>14. UndoneIsRestored'
    BY <2>2, <2>3, <2>4, <2>1 DEF UndoneIsRestored
  <2>15. LoggedHasRec'
    BY <2>2, <2>3 DEF LoggedHasRec
  <2>16. RecsAreMarked'
    BY <2>2, <2>3, <2>1 DEF RecsAreMarked
  <2>17. EndIsLast'
    BY <2>2, <2>3 DEF EndIsLast
  <2>18. EndIsSaved'
    BY <1>5, <2>2, <2>3, <2>4, <2>1 DEF EndIsSaved
  <2>19. CommitIsSaved'
    BY <1>2, <1>4, <2>2, <2>3, <2>4, <2>1 DEF CommitIsSaved, EndIsLast
  <2> QED BY <2>9, <2>10, <2>11, <2>12, <2>13, <2>14, <2>15, <2>16, <2>17, <2>18, <2>19
<1>14. ASSUME NEW t \in Txs, Release(t) PROVE NormalInv'
  <2>1. /\ pc[t] = "release"
        /\ \A c \in Blocks : xlock'[c] = IF xlock[c] = t THEN Nobody ELSE xlock[c]
    BY <1>14, <1>3 DEF Release
  <2>2. kind[t] \in {"commit", "rollback"} BY <2>1, <1>3 DEF LockInv, RestartFirst
  <2>3. ASSUME NEW c \in Blocks, OwnedBy(t, c)
         PROVE  mem[c] = stable[c] /\ disk[c] = stable[c]
    <3>1. kind[t] = "rollback" /\ xlock[c] = t BY <2>1, <2>2, <2>3 DEF OwnedBy, Durable
    <3>2. mem[c] = stable[c] BY <2>1, <3>1 DEF UndoneIsRestored
    <3>3. dirty[c] # t BY <2>1 DEF LockInv, FlushedIsClean
    <3>4. disk[c] = mem[c] BY <3>1, <3>3 DEF LockInv, DirtyIsLocked, CleanIsWritten
    <3> QED BY <3>2, <3>4
  <2>4. log' = log /\ Recent' = Recent /\ \A u, c : Recs(u, c)' = Recs(u, c)
    BY <1>14, <1>6 DEF Release, logVars
  <2>5. /\ pc'[t] = "done" /\ \A u \in Txs : u # t => pc'[u] = pc[u]
        /\ UNCHANGED <<saved, stable, disk, mem, lsn, kind, pos, blk>>
    BY <1>14, <1>3 DEF Release, logVars, dataVars, txVars
  <2>6. \A u, c : Saved(u, c) => Saved(u, c)'
    BY <1>2, <1>4, <2>4, <2>5 DEF Saved
  <2>7. \A u, c : Marked(u, c) => Marked(u, c)'
    BY <1>2, <1>4, <2>4, <2>5 DEF Marked
  <2>8. RecsLocked'
    BY <2>4, <2>5, <2>1 DEF RecsLocked
  <2>9. LocksHaveRecs'
    BY <2>4, <2>5, <2>1 DEF LocksHaveRecs
  <2>10. FirstIsStable'
    BY <2>4, <2>5, <2>1 DEF FirstIsStable, OwnedBy, Durable
  <2>11. MemIsStable'
    BY <2>5, <2>7, <2>1, <2>3 DEF MemIsStable, OwnedBy, Durable
  <2>12. DiskIsStable'
    BY <2>5, <2>6, <2>1, <2>3 DEF DiskIsStable, OwnedBy, Durable
  <2>13. UndoneIsRestored'
    BY <2>4, <2>5, <2>1 DEF UndoneIsRestored
  <2>14. LoggedHasRec'
    BY <2>4, <2>5 DEF LoggedHasRec
  <2>15. RecsAreMarked'
    BY <2>4, <2>5, <2>1 DEF RecsAreMarked
  <2>16. EndIsLast'
    BY <2>4, <2>5 DEF EndIsLast
  <2>17. EndIsSaved'
    BY <2>4, <2>5, <2>1 DEF EndIsSaved
  <2>18. CommitIsSaved'
    BY <2>4, <2>5, <2>1 DEF CommitIsSaved
  <2> QED BY <2>8, <2>9, <2>10, <2>11, <2>12, <2>13, <2>14, <2>15, <2>16, <2>17, <2>18
<1>15. ASSUME NEW t \in Txs, StartRollback(t) PROVE NormalInv'
  <2>1. pc[t] = "run" BY <1>15 DEF StartRollback
  <2>2. log' = log /\ Recent' = Recent /\ \A u, c : Recs(u, c)' = Recs(u, c)
    BY <1>15, <1>6 DEF StartRollback, logVars
  <2>3. /\ pc'[t] = "undo" /\ \A u \in Txs : u # t => pc'[u] = pc[u]
        /\ kind'[t] = "rollback" /\ \A u \in Txs : u # t => kind'[u] = kind[u]
        /\ pos'[t] = Len(log) /\ \A u \in Txs : u # t => pos'[u] = pos[u]
        /\ UNCHANGED <<disk, mem, lsn, xlock, blk>>
    BY <1>15, <1>3 DEF StartRollback, logVars, dataVars, txVars
  <2>4. Saves
    <3>1. SaveLog \/ UNCHANGED <<saved, stable>> BY <1>15 DEF StartRollback
    <3> QED BY <3>1, <1>1
  <2>5. \A u, c : Saved(u, c) => Saved(u, c)'
    BY <1>2, <1>4, <2>2, <2>3, <2>4 DEF Saved
  <2>6. \A u, c : Marked(u, c) => Marked(u, c)'
    BY <1>2, <1>4, <2>2, <2>3 DEF Marked
  <2>7. \A u \in Txs, c \in Blocks :
           OwnedBy(u, c) /\ ~OwnedBy(u, c)' => stable'[c] = mem[c] /\ stable'[c] = disk[c]
    BY <2>3, <2>4 DEF OwnedBy, Durable
  <2>8. \A c \in Blocks :
           stable'[c] # stable[c] => stable'[c] = mem[c] /\ stable'[c] = disk[c]
    BY <1>2, <2>4
  <2>9. RecsLocked'
    BY <2>2, <2>3, <2>1 DEF RecsLocked
  <2>10. LocksHaveRecs'
    BY <2>2, <2>3 DEF LocksHaveRecs
  <2>11. FirstIsStable'
    BY <1>2, <1>5, <2>2, <2>3, <2>4, <2>1 DEF FirstIsStable, OwnedBy, Durable
  <2>12. MemIsStable'
    BY <2>3, <2>6, <2>7, <2>8 DEF MemIsStable
  <2>13. DiskIsStable'
    BY <2>3, <2>5, <2>7, <2>8 DEF DiskIsStable
  <2>14. UndoneIsRestored'
    BY <1>4, <2>2, <2>3, <2>4 DEF UndoneIsRestored
  <2>15. LoggedHasRec'
    BY <2>2, <2>3 DEF LoggedHasRec
  <2>16. RecsAreMarked'
    BY <2>2, <2>3, <2>1 DEF RecsAreMarked
  <2>17. EndIsLast'
    BY <2>2, <2>3 DEF EndIsLast
  <2>18. EndIsSaved'
    BY <1>2, <1>5, <2>2, <2>3, <2>4, <2>1 DEF EndIsSaved
  <2>19. CommitIsSaved'
    BY <1>2, <2>2, <2>3, <2>4 DEF CommitIsSaved
  <2> QED BY <2>9, <2>10, <2>11, <2>12, <2>13, <2>14, <2>15, <2>16, <2>17, <2>18, <2>19
<1>16. ASSUME NEW t \in Txs, UndoNext(t) PROVE NormalInv'
  <2>1. PICK i \in Nat, b \in Blocks, val \in Values :
           /\ i = Latest(ToUndo(t)) /\ b = log[i].blk /\ val = log[i].val
           /\ i \in 1..pos[t] /\ i \in Recs(t, b) /\ xlock[b] = t
           /\ \A c : \A j \in Recs(t, c) : j > i - 1 => (j = i /\ c = b) \/ j > pos[t]
    BY <1>16, UndoOwned DEF UndoNext
  <2>2. pc[t] = "undo" /\ kind[t] = "rollback" /\ t # 1 BY <1>16, UndoOwned DEF UndoNext
  <2>3. /\ UNCHANGED <<saved, disk, lsn, pc, kind, blk, xlock, stable>>
         /\ mem' = [mem EXCEPT ![b] = val]
         /\ pos' = [pos EXCEPT ![t] = i - 1]
    BY <1>16, <1>3, <2>1 DEF UndoNext, Undo, WritePage, logVars
  <2>4. mem'[b] = val /\ \A c \in Blocks : c # b => mem'[c] = mem[c]
    BY <2>3, <2>1, <1>3
  <2>5. val = log[i].val /\ i \in Nat /\ i - 1 < i BY <2>1
  <2>6. log' = log /\ Recent' = Recent /\ \A u, c : Recs(u, c)' = Recs(u, c)
    BY <1>16, <1>6 DEF UndoNext, logVars
  <2>7. /\ pos'[t] = i - 1 /\ \A u \in Txs : u # t => pos'[u] = pos[u]
        /\ UNCHANGED <<saved, disk, lsn, pc, kind, blk, xlock, stable>>
    BY <2>3, <1>3
  <2>8. \A u, c : Saved(u, c) => Saved(u, c)'
    BY <1>2, <1>4, <2>6, <2>7 DEF Saved
  <2>9. \A u, c : Marked(u, c) => Marked(u, c)'
    BY <1>2, <1>4, <2>6, <2>7 DEF Marked
  <2>10. RecsLocked'
    BY <2>6, <2>7 DEF RecsLocked
  <2>11. LocksHaveRecs'
    BY <2>6, <2>7 DEF LocksHaveRecs
  <2>12. FirstIsStable'
    <3>1. \A u \in Txs, c \in Blocks : OwnedBy(u, c)' => OwnedBy(u, c)
      BY <1>2, <2>2, <2>7 DEF OwnedBy, Durable
    <3> QED BY <2>6, <2>7, <3>1 DEF FirstIsStable, Least
  <2>13. MemIsStable'
    <3>1. \A u \in Txs, c \in Blocks : OwnedBy(u, c) => OwnedBy(u, c)'
      BY <1>2, <2>2, <2>7 DEF OwnedBy, Durable
    <3>2. OwnedBy(t, b) BY <2>1, <2>2 DEF OwnedBy, Durable
    <3>3. Marked(t, b) BY <2>2, <2>1 DEF RecsAreMarked, Marked
    <3> QED BY <2>7, <2>9, <2>4, <3>1, <3>2, <3>3 DEF MemIsStable
  <2>14. DiskIsStable'
    <3>1. \A u \in Txs, c \in Blocks : OwnedBy(u, c) => OwnedBy(u, c)'
      BY <1>2, <2>2, <2>7 DEF OwnedBy, Durable
    <3> QED BY <2>7, <2>8, <3>1 DEF DiskIsStable
  <2>15. UndoneIsRestored'
    <3>1. ASSUME NEW c \in Blocks, xlock[c] = t, NEW j \in Recs(t, c), j > i - 1,
                 \A k \in Recs(t, c) : k > i - 1 => j <= k
          PROVE  mem'[c] = log[j].val
      <4>1. CASE c = b
        <5>1. j <= i BY <2>1, <2>5, <3>1, <4>1
        <5>2. j \in Nat BY <1>4
        <5>3. j = i BY <2>5, <3>1, <5>1, <5>2
        <5>4. log[j].val = val BY <2>5, <5>3
        <5> QED BY <2>4, <4>1, <5>4
      <4>2. CASE c # b
        <5>1. \A k \in Recs(t, c) : k > i - 1 => k > pos[t] BY <2>1, <4>2
        <5>2. j > pos[t] /\ \A k \in Recs(t, c) : k > pos[t] => k > i - 1
          BY <1>2, <1>4, <2>1, <3>1, <5>1
        <5>3. mem[c] = log[j].val BY <2>2, <3>1, <5>2 DEF UndoneIsRestored
        <5> QED BY <2>4, <4>2, <5>3
      <4> QED BY <4>1, <4>2
    <3>2. ASSUME NEW u \in Txs, u # t, NEW c \in Blocks, xlock[c] = u
          PROVE  mem'[c] = mem[c] /\ pos'[u] = pos[u]
      BY <2>1, <2>4, <2>7, <3>2
    <3> QED BY <2>2, <2>6, <2>7, <3>1, <3>2 DEF UndoneIsRestored
  <2>16. LoggedHasRec'
    BY <2>6, <2>7, <2>2 DEF LoggedHasRec
  <2>17. RecsAreMarked'
    BY <2>6, <2>7, <2>2 DEF RecsAreMarked
  <2>18. EndIsLast'
    BY <2>6, <2>7, <2>2 DEF EndIsLast
  <2>19. EndIsSaved'
    <3>1. \A u \in Txs : pc[u] = "appended" => pos'[u] = pos[u] BY <2>2, <2>7
    <3> QED BY <2>6, <2>7, <3>1 DEF EndIsSaved
  <2>20. CommitIsSaved'
    BY <2>6, <2>7 DEF CommitIsSaved
  <2> QED BY <2>10, <2>11, <2>12, <2>13, <2>14, <2>15, <2>16, <2>17, <2>18, <2>19, <2>20
<1>17. ASSUME NEW t \in Txs, UndoFails(t) PROVE NormalInv'
  <2>1. PICK i \in Nat, b \in Blocks : i = Latest(ToUndo(t)) /\ b = log[i].blk /\ xlock[b] = t
    BY <1>17, UndoOwned DEF UndoFails
  <2> QED BY <1>17, <2>1 DEF UndoFails
<1>18. ASSUME NEW t \in Txs, UndoDone(t) PROVE NormalInv'
  <2>1. t # 1 BY <1>18 DEF UndoDone, LockInv, RestartFirst
  <2>2. pc[t] = "undo" /\ kind[t] = "rollback" BY <1>18 DEF UndoDone, EndIsLast
  <2>3. ASSUME NEW b \in Blocks, xlock[b] = t PROVE mem[b] = stable[b]
    <3>1. Recs(t, b) # {} BY <2>3, <2>1 DEF LocksHaveRecs
    <3>2. Recs(t, b) \subseteq Nat BY <1>4
    <3>3. PICK i \in Recs(t, b) : \A j \in Recs(t, b) : i <= j BY <3>1, <3>2, LeastExists
    <3>4. \A j \in Recs(t, b) : j > pos[t]
      BY <1>18, <1>2, <1>4 DEF UndoDone, ToUndo, isUpdateOf, TxNumber
    <3>5. mem[b] = log[i].val BY <2>2, <2>3, <3>3, <3>4 DEF UndoneIsRestored
    <3>6. OwnedBy(t, b) BY <2>3, <2>1, <2>2 DEF OwnedBy, Durable
    <3> QED BY <3>3, <3>5, <3>6 DEF FirstIsStable, Least
  <2>4. log' = log /\ Recent' = Recent /\ \A u, c : Recs(u, c)' = Recs(u, c)
    BY <1>18, <1>6 DEF UndoDone, logVars
  <2>5. /\ pc'[t] = "finish" /\ \A u \in Txs : u # t => pc'[u] = pc[u]
        /\ pos'[t] = 0 /\ \A u \in Txs : u # t => pos'[u] = pos[u]
        /\ UNCHANGED <<saved, stable, disk, mem, lsn, xlock, kind, blk>>
    BY <1>18, <1>3 DEF UndoDone, logVars, dataVars, txVars
  <2>6. \A u, c : Saved(u, c) => Saved(u, c)'
    BY <1>2, <1>4, <2>4, <2>5 DEF Saved
  <2>7. \A u, c : Marked(u, c) => Marked(u, c)'
    BY <1>2, <1>4, <2>4, <2>5 DEF Marked
  <2>8. RecsLocked'
    BY <2>4, <2>5, <2>2 DEF RecsLocked
  <2>9. LocksHaveRecs'
    BY <2>4, <2>5 DEF LocksHaveRecs
  <2>10. FirstIsStable'
    BY <2>4, <2>5, <2>2 DEF FirstIsStable, OwnedBy, Durable
  <2>11. MemIsStable'
    BY <2>5, <2>7 DEF MemIsStable, OwnedBy, Durable
  <2>12. DiskIsStable'
    BY <2>5, <2>6 DEF DiskIsStable, OwnedBy, Durable
  <2>13. UndoneIsRestored'
    BY <2>4, <2>5, <2>3 DEF UndoneIsRestored
  <2>14. LoggedHasRec'
    BY <2>4, <2>5 DEF LoggedHasRec
  <2>15. RecsAreMarked'
    BY <2>4, <2>5, <2>2 DEF RecsAreMarked
  <2>16. EndIsLast'
    BY <2>4, <2>5 DEF EndIsLast
  <2>17. EndIsSaved'
    BY <2>4, <2>5, <2>2 DEF EndIsSaved
  <2>18. CommitIsSaved'
    BY <2>4, <2>5 DEF CommitIsSaved
  <2> QED BY <2>8, <2>9, <2>10, <2>11, <2>12, <2>13, <2>14, <2>15, <2>16, <2>17, <2>18
<1>19. ASSUME RecoverNext \/ RecoverDone PROVE NormalInv'
  BY <1>19 DEF RecoverNext, RecoverDone, Recovering, LockInv, RestartFirst
<1>20. ASSUME NEW b \in Blocks, Evict(b) PROVE NormalInv'
  <2>1. \A c \in Blocks : \/ disk'[c] = disk[c]
                          \/ disk'[c] = mem[c] /\ (lsn[c] < saved \/ saved' = Len(log))
    <3>1. PICK D \in SUBSET Blocks : FlushBuffers(D) BY <1>20 DEF Evict
    <3>2. \A c \in Blocks : disk'[c] = IF c \in D THEN mem[c] ELSE disk[c]
      BY <3>1 DEF FlushBuffers
    <3>3. \A c \in D : lsn[c] >= saved => saved' = Len(log)
      BY <3>1 DEF FlushBuffers, Flush, SaveLog
    <3>4. \A c \in Blocks : lsn[c] >= saved \/ lsn[c] < saved BY <1>2
    <3> QED BY <3>2, <3>3, <3>4
  <2>2. log' = log /\ Recent' = Recent /\ \A u, c : Recs(u, c)' = Recs(u, c)
    BY <1>20, <1>6 DEF Evict, logVars
  <2>3. /\ UNCHANGED <<mem, lsn, xlock, kind, pos, blk, pc>>
    BY <1>20, <1>3 DEF Evict, logVars, dataVars, txVars
  <2>4. Saves
    <3>1. SaveLog \/ UNCHANGED <<saved, stable>> BY <1>20 DEF Evict, FlushBuffers, Flush
    <3> QED BY <3>1, <1>1
  <2>5. \A u, c : Saved(u, c) => Saved(u, c)'
    BY <1>2, <1>4, <2>2, <2>3, <2>4 DEF Saved
  <2>6. \A u, c : Marked(u, c) => Marked(u, c)'
    BY <1>2, <1>4, <2>2, <2>3 DEF Marked
  <2>7. \A u \in Txs, c \in Blocks :
           OwnedBy(u, c) /\ ~OwnedBy(u, c)' => stable'[c] = mem[c] /\ stable'[c] = disk[c]
    BY <2>3, <2>4 DEF OwnedBy, Durable
  <2>8. \A c \in Blocks :
           stable'[c] # stable[c] => stable'[c] = mem[c] /\ stable'[c] = disk[c]
    BY <1>2, <2>4
  <2>9. \A u : \A c \in Blocks : Marked(u, c) /\ (lsn[c] < saved \/ saved' = Len(log)) => Saved(u, c)'
    <3>1. ASSUME NEW u, NEW c \in Blocks, lsn[c] < saved \/ saved' = Len(log),
                 NEW i \in Recs(u, c), i <= lsn[c]
          PROVE  i \in Recs(u, c)' /\ i <= saved'
      <4>1. i \in Nat /\ i <= Len(log) BY <1>4
      <4> QED BY <1>2, <2>2, <2>4, <3>1, <4>1
    <3> QED BY <3>1 DEF Marked, Saved
  <2>10. RecsLocked'
    BY <2>2, <2>3 DEF RecsLocked
  <2>11. LocksHaveRecs'
    BY <2>2, <2>3 DEF LocksHaveRecs
  <2>12. FirstIsStable'
    BY <1>2, <2>2, <2>3, <2>4 DEF FirstIsStable, OwnedBy, Durable
  <2>13. MemIsStable'
    BY <2>3, <2>6, <2>7, <2>8 DEF MemIsStable
  <2>14. DiskIsStable'
    BY <2>1, <2>3, <2>5, <2>7, <2>8, <2>9 DEF DiskIsStable, MemIsStable
  <2>15. UndoneIsRestored'
    BY <2>2, <2>3, <2>4 DEF UndoneIsRestored
  <2>16. LoggedHasRec'
    BY <2>2, <2>3 DEF LoggedHasRec
  <2>17. RecsAreMarked'
    BY <2>2, <2>3 DEF RecsAreMarked
  <2>18. EndIsLast'
    BY <2>2, <2>3 DEF EndIsLast
  <2>19. EndIsSaved'
    BY <1>2, <1>5, <2>2, <2>3, <2>4 DEF EndIsSaved
  <2>20. CommitIsSaved'
    BY <1>2, <2>2, <2>3, <2>4 DEF CommitIsSaved
  <2> QED BY <2>10, <2>11, <2>12, <2>13, <2>14, <2>15, <2>16, <2>17, <2>18, <2>19, <2>20
<1>21. ASSUME LogPageFull PROVE NormalInv'
  <2>1. log' = log /\ Recent' = Recent /\ \A u, c : Recs(u, c)' = Recs(u, c)
    BY <1>21, <1>6 DEF LogPageFull, logVars
  <2>2. /\ UNCHANGED <<disk, mem, lsn, xlock, kind, pos, blk, pc>>
    BY <1>21, <1>3 DEF LogPageFull, logVars, dataVars, txVars
  <2>3. Saves
    <3>1. SaveLog \/ UNCHANGED <<saved, stable>> BY <1>21 DEF LogPageFull
    <3> QED BY <3>1, <1>1
  <2>4. \A u, c : Saved(u, c) => Saved(u, c)'
    BY <1>2, <1>4, <2>1, <2>2, <2>3 DEF Saved
  <2>5. \A u, c : Marked(u, c) => Marked(u, c)'
    BY <1>2, <1>4, <2>1, <2>2 DEF Marked
  <2>6. \A u \in Txs, c \in Blocks :
           OwnedBy(u, c) /\ ~OwnedBy(u, c)' => stable'[c] = mem[c] /\ stable'[c] = disk[c]
    BY <1>2, <1>4, <1>5, <2>1, <2>2, <2>3, <2>4, <2>5 DEF OwnedBy, Durable
  <2>7. \A c \in Blocks :
           stable'[c] # stable[c] => stable'[c] = mem[c] /\ stable'[c] = disk[c]
    BY <1>2, <2>3
  <2>8. RecsLocked'
    BY <1>2, <1>4, <1>5, <2>1, <2>2, <2>3, <2>4, <2>5 DEF RecsLocked
  <2>9. LocksHaveRecs'
    BY <1>2, <1>4, <1>5, <2>1, <2>2, <2>3, <2>4, <2>5 DEF LocksHaveRecs
  <2>10. FirstIsStable'
    BY <1>2, <1>4, <1>5, <2>1, <2>2, <2>3, <2>4, <2>5
       DEF FirstIsStable, OwnedBy, Durable, Least
  <2>11. MemIsStable'
    BY <2>2, <2>5, <2>6, <2>7 DEF MemIsStable
  <2>12. DiskIsStable'
    BY <2>2, <2>4, <2>6, <2>7 DEF DiskIsStable
  <2>13. UndoneIsRestored'
    BY <1>2, <1>4, <1>5, <2>1, <2>2, <2>3, <2>4, <2>5 DEF UndoneIsRestored
  <2>14. LoggedHasRec'
    BY <1>2, <1>4, <1>5, <2>1, <2>2, <2>3, <2>4, <2>5 DEF LoggedHasRec
  <2>15. RecsAreMarked'
    BY <1>2, <1>4, <1>5, <2>1, <2>2, <2>3, <2>4, <2>5 DEF RecsAreMarked
  <2>16. EndIsLast'
    BY <1>2, <1>4, <1>5, <2>1, <2>2, <2>3, <2>4, <2>5 DEF EndIsLast
  <2>17. EndIsSaved'
    BY <1>2, <1>4, <1>5, <2>1, <2>2, <2>3, <2>4, <2>5 DEF EndIsSaved
  <2>18. CommitIsSaved'
    BY <1>2, <1>4, <1>5, <2>1, <2>2, <2>3, <2>4, <2>5 DEF CommitIsSaved
  <2> QED BY <2>8, <2>9, <2>10, <2>11, <2>12, <2>13, <2>14, <2>15, <2>16, <2>17, <2>18
<1>22. CASE UNCHANGED vars
  <2>1. Recent' = Recent /\ \A u, c : Recs(u, c)' = Recs(u, c) BY <1>6, <1>22 DEF vars
  <2> QED
    BY <1>22, <2>1
       DEF vars, RecsLocked, LocksHaveRecs, FirstIsStable, MemIsStable, DiskIsStable,
    UndoneIsRestored, LoggedHasRec, RecsAreMarked, EndIsLast, EndIsSaved, CommitIsSaved,
    OwnedBy, Durable, Least,
    Marked, Saved
<1> QED
  BY <1>7, <1>8, <1>9, <1>10, <1>11, <1>12, <1>13, <1>14, <1>15, <1>16, <1>17, <1>18, <1>19,
     <1>20, <1>21, <1>22 DEF Next, TxStep, ClientCall

----------------------------------------------------------------------------
LEMMA InitDataInv == Init => DataInv
<1> SUFFICES ASSUME Init PROVE DataInv OBVIOUS
<1>1. Len(log) = 1 /\ log[1] = EndRecord("commit", 1) BY DEF Init
<1>2. log[1].op = "commit" BY <1>1 DEF EndRecord
<1>3. \A t, b : Recs(t, b) = {} BY <1>1, <1>2 DEF Recs, Recent
<1>4. 1 \in Txs OBVIOUS
<1>5. CountsTyped /\ NoRollback /\ NoCrash /\ CheckpointIsSaved
  BY <1>1, <1>2 DEF Init, CountsTyped, NoRollback, NoCrash, CheckpointIsSaved
<1>6. ~Recovering BY <1>4 DEF Init, Recovering
<1>7. RecsLocked /\ LocksHaveRecs /\ FirstIsStable /\ RecsAreMarked /\ CommitIsSaved
  BY <1>3 DEF Init, RecsLocked, LocksHaveRecs, FirstIsStable, RecsAreMarked, CommitIsSaved
<1>8. MemIsStable /\ DiskIsStable BY DEF Init, MemIsStable, DiskIsStable
<1>9. UndoneIsRestored /\ LoggedHasRec BY DEF Init, UndoneIsRestored, LoggedHasRec
<1>10. EndIsLast /\ EndIsSaved
  <2>1. \A t \in Txs : pc[t] \in {"none", "done"} BY DEF Init
  <2>2. \A j \in Recent : j = 1 BY <1>1 DEF Recent
  <2>3. \A j \in Recent, t \in Txs : log[j].tx = t => t = 1 BY <1>1, <2>2 DEF EndRecord
  <2>4. pc[1] = "done" /\ saved = 1 BY <1>4 DEF Init
  <2> QED BY <2>1, <2>2, <2>3, <2>4 DEF EndIsLast, EndIsSaved
<1> QED BY <1>5, <1>6, <1>7, <1>8, <1>9, <1>10 DEF DataInv, NormalInv

(* The counts only grow, and so do the records that tell of them. *)
LEMMA CountsStep ==
  ASSUME LockInv, CountsTyped, NoRollback, NoCrash, [Next]_vars
  PROVE  CountsTyped' /\ NoRollback' /\ NoCrash' /\ (Sound' => Sound)
<1>1. /\ pc \in [Txs -> Control] /\ 1 \in Txs /\ Len(log) \in Nat
      /\ kind \in [Txs -> {"commit", "rollback", "checkpoint"}]
  BY DEF LockInv, TypeOK, LogTyped
<1>2. CASE UNCHANGED vars
  BY <1>2 DEF vars, CountsTyped, NoRollback, NoCrash, Sound
<1>3. CASE Crash
  <2>1. /\ saved \in Nat /\ saved <= Len(log) /\ \A i \in 1..saved : log[i] \in Records
    BY DEF LockInv, TypeOK, LogTyped
  <2>2. /\ log' = SubSeq(log, 1, saved) /\ Len(log') = saved
        /\ \A i \in 1..saved : log'[i] = log[i]
    BY <1>3, <2>1, SubSeqProperties DEF Crash, LockInv, LogTyped
  <2>3. rollbacks' = rollbacks /\ crashes' = crashes + 1 BY <1>3 DEF Crash
  <2>4. \A t \in Txs : kind'[t] # "rollback" BY <1>3 DEF Crash
  <2>5. CountsTyped' /\ crashes' # 0 BY <2>3 DEF CountsTyped
  <2>6. NoRollback' BY <1>1, <2>1, <2>2, <2>3, <2>4 DEF NoRollback
  <2> QED BY <2>3, <2>5, <2>6 DEF NoCrash, Sound
<1>4. ASSUME NEW t \in Txs, StartRollback(t)
      PROVE  CountsTyped' /\ NoRollback' /\ NoCrash' /\ (Sound' => Sound)
  <2>1. /\ rollbacks' = rollbacks + 1 /\ UNCHANGED <<log, crashes>>
        /\ kind' = [kind EXCEPT ![t] = "rollback"]
    BY <1>4 DEF StartRollback
  <2>2. CountsTyped' /\ rollbacks' # 0 BY <2>1 DEF CountsTyped
  <2>3. NoCrash' BY <1>1, <2>1 DEF NoCrash
  <2> QED BY <2>1, <2>2, <2>3 DEF NoRollback, Sound
<1>5. ASSUME NEW t \in Txs, NEW r \in Records, UNCHANGED <<rollbacks, crashes, kind>>,
             log' = Append(log, r), r.op = "set" \/ r.op = kind[t]
      PROVE  CountsTyped' /\ NoRollback' /\ NoCrash' /\ (Sound' => Sound)
  <2>1. /\ Len(log') = Len(log) + 1 /\ \A i \in 1..Len(log) : log'[i] = log[i]
        /\ log'[Len(log) + 1] = r
    BY <1>5, Appended DEF LockInv
  <2>2. \A i \in 1..Len(log') : i \in 1..Len(log) \/ i = Len(log) + 1 BY <1>1, <2>1
  <2>3. NoRollback' BY <1>5, <2>1, <2>2 DEF NoRollback
  <2>4. NoCrash' BY <1>5, <2>1, <2>2 DEF NoCrash
  <2> QED BY <1>5, <2>3, <2>4 DEF CountsTyped, Sound
<1>6. ASSUME NEW t \in Txs, NEW b \in Blocks, StartSet(t, b)
      PROVE  CountsTyped' /\ NoRollback' /\ NoCrash' /\ (Sound' => Sound)
  <2>1. SetRecord(t, b, mem[b]) \in Records /\ SetRecord(t, b, mem[b]).op = "set"
    BY DEF SetRecord, Records, LockInv, TypeOK
  <2> QED BY <1>5, <1>6, <2>1 DEF StartSet
<1>7. ASSUME NEW t \in Txs, AppendLast(t)
      PROVE  CountsTyped' /\ NoRollback' /\ NoCrash' /\ (Sound' => Sound)
  <2>1. EndRecord(kind[t], t) \in Records /\ EndRecord(kind[t], t).op = kind[t]
    BY <1>1 DEF EndRecord, Records
  <2> QED BY <1>5, <1>7, <2>1 DEF AppendLast
<1>8. ASSUME NEW t \in Txs, StartCommit(t)
      PROVE  CountsTyped' /\ NoRollback' /\ NoCrash' /\ (Sound' => Sound)
  <2>1. UNCHANGED <<log, rollbacks, crashes>> /\ kind' = [kind EXCEPT ![t] = "commit"]
    BY <1>8 DEF StartCommit, logVars
  <2> QED BY <1>1, <2>1 DEF CountsTyped, NoRollback, NoCrash, Sound
<1>9. CASE UNCHANGED <<log, kind, rollbacks, crashes>>
  BY <1>9 DEF CountsTyped, NoRollback, NoCrash, Sound
<1> QED
  BY <1>2, <1>3, <1>4, <1>6, <1>7, <1>8, <1>9
     DEF Next, TxStep, ClientCall, SetPage, FlushAll, FlushLast, Release, UndoNext,
         UndoFails, UndoDone, Begin, RecoverNext, RecoverDone, Evict, LogPageFull

(* Only a crash leads to a recovery. *)
LEMMA NormalStays ==
  ASSUME LockInv, NoRollback, NoCrash, Sound, ~Recovering, NormalInv, CheckpointIsSaved,
         [Next]_vars, ~Crash
  PROVE  ~Recovering' /\ CheckpointIsSaved'
<1>1. /\ pc \in [Txs -> Control] /\ 1 \in Txs /\ Len(log) \in Nat
      /\ saved \in Nat /\ saved <= Len(log)
      /\ kind \in [Txs -> {"commit", "rollback", "checkpoint"}]
      /\ pc[1] \notin {"none", "logged", "undo", "stuck"}
      /\ \A t \in Txs : kind[t] = "checkpoint" => t = 1
  BY DEF LockInv, TypeOK, LogTyped, RestartFirst
<1>2. CASE UNCHANGED vars
  BY <1>2 DEF vars, Recovering, CheckpointIsSaved
<1>3. ASSUME NEW r \in Records, UNCHANGED saved, log' = Append(log, r), r.op # "checkpoint"
      PROVE  CheckpointIsSaved'
  <2>1. /\ Len(log') = Len(log) + 1 /\ \A i \in 1..Len(log) : log'[i] = log[i]
        /\ log'[Len(log) + 1] = r
    BY <1>3, Appended DEF LockInv
  <2>2. \A i \in 1..Len(log') : i \in 1..Len(log) \/ i = Len(log) + 1 BY <1>1, <2>1
  <2> QED BY <1>3, <2>1, <2>2 DEF CheckpointIsSaved
<1>4. ASSUME NEW t \in Txs, NEW b \in Blocks, StartSet(t, b)
      PROVE  ~Recovering' /\ CheckpointIsSaved'
  <2>1. SetRecord(t, b, mem[b]) \in Records /\ SetRecord(t, b, mem[b]).op = "set"
    BY DEF SetRecord, Records, LockInv, TypeOK
  <2>2. ~Recovering' BY <1>1, <1>4 DEF StartSet, Recovering
  <2> QED BY <1>3, <1>4, <2>1, <2>2 DEF StartSet
<1>5. ASSUME NEW t \in Txs, AppendLast(t)
      PROVE  ~Recovering' /\ CheckpointIsSaved'
  <2>1. EndRecord(kind[t], t) \in Records /\ EndRecord(kind[t], t).op = kind[t]
    BY <1>1 DEF EndRecord, Records
  <2>2. kind[t] # "checkpoint" BY <1>1, <1>5 DEF AppendLast, Recovering
  <2>3. ~Recovering' BY <1>1, <1>5, <2>2 DEF AppendLast, Recovering
  <2> QED BY <1>3, <1>5, <2>1, <2>2, <2>3 DEF AppendLast, logVars
<1>6. ASSUME log' = log, SaveLog \/ UNCHANGED <<saved, stable>> PROVE CheckpointIsSaved'
  <2>1. saved' = saved \/ saved' = Len(log) BY <1>6 DEF SaveLog
  <2> QED BY <1>1, <1>6, <2>1 DEF CheckpointIsSaved
<1>7. ASSUME NEW t \in Txs, FlushAll(t) \/ FlushLast(t) \/ StartRollback(t)
      PROVE  ~Recovering' /\ CheckpointIsSaved'
  <2>1. log' = log /\ (SaveLog \/ UNCHANGED <<saved, stable>>)
    BY <1>7 DEF FlushAll, FlushBuffers, FlushLast, StartRollback, Flush
  <2>2. ~Recovering' BY <1>1, <1>7 DEF FlushAll, FlushLast, StartRollback, Recovering
  <2> QED BY <1>6, <2>1, <2>2
<1>8. ASSUME NEW b \in Blocks, Evict(b) PROVE ~Recovering' /\ CheckpointIsSaved'
  <2>1. log' = log /\ (SaveLog \/ UNCHANGED <<saved, stable>>)
    BY <1>8 DEF Evict, FlushBuffers, Flush
  <2>2. ~Recovering' BY <1>8 DEF Evict, Recovering, txVars
  <2> QED BY <1>6, <2>1, <2>2
<1>9. CASE LogPageFull
  <2>1. log' = log /\ SaveLog BY <1>9 DEF LogPageFull
  <2>2. ~Recovering' BY <1>9 DEF LogPageFull, Recovering, txVars
  <2> QED BY <1>6, <2>1, <2>2
<1>10. ASSUME NEW t \in Txs,
              \/ \E v \in Values : SetPage(t, v)
              \/ Release(t) \/ UndoNext(t) \/ UndoFails(t) \/ UndoDone(t)
              \/ Begin(t) \/ StartCommit(t)
       PROVE  ~Recovering' /\ CheckpointIsSaved'
  <2>1. UNCHANGED logVars
    BY <1>10 DEF SetPage, Release, UndoNext, UndoFails, UndoDone, Begin, StartCommit
  <2>2. ~Recovering'
    BY <1>1, <1>10
       DEF SetPage, Release, UndoNext, UndoFails, UndoDone, Begin, StartCommit, Recovering
  <2> QED BY <2>1, <2>2 DEF CheckpointIsSaved
<1>11. ~RecoverNext /\ ~RecoverDone
  BY DEF RecoverNext, RecoverDone, Recovering, LockInv, RestartFirst
<1> QED
  BY <1>2, <1>4, <1>5, <1>7, <1>8, <1>9, <1>10, <1>11 DEF Next, TxStep, ClientCall

(* The update records that a crash would leave unfinished, while no          *)
(* rollback has finished any: those of the transaction that may lose the     *)
(* block, as far as they are on disk.                                       *)
LEMMA UnfinishedIs ==
  ASSUME LockInv, NoRollback, NormalInv, CheckpointIsSaved, rollbacks = 0, NEW b \in Blocks
  PROVE  /\ \A t \in Txs : OwnedBy(t, b) =>
              \A i : i \in Unfinished(b) <=> i \in Recs(t, b) /\ i <= saved
         /\ (\A t \in Txs : ~OwnedBy(t, b)) => Unfinished(b) = {}
<1> USE DEF NormalInv
<1>1. /\ Len(log) \in Nat /\ saved \in Nat /\ saved <= Len(log) /\ log \in Seq(Records)
      /\ \A t \in Txs : pos[t] \in Nat /\ pos[t] <= Len(log)
      /\ \A t \in Txs : kind[t] \in {"commit", "checkpoint"}
      /\ \A t \in Txs : t # 1 => kind[t] = "commit"
  <2>1. \A t \in Txs : kind[t] \in {"commit", "rollback", "checkpoint"}
    BY DEF LockInv, TypeOK
  <2>2. \A t \in Txs : kind[t] # "rollback" BY DEF NoRollback
  <2>3. \A t \in Txs : t # 1 => kind[t] # "checkpoint" BY DEF LockInv, RestartFirst
  <2>4. \A t \in Txs : pos[t] \in Nat /\ pos[t] <= Len(log)
    BY DEF LockInv, TypeOK, LogTyped
  <2>5. saved \in Nat /\ saved <= Len(log) /\ log \in Seq(Records) /\ Len(log) \in Nat
    BY DEF LockInv, TypeOK, LogTyped
  <2> QED BY <2>1, <2>2, <2>3, <2>4, <2>5
<1>2. \A i : i \in SinceCheckpoint <=> i \in Recent /\ i <= saved
  <2>1. \A i \in 1..saved : i \in 1..Len(log) /\ \A k \in i..saved : k \in i..Len(log)
    BY <1>1
  <2>2. \A i \in 1..saved : \A k \in i..Len(log) :
          log[k].op = "checkpoint" => k \in i..saved
    BY <1>1 DEF CheckpointIsSaved
  <2> QED BY <2>1, <2>2 DEF SinceCheckpoint, Recent, CheckpointsIn
<1>3. \A i \in Unfinished(b) : \E u \in Txs : i \in Recs(u, b)
  <2>1. \A i \in Unfinished(b) : i \in Recent /\ log[i].op = "set" /\ log[i].blk = b
    BY <1>2 DEF Unfinished
  <2>2. \A i \in Recent : log[i] \in Records BY <1>1 DEF Recent
  <2>3. \A i \in Recent : log[i].tx \in Txs BY <2>2 DEF Records
  <2> QED BY <2>1, <2>3 DEF Recs
<1>4. ASSUME NEW u \in Txs, NEW i \in Recs(u, b), i <= saved, ~OwnedBy(u, b)
      PROVE  i \notin Unfinished(b)
  <2>1. u # 1 /\ pc[u] # "none" /\ (pc[u] # "done" => xlock[b] = u) BY <1>4 DEF RecsLocked
  <2>2. log[i].op = "set" /\ log[i].tx = u /\ i \in Nat BY RecsAre
  <2>3. kind[u] = "commit" BY <1>1, <2>1
  <2>4. \E j \in (i + 1)..saved : log[j] = EndRecord("commit", u)
    <3>1. CASE pc[u] \in {"release", "done"} BY <2>3, <3>1 DEF CommitIsSaved
    <3>2. CASE pc[u] \notin {"release", "done"}
      <4>1. Durable(u) BY <1>4, <2>1, <3>2 DEF OwnedBy
      <4>2. pc[u] = "appended" /\ pos[u] <= saved BY <3>2, <4>1 DEF Durable
      <4>3. log[pos[u]] = EndRecord("commit", u) /\ i < pos[u]
        BY <2>3, <4>2 DEF EndIsLast
      <4> QED BY <1>1, <2>2, <4>2, <4>3
    <3> QED BY <3>1, <3>2
  <2>5. PICK j \in (i + 1)..saved : log[j] = EndRecord("commit", u) BY <2>4
  <2>6. Finishes(log[j]) /\ TxNumber(log[j]) = u
    BY <2>5 DEF Finishes, TxNumber, EndRecord
  <2>7. TxNumber(log[i]) = u BY <2>2 DEF TxNumber
  <2> QED BY <2>6, <2>7 DEF Unfinished
<1>5. ASSUME NEW t \in Txs, OwnedBy(t, b), NEW i \in Recs(t, b), i <= saved
      PROVE  i \in Unfinished(b)
  <2>1. i \in Recent /\ log[i].op = "set" /\ log[i].tx = t /\ log[i].blk = b /\ i \in Nat
    BY RecsAre
  <2>2. ASSUME NEW j \in (i + 1)..saved, Finishes(log[j]), TxNumber(log[j]) = TxNumber(log[i])
        PROVE  FALSE
    <3>1. j \in 1..Len(log) /\ j \in Recent BY <1>1, <2>1 DEF Recent
    <3>2. TxNumber(log[i]) = t BY <2>1 DEF TxNumber
    <3>3. log[j].op = "commit" BY <2>2, <3>1 DEF Finishes, NoRollback
    <3>4. log[j].tx = t BY <2>2, <3>2, <3>3 DEF TxNumber
    <3>5. /\ pc[t] \in {"appended", "release", "done"}
          /\ pc[t] = "appended" => j = pos[t]
      BY <2>2, <3>1, <3>4 DEF EndIsSaved
    <3>6. pc[t] # "done" BY <1>5 DEF OwnedBy, LocksHaveRecs
    <3>7. kind[t] = "commit" BY <1>1, <1>5 DEF OwnedBy
    <3>8. Durable(t) BY <1>1, <2>1, <3>5, <3>6, <3>7 DEF Durable
    <3> QED BY <1>5, <3>8 DEF OwnedBy
  <2> QED BY <1>2, <1>5, <2>1, <2>2 DEF Unfinished
<1>6. \A i \in Unfinished(b) : i <= saved BY <1>2 DEF Unfinished
<1>7. ASSUME NEW t \in Txs, OwnedBy(t, b), NEW i \in Unfinished(b) PROVE i \in Recs(t, b)
  <2>1. PICK u \in Txs : i \in Recs(u, b) BY <1>3
  <2>2. OwnedBy(u, b) BY <1>4, <1>6, <2>1
  <2> QED BY <1>7, <2>1, <2>2 DEF OwnedBy
<1> QED BY <1>3, <1>4, <1>5, <1>6, <1>7

(* So a crash would lose nothing that is committed, and keep nothing else.  *)
LEMMA NormalRestart ==
  ASSUME LockInv, NoRollback, NormalInv, CheckpointIsSaved, rollbacks = 0
  PROVE  RestartIsStable
<1> SUFFICES ASSUME NEW b \in Blocks
             PROVE  /\ Unfinished(b) = {} => disk[b] = stable[b]
                    /\ \A i \in Unfinished(b) :
                         Least(i, Unfinished(b)) => log[i].val = stable[b]
  BY DEF RestartIsStable
<1>1. CASE \E t \in Txs : OwnedBy(t, b)
  <2>1. PICK t \in Txs : OwnedBy(t, b) BY <1>1
  <2>2. \A i : i \in Unfinished(b) <=> i \in Recs(t, b) /\ i <= saved
    BY <2>1, UnfinishedIs
  <2>3. Unfinished(b) = {} => ~Saved(t, b) BY <2>2 DEF Saved
  <2>4. \A u \in Txs : OwnedBy(u, b) => u = t BY <2>1 DEF OwnedBy
  <2>5. Unfinished(b) = {} => disk[b] = stable[b]
    BY <2>3, <2>4 DEF NormalInv, DiskIsStable
  <2>6. ASSUME NEW i \in Unfinished(b), Least(i, Unfinished(b)) PROVE log[i].val = stable[b]
    <3>1. saved \in Nat BY DEF LockInv, TypeOK
    <3>2. \A j \in Recs(t, b) : j \in Nat BY RecsAre
    <3>3. i \in Recs(t, b) /\ i <= saved BY <2>2
    <3>4. \A j \in Recs(t, b) : i <= j BY <2>2, <2>6, <3>1, <3>2, <3>3 DEF Least
    <3> QED BY <2>1, <3>3, <3>4 DEF NormalInv, FirstIsStable, Least
  <2> QED BY <2>5, <2>6
<1>2. CASE \A t \in Txs : ~OwnedBy(t, b)
  <2>1. Unfinished(b) = {} BY <1>2, UnfinishedIs
  <2> QED BY <1>2, <2>1 DEF NormalInv, DiskIsStable
<1> QED BY <1>1, <1>2

LEMMA UnfinishedSame ==
  ASSUME LockInv, saved' = saved, \A i \in 1..saved : log'[i] = log[i]
  PROVE  \A b : Unfinished(b)' = Unfinished(b)
<1>1. saved \in Nat BY DEF LockInv, TypeOK
<1>2. SinceCheckpoint' = SinceCheckpoint
  <2>1. \A i \in 1..saved : \A k \in i..saved : log'[k] = log[k] BY <1>1
  <2> QED BY <2>1 DEF SinceCheckpoint, CheckpointsIn
<1>3. \A i \in SinceCheckpoint : i \in 1..saved BY DEF SinceCheckpoint
<1>4. \A i \in 1..saved : \A j \in (i + 1)..saved : j \in 1..saved /\ log'[j] = log[j]
  BY <1>1
<1> QED BY <1>2, <1>3, <1>4 DEF Unfinished, Finishes, TxNumber

(* A restart begins with what the disk holds, be it that of a crash in       *)
(* recovery. *)
LEMMA CrashRestarts ==
  ASSUME LockInv, RestartIsStable, Crash
  PROVE  RecoverInv'
<1>1. /\ saved \in Nat /\ saved <= Len(log) /\ 1 \in Txs
      /\ log' = SubSeq(log, 1, saved) /\ Len(log') = saved
      /\ \A i \in 1..saved : log'[i] = log[i]
  <2>1. /\ saved \in Nat /\ saved <= Len(log) /\ \A i \in 1..saved : log[i] \in Records
    BY DEF LockInv, TypeOK, LogTyped
  <2> QED BY <2>1, SubSeqProperties DEF Crash, LockInv, LogTyped
<1>2. /\ UNCHANGED <<saved, disk, stable>> /\ mem' = disk
      /\ pc'[1] = "recover" /\ pos'[1] = saved /\ done' = {}
      /\ \A b \in Blocks : xlock'[b] = Nobody
  BY <1>1 DEF Crash
<1>3. \A b : Unfinished(b)' = Unfinished(b) BY <1>1, <1>2, UnfinishedSame
<1>4. \A b : \A i \in Unfinished(b) : i \in 1..saved /\ i \in Nat /\ i <= saved
  BY <1>1 DEF Unfinished, SinceCheckpoint
<1>5. RestartIsStable' BY <1>1, <1>2, <1>3, <1>4 DEF RestartIsStable, Least
<1>6. RecoveredSoFar'
  <2>1. \A k \in (pos'[1] + 1)..saved' : FALSE BY <1>1, <1>2
  <2>2. \A b \in Blocks : Unfinished(b)' = {} => mem'[b] = stable'[b]
    BY <1>2, <1>3 DEF RestartIsStable
  <2>3. \A b : \A i \in Unfinished(b)' : ~(i > pos'[1]) BY <1>1, <1>2, <1>3, <1>4
  <2> QED BY <1>2, <2>1, <2>2, <2>3 DEF RecoveredSoFar
<1>7. RecoveredAll' BY <1>1, <1>2 DEF RecoveredAll
<1>8. RecoveryLocks' BY <1>2 DEF RecoveryLocks
<1> QED BY <1>5, <1>6, <1>7, <1>8 DEF RecoverInv

(* Recovery comes to a record of an unfinished update if and only if it     *)
(* undoes it.                                                              *)
LEMMA UndoesUnfinished ==
  ASSUME LockInv, RecoveredSoFar, RecoveredAll, pc[1] = "recover", pos[1] > 0,
         log[pos[1]].op # "checkpoint", NEW b \in Blocks
  PROVE  pos[1] \in Unfinished(b) <=> MustUndo(log[pos[1]], done) /\ log[pos[1]].blk = b
<1> DEFINE k == pos[1]
<1>1. k \in Nat /\ k > 0 /\ saved = Len(log) /\ saved \in Nat /\ k \in 1..saved
  <2>1. pos[1] \in Nat /\ pos[1] <= Len(log) /\ saved \in Nat
    <3>1. 1 \in Txs OBVIOUS
    <3> QED BY <3>1 DEF LockInv, TypeOK, LogTyped
  <2>2. saved = Len(log) BY DEF RecoveredAll
  <2> QED BY <2>1, <2>2
<1>2. \A j \in k..saved : log[j].op # "checkpoint"
  <2>1. \A j \in k..saved : j = k \/ j \in (k + 1)..saved BY <1>1
  <2>2. \A j \in (k + 1)..saved : log[j].op # "checkpoint" BY DEF RecoveredSoFar
  <2> QED BY <2>1, <2>2
<1>3. k \in SinceCheckpoint BY <1>1, <1>2 DEF SinceCheckpoint, CheckpointsIn
<1>4. TxNumber(log[k]) \in done <=>
        \E j \in (k + 1)..saved : Finishes(log[j]) /\ TxNumber(log[j]) = TxNumber(log[k])
  BY DEF RecoveredSoFar
<1> QED BY <1>3, <1>4 DEF Unfinished, MustUndo

(* From the crash to the checkpoint: what a further crash would find is the *)
(* committed store all the time, and in the end the disk is.                *)
LEMMA RecoverStep ==
  ASSUME LockInv, Recovering, RecoverInv, [Next]_vars, ~Crash
  PROVE  \/ Recovering' /\ RecoverInv'
         \/ ~Recovering' /\ NormalInv' /\ CheckpointIsSaved'
<1> USE DEF RecoverInv
<1>1. /\ 1 \in Txs /\ Len(log) \in Nat /\ saved \in Nat /\ saved <= Len(log)
      /\ pos[1] \in Nat /\ pos[1] <= Len(log)
      /\ pc[1] \in {"recover", "finish", "flushed", "appended"} /\ kind[1] = "checkpoint"
      /\ \A t \in Txs : t # 1 => pc[t] = "none"
  <2>1. 1 \in Txs OBVIOUS
  <2>2. Len(log) \in Nat /\ saved \in Nat /\ saved <= Len(log)
    BY DEF LockInv, TypeOK, LogTyped
  <2>3. pos[1] \in Nat /\ pos[1] <= Len(log) BY <2>1 DEF LockInv, TypeOK, LogTyped
  <2> QED BY <2>1, <2>2, <2>3 DEF LockInv, RestartFirst, Recovering
<1>2. /\ pc \in [Txs -> Control] /\ kind \in [Txs -> {"commit", "rollback", "checkpoint"}]
      /\ pos \in [Txs -> Nat] /\ xlock \in [Blocks -> Txs \cup {Nobody}]
      /\ mem \in [Blocks -> Values] /\ disk \in [Blocks -> Values]
      /\ stable \in [Blocks -> Values] /\ dirty \in [Blocks -> Txs \cup {Nobody}]
  BY DEF LockInv, TypeOK
<1>3. Committing = {} BY <1>1 DEF Committing
<1>4. SaveLog \/ UNCHANGED <<saved, stable>> =>
        stable' = stable /\ (saved' = saved \/ saved' = Len(log))
  BY <1>2, <1>3 DEF SaveLog
<1>5. \A b \in Blocks : dirty[b] \in {1, Nobody}
  BY <1>1, <1>2 DEF LockInv, FlushedIsClean
<1>6. \A b : \A i \in Unfinished(b) : i \in 1..saved /\ i \in Nat /\ i <= saved
  BY <1>1 DEF Unfinished, SinceCheckpoint
<1>7. UNCHANGED <<log, saved>> => \A b : Unfinished(b)' = Unfinished(b)
  BY UnfinishedSame
<1>8. CASE UNCHANGED vars
  <2>1. Recovering' BY <1>8 DEF vars, Recovering
  <2>2. RecoverInv'
    BY <1>7, <1>8
       DEF vars, RestartIsStable, RecoveredSoFar, RecoveredAll, RecoveryLocks, Least
  <2> QED BY <2>1, <2>2
<1>9. CASE RecoverNext
  <2> DEFINE k == pos[1]
             r == log[k]
  <2>1. /\ pc[1] = "recover" /\ k > 0 /\ r.op # "checkpoint"
        /\ done' = IF Finishes(r) THEN done \cup {TxNumber(r)} ELSE done
        /\ pos'[1] = k - 1 /\ saved = Len(log)
        /\ UNCHANGED <<log, saved, disk, pc, kind, stable>>
    BY <1>1, <1>2, <1>9 DEF RecoverNext, RecoveredAll, logVars
  <2>2. Recovering' BY <2>1 DEF Recovering
  <2>3. k \in Nat /\ k \in 1..saved /\ k - 1 \in Nat /\ k - 1 + 1 = k BY <1>1, <2>1
  <2>4. \A b \in Blocks :
          /\ k \in Unfinished(b) => mem'[b] = r.val
          /\ k \notin Unfinished(b) => mem'[b] = mem[b]
    <3>1. \A b \in Blocks : k \in Unfinished(b) <=> MustUndo(r, done) /\ r.blk = b
      BY <2>1, UndoesUnfinished
    <3>2. CASE MustUndo(r, done)
      <4>1. mem' = [mem EXCEPT ![r.blk] = r.val]
        BY <1>9, <3>2 DEF RecoverNext, Undo, WritePage
      <4> QED BY <1>2, <3>1, <3>2, <4>1
    <3>3. CASE ~MustUndo(r, done)
      <4>1. mem' = mem BY <1>9, <3>3 DEF RecoverNext
      <4> QED BY <3>1, <3>3, <4>1
    <3> QED BY <3>2, <3>3
  <2>5. \A b : Unfinished(b)' = Unfinished(b) BY <1>7, <2>1
  <2>6. RestartIsStable' BY <2>1, <2>5 DEF RestartIsStable, Least
  <2>7. RecoveredSoFar'
    <3>1. \A j \in k..saved : j = k \/ j \in (k + 1)..saved BY <2>3
    <3>2. \A j \in (k + 1)..saved : j \in k..saved BY <2>3
    <3>3. k \in k..saved BY <2>3
    <3>4. \A j \in k..saved : log[j].op # "checkpoint"
      BY <2>1, <3>1 DEF RecoveredSoFar
    <3>5. \A n : n \in done' <=> \E j \in k..saved : Finishes(log[j]) /\ TxNumber(log[j]) = n
      <4>1. \A n : n \in done <=> \E j \in (k + 1)..saved :
                                     Finishes(log[j]) /\ TxNumber(log[j]) = n
        BY <2>1 DEF RecoveredSoFar
      <4>2. \A n : n \in done' <=> n \in done \/ (Finishes(r) /\ TxNumber(r) = n)
        BY <2>1
      <4> QED BY <3>1, <3>2, <3>3, <4>1, <4>2
    <3>6. \A b \in Blocks : Unfinished(b) = {} => mem'[b] = stable[b]
      BY <2>1, <2>4 DEF RecoveredSoFar
    <3>7. ASSUME NEW b \in Blocks, NEW i \in Unfinished(b), i > k - 1,
                 \A j \in Unfinished(b) : j > k - 1 => i <= j
          PROVE  mem'[b] = log[i].val
      <4>1. i \in Nat BY <1>6
      <4>2. CASE i = k BY <2>4, <3>7, <4>2
      <4>3. CASE i # k
        <5>1. i > k BY <2>3, <3>7, <4>1, <4>3
        <5>2. k \notin Unfinished(b) BY <2>3, <3>7, <4>1, <5>1
        <5>3. \A j \in Unfinished(b) : j > k => j > k - 1 BY <1>6, <2>3
        <5>4. mem[b] = log[i].val BY <2>1, <3>7, <5>1, <5>3 DEF RecoveredSoFar
        <5> QED BY <2>4, <5>2, <5>4
      <4> QED BY <4>2, <4>3
    <3> HIDE DEF k
    <3> QED BY <2>1, <2>3, <2>5, <3>4, <3>5, <3>6, <3>7 DEF RecoveredSoFar
  <2>8. RecoveredAll' BY <2>1 DEF RecoveredAll
  <2>9. RecoveryLocks'
    <3>1. UNCHANGED xlock \/ xlock' = [xlock EXCEPT ![r.blk] = 1]
      BY <1>9 DEF RecoverNext, Undo
    <3> QED BY <1>2, <3>1 DEF RecoveryLocks
  <2> QED BY <2>2, <2>6, <2>7, <2>8, <2>9
<1>10. CASE RecoverDone
  <2>1. /\ pc[1] = "recover" /\ (pos[1] > 0 => log[pos[1]].op = "checkpoint")
        /\ pc'[1] = "finish" /\ saved = Len(log)
        /\ UNCHANGED <<log, saved, mem, disk, xlock, kind, stable>>
    BY <1>1, <1>2, <1>10 DEF RecoverDone, RecoveredAll, logVars, dataVars
  <2>2. \A b : Unfinished(b)' = Unfinished(b) BY <1>7, <2>1
  <2>3. ASSUME NEW b \in Blocks PROVE mem[b] = stable[b]
    <3>1. CASE Unfinished(b) = {} BY <2>1, <3>1 DEF RecoveredSoFar
    <3>2. CASE Unfinished(b) # {}
      <4>1. Unfinished(b) \subseteq Nat BY <1>6
      <4>2. PICK i \in Unfinished(b) : \A j \in Unfinished(b) : i <= j
        BY <3>2, <4>1, LeastExists
      <4>3. i > pos[1]
        <5>1. CheckpointsIn(i..saved) = {} BY DEF Unfinished, SinceCheckpoint
        <5>2. SUFFICES ASSUME ~(i > pos[1]) PROVE FALSE OBVIOUS
        <5>3. pos[1] \in i..saved /\ pos[1] > 0 BY <1>1, <1>6, <2>1, <5>2
        <5> QED BY <2>1, <5>1, <5>3 DEF CheckpointsIn
      <4>4. mem[b] = log[i].val BY <2>1, <4>2, <4>3 DEF RecoveredSoFar
      <4> QED BY <4>2, <4>4 DEF RestartIsStable, Least
    <3> QED BY <3>1, <3>2
  <2>4. mem = stable BY <1>2, <2>3
  <2>5. Recovering' BY <1>1, <2>1 DEF Recovering
  <2>6. RestartIsStable' BY <2>1, <2>2 DEF RestartIsStable, Least
  <2>7. RecoveredSoFar' /\ RecoveredAll' BY <2>1, <2>4 DEF RecoveredSoFar, RecoveredAll
  <2>8. RecoveryLocks' BY <2>1 DEF RecoveryLocks
  <2> QED BY <2>5, <2>6, <2>7, <2>8
<1>11. ASSUME NEW D \in SUBSET Blocks, FlushBuffers(D), \A b \in D : dirty[b] # Nobody,
              UNCHANGED <<log, mem, xlock, kind, pos, done>>,
              pc'[1] = pc[1] \/ (pc[1] = "finish" /\ pc'[1] = "flushed")
       PROVE  Recovering' /\ RestartIsStable' /\ RecoveredSoFar' /\ RecoveryLocks'
  <2>1. CASE D = {}
    <3>1. UNCHANGED <<saved, stable>> BY <2>1, <1>11 DEF FlushBuffers, Flush
    <3>2. disk' = disk BY <1>2, <1>11, <2>1 DEF FlushBuffers
    <3>3. \A b : Unfinished(b)' = Unfinished(b) BY <1>7, <1>11, <3>1
    <3>4. RestartIsStable' BY <1>11, <3>1, <3>2, <3>3 DEF RestartIsStable, Least
    <3>5. Recovering' BY <1>1, <1>11 DEF Recovering
    <3>6. RecoveryLocks' BY <1>11 DEF RecoveryLocks
    <3>7. RecoveredSoFar' BY <1>11, <3>1, <3>3 DEF RecoveredSoFar
    <3> QED BY <3>4, <3>5, <3>6, <3>7
  <2>2. CASE D # {}
    <3>1. pc[1] \in {"recover", "finish"}
      BY <1>1, <1>5, <1>11, <2>2 DEF LockInv, FlushedIsClean
    <3>2. saved = Len(log) BY <1>1, <3>1 DEF RecoveredAll
    <3>3. saved' = saved /\ stable' = stable
      BY <1>4, <1>11, <3>2 DEF FlushBuffers, Flush
    <3>4. \A b : Unfinished(b)' = Unfinished(b) BY <1>7, <1>11, <3>3
    <3>5. \A b \in Blocks : disk'[b] = disk[b] \/ disk'[b] = mem[b]
      BY <1>11 DEF FlushBuffers
    <3>6. \A b \in Blocks : Unfinished(b) = {} => mem[b] = stable[b]
      BY <3>1 DEF RecoveredSoFar, RecoveredAll
    <3>7. RestartIsStable' BY <1>11, <3>3, <3>4, <3>5, <3>6 DEF RestartIsStable, Least
    <3>8. Recovering' BY <1>1, <1>11 DEF Recovering
    <3>9. RecoveryLocks' BY <1>11 DEF RecoveryLocks
    <3>10. RecoveredSoFar' BY <1>11, <3>3, <3>4 DEF RecoveredSoFar
    <3> QED BY <3>7, <3>8, <3>9, <3>10
  <2> QED BY <2>1, <2>2
<1>12. ASSUME NEW b \in Blocks, Evict(b) PROVE Recovering' /\ RecoverInv'
  <2>1. FlushBuffers({b}) /\ dirty[b] # Nobody /\ UNCHANGED <<log, mem, xlock, kind, pos, done, pc>>
    BY <1>12 DEF Evict, txVars
  <2>2. Recovering' /\ RestartIsStable' /\ RecoveredSoFar' /\ RecoveryLocks'
    BY <1>11, <2>1
  <2>3. dirty[b] = 1 BY <1>5, <2>1
  <2>4. pc[1] \in {"recover", "finish"} BY <1>1, <2>3 DEF LockInv, FlushedIsClean
  <2>5. saved = Len(log) BY <2>4 DEF RecoveredAll
  <2>6. saved' = saved /\ stable' = stable BY <1>4, <2>1, <2>5 DEF FlushBuffers, Flush
  <2>7. RecoveredAll' BY <2>1, <2>4, <2>5, <2>6 DEF RecoveredAll
  <2> QED BY <2>2, <2>7
<1>13. CASE FlushAll(1)
  <2> DEFINE D == {b \in Blocks : dirty[b] = 1}
  <2>1. /\ FlushBuffers(D) /\ pc[1] = "finish" /\ pc'[1] = "flushed"
        /\ UNCHANGED <<log, mem, xlock, kind, pos, done>>
    BY <1>1, <1>2, <1>13 DEF FlushAll
  <2>2. Recovering' /\ RestartIsStable' /\ RecoveredSoFar' /\ RecoveryLocks'
    BY <1>11, <2>1
  <2>3. saved = Len(log) /\ mem = stable BY <2>1 DEF RecoveredAll
  <2>4. saved' = saved /\ stable' = stable BY <1>4, <2>1, <2>3 DEF FlushBuffers, Flush
  <2>5. disk' = mem
    <3>1. disk' = [b \in Blocks |-> IF b \in D THEN mem[b] ELSE disk[b]]
      BY <2>1 DEF FlushBuffers
    <3>2. \A b \in Blocks : b \notin D => disk[b] = mem[b]
      BY <1>5 DEF LockInv, CleanIsWritten
    <3> QED BY <1>2, <3>1, <3>2
  <2>6. RecoveredAll' BY <2>1, <2>3, <2>4, <2>5 DEF RecoveredAll
  <2> QED BY <2>2, <2>6
<1>14. CASE AppendLast(1)
  <2> DEFINE r == EndRecord("checkpoint", 1)
  <2>1. /\ pc[1] = "flushed" /\ pc'[1] = "appended" /\ log' = Append(log, r)
        /\ pos'[1] = Len(log) + 1 /\ UNCHANGED <<saved, disk, mem, xlock, kind, stable>>
    BY <1>1, <1>2, <1>14 DEF AppendLast, dataVars
  <2>2. r \in Records /\ r.op = "checkpoint" BY <1>1 DEF EndRecord, Records
  <2> HIDE DEF r
  <2>3. /\ Len(log') = Len(log) + 1 /\ \A i \in 1..Len(log) : log'[i] = log[i]
        /\ log'[Len(log) + 1] = r
    BY <2>1, <2>2, Appended DEF LockInv
  <2>4. saved = Len(log) /\ mem = stable /\ disk = stable BY <2>1 DEF RecoveredAll
  <2>5. \A b : Unfinished(b)' = Unfinished(b) BY <2>1, <2>3, <2>4, UnfinishedSame
  <2>6. RestartIsStable'
    <3>1. \A b : \A i \in Unfinished(b) : log'[i] = log[i] BY <1>6, <2>3, <2>4
    <3>2. ASSUME NEW b \in Blocks, NEW i \in Unfinished(b), Least(i, Unfinished(b))
          PROVE  log'[i].val = stable[b]
      BY <3>1, <3>2 DEF RestartIsStable
    <3>3. \A b \in Blocks : Unfinished(b) = {} => disk'[b] = stable'[b]
      BY <2>1, <2>4
    <3> QED BY <2>1, <2>5, <3>2, <3>3 DEF RestartIsStable, Least
  <2>7. RecoveredAll' BY <1>1, <2>1, <2>2, <2>3, <2>4 DEF RecoveredAll
  <2>8. Recovering' /\ RecoveryLocks' /\ RecoveredSoFar'
    BY <1>1, <2>1 DEF Recovering, RecoveryLocks, RecoveredSoFar
  <2> QED BY <2>6, <2>7, <2>8
<1>15. CASE LogPageFull
  <2>1. /\ saved < Len(log) /\ saved' = Len(log) /\ stable' = stable
        /\ UNCHANGED <<log, mem, disk, xlock, pc, kind, pos>>
    BY <1>4, <1>15 DEF LogPageFull, SaveLog, dataVars, txVars
  <2>2. pc[1] = "appended" BY <1>1, <2>1 DEF RecoveredAll
  <2>3. disk = stable /\ mem = stable /\ log[Len(log)].op = "checkpoint"
    BY <2>2 DEF RecoveredAll
  <2>4. SinceCheckpoint' = {}
    <3>1. \A i \in 1..saved' : Len(log) \in i..saved' BY <1>1, <2>1
    <3> QED BY <2>1, <2>3, <3>1 DEF SinceCheckpoint, CheckpointsIn
  <2>5. RestartIsStable' BY <2>1, <2>3, <2>4 DEF RestartIsStable, Unfinished
  <2>6. RecoveredAll' BY <1>1, <2>1, <2>2 DEF RecoveredAll
  <2>7. Recovering' /\ RecoveryLocks' /\ RecoveredSoFar'
    BY <1>1, <2>1, <2>2 DEF Recovering, RecoveryLocks, RecoveredSoFar
  <2> QED BY <2>5, <2>6, <2>7
<1>16. CASE FlushLast(1)
  <2>1. /\ pc[1] = "appended" /\ pc'[1] = "run"
        /\ SaveLog \/ UNCHANGED <<saved, stable>>
        /\ \A t \in Txs : t # 1 => pc'[t] = pc[t]
        /\ UNCHANGED <<log, mem, disk, xlock, kind>>
    BY <1>1, <1>2, <1>16 DEF FlushLast, Flush, dataVars
  <2>2. saved' = Len(log)
    BY <1>1, <1>4, <1>16, <2>1 DEF FlushLast, Flush, SaveLog, RecoveredAll
  <2>3. stable' = stable /\ mem = stable /\ disk = stable /\ log[Len(log)].op = "checkpoint"
    BY <1>4, <2>1 DEF RecoveredAll
  <2>4. Recent' = {}
    <3>1. \A i \in 1..Len(log) : Len(log) \in i..Len(log) BY <1>1
    <3> QED BY <2>1, <2>3, <3>1 DEF Recent
  <2>5. \A t, b : Recs(t, b)' = {} BY <2>4 DEF Recs
  <2>6. ~Recovering' BY <2>1 DEF Recovering
  <2>7. CheckpointIsSaved' BY <1>1, <2>1, <2>2 DEF CheckpointIsSaved
  <2>8. \A t \in Txs : pc'[t] \in {"run", "none"} /\ (t # 1 => pc'[t] = "none")
    BY <1>1, <2>1
  <2>9. \A t \in Txs, b \in Blocks : xlock'[b] = t => t = 1
    BY <2>1 DEF RecoveryLocks
  <2>10. RecsLocked' /\ FirstIsStable' /\ RecsAreMarked' /\ CommitIsSaved' /\ LoggedHasRec'
    BY <2>5, <2>8 DEF RecsLocked, FirstIsStable, RecsAreMarked, CommitIsSaved, LoggedHasRec
  <2>11. LocksHaveRecs' /\ UndoneIsRestored'
    BY <2>1, <2>8, <2>9 DEF LocksHaveRecs, UndoneIsRestored
  <2>12. MemIsStable' /\ DiskIsStable' BY <2>1, <2>3 DEF MemIsStable, DiskIsStable
  <2>13. EndIsLast' /\ EndIsSaved' BY <2>4, <2>8 DEF EndIsLast, EndIsSaved
  <2> QED BY <2>6, <2>7, <2>10, <2>11, <2>12, <2>13 DEF NormalInv
<1>17. ASSUME NEW t \in Txs,
              \/ \E v \in Values : SetPage(t, v)
              \/ Release(t) \/ UndoNext(t) \/ UndoFails(t) \/ UndoDone(t)
              \/ Begin(t) \/ StartCommit(t) \/ StartRollback(t)
              \/ \E b \in Blocks : StartSet(t, b)
       PROVE  FALSE
  BY <1>1, <1>17 DEF SetPage, Release, UndoNext, UndoFails, UndoDone, Begin, StartCommit,
                     StartRollback, StartSet
<1>18. ASSUME NEW t \in Txs, t # 1, FlushAll(t) \/ AppendLast(t) \/ FlushLast(t)
       PROVE  FALSE
  BY <1>1, <1>18 DEF FlushAll, AppendLast, FlushLast
<1> QED
  BY <1>8, <1>9, <1>10, <1>12, <1>13, <1>14, <1>15, <1>16, <1>17, <1>18
     DEF Next, TxStep, ClientCall

LEMMA NextDataInv == IInv /\ [Next]_vars => DataInv'
<1> SUFFICES ASSUME IInv, [Next]_vars PROVE DataInv' OBVIOUS
<1> USE DEF IInv, DataInv
<1>1. CountsTyped' /\ NoRollback' /\ NoCrash' /\ (Sound' => Sound) BY CountsStep
<1>2. CASE Sound /\ ~Recovering /\ ~Crash
  BY <1>1, <1>2, NormalStep, NormalStays
<1>3. CASE Sound /\ Recovering /\ ~Crash
  BY <1>1, <1>3, RecoverStep
<1>4. CASE Sound' /\ Crash
  <2>1. Recovering'
    <3>1. 1 \in Txs OBVIOUS
    <3> QED BY <1>4, <3>1 DEF Crash, Recovering
  <2>2. rollbacks = 0
    <3>1. crashes' = crashes + 1 /\ rollbacks' = rollbacks BY <1>4 DEF Crash
    <3> QED BY <1>4, <3>1 DEF Sound, CountsTyped
  <2>3. RestartIsStable BY <1>1, <1>4, <2>2, NormalRestart DEF RecoverInv
  <2> QED BY <1>1, <1>4, <2>1, <2>3, CrashRestarts
<1>5. CASE ~Sound' BY <1>1, <1>5
<1> QED BY <1>1, <1>2, <1>3, <1>4, <1>5

(* The inductive invariant of locks and data. *)
THEOREM Invariant == Spec => []IInv
<1>1. Init => IInv BY InitLockInv, InitDataInv DEF IInv
<1>2. IInv /\ [Next]_vars => IInv' BY NextLockInv, NextDataInv DEF IInv
<1> QED BY <1>1, <1>2, PTL DEF Spec

(***************************************************************************)
(* Wherever nobody will repair it any more, the disk has the committed      *)
(* values: under all interleavings of transactions and page writes, through *)
(* any number of crashes, in recovery too; or without a crash, with any     *)
(* number of rollbacks.                                                     *)
(***************************************************************************)
LEMMA CommittedDisk == IInv /\ Sound => DiskIsCommitted
<1> SUFFICES ASSUME IInv, Sound PROVE DiskIsCommitted OBVIOUS
<1> USE DEF IInv, DataInv
<1>1. UnlockedIsCommitted
  <2> SUFFICES ASSUME NEW b \in Blocks, pc[1] = "done", xlock[b] = Nobody
               PROVE  mem[b] = stable[b] /\ disk[b] = stable[b]
    BY DEF UnlockedIsCommitted
  <2>1. NormalInv BY DEF Recovering
  <2>2. \A t \in Txs : ~OwnedBy(t, b) BY DEF OwnedBy
  <2> QED BY <2>1, <2>2 DEF NormalInv, MemIsStable, DiskIsStable
<1>2. CheckpointIsCommitted
  BY DEF CheckpointIsCommitted, Recovering, RecoverInv, RecoveredAll
<1> QED BY <1>1, <1>2 DEF DiskIsCommitted

THEOREM CommittedIsOnDisk == Spec => [](rollbacks = 0 \/ crashes = 0 => DiskIsCommitted)
<1>1. IInv => (rollbacks = 0 \/ crashes = 0 => DiskIsCommitted)
  BY CommittedDisk DEF Sound
<1> QED BY <1>1, Invariant, PTL

(* Under the same conditions, whatever is on disk and not committed can be   *)
(* undone. *)
THEOREM UncommittedCanBeUndone ==
  Spec => [](rollbacks = 0 \/ crashes = 0 => UncommittedIsLogged)
<1>1. IInv => (rollbacks = 0 \/ crashes = 0 => UncommittedIsLogged)
  <2> SUFFICES ASSUME IInv, Sound, NEW b \in Blocks, disk[b] # stable[b]
               PROVE  \E i \in 1..saved : /\ log[i].op = "set" /\ log[i].blk = b
                                          /\ CheckpointsIn((i + 1)..saved) = {}
    BY DEF Sound, UncommittedIsLogged
  <2> USE DEF IInv, DataInv
  <2>1. saved \in Nat /\ saved <= Len(log) /\ Len(log) \in Nat
    BY DEF LockInv, TypeOK, LogTyped
  <2>2. CASE Recovering
    <3>1. Unfinished(b) # {} BY <2>2 DEF RecoverInv, RestartIsStable
    <3>2. PICK i \in Unfinished(b) : TRUE BY <3>1
    <3>3. /\ i \in 1..saved /\ CheckpointsIn(i..saved) = {}
          /\ log[i].op = "set" /\ log[i].blk = b
      BY <3>2 DEF Unfinished, SinceCheckpoint
    <3>4. \A k \in (i + 1)..saved : k \in i..saved BY <2>1, <3>3
    <3> QED BY <3>3, <3>4 DEF CheckpointsIn
  <2>3. CASE ~Recovering
    <3>1. PICK t \in Txs : Saved(t, b) BY <2>3 DEF NormalInv, DiskIsStable
    <3>2. PICK i \in Recs(t, b) : i <= saved BY <3>1 DEF Saved
    <3>3. /\ i \in Nat /\ i \in 1..Len(log) /\ log[i].op = "set" /\ log[i].blk = b
          /\ \A k \in i..Len(log) : log[k].op # "checkpoint"
      BY RecsAre DEF Recent
    <3>4. i \in 1..saved /\ \A k \in (i + 1)..saved : k \in i..Len(log)
      BY <2>1, <3>2, <3>3
    <3> QED BY <3>3, <3>4 DEF CheckpointsIn
  <2> QED BY <2>2, <2>3
<1> QED BY <1>1, Invariant, PTL

(***************************************************************************)
(* While all transaction numbers are new, a rollback undoes its transaction *)
(* and nothing else.                                                       *)
(***************************************************************************)
LEMMA UndoStep ==
  ASSUME IInv, crashes = 0, [Next]_vars, NEW t \in Txs
  PROVE  UndoIsOwn(t)
<1> USE DEF IInv, DataInv
<1> SUFFICES ASSUME NEW b \in Blocks, pc[t] = "undo", pc'[t] = "undo", pos'[t] < pos[t],
                    mem'[b] # mem[b]
             PROVE  xlock[b] = t
  BY DEF UndoIsOwn
<1>1. /\ mem \in [Blocks -> Values] /\ pos \in [Txs -> Nat] /\ pc \in [Txs -> Control]
  BY DEF LockInv, TypeOK
<1>2. Sound /\ ~Recovering /\ 1 \in Txs BY DEF Sound, Recovering, NoCrash
<1>3. ASSUME NEW u \in Txs, UndoNext(u) PROVE xlock[b] = t
  <2>1. u = t BY <1>1, <1>3 DEF UndoNext
  <2>2. PICK i \in Nat, c \in Blocks, val \in Values :
          i = Latest(ToUndo(t)) /\ c = log[i].blk /\ val = log[i].val /\ xlock[c] = t
    BY <1>2, <1>3, <2>1, UndoOwned DEF UndoNext
  <2>3. mem' = [mem EXCEPT ![c] = val]
    BY <1>3, <2>1, <2>2 DEF UndoNext, Undo, WritePage
  <2> QED BY <1>1, <2>2, <2>3
<1>4. ASSUME NEW u \in Txs, NEW v \in Values, SetPage(u, v) PROVE FALSE
  <2>1. u # t /\ pos' = [pos EXCEPT ![u] = 0] BY <1>4 DEF SetPage
  <2> QED BY <1>1, <2>1
<1>5. ~Crash BY DEF Crash
<1>6. ~RecoverNext BY <1>2 DEF RecoverNext, LockInv, RestartFirst, Recovering
<1>7. CASE UNCHANGED mem BY <1>7
<1> QED
  BY <1>3, <1>4, <1>5, <1>6, <1>7
     DEF Next, TxStep, ClientCall, vars, dataVars, Begin, StartSet, StartCommit, FlushAll,
         AppendLast, FlushLast, Release, StartRollback, UndoFails, UndoDone, RecoverDone,
         Evict, LogPageFull

THEOREM RollbackExact == Spec => RollbackIsExact
<1>1. IInv => (crashes = 0 => UnlockedIsCommitted)
  BY CommittedDisk DEF Sound, DiskIsCommitted
<1>2. IInv /\ (crashes = 0 => UnlockedIsCommitted)' /\ [Next]_vars =>
        [/\ crashes = 0 => \A t \in Txs : UndoIsOwn(t)
         /\ crashes' = 0 => UnlockedIsCommitted']_vars
  BY UndoStep
<1> QED BY <1>1, <1>2, Invariant, PTL DEF Spec, RollbackIsExact

----------------------------------------------------------------------------
(***************************************************************************)
(* The refinement: log, buffers and recovery are an atomic store.           *)
(***************************************************************************)
LEMMA RestartFindsStable == IInv /\ rollbacks = 0 => AfterRestart = stable
<1> SUFFICES ASSUME IInv, rollbacks = 0 PROVE AfterRestart = stable OBVIOUS
<1>1. stable \in [Blocks -> Values] BY DEF IInv, LockInv, TypeOK
<1>2. RestartIsStable
  BY NormalRestart DEF IInv, DataInv, Sound, RecoverInv
<1>3. ASSUME NEW b \in Blocks PROVE AfterRestart[b] = stable[b]
  <2>1. CASE Unfinished(b) = {} BY <1>2, <2>1 DEF AfterRestart, RestartIsStable
  <2>2. CASE Unfinished(b) # {}
    <3>1. Unfinished(b) \subseteq Nat BY DEF Unfinished, SinceCheckpoint
    <3>2. \E i \in Unfinished(b) : \A j \in Unfinished(b) : i <= j
      BY <2>2, <3>1, LeastExists
    <3> DEFINE first == CHOOSE i \in Unfinished(b) : \A j \in Unfinished(b) : i <= j
    <3>3. Least(first, Unfinished(b)) BY <3>2 DEF Least
    <3>4. AfterRestart[b] = log[first].val BY <2>2 DEF AfterRestart
    <3> HIDE DEF first
    <3> QED BY <1>2, <3>3, <3>4 DEF RestartIsStable, Least
  <2> QED BY <2>1, <2>2
<1> QED BY <1>1, <1>3 DEF AfterRestart

(* What t may still lose of b *)
Pending(t, b) == IF InFlight(t) /\ xlock[b] = t THEN mem[b] ELSE NoValue

LEMMA WorkIs ==
  /\ Work = [t \in Txs |-> [b \in Blocks |-> Pending(t, b)]]
  /\ \A t \in Txs, b \in Blocks : Work[t][b] = Pending(t, b)
BY DEF Work, Pending

LEMMA WorkSame ==
  ASSUME \A t \in Txs, b \in Blocks : Pending(t, b)' = Pending(t, b)
  PROVE  Work' = Work
BY DEF Work, Pending

(* A step that ends transactions and writes no page is their commit.        *)
LEMMA CommitStep ==
  ASSUME mem \in [Blocks -> Values], mem' = mem, xlock' = xlock,
         AfterRestart = stable, AfterRestart' = stable',
         stable \in [Blocks -> Values], stable' \in [Blocks -> Values],
         \A t \in Txs : InFlight(t)' => InFlight(t),
         \A b \in Blocks :
           IF \E t \in Txs : xlock[b] = t /\ InFlight(t) /\ ~InFlight(t)'
             THEN stable'[b] = mem[b] ELSE stable'[b] = stable[b]
  PROVE  Store!Next
<1> DEFINE T == {t \in Txs : InFlight(t) /\ ~InFlight(t)'}
<1>1. \A t \in Txs, b \in Blocks : Work[t][b] # NoValue <=> InFlight(t) /\ xlock[b] = t
  BY WorkIs DEF Pending
<1>2. ASSUME NEW b \in Blocks
      PROVE  AfterRestart'[b] = IF \E t \in T : Work[t][b] # NoValue
                                  THEN Work[CHOOSE t \in T : Work[t][b] # NoValue][b]
                                  ELSE AfterRestart[b]
  <2>1. CASE \E t \in T : Work[t][b] # NoValue
    <3> DEFINE u == CHOOSE t \in T : Work[t][b] # NoValue
    <3>1. u \in T /\ Work[u][b] # NoValue BY <2>1
    <3> HIDE DEF u
    <3>2. Work[u][b] = mem[b] BY <1>1, <3>1, WorkIs DEF Pending
    <3>3. stable'[b] = mem[b] BY <1>1, <3>1
    <3> QED BY <2>1, <3>2, <3>3 DEF u
  <2>2. CASE ~\E t \in T : Work[t][b] # NoValue
    <3>1. ~\E t \in Txs : xlock[b] = t /\ InFlight(t) /\ ~InFlight(t)' BY <1>1, <2>2
    <3> QED BY <2>2, <3>1
  <2> QED BY <2>1, <2>2
<1>3. AfterRestart' = [b \in Blocks |->
                         IF \E t \in T : Work[t][b] # NoValue
                           THEN Work[CHOOSE t \in T : Work[t][b] # NoValue][b]
                           ELSE AfterRestart[b]]
  BY <1>2
<1>4. Work' = [t \in Txs |-> IF t \in T THEN Store!NoWork ELSE Work[t]]
  <2>1. \A t \in Txs, b \in Blocks :
          Pending(t, b)' = IF t \in T THEN NoValue ELSE Pending(t, b)
    BY DEF Pending
  <2>2. \A t \in Txs : Work[t] = [b \in Blocks |-> Pending(t, b)] BY WorkIs
  <2>3. Work' = [t \in Txs |-> [b \in Blocks |-> Pending(t, b)']] BY DEF Work, Pending
  <2>4. \A t \in Txs : [b \in Blocks |-> Pending(t, b)'] =
                         IF t \in T THEN Store!NoWork ELSE Work[t]
    BY <2>1, <2>2 DEF Store!NoWork
  <2> QED BY <2>3, <2>4
<1>5. T \in SUBSET Txs OBVIOUS
<1> HIDE DEF T
<1> QED BY <1>3, <1>4, <1>5 DEF Store!Next, Store!Commit

(* A page that its transaction has locked is written. *)
LEMMA WriteStep ==
  ASSUME NEW t \in Txs, NEW b \in Blocks, NEW v \in Values,
         AfterRestart' = AfterRestart,
         \A u \in Txs : u # t => xlock[b] # u,
         Pending(t, b)' = v,
         \A u \in Txs, c \in Blocks : u # t \/ c # b => Pending(u, c)' = Pending(u, c)
  PROVE  Store!Next
<1>1. \A u \in Txs \ {t} : Work[u][b] = NoValue BY WorkIs DEF Pending
<1>2. Work' = [Work EXCEPT ![t][b] = v]
  <2>1. Work' = [u \in Txs |-> [c \in Blocks |-> Pending(u, c)']] BY DEF Work, Pending
  <2>2. \A u \in Txs : u # t => [c \in Blocks |-> Pending(u, c)'] = Work[u] BY WorkIs
  <2>3. [c \in Blocks |-> Pending(t, c)'] = [Work[t] EXCEPT ![b] = v] BY WorkIs
  <2>4. Work = [u \in Txs |-> Work[u]] BY WorkIs
  <2> QED BY <2>1, <2>2, <2>3, <2>4
<1> QED BY <1>1, <1>2 DEF Store!Next, Store!Write

(* In recovery nobody has anything to lose. *)
LEMMA RecoveryStutters ==
  ASSUME LockInv, LockInv', Recovering, [Next]_vars, ~Crash
  PROVE  stable' = stable /\ Work' = Work
<1>1. /\ pc[1] \in {"recover", "finish", "flushed", "appended"} /\ kind[1] = "checkpoint"
      /\ 1 \in Txs /\ pc \in [Txs -> Control] /\ stable \in [Blocks -> Values]
      /\ \A t \in Txs : t # 1 => pc[t] = "none"
  BY DEF Recovering, LockInv, RestartFirst, TypeOK
<1>2. Committing = {} BY <1>1 DEF Committing
<1>3. SaveLog => stable' = stable BY <1>1, <1>2 DEF SaveLog
<1>4. stable' = stable
  BY <1>3
     DEF Next, TxStep, ClientCall, vars, SetPage, FlushAll, AppendLast, FlushLast, Release,
              UndoNext, UndoFails, UndoDone, Begin, StartSet, StartCommit, StartRollback,
              RecoverNext, RecoverDone, Evict, LogPageFull, FlushBuffers, Flush
<1>5. pc'[1] # "done"
  <2> SUFFICES ASSUME pc'[1] = "done" PROVE FALSE OBVIOUS
  <2>1. pc[1] # "done" BY <1>1
  <2>2. ~Release(1)
    BY <1>1, <1>2 DEF Release, Committing
  <2>3. ASSUME NEW t \in Txs, TxStep(t) PROVE FALSE
    <3>1. ASSUME \/ \E v \in Values : SetPage(t, v)
                 \/ FlushAll(t) \/ AppendLast(t) \/ FlushLast(t)
          PROVE  FALSE
      BY <1>1, <2>1, <3>1 DEF SetPage, FlushAll, AppendLast, FlushLast
    <3>2. ASSUME UndoNext(t) \/ UndoFails(t) \/ UndoDone(t) PROVE FALSE
      BY <1>1, <2>1, <3>2 DEF UndoNext, UndoFails, UndoDone
    <3>3. ASSUME Release(t) PROVE FALSE BY <1>1, <2>1, <2>2, <3>3 DEF Release
    <3> QED BY <2>3, <3>1, <3>2, <3>3 DEF TxStep
  <2>4. ASSUME NEW t \in Txs, ClientCall(t) PROVE FALSE
    BY <1>1, <2>1, <2>4 DEF ClientCall, Begin, StartSet, StartCommit, StartRollback
  <2>5. ASSUME RecoverNext \/ RecoverDone PROVE FALSE
    BY <1>1, <2>1, <2>5 DEF RecoverNext, RecoverDone
  <2>6. ASSUME (\E b \in Blocks : Evict(b)) \/ LogPageFull \/ UNCHANGED vars PROVE FALSE
    BY <2>1, <2>6 DEF Evict, LogPageFull, vars, txVars
  <2> QED BY <2>3, <2>4, <2>5, <2>6 DEF Next
<1>6. \A t \in Txs : t # 1 => pc'[t] = "none" BY <1>5 DEF LockInv, RestartFirst
<1>7. \A t \in Txs : ~InFlight(t) /\ ~InFlight(t)' BY <1>1, <1>6 DEF InFlight
<1>8. Work' = Work BY <1>7, WorkSame DEF Pending
<1> QED BY <1>4, <1>8

(* Every step without a rollback is one of the store, or changes nothing.   *)
LEMMA StoreStep ==
  ASSUME IInv, IInv', rollbacks = 0, rollbacks' = 0, [Next]_vars
  PROVE  [Store!Next]_<<AfterRestart, Work>>
<1> USE DEF IInv, DataInv
<1>1. AfterRestart = stable /\ AfterRestart' = stable'
  <2>1. (IInv /\ rollbacks = 0 => AfterRestart = stable)' BY RestartFindsStable, PTL
  <2> QED BY <2>1, RestartFindsStable
<1>2. /\ mem \in [Blocks -> Values] /\ stable \in [Blocks -> Values]
      /\ stable' \in [Blocks -> Values] /\ xlock \in [Blocks -> Txs \cup {Nobody}]
      /\ pc \in [Txs -> Control] /\ kind \in [Txs -> {"commit", "rollback", "checkpoint"}]
      /\ pos \in [Txs -> Nat] /\ blk \in [Txs -> Blocks \cup {NoBlock}]
      /\ saved \in Nat /\ saved <= Len(log) /\ Len(log) \in Nat
  BY DEF LockInv, TypeOK, LogTyped
<1>3. CASE Crash
  <2>1. stable' = stable BY <1>3 DEF Crash
  <2>2. Work' = [t \in Txs |-> Store!NoWork]
    <3>1. \A t \in Txs : ~InFlight(t)' BY <1>3 DEF Crash, InFlight
    <3> QED BY <3>1 DEF Work, Store!NoWork
  <2>3. Work' = [t \in Txs |-> IF t \in Txs THEN Store!NoWork ELSE Work[t]] BY <2>2
  <2> QED BY <1>1, <2>1, <2>3 DEF Store!Next, Store!Abort
<1>4. CASE Recovering /\ ~Crash BY <1>1, <1>4, RecoveryStutters
<1>5. CASE ~Recovering /\ ~Crash
  <2> USE <1>5
  <2>1. NormalInv /\ Sound /\ NoRollback BY DEF Sound
  <2>2. \A t \in Txs : kind[t] # "rollback" /\ pc[t] # "undo"
    BY <2>1 DEF NoRollback, NormalInv, EndIsLast
  <2>3. ASSUME \A t \in Txs, b \in Blocks : Pending(t, b)' = Pending(t, b),
               stable' = stable
        PROVE  UNCHANGED <<AfterRestart, Work>>
    BY <1>1, <2>3, WorkSame
  <2>4. ASSUME SaveLog \/ UNCHANGED <<saved, stable>>, UNCHANGED <<mem, xlock>>,
               \A t \in Txs : InFlight(t)' <=>
                 /\ InFlight(t)
                 /\ ~(pc[t] = "appended" /\ kind[t] = "commit" /\ pos[t] <= saved')
        PROVE  Store!Next
    <3>1. ASSUME NEW b \in Blocks, NEW t \in Txs, xlock[b] = t, InFlight(t), ~InFlight(t)'
          PROVE  stable'[b] = mem[b]
      <4>1. pc[t] = "appended" /\ kind[t] = "commit" /\ pos[t] <= saved' /\ ~(pos[t] <= saved)
        BY <1>2, <2>4, <3>1 DEF InFlight
      <4> QED BY <2>1, <2>4, <3>1, <4>1, SaveEffect DEF NormalInv
    <3>2. ASSUME NEW b \in Blocks, stable'[b] # stable[b]
          PROVE  \E t \in Txs : xlock[b] = t /\ InFlight(t) /\ ~InFlight(t)'
      <4>1. PICK t \in Txs :
              /\ xlock[b] = t /\ pc[t] = "appended" /\ kind[t] = "commit"
              /\ pos[t] <= saved' /\ stable'[b] = mem[b]
        BY <1>2, <2>1, <2>4, <3>2, SaveEffect DEF NormalInv
      <4>2. PICK u \in Txs : OwnedBy(u, b)
        BY <2>1, <3>2, <4>1 DEF NormalInv, MemIsStable
      <4>3. t # 1 /\ ~(pos[t] <= saved) BY <4>1, <4>2 DEF OwnedBy, Durable
      <4>4. InFlight(t) BY <1>2, <4>1, <4>3 DEF InFlight
      <4> QED BY <2>4, <4>1, <4>4
    <3> QED BY <1>1, <1>2, <2>4, <3>1, <3>2, CommitStep
  <2>5. ASSUME NEW t \in Txs, Begin(t) PROVE UNCHANGED <<AfterRestart, Work>>
    <3>1. pc[t] = "none" BY <2>5 DEF Begin, LockInv, RestartFirst
    <3>2. \A b \in Blocks : xlock[b] # t BY <2>1, <3>1 DEF NormalInv, LocksHaveRecs
    <3>3. \A u \in Txs : u # t => InFlight(u)' = InFlight(u)
      BY <1>2, <2>5 DEF Begin, InFlight, logVars
    <3>4. UNCHANGED <<mem, xlock, stable>> BY <2>5 DEF Begin, dataVars
    <3> QED BY <2>3, <3>2, <3>3, <3>4 DEF Pending
  <2>6. ASSUME NEW t \in Txs, NEW b \in Blocks, StartSet(t, b) PROVE Store!Next
    <3>1. /\ t # 1 /\ xlock[b] \in {Nobody, t} /\ xlock' = [xlock EXCEPT ![b] = t]
          /\ UNCHANGED <<mem, stable, saved, kind>>
          /\ pc[t] = "run" /\ pc'[t] = "logged"
          /\ \A u \in Txs : u # t => pc'[u] = pc[u] /\ pos'[u] = pos[u]
      BY <1>2, <2>6 DEF StartSet, dataVars
    <3>2. \A u \in Txs : InFlight(u)' <=> InFlight(u) BY <3>1 DEF InFlight
    <3>3. InFlight(t) BY <3>1 DEF InFlight
    <3>4. Pending(t, b)' = mem[b] BY <1>2, <3>1, <3>2, <3>3 DEF Pending
    <3>5. \A u \in Txs, c \in Blocks : u # t \/ c # b => Pending(u, c)' = Pending(u, c)
      BY <1>2, <3>1, <3>2 DEF Pending
    <3>6. mem[b] \in Values /\ \A u \in Txs : u # t => xlock[b] # u BY <1>2, <3>1
    <3> QED BY <1>1, <3>1, <3>4, <3>5, <3>6, WriteStep
  <2>7. ASSUME NEW t \in Txs, NEW v \in Values, SetPage(t, v) PROVE Store!Next
    <3>1. PICK b \in Blocks : b = blk[t] /\ xlock[b] = t
      BY <2>7 DEF SetPage, LockInv, LoggedIsLocked
    <3>2. /\ mem' = [mem EXCEPT ![b] = v] /\ UNCHANGED <<xlock, stable, saved, kind>>
          /\ pc[t] = "logged" /\ pc'[t] = "run"
          /\ \A u \in Txs : u # t => pc'[u] = pc[u] /\ pos'[u] = pos[u]
      BY <1>2, <2>7, <3>1 DEF SetPage, WritePage, logVars
    <3>3. t # 1 BY <3>2 DEF LockInv, RestartFirst
    <3>4. \A u \in Txs : InFlight(u)' <=> InFlight(u) BY <3>2 DEF InFlight
    <3>5. InFlight(t) BY <3>2, <3>3 DEF InFlight
    <3>6. Pending(t, b)' = v BY <1>2, <3>1, <3>2, <3>4, <3>5 DEF Pending
    <3>7. \A u \in Txs, c \in Blocks : u # t \/ c # b => Pending(u, c)' = Pending(u, c)
      BY <1>2, <3>1, <3>2, <3>4 DEF Pending
    <3> QED BY <1>1, <3>1, <3>2, <3>6, <3>7, WriteStep
  <2>8. ASSUME NEW t \in Txs, StartCommit(t) PROVE Store!Next
    <3>1. /\ UNCHANGED <<mem, xlock, saved, stable, pos>>
          /\ pc[t] = "run" /\ pc'[t] = "finish" /\ kind'[t] = "commit"
          /\ \A u \in Txs : u # t => pc'[u] = pc[u] /\ kind'[u] = kind[u]
      BY <1>2, <2>8 DEF StartCommit, dataVars, logVars
    <3> QED BY <1>2, <2>4, <3>1 DEF InFlight
  <2>9. ASSUME NEW t \in Txs, FlushAll(t) PROVE Store!Next
    <3>1. /\ UNCHANGED <<mem, xlock, pos, kind>> /\ (SaveLog \/ UNCHANGED <<saved, stable>>)
          /\ pc[t] = "finish" /\ pc'[t] = "flushed" /\ \A u \in Txs : u # t => pc'[u] = pc[u]
      BY <1>2, <2>9 DEF FlushAll, FlushBuffers, Flush
    <3>2. saved' \in Nat /\ saved <= saved' BY <2>1, <3>1, SaveEffect DEF NormalInv
    <3> QED BY <1>2, <2>4, <3>1, <3>2 DEF InFlight
  <2>10. ASSUME NEW t \in Txs, AppendLast(t) PROVE Store!Next
    <3>1. /\ UNCHANGED <<mem, xlock, saved, stable, kind>>
          /\ pc[t] = "flushed" /\ pc'[t] = "appended" /\ pos'[t] = Len(log) + 1
          /\ \A u \in Txs : u # t => pc'[u] = pc[u] /\ pos'[u] = pos[u]
      BY <1>2, <2>10 DEF AppendLast, dataVars
    <3>2. pos'[t] > saved BY <1>2, <3>1
    <3> QED BY <1>2, <2>4, <3>1, <3>2 DEF InFlight
  <2>11. ASSUME NEW t \in Txs, FlushLast(t) PROVE Store!Next
    <3>1. /\ UNCHANGED <<mem, xlock, kind>> /\ (SaveLog \/ UNCHANGED <<saved, stable>>)
          /\ pc[t] = "appended" /\ pc'[t] \in {"run", "release"}
          /\ pc'[t] = "run" => kind[t] = "checkpoint"
          /\ \A u \in Txs : u # t => pc'[u] = pc[u] /\ pos'[u] = pos[u]
          /\ pos[t] <= saved'
      <4>1. pos[t] \in Nat /\ pos[t] <= Len(log) BY DEF LockInv, TypeOK, LogTyped
      <4> QED BY <1>2, <2>11, <4>1 DEF FlushLast, Flush, SaveLog, dataVars
    <3>2. saved' \in Nat /\ saved <= saved' BY <2>1, <3>1, SaveEffect DEF NormalInv
    <3>3. kind[t] # "checkpoint" BY <3>1 DEF Recovering, LockInv, RestartFirst
    <3> QED BY <1>2, <2>4, <3>1, <3>2, <3>3 DEF InFlight
  <2>12. ASSUME SaveLog \/ UNCHANGED <<saved, stable>>, UNCHANGED <<mem, xlock, pc, kind, pos>>
         PROVE  Store!Next
    <3>1. saved' \in Nat /\ saved <= saved' BY <2>1, <2>12, SaveEffect DEF NormalInv
    <3> QED BY <1>2, <2>4, <2>12, <3>1 DEF InFlight
  <2>13. ASSUME NEW t \in Txs, Release(t) PROVE UNCHANGED <<AfterRestart, Work>>
    <3>1. /\ UNCHANGED <<mem, stable, saved, kind, pos>>
          /\ pc[t] = "release" /\ pc'[t] = "done" /\ \A u \in Txs : u # t => pc'[u] = pc[u]
          /\ \A b \in Blocks : xlock'[b] = IF xlock[b] = t THEN Nobody ELSE xlock[b]
      BY <1>2, <2>13 DEF Release, dataVars, logVars
    <3>2. ~InFlight(t) /\ ~InFlight(t)' /\ \A u \in Txs : u # t => (InFlight(u)' <=> InFlight(u))
      BY <3>1 DEF InFlight
    <3> QED BY <2>3, <3>1, <3>2 DEF Pending
  <2>14. ASSUME NEW t \in Txs, StartRollback(t) \/ UndoNext(t) \/ UndoFails(t) \/ UndoDone(t)
         PROVE  FALSE
    BY <2>2, <2>14 DEF StartRollback, UndoNext, UndoFails, UndoDone
  <2>15. ~RecoverNext /\ ~RecoverDone
    BY DEF RecoverNext, RecoverDone, Recovering, LockInv, RestartFirst
  <2>16. ASSUME NEW b \in Blocks, Evict(b) PROVE Store!Next
    BY <2>12, <2>16 DEF Evict, FlushBuffers, Flush, txVars
  <2>17. CASE LogPageFull BY <2>12, <2>17 DEF LogPageFull, dataVars, txVars
  <2>18. CASE UNCHANGED vars BY <2>12, <2>18 DEF vars, logVars, dataVars, txVars
  <2> QED
    BY <2>5, <2>6, <2>7, <2>8, <2>9, <2>10, <2>11, <2>13, <2>14, <2>15, <2>16, <2>17, <2>18
       DEF Next, TxStep, ClientCall
<1> QED BY <1>3, <1>4, <1>5

(***************************************************************************)
(* While no transaction is rolled back, whoever restarts the database, at    *)
(* any moment and any number of times, finds a store that only the commits   *)
(* of whole transactions have changed.  A rollback is excluded: its record   *)
(* is read with the number at the wrong offset, and a recovery does not know *)
(* the transaction as finished (the run RecoveryRollbackRecord).            *)
(***************************************************************************)
THEOREM Refinement == Spec /\ [](rollbacks = 0) => ImplementsAtomicStore
<1>1. Init /\ rollbacks = 0 => Store!Init
  <2> SUFFICES ASSUME Init, rollbacks = 0 PROVE Store!Init OBVIOUS
  <2>1. IInv BY InitLockInv, InitDataInv DEF IInv
  <2>2. AfterRestart = Initial BY <2>1, RestartFindsStable DEF Init
  <2>3. \A t \in Txs : ~InFlight(t) BY DEF Init, InFlight
  <2>4. Work = [t \in Txs |-> Store!NoWork] BY <2>3 DEF Work, Store!NoWork
  <2> QED BY <2>2, <2>4 DEF Store!Init
<1>2. IInv /\ IInv' /\ rollbacks = 0 /\ (rollbacks = 0)' /\ [Next]_vars =>
        [Store!Next]_<<AfterRestart, Work>>
  BY StoreStep
<1> QED BY <1>1, <1>2, Invariant, PTL DEF Spec, ImplementsAtomicStore, Store!Spec
=============================================================================
