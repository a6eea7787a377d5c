---------------------------- MODULE AtomicStore ----------------------------
(***************************************************************************)
(* What a transaction system with recovery promises: a store that survives  *)
(* crashes and changes only by the whole writes of one committing           *)
(* transaction at a time.  No log, no buffers, no recovery: Recovery.tla    *)
(* implements this module.                                                  *)
(***************************************************************************)
EXTENDS Naturals

CONSTANTS Txs, Blocks, Values, Initial,
          NoValue   \* a block that the transaction has not written

VARIABLES
  store,   \* what a restart finds
  work     \* work[t]: the blocks that t has written, with their new values

NoWork == [b \in Blocks |-> NoValue]

Init == store = Initial /\ work = [t \in Txs |-> NoWork]

Write(t, b, v) ==
  /\ \A u \in Txs \ {t} : work[u][b] = NoValue
  /\ work' = [work EXCEPT ![t][b] = v]
  /\ UNCHANGED store

(* several transactions may become durable in one write of the log *)
Commit(T) ==
  /\ store' = [b \in Blocks |->
                 IF \E t \in T : work[t][b] # NoValue
                   THEN work[CHOOSE t \in T : work[t][b] # NoValue][b]
                   ELSE store[b]]
  /\ work' = [t \in Txs |-> IF t \in T THEN NoWork ELSE work[t]]

(* a rollback, or a crash that ends all the transactions *)
Abort(T) ==
  /\ work' = [t \in Txs |-> IF t \in T THEN NoWork ELSE work[t]]
  /\ UNCHANGED store

Next ==
  \/ \E t \in Txs, b \in Blocks, v \in Values : Write(t, b, v)
  \/ \E T \in SUBSET Txs : Commit(T) \/ Abort(T)

Spec == Init /\ [][Next]_<<store, work>>
=============================================================================
