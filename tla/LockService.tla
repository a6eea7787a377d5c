---------------------------- MODULE LockService ----------------------------
(***************************************************************************)
(* What two-phase locking needs from the lock manager, without saying how  *)
(* it is done: a transaction is granted a shared lock on a block when no    *)
(* other transaction has it exclusively, and an exclusive one when no other *)
(* transaction has any lock on it.  The grant conditions look at the locks  *)
(* of every transaction, which the code (tx/concurrency) never does: it     *)
(* keeps one integer per block.  LockTable.tla implements this module.      *)
(***************************************************************************)

CONSTANTS Txs, Blocks

VARIABLE granted   \* granted[t][b]: the lock that t has on b

Modes == {"none", "s", "x"}

Init == granted = [t \in Txs |-> [b \in Blocks |-> "none"]]

SetMode(t, b, m) == granted' = [granted EXCEPT ![t][b] = m]

Share(t, b) ==
  /\ granted[t][b] = "none"
  /\ \A u \in Txs \ {t} : granted[u][b] # "x"
  /\ SetMode(t, b, "s")

Upgrade(t, b) ==
  /\ granted[t][b] = "s"
  /\ \A u \in Txs \ {t} : granted[u][b] = "none"
  /\ SetMode(t, b, "x")

Release(t, b) ==
  /\ granted[t][b] # "none"
  /\ SetMode(t, b, "none")

Next == \E t \in Txs, b \in Blocks : Share(t, b) \/ Upgrade(t, b) \/ Release(t, b)

Spec == Init /\ [][Next]_granted
=============================================================================
