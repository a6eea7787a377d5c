---------------------------- MODULE MCLockTable ----------------------------
(* LockTable on small sets of model values; neither transactions nor blocks *)
(* are ordered, so the safety runs use their permutations as symmetry.      *)
EXTENDS LockTable, TLC

Symmetry == Permutations(Txs) \cup Permutations(Blocks)
=============================================================================
