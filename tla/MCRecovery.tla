----------------------------- MODULE MCRecovery -----------------------------
(* Recovery on small sets of model values; v0 is what every block holds     *)
(* when the behaviour begins, and the blocks are interchangeable.           *)
EXTENDS Recovery, TLC

CONSTANT v0

MCInitial == [b \in Blocks |-> v0]

Symmetry == Permutations(Blocks)
=============================================================================
