---------------------------- MODULE MCLogManager ----------------------------
(* LogManager with interchangeable goroutines. *)
EXTENDS LogManager, TLC

Symmetry == Permutations(Procs)
=============================================================================
