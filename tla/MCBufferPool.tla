---------------------------- MODULE MCBufferPool ----------------------------
(* BufferPool on small sets of model values; the buffers are ordered, the   *)
(* transactions and blocks are not.                                          *)
EXTENDS BufferPool, TLC

Symmetry == Permutations(Txs) \cup Permutations(Blocks)
=============================================================================
