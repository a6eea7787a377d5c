---------------------------- MODULE MCTableScan -----------------------------
(* Tables of blocks with two slots, before the transactions begin: no file, *)
(* a full block and one with a hole, an empty block in the middle.          *)
EXTENDS TableScan

Full == <<Used(1), Used(2)>>
MCTables == {<<>>,
             << Full, <<Empty, Used(3)>> >>,
             << <<Empty, Used(1)>>, EmptyBlock, <<Used(2), Empty>> >>}

Symmetry == Permutations(Txs)
=============================================================================
