------------------------------ MODULE MCBTree -------------------------------
(* The B+ tree on small pages: six records, two of them with the same key.  *)
EXTENDS BTree

CONSTANTS r1, r2, r3, r4, r5, r6

MCKeyOf == r1 :> 1 @@ r2 :> 2 @@ r3 :> 2 @@ r4 :> 3 @@ r5 :> 4 @@ r6 :> 5

(* Trees whose directory root is full: the next splits make a new root *)
MCPreloads == {<<>>, <<r1, r2, r4, r5>>, <<r6, r5, r4, r2>>, <<r2, r5, r1, r4, r3>>}

=============================================================================
