---------------------------- MODULE IndexEntries ----------------------------
(***************************************************************************)
(* What an index.Index (index/index.go) promises the transaction that has   *)
(* it open: a set of entries, pairs of a key and a record's identifier,     *)
(* that Insert and Delete change one at a time and a rollback restores.     *)
(***************************************************************************)
CONSTANT Records   \* the entries there may be, one for each record of the table

VARIABLES entries,    \* as the open transaction sees them
          committed   \* as the last committed one has left them

vars == <<entries, committed>>

Init == entries \subseteq Records /\ committed = entries

Insert ==
  /\ LET old == entries
     IN entries' \in {old \union {e} : e \in Records \ old}
  /\ UNCHANGED committed

(* Deleting what is not there is not an error, and changes nothing *)
Delete ==
  /\ LET old == entries
     IN entries' \in {old \ {e} : e \in old}
  /\ UNCHANGED committed

Commit == committed' = entries /\ UNCHANGED entries

Rollback == entries' = committed /\ UNCHANGED committed

Next ==
  \/ Insert
  \/ Delete
  \/ Commit
  \/ Rollback

Spec == Init /\ [][Next]_vars
=============================================================================
