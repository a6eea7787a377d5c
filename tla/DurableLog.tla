----------------------------- MODULE DurableLog -----------------------------
(***************************************************************************)
(* What the log promises to the rest of the system: records are numbered in *)
(* the order of their appends, those on disk are the first ones of them,    *)
(* and a crash takes the others away.  Recovery.tla rests on this           *)
(* (its log and saved); LogManager.tla implements it.                        *)
(***************************************************************************)
EXTENDS Naturals

VARIABLES
  appended,   \* how many records the log has
  durable     \* how many of them, from the oldest, are on disk

Init == appended = 0 /\ durable = 0

Append == appended' = appended + 1 /\ UNCHANGED durable

Persist == durable' = appended /\ UNCHANGED appended

Crash == appended' = durable /\ UNCHANGED durable

Next == Append \/ Persist \/ Crash

Spec == Init /\ [][Next]_<<appended, durable>>
=============================================================================
