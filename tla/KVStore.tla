-------------------------------- MODULE KVStore --------------------------------
(***************************************************************************)
(* What a database promises about durability: a write is there or it is    *)
(* not; a crash may take writes back, but none that was stable; everything *)
(* else the database does changes nothing that can be read.  Once `lost'   *)
(* it promises nothing.  A write is a number; one that takes the number of *)
(* an earlier write which is gone is not told apart from it.               *)
(***************************************************************************)
CONSTANT Writes

VARIABLES
  store,    \* the writes that opening the database would find now
  stable,   \* those that no crash can take back
  lost      \* whether a file was damaged and written to behind the damage

kvvars == <<store, stable, lost>>

Init == store = {} /\ stable = {} /\ ~lost

Sync  == store' = store
Crash == store' \subseteq store /\ stable \subseteq store'
Write == \E w \in Writes : w \notin store /\ store' = store \cup {w}

Next ==
  \/ /\ ~lost /\ ~lost'
     /\ stable \subseteq stable' /\ stable' \subseteq store'
     /\ Sync \/ Crash \/ Write
  \/ lost'

Spec == Init /\ [][Next]_kvvars
=============================================================================
