---------------------------- MODULE SessionSlot ----------------------------
(***************************************************************************)
(* What cancel-and-replace promises, without locks, signals and promises:  *)
(* a session has one slot, a run takes it when it is free, leaves it once, *)
(* and never comes back.                                                   *)
(***************************************************************************)
CONSTANTS Sessions, Starters, SessionFor, Nobody

VARIABLES
    slot,     \* the run in flight of each session, or Nobody
    left      \* runs that have left their slot

SlotInit == slot = [s \in Sessions |-> Nobody] /\ left = {}

Take(r) ==
    /\ slot[SessionFor[r]] = Nobody
    /\ r \notin left
    /\ slot' = [slot EXCEPT ![SessionFor[r]] = r]
    /\ UNCHANGED left

Leave(r) ==
    /\ slot[SessionFor[r]] = r
    /\ slot' = [slot EXCEPT ![SessionFor[r]] = Nobody]
    /\ left' = left \cup {r}

SlotNext == \E r \in Starters : Take(r) \/ Leave(r)

Spec == SlotInit /\ [][SlotNext]_<<slot, left>>
=============================================================================
