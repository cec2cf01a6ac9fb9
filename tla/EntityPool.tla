----------------------------- MODULE EntityPool -----------------------------
(***************************************************************************)
(* What the entity half of the registry promises: ids of live entities are *)
(* pairwise distinct, an id may be handed out again only after its entity  *)
(* was killed, and the ids in use stay dense: a new id is made only while  *)
(* every older one is live, so no id exceeds the largest number of         *)
(* entities that were live at one time.  The last promise is what keeps    *)
(* ids inside the byte the protocol sends them in.                         *)
(***************************************************************************)
EXTENDS Integers

VARIABLES
    live,   \* the ids of the entities that exist
    peak    \* the largest number of entities that were live at one time

poolVars == <<live, peak>>

PoolInit == live = {} /\ peak = 0

PoolSpawn(e) ==
    /\ e \notin live
    /\ live' = live \cup {e}
    /\ peak' = IF live = 0 .. peak - 1 THEN peak + 1 ELSE peak
    /\ e < peak'

PoolKill(e) ==
    /\ e \in live
    /\ live' = live \ {e}
    /\ UNCHANGED peak

PoolNext == \E e \in 0..peak : PoolSpawn(e) \/ PoolKill(e)

PoolSpec == PoolInit /\ [][PoolNext]_poolVars
=============================================================================
