---------------------------- MODULE LevelProgress ----------------------------
(***************************************************************************)
(* What the game promises: three levels in order, each left only by the    *)
(* fall of its own boss and through a transition that ends, then credits.  *)
(***************************************************************************)
EXTENDS Naturals

VARIABLES level,   \* 1, 2, 3, or 4 for the credits
          phase    \* "waves", "boss" or "transition"; "end" in the credits

vars == <<level, phase>>

Init == level = 1 /\ phase = "waves"

BossArrives ==
    /\ phase = "waves"
    /\ phase' = "boss"
    /\ UNCHANGED level

BossFalls ==
    /\ phase = "boss"
    /\ phase' = "transition"
    /\ UNCHANGED level

NextLevel ==
    /\ phase = "transition"
    /\ level' = level + 1
    /\ phase' = IF level = 3 THEN "end" ELSE "waves"

Next == BossArrives \/ BossFalls \/ NextLevel

Spec == Init /\ [][Next]_vars

\* A transition ends; a boss comes or falls only if there are players.
FairSpec == Spec /\ WF_vars(NextLevel)
=============================================================================
