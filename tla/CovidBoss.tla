----------------------------- MODULE CovidBoss -----------------------------
(***************************************************************************)
(* The last boss and the orbs that shield it: the three passes of          *)
(* CovShieldedBossSystem::update over boss and orbs (pc), and what the     *)
(* rest of the frame does to them.  When LevelThree begins and what the    *)
(* boss's fall means for the scenes is the matter of SceneFlow.            *)
(*                                                                         *)
(* An orb flies on the line to its goal: away is the distance that is      *)
(* left.  Where ships and boss are is left out, so a new goal is at any    *)
(* distance; who is hit is chosen in every frame.                          *)
(***************************************************************************)
EXTENDS Integers, FiniteSets

CONSTANTS
    NumOrbs,                  \* 30 in the code
    BossHealth, OrbHealth,
    AttackInterval,           \* frames between two launches: a second
    Step,                     \* an orb's way in half a frame, in units
    Near,                     \* a goal is reached within this: one pixel
    MaxDistance               \* of a goal (bound)

\* The boss takes two hits or more: it outlives the frame in which its last
\* orb is hidden.
ASSUME CovidAssumption ==
    /\ NumOrbs \in Nat \ {0} /\ BossHealth \in Nat \ {0, 1} /\ OrbHealth \in Nat \ {0}
    /\ AttackInterval \in Nat \ {0} /\ Step \in Nat /\ Near \in Nat
    /\ MaxDistance \in Nat /\ 2 * Step + 1 <= MaxDistance

Orb == 1..NumOrbs
Distance == 0..MaxDistance
Flag == {"isDetached", "isAttacking", "isReturning"}
OrbState == [live : BOOLEAN, visible : BOOLEAN, health : 0..OrbHealth,
             flags : SUBSET Flag, away : Distance]

VARIABLES
    pc,                 \* Boss, OrbState, Orbs, Rest
    next,               \* the orb that updateOrb visits next
    inLevelThree,
    boss,               \* spawned, visible, health
    orb,                \* per orb: live, visible, health, flags, away
    colliding,          \* orbs, and 0 for the boss, with isColliding
    attackTimer,
    shown               \* orbs that the clients saw visible in the last broadcast

bossVars == <<inLevelThree, boss>>
vars == <<pc, next, bossVars, orb, colliding, attackTimer, shown>>

NoOrb == [live |-> FALSE, visible |-> FALSE, health |-> 0, flags |-> {}, away |-> 0]
NewOrb == [live |-> TRUE, visible |-> TRUE, health |-> OrbHealth, flags |-> {}, away |-> 0]

Init ==
    /\ pc = "Boss" /\ next = 1 /\ inLevelThree = TRUE
    /\ boss = [spawned |-> FALSE, live |-> FALSE, visible |-> FALSE, health |-> 0]
    /\ orb = [o \in Orb |-> NoOrb]
    /\ colliding = {} /\ attackTimer = 0 /\ shown = {}

At(here, then) == pc = here /\ pc' = then

-----------------------------------------------------------------------------
(* CovShieldedBossSystem::update.                                           *)

\* In any other scene it returns at once.
SystemIdle ==
    /\ ~inLevelThree /\ At("Boss", "Rest")
    /\ UNCHANGED <<next, bossVars, orb, colliding, attackTimer, shown>>

\* Time to come passes in SceneFlow; update returns after a spawn.
SpawnBoss ==
    /\ inLevelThree /\ ~boss.spawned /\ At("Boss", "Rest")
    /\ boss' = [spawned |-> TRUE, live |-> TRUE, visible |-> TRUE, health |-> BossHealth]
    /\ orb' = [o \in Orb |-> NewOrb]
    /\ UNCHANGED <<next, inLevelThree, colliding, attackTimer, shown>>

Bug_ShieldedByFlyers == \E o \in Orb : orb[o].live /\ orb[o].visible /\ orb[o].flags = {}
Shielded == \E o \in Orb : orb[o].live /\ orb[o].visible

\* The shield counts the orbs as the last frame has left them.
UpdateBoss ==
    /\ inLevelThree /\ boss.spawned /\ At("Boss", "OrbState")
    /\ LET hurt == boss.live /\ 0 \in colliding /\ ~Shielded
           health == IF hurt THEN boss.health - 1 ELSE boss.health
       IN  /\ boss' = [boss EXCEPT !.live = @ /\ boss.visible, !.health = health,
                                   !.visible = health > 0]
           /\ inLevelThree' = (health > 0)
    /\ UNCHANGED <<next, orb, colliding, attackTimer, shown>>

Idle(o) == orb[o].live /\ orb[o].flags = {}

\* The static timer runs while there are no ships, too (it stops here at the
\* interval).  The idle orb that is closest to the first ship is detached.
UpdateOrbState ==
    /\ At("OrbState", "Orbs")
    /\ \E ships \in BOOLEAN :
         IF attackTimer + 1 >= AttackInterval /\ ships
         THEN /\ attackTimer' = 0
              /\ IF \E o \in Orb : Idle(o)
                 THEN \E o \in Orb : Idle(o) /\ orb' = [orb EXCEPT ![o].flags = {"isDetached"}]
                 ELSE UNCHANGED orb
         ELSE /\ attackTimer' = IF attackTimer < AttackInterval THEN attackTimer + 1 ELSE attackTimer
              /\ UNCHANGED orb
    /\ UNCHANGED <<next, bossVars, colliding, shown>>

\* updateOrb, for one orb after the other.
NextOrb == /\ next' = IF next = NumOrbs THEN 1 ELSE next + 1
           /\ pc' = IF next = NumOrbs THEN "Rest" ELSE "Orbs"
OrbPass(o) == pc = "Orbs" /\ next = o /\ NextOrb /\ UNCHANGED <<bossVars, attackTimer, shown>>

PassDeadOrb(o) ==
    /\ ~orb[o].live /\ OrbPass(o)
    /\ UNCHANGED <<orb, colliding>>

\* A hidden orb is killed, and then still looked at through its emptied
\* components: that may show a second explosion, which has no effect here.
KillOrb(o) ==
    /\ orb[o].live /\ ~orb[o].visible /\ OrbPass(o)
    /\ orb' = [orb EXCEPT ![o] = NoOrb]
    /\ colliding' = colliding \ {o}

\* A hit sends an orb home, also one that never left.
Struck(o) ==
    IF o \in colliding
    THEN [orb[o] EXCEPT !.health = @ - 1,
                        !.flags = (@ \ {"isAttacking"}) \cup {"isReturning"}]
    ELSE orb[o]

Bug_DiesAtOnce(o) == IF Struck(o).health <= 0 THEN NoOrb ELSE Struck(o)
Exploded(o) == [Struck(o) EXCEPT !.visible = @ /\ Struck(o).health > 0]

\* The way to the goal: a step here and one by TransformSystem, with the
\* velocity that was set here; it may lead past the goal.
Bug_Stands(d) == d
Flown(d) == IF d >= 2 * Step THEN d - 2 * Step ELSE 2 * Step - d

\* The goal of a returning orb moves with the boss.
Homing(flags, d) ==
    IF d > Near
    THEN [flags : {flags}, away : {n \in Distance : n - Flown(d) \in -1..1}]
    ELSE [flags : {flags \ {"isReturning", "isDetached"}}, away : {0}]
HomingFromAnywhere(flags) == UNION {Homing(flags, d) : d \in Distance}

\* At its goal an attacking orb turns back in the same pass.
Attacking(flags, d) ==
    IF d > Near THEN [flags : {flags}, away : {Flown(d)}]
    ELSE HomingFromAnywhere((flags \ {"isAttacking"}) \cup {"isReturning"})

\* Idle orbs follow the boss; a detached one is given a ship to attack.
Flight(before, after) ==
    CASE after.flags = {} -> [flags : {{}}, away : {0}]
      [] after.flags = {"isDetached"} ->
             UNION {Attacking({"isDetached", "isAttacking"}, d) : d \in Distance}
      [] "isAttacking" \in after.flags -> Attacking(after.flags, after.away)
      [] "isReturning" \in after.flags ->
             IF before.flags = after.flags THEN Homing(after.flags, after.away)
             ELSE HomingFromAnywhere(after.flags)

FlyOrb(o) ==
    /\ orb[o].live /\ orb[o].visible /\ OrbPass(o)
    /\ colliding' = colliding \ {o}
    /\ \E way \in Flight(orb[o], Struck(o)) :
          orb' = [orb EXCEPT ![o] = [Exploded(o) EXCEPT !.flags = way.flags, !.away = way.away]]

-----------------------------------------------------------------------------
\* The collision pass meets boss and orbs, hidden ones too; then the
\* broadcast.  Orbs have moved in FlyOrb.
RestOfFrame ==
    /\ At("Rest", "Boss")
    /\ colliding' \in SUBSET ({o \in Orb : orb[o].live} \cup (IF boss.live THEN {0} ELSE {}))
    /\ shown' = {o \in Orb : orb[o].live /\ orb[o].visible}
    /\ UNCHANGED <<next, bossVars, orb, attackTimer>>

UpdateOrb == \E o \in Orb : PassDeadOrb(o) \/ KillOrb(o) \/ FlyOrb(o)

Next == \/ SystemIdle \/ SpawnBoss \/ UpdateBoss \/ UpdateOrbState
        \/ UpdateOrb \/ RestOfFrame

Spec == Init /\ [][Next]_vars

\* The main loop never waits.
FairSpec == Spec /\ WF_vars(Next)

-----------------------------------------------------------------------------
\* A health never falls below zero, and no flight leads farther than a goal is.
TypeOK ==
    /\ pc \in {"Boss", "OrbState", "Orbs", "Rest"} /\ next \in Orb
    /\ inLevelThree \in BOOLEAN
    /\ boss \in [spawned : BOOLEAN, live : BOOLEAN, visible : BOOLEAN, health : 0..BossHealth]
    /\ orb \in [Orb -> OrbState]
    /\ colliding \subseteq Orb \cup {0} /\ attackTimer \in 0..AttackInterval
    /\ shown \subseteq Orb

\* While an orb has health left, wherever it flies, the boss loses none.
ShieldHolds ==
    [][boss.spawned /\ boss'.health < boss.health => \A o \in Orb : orb[o].health = 0]_vars

\* Removals are never sent: an orb is killed only after a broadcast has shown it
\* hidden; and when the boss falls and the system stops for good, no orb is left
\* that nobody would hide.
NoOrbGhosts ==
    [][\A o \in Orb :
          /\ orb[o].live /\ ~orb'[o].live => o \notin shown
          /\ ~inLevelThree' => ~orb'[o].live]_vars

\* An attacking orb comes within a frame's way of its target, or gives up.
\* More is not promised: with more than Near to fly in a frame, it may pass
\* the target to and fro for ever.
AttacksArrive ==
    \A o \in Orb : ("isAttacking" \in orb[o].flags)
                     ~> ("isAttacking" \notin orb[o].flags \/ orb[o].away <= 2 * Step)
=============================================================================
