------------------------------- MODULE Combat -------------------------------
(***************************************************************************)
(* One level's combat on the server, frame by frame: the systems that      *)
(* spawn, hit, hide and kill, in the order of LevelOne::initSystems (pc is *)
(* the one that is next), and the copy of it that the broadcast at the end *)
(* of the frame gives the clients.                                         *)
(*                                                                         *)
(* The systems speak to each other through flags that live for a frame     *)
(* (isColliding) and through the visibility of an entity: who wants to     *)
(* remove one hides it, and whoever finds it hidden kills it.              *)
(*                                                                         *)
(* Positions are left out: who touches whom and who leaves the screen is   *)
(* chosen in each frame.  A new entity takes any dead id, as EntityPool    *)
(* promises; when none is left, nothing is spawned (bound).                *)
(***************************************************************************)
EXTENDS Integers, FiniteSets

CONSTANTS
    Entity,             \* ids, but those of the players
    NumPlayers,         \* players are 1..NumPlayers, in the order of their ids
    MaxHealth,          \* of a player
    EnemyHealth,
    InvicibilityTime,   \* in frames; the pass of a frame counts it twice
    MaxHeal, MaxShield  \* heals and bonuses of a level

Player == 1..NumPlayers

ASSUME CombatAssumption ==
    /\ IsFiniteSet(Entity) /\ Entity \cap Player = {}
    /\ NumPlayers \in Nat
    /\ MaxHealth \in Nat \ {0} /\ EnemyHealth \in Nat \ {0}
    /\ InvicibilityTime \in Nat \ {0} /\ MaxHeal \in Nat /\ MaxShield \in Nat

Enemy == {"Bydos", "Robot"}
Missile == {"PlayerMissile", "EnemyMissile"}
Kind == Enemy \cup Missile \cup {"Heal", "ShieldBonus", "Explosion", "Aura"}

\* A player has one box for each of these; nothing sets the one for enemies,
\* which only collide with missiles of players.
Box == {"EnemyMissile", "Heal", "ShieldBonus"}

VARIABLES
    pc, visited,           \* the next system; the next player in DamageSystem
    kind, visible,         \* per entity; kind is "none" for a dead id
    colliding,             \* entities with isColliding
    health,                \* of enemies
    out,                   \* entities that have left the screen
    playerVisible, currentHealth, isInvicible, boxes,   \* per player
    _playerAttackState,    \* per player
    _invicibilityTimer, _auraSpawned,    \* DamageSystem
    _healNb, _shieldNb,
    shown,                 \* entities whose copy at the clients is visible
    strikes                \* history: collision passes that met the entity

entityVars == <<kind, visible, health, out>>
playerVars == <<playerVisible, currentHealth, isInvicible>>
damageVars == <<visited, boxes, _invicibilityTimer, _auraSpawned>>
countVars == <<_playerAttackState, _healNb, _shieldNb>>
vars == <<pc, entityVars, colliding, playerVars, damageVars, countVars, shown,
          strikes>>

Init ==
    /\ pc = "Collision" /\ visited = 1
    /\ kind = [e \in Entity |-> "none"] /\ visible = [e \in Entity |-> FALSE]
    /\ colliding = {} /\ health = [e \in Entity |-> 0] /\ out = {}
    /\ playerVisible = [p \in Player |-> TRUE]
    /\ currentHealth = [p \in Player |-> MaxHealth]
    /\ isInvicible = [p \in Player |-> FALSE] /\ boxes = [p \in Player |-> {}]
    /\ _playerAttackState = [p \in Player |-> FALSE]
    /\ _invicibilityTimer = 0 /\ _auraSpawned = FALSE
    /\ _healNb = 0 /\ _shieldNb = 0
    /\ shown = {} /\ strikes = [e \in Entity |-> 0]

At(system, next) == pc = system /\ pc' = next
Live(k) == {e \in Entity : kind[e] = k}
Hidden(k) == {e \in Live(k) : ~visible[e]}
Dead == {e \in Entity : kind[e] = "none"}

\* n new ids among ids, or as many as there are.
NewIds(n, ids) ==
    {new \in SUBSET ids : \/ Cardinality(new) = n
                          \/ new = ids /\ Cardinality(ids) < n}

\* What a pass does to the entities: some are killed, some hidden, some
\* spawned, in that order; made gives the kind of the spawned ones.
Pass(killed, hidden, made) ==
    LET new == DOMAIN made
    IN  /\ kind' = [e \in Entity |-> IF e \in new THEN made[e]
                                     ELSE IF e \in killed THEN "none" ELSE kind[e]]
        /\ visible' = [e \in Entity |-> \/ e \in new
                                        \/ visible[e] /\ e \notin killed \cup hidden]
        /\ out' = out \ (killed \cup new)
        /\ colliding' = colliding \ (killed \cup new)
        /\ strikes' = [e \in Entity |-> IF e \in killed \cup new THEN 0 ELSE strikes[e]]

\* The same, with health for new enemies only.
HealthKept(killed, made) ==
    health' = [e \in Entity |->
                 IF e \in DOMAIN made
                 THEN IF made[e] \in Enemy THEN EnemyHealth ELSE 0
                 ELSE IF e \in killed THEN 0 ELSE health[e]]

Made(ids, k) == [e \in ids |-> k]
Nothing == [e \in {} |-> "none"]

-----------------------------------------------------------------------------
(* The systems.                                                             *)

\* Everything that could touch, hidden or not, may touch in this frame.
CollisionSystem ==
    /\ At("Collision", "Healing")
    /\ \E touching \in SUBSET
            ({pair \in Entity \X Player : kind[pair[1]] \in Box}
             \cup Live("PlayerMissile") \X UNION {Live(k) : k \in Enemy}) :
          /\ colliding' = {e \in Entity : \E pair \in touching : e \in {pair[1], pair[2]}}
          /\ boxes' = [p \in Player |-> {kind[e] : e \in {m \in Entity : <<m, p>> \in touching}}]
    /\ strikes' = [e \in Entity |-> IF e \in colliding' /\ kind[e] \notin Enemy /\ strikes[e] < 3
                                    THEN strikes[e] + 1 ELSE strikes[e]]
    /\ UNCHANGED <<entityVars, playerVars, visited, _invicibilityTimer, _auraSpawned,
                   countVars, shown>>

\* The heal comes at a random time; deleteHeal.
HealingSystem ==
    /\ At("Healing", "DamageTimer")
    /\ \E new \in {{}} \cup (IF _healNb < MaxHeal THEN NewIds(1, Dead) ELSE {}) :
          LET killed == Hidden("Heal")
              made == Made(new, "Heal")
          IN  /\ Pass(killed, {e \in Live("Heal") : e \in out \cup colliding}, made)
              /\ HealthKept(killed, made)
              /\ _healNb' = _healNb + Cardinality(new)
    /\ UNCHANGED <<playerVars, damageVars, _playerAttackState, _shieldNb, shown>>

\* The timer that all players share is decreased twice.
DamageTimer ==
    /\ At("DamageTimer", "Damage")
    /\ _invicibilityTimer' = IF _invicibilityTimer > 2 THEN _invicibilityTimer - 2 ELSE 0
    /\ UNCHANGED <<entityVars, colliding, playerVars, visited, boxes, _auraSpawned,
                   countVars, shown, strikes>>

\* The box for missiles, with the end of the invincibility after it ...
Hurt(p) == IF "EnemyMissile" \in boxes[p] /\ ~isInvicible[p]
           THEN currentHealth[p] - 1 ELSE currentHealth[p]
StillInvicible(p) == isInvicible[p] /\ _invicibilityTimer > 0

\* ... and the box for heals, which comes last; there is no heal at zero.
Bug_HealsWrecks(p) ==
    IF "Heal" \in boxes[p]
    THEN IF Hurt(p) < MaxHealth THEN Hurt(p) + 1 ELSE MaxHealth
    ELSE Hurt(p)
Healed(p) ==
    IF "Heal" \in boxes[p] /\ Hurt(p) # 0
    THEN IF Hurt(p) < MaxHealth THEN Hurt(p) + 1 ELSE MaxHealth
    ELSE Hurt(p)

\* A bonus renews the timer; whether an aura is shown depends on the flag its
\* last contact left.  After an explosion ren may dangle: either value of
\* visible.  The boxes' flags are not read again before they are set again.
Bug_ShieldKept(p) ==
    /\ pc = "Damage" /\ visited = p /\ playerVisible[p]
    /\ LET dies == currentHealth[p] <= 0
           bonus == "ShieldBonus" \in boxes[p]
       IN  /\ playerVisible' = [playerVisible EXCEPT ![p] = ~dies]
           /\ currentHealth' = [currentHealth EXCEPT ![p] = Healed(p)]
           /\ isInvicible' = [isInvicible EXCEPT ![p] = bonus \/ @]
           /\ _invicibilityTimer' = IF bonus THEN InvicibilityTime ELSE _invicibilityTimer
           /\ _auraSpawned' = (_auraSpawned /\ ~bonus)
    /\ visited' = p + 1
    /\ boxes' = [boxes EXCEPT ![p] = {}]
    /\ UNCHANGED <<pc, entityVars, colliding, strikes, countVars, shown>>
DamagePlayer(p) ==
    /\ pc = "Damage" /\ visited = p /\ playerVisible[p]
    /\ LET dies == currentHealth[p] <= 0
           bonus == "ShieldBonus" \in boxes[p]
           free == bonus /\ ~_auraSpawned /\ ~StillInvicible(p)
       IN  /\ playerVisible' = [playerVisible EXCEPT ![p] = ~dies]
           /\ currentHealth' = [currentHealth EXCEPT ![p] = Healed(p)]
           /\ isInvicible' = [isInvicible EXCEPT ![p] = bonus \/ StillInvicible(p)]
           /\ _invicibilityTimer' = IF bonus THEN InvicibilityTime ELSE _invicibilityTimer
           /\ \E aura \in IF dies THEN {free, FALSE} ELSE {free} :
                 /\ _auraSpawned' = IF bonus THEN aura ELSE _auraSpawned
                 /\ \E boom \in NewIds(IF dies THEN 1 ELSE 0, Dead) :
                    \E ring \in NewIds(IF aura THEN 1 ELSE 0, Dead \ boom) :
                       LET made == [e \in boom \cup ring |->
                                      IF e \in boom THEN "Explosion" ELSE "Aura"]
                       IN  Pass({}, {}, made) /\ HealthKept({}, made)
    /\ visited' = p + 1
    /\ boxes' = [boxes EXCEPT ![p] = {}]
    /\ UNCHANGED <<pc, countVars, shown>>

\* A destroyed ship is passed over.
DamageWreck(p) ==
    /\ pc = "Damage" /\ visited = p /\ ~playerVisible[p]
    /\ visited' = p + 1
    /\ boxes' = [boxes EXCEPT ![p] = {}]
    /\ UNCHANGED <<pc, entityVars, colliding, strikes, playerVars, _invicibilityTimer,
                   _auraSpawned, countVars, shown>>

\* The auras go out, but are never killed.
upadateShieldPos ==
    /\ At("Damage", "BasicMissile") /\ visited > NumPlayers
    /\ visited' = 1
    /\ LET off == IF _invicibilityTimer <= 0 THEN Live("Aura") ELSE {}
       IN  Pass({}, off, Nothing)
    /\ UNCHANGED <<health, playerVars, boxes, _invicibilityTimer, _auraSpawned,
                   countVars, shown>>

\* A missile for every key that was not down in the last frame.
Shooters(attack) == {p \in attack : ~_playerAttackState[p] /\ currentHealth[p] > 0}

BasicMissileSystem ==
    /\ At("BasicMissile", "Shield")
    /\ \E attack \in SUBSET Player :
          /\ \E new \in NewIds(Cardinality(Shooters(attack)), Dead) :
                LET made == Made(new, "PlayerMissile")
                IN  Pass({}, {}, made) /\ HealthKept({}, made)
          /\ _playerAttackState' = [p \in Player |-> \/ p \in Shooters(attack)
                                                     \/ _playerAttackState[p] /\ p \in attack]
    /\ UNCHANGED <<playerVars, damageVars, _healNb, _shieldNb, shown>>

ShieldSystem ==
    /\ At("Shield", "EnemyMissile")
    /\ \E new \in {{}} \cup (IF _shieldNb < MaxShield THEN NewIds(1, Dead) ELSE {}) :
          LET killed == Hidden("ShieldBonus")
              made == Made(new, "ShieldBonus")
          IN  /\ Pass(killed, {e \in Live("ShieldBonus") : e \in out \cup colliding}, made)
              /\ HealthKept(killed, made)
              /\ _shieldNb' = _shieldNb + Cardinality(new)
    /\ UNCHANGED <<playerVars, damageVars, _playerAttackState, _healNb, shown>>

\* Some of the bydos attack, hidden ones too.
EnemyMissile ==
    /\ At("EnemyMissile", "Bydos")
    /\ \E attacking \in SUBSET Live("Bydos") :
       \E new \in NewIds(Cardinality(attacking), Dead) :
          LET made == Made(new, "EnemyMissile")
          IN  Pass({}, {}, made) /\ HealthKept({}, made)
    /\ UNCHANGED <<playerVars, damageVars, countVars, shown>>

\* BydosAI and RobotAI: a hit enemy loses health, one without health explodes, one
\* off the screen just goes; then a new one may come.
EnemyAI(k, next) ==
    /\ At(k, next)
    /\ LET killed == Hidden(k)
           seen == Live(k) \ killed
           left == [e \in seen |-> IF e \in colliding THEN health[e] - 1 ELSE health[e]]
           shot == {e \in seen \ out : left[e] <= 0}
       IN  \E boom \in NewIds(Cardinality(shot), Dead \cup killed) :
           \E new \in {{}} \cup NewIds(1, (Dead \cup killed) \ boom) :
              LET made == [e \in boom \cup new |-> IF e \in new THEN k ELSE "Explosion"]
              IN  /\ Pass(killed, shot \cup (seen \cap out), made)
                  /\ health' = [e \in Entity |-> IF e \in new THEN EnemyHealth
                                                 ELSE IF e \in seen THEN left[e]
                                                 ELSE IF e \in killed THEN 0
                                                 ELSE health[e]]
    /\ UNCHANGED <<playerVars, damageVars, countVars, shown>>

BydosAI == EnemyAI("Bydos", "Transform")

\* Everything flies straight on; what has left the screen does not come back.
TransformSystem ==
    /\ At("Transform", "Robot")
    /\ \E gone \in SUBSET {e \in Entity : kind[e] \notin {"none", "Explosion", "Aura"}} :
          out' = out \cup gone
    /\ UNCHANGED <<kind, visible, health, colliding, playerVars, damageVars, countVars,
                   shown, strikes>>

RobotAI == EnemyAI("Robot", "MissileCleanup")

Bug_CleanupAtOnce ==
    /\ At("MissileCleanup", "Explosion")
    /\ LET killed == {e \in Entity : kind[e] \in Missile /\ (~visible[e] \/ e \in colliding)}
       IN  Pass(killed, out, Nothing) /\ HealthKept(killed, Nothing)
    /\ UNCHANGED <<playerVars, damageVars, countVars, shown>>
Bug_HitsOnlyHide ==
    /\ At("MissileCleanup", "Explosion")
    /\ LET killed == {e \in Entity : kind[e] \in Missile /\ ~visible[e] /\ e \in out}
           hidden == {e \in Entity : kind[e] \in Missile /\ e \in out \cup colliding}
       IN  Pass(killed, hidden, Nothing) /\ HealthKept(killed, Nothing)
    /\ UNCHANGED <<playerVars, damageVars, countVars, shown>>
MissileCleanupSystem ==
    /\ At("MissileCleanup", "Explosion")
    /\ LET killed == UNION {Hidden(k) : k \in Missile}
           hidden == {e \in Entity : kind[e] \in Missile /\ e \in out \cup colliding}
       IN  Pass(killed, hidden, Nothing) /\ HealthKept(killed, Nothing)
    /\ UNCHANGED <<playerVars, damageVars, countVars, shown>>

ExplosionSystem ==
    /\ At("Explosion", "Network")
    /\ \E ended \in SUBSET (Live("Explosion") \ Hidden("Explosion")) :
          Pass(Hidden("Explosion"), ended, Nothing)
    /\ UNCHANGED <<health, playerVars, damageVars, countVars, shown>>

\* The components of what lives are sent; of a dead id, nothing.
ServerNetworkSystem ==
    /\ At("Network", "Collision")
    /\ shown' = {e \in Entity : IF kind[e] = "none" THEN e \in shown ELSE visible[e]}
    /\ UNCHANGED <<entityVars, colliding, playerVars, damageVars, countVars, strikes>>

-----------------------------------------------------------------------------
DamageSystem == \/ DamageTimer \/ upadateShieldPos
                \/ \E p \in Player : DamagePlayer(p) \/ DamageWreck(p)

Next == \/ CollisionSystem \/ HealingSystem \/ DamageSystem \/ BasicMissileSystem
        \/ ShieldSystem \/ EnemyMissile \/ BydosAI \/ TransformSystem \/ RobotAI
        \/ MissileCleanupSystem \/ ExplosionSystem \/ ServerNetworkSystem

Spec == Init /\ [][Next]_vars

-----------------------------------------------------------------------------
(* Properties.                                                              *)

\* Every variable keeps its type; a player's health may fall one below zero, in the
\* frame that hides the ship; only live entities have left the screen or collide.
TypeOK ==
    /\ pc \in {"Collision", "Healing", "DamageTimer", "Damage", "BasicMissile", "Shield",
               "EnemyMissile", "Bydos", "Transform", "Robot", "MissileCleanup",
               "Explosion", "Network"}
    /\ visited \in 1..(NumPlayers + 1)
    /\ kind \in [Entity -> Kind \cup {"none"}] /\ visible \in [Entity -> BOOLEAN]
    /\ colliding \subseteq Entity \ Dead /\ out \subseteq Entity \ Dead
    /\ health \in [Entity -> 0..EnemyHealth]
    /\ playerVisible \in [Player -> BOOLEAN] /\ isInvicible \in [Player -> BOOLEAN]
    /\ currentHealth \in [Player -> -1..MaxHealth] /\ boxes \in [Player -> SUBSET Box]
    /\ _playerAttackState \in [Player -> BOOLEAN]
    /\ _invicibilityTimer \in 0..InvicibilityTime /\ _auraSpawned \in BOOLEAN
    /\ _healNb \in 0..MaxHeal /\ _shieldNb \in 0..MaxShield
    /\ shown \subseteq Entity /\ strikes \in [Entity -> 0..3]

\* Whatever is killed was hidden in an earlier frame: after a broadcast the clients'
\* copies are visible for exactly what is visible on the server, no killed entity
\* among it.
NoGhosts == pc = "Collision" => shown = {e \in Entity : visible[e]}

\* A missile, a heal or a bonus that has hit is seen by the collision pass of one
\* more frame, hidden as it is, and by no third.
StrikesTwiceAtMost ==
    \A e \in Entity : kind[e] \in Missile \cup {"Heal", "ShieldBonus"} => strikes[e] <= 2

\* A destroyed ship stays hidden, without health and silent, although heals still
\* reach it and its player still presses the key.
WrecksStayDead ==
    [][\A p \in Player : ~playerVisible[p] =>
            /\ ~playerVisible'[p] /\ currentHealth'[p] <= 0
            /\ ~_playerAttackState[p] => ~_playerAttackState'[p]]_vars

\* Between frames no flying ship is invincible and no aura is shown on a timer that
\* has run out, whoever picked up the bonus and whoever is visited first.
ShieldsRunOut ==
    pc = "Collision" =>
        /\ \A p \in Player : playerVisible[p] /\ isInvicible[p] => _invicibilityTimer > 0
        /\ \A e \in Live("Aura") : visible[e] => _invicibilityTimer > 0
=============================================================================
