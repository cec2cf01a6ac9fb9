---------------------------- MODULE CombatProofs ----------------------------
(***************************************************************************)
(* Proofs about the combat of a level, for any number of ids and players,  *)
(* any healths and times that satisfy CombatAssumption.                    *)
(***************************************************************************)
EXTENDS Combat, FiniteSetTheorems, TLAPS

(* The systems from the start of a frame up to the one that cleans up after *)
(* a kind, in their order.                                                  *)
UpToHealing == {"Collision", "Healing"}
UpToShield == UpToHealing \cup {"DamageTimer", "Damage", "BasicMissile", "Shield"}
UpToBydos == UpToShield \cup {"EnemyMissile", "Bydos"}
UpToRobot == UpToBydos \cup {"Transform", "Robot"}
UpToCleanup == UpToRobot \cup {"MissileCleanup"}
UpToExplosion == UpToCleanup \cup {"Explosion"}

(* The cleanup of the kind is still to come in this frame, when it has come *)
(* to that system.  Nobody kills auras.                                     *)
ToCome(k, at) ==
    \/ k = "Heal" /\ at \in UpToHealing
    \/ k = "ShieldBonus" /\ at \in UpToShield
    \/ k = "Bydos" /\ at \in UpToBydos
    \/ k = "Robot" /\ at \in UpToRobot
    \/ k \in Missile /\ at \in UpToCleanup
    \/ k = "Explosion" /\ at \in UpToExplosion

Striker == Missile \cup {"Heal", "ShieldBonus"}

(* A dead id is not seen anywhere, and what its cleanup is to kill in this  *)
(* frame was broadcast as hidden.                                           *)
HiddenIsUnseen ==
    \A e \in Entity :
        /\ kind[e] = "none" => ~visible[e] /\ e \notin shown
        /\ ~visible[e] /\ ToCome(kind[e], pc) => e \notin shown

(* What has struck waits for its cleanup, which hides it; hidden, it        *)
(* strikes in one more frame, and its cleanup kills it.                     *)
StrikesCounted ==
    \A e \in Entity : kind[e] \in Striker =>
        IF visible[e]
        THEN \/ strikes[e] = 0
             \/ strikes[e] = 1 /\ e \in colliding /\ ToCome(kind[e], pc) /\ pc # "Collision"
        ELSE strikes[e] <= IF ToCome(kind[e], pc) /\ pc # "Collision" THEN 2 ELSE 1

(* An enemy without health is hidden in the pass that takes it.             *)
EnemiesAlive == \A e \in Entity : kind[e] \in Enemy /\ visible[e] => health[e] > 0

(* A ship is hidden in the frame after it has lost its health, and what     *)
(* reaches it in that pass leaves it without.                               *)
WrecksDead ==
    \A p \in Player : IF playerVisible[p] THEN currentHealth[p] >= 0
                      ELSE currentHealth[p] <= 0

(* Who is invincible has a running timer, once DamageSystem has come by.    *)
ShieldsTimed ==
    /\ pc # "Damage" => visited = 1
    /\ \A p \in Player :
          playerVisible[p] /\ isInvicible[p] /\ (pc # "Damage" \/ p < visited)
            => _invicibilityTimer > 0

(* The same of auras, which go out at the end of its pass.                  *)
AurasTimed ==
    pc # "Damage" =>
        \A e \in Entity : kind[e] = "Aura" /\ visible[e] => _invicibilityTimer > 0

CombatInv ==
    /\ TypeOK
    /\ HiddenIsUnseen /\ StrikesCounted /\ EnemiesAlive
    /\ WrecksDead /\ ShieldsTimed /\ AurasTimed

-----------------------------------------------------------------------------
(* What one system does to the entities.                                    *)

(* New ids are among those that are offered, and not too many.              *)
LEMMA NewIdsAreFew ==
    ASSUME NEW n \in Nat, NEW ids \in SUBSET Entity, NEW new \in NewIds(n, ids)
    PROVE  new \subseteq ids /\ Cardinality(new) \in Nat /\ Cardinality(new) <= n
<1>1. new \subseteq ids /\ (Cardinality(new) = n \/ (new = ids /\ Cardinality(ids) < n))
  BY DEF NewIds
<1>2. IsFiniteSet(new)
  BY <1>1, CombatAssumption, FS_Subset
<1>3. Cardinality(new) \in Nat
  BY <1>2, FS_CardinalityType
<1> QED
  BY <1>1, <1>3

(* The effect of a pass, entity by entity.                                  *)
Affected(killed, hidden, made) ==
    \A e \in Entity :
        /\ e \in DOMAIN made =>
             kind'[e] = made[e] /\ visible'[e] = TRUE /\ strikes'[e] = 0
        /\ e \in killed /\ e \notin DOMAIN made =>
             kind'[e] = "none" /\ visible'[e] = FALSE /\ strikes'[e] = 0
        /\ e \notin killed /\ e \notin DOMAIN made =>
             /\ kind'[e] = kind[e] /\ strikes'[e] = strikes[e]
             /\ visible'[e] = (visible[e] /\ e \notin hidden)

LEMMA PassEffect ==
    ASSUME TypeOK, NEW killed, NEW hidden, NEW made, Pass(killed, hidden, made)
    PROVE  Affected(killed, hidden, made)
<1> SUFFICES ASSUME NEW e \in Entity
             PROVE  /\ e \in DOMAIN made =>
                         kind'[e] = made[e] /\ visible'[e] = TRUE /\ strikes'[e] = 0
                    /\ e \in killed /\ e \notin DOMAIN made =>
                         kind'[e] = "none" /\ visible'[e] = FALSE /\ strikes'[e] = 0
                    /\ e \notin killed /\ e \notin DOMAIN made =>
                         /\ kind'[e] = kind[e] /\ strikes'[e] = strikes[e]
                         /\ visible'[e] = (visible[e] /\ e \notin hidden)
  BY Zenon DEF Affected
<1>1. kind'[e] = IF e \in DOMAIN made THEN made[e]
                 ELSE IF e \in killed THEN "none" ELSE kind[e]
  BY DEF Pass
<1>2. strikes'[e] = IF e \in killed \cup DOMAIN made THEN 0 ELSE strikes[e]
  BY DEF Pass
<1>3. visible'[e] = (e \in DOMAIN made \/ (visible[e] /\ e \notin killed \cup hidden))
  BY DEF Pass
<1>4. visible[e] \in BOOLEAN
  BY DEF TypeOK
<1>5. e \in DOMAIN made => visible'[e] = TRUE
  BY <1>3, Zenon
<1>6. e \in killed /\ e \notin DOMAIN made => visible'[e] = FALSE
  BY <1>3, Zenon
<1>7. e \notin killed /\ e \notin DOMAIN made => visible'[e] = (visible[e] /\ e \notin hidden)
  BY <1>3, Zenon
<1> QED
  BY <1>1, <1>2, <1>5, <1>6, <1>7, Zenon

(* A pass keeps entities well typed.                                        *)
LEMMA PassTypes ==
    ASSUME TypeOK, NEW killed, NEW hidden, NEW made, Pass(killed, hidden, made),
           DOMAIN made \subseteq Entity, \A e \in DOMAIN made : made[e] \in Kind
    PROVE  /\ kind' \in [Entity -> Kind \cup {"none"}] /\ visible' \in [Entity -> BOOLEAN]
           /\ strikes' \in [Entity -> 0..3]
           /\ colliding' \subseteq Entity \ Dead' /\ out' \subseteq Entity \ Dead'
<1>1. kind' \in [Entity -> Kind \cup {"none"}]
  BY DEF Pass, TypeOK
<1>2. visible' \in [Entity -> BOOLEAN]
  <2>1. \A e \in Entity : (e \in DOMAIN made \/ (visible[e] /\ e \notin killed \cup hidden)) \in BOOLEAN
    OBVIOUS
  <2> QED
    BY <2>1, Zenon DEF Pass
<1>3. strikes' \in [Entity -> 0..3]
  BY DEF Pass, TypeOK
<1>4. "none" \notin Kind
  BY DEF Kind, Enemy, Missile
<1>5. \A e \in Entity : e \notin Dead /\ e \notin killed \cup DOMAIN made => e \notin Dead'
  <2>1. Affected(killed, hidden, made)
    BY PassEffect
  <2> QED
    BY <1>4, <2>1 DEF Affected, Dead
<1>6. colliding' = colliding \ (killed \cup DOMAIN made) /\ out' = out \ (killed \cup DOMAIN made)
  BY DEF Pass
<1>7. colliding \subseteq Entity \ Dead /\ out \subseteq Entity \ Dead
  BY DEF TypeOK
<1> QED
  BY <1>1, <1>2, <1>3, <1>5, <1>6, <1>7


(* What a pass kills was hidden and broadcast; what it hides, it cleans up  *)
(* itself; and the kinds whose cleanup it is, it cleans up completely.      *)
CleanPass(killed, hidden, made) ==
    /\ DOMAIN made \subseteq Dead \cup killed
    /\ \A e \in DOMAIN made : made[e] \in Kind
    /\ \A e \in killed : e \in Entity /\ ~visible[e] /\ ToCome(kind[e], pc)
    /\ \A e \in Entity : e \in hidden => ~ToCome(kind[e], pc')
    /\ \A e \in Entity :
          kind[e] \in Striker /\ ToCome(kind[e], pc) /\ ~ToCome(kind[e], pc') =>
              IF visible[e] THEN e \in colliding => e \in hidden ELSE e \in killed

(* The systems come in one order, until the next frame.                     *)
Onward ==
    /\ pc # "Collision" /\ pc' # "Collision"
    /\ \A k \in Kind \cup {"none"} : ToCome(k, pc') => ToCome(k, pc)

LEMMA CleanPassKeeps ==
    ASSUME TypeOK, HiddenIsUnseen, StrikesCounted, shown' = shown,
           NEW killed, NEW hidden, NEW made, Pass(killed, hidden, made),
           CleanPass(killed, hidden, made), Onward
    PROVE  HiddenIsUnseen' /\ StrikesCounted'
<1> DEFINE new == DOMAIN made
<1>1. \A e \in Entity :
         /\ e \in new => kind'[e] = made[e] /\ visible'[e] = TRUE /\ strikes'[e] = 0
         /\ e \in killed /\ e \notin new =>
              kind'[e] = "none" /\ visible'[e] = FALSE /\ strikes'[e] = 0
         /\ e \notin killed /\ e \notin new =>
              /\ kind'[e] = kind[e] /\ strikes'[e] = strikes[e]
              /\ visible'[e] = (visible[e] /\ e \notin hidden)
  BY PassEffect, Zenon DEF Affected
<1>2. \A e \in killed : e \notin shown
  BY DEF CleanPass, HiddenIsUnseen
<1>3. \A e \in new : made[e] # "none"
  BY DEF CleanPass, Kind, Enemy, Missile
<1>4. \A e \in Entity : ToCome(kind[e], pc') => ToCome(kind[e], pc)
  BY DEF Onward, TypeOK
<1>5. colliding' = colliding \ (killed \cup new)
  BY DEF Pass
<1>6. "none" \notin Striker /\ ~ToCome("none", pc')
  BY DEF Striker, Missile, ToCome
<1>7. \A e \in Entity : visible[e] \in BOOLEAN
  BY DEF TypeOK
<1>8. HiddenIsUnseen'
  <2> SUFFICES ASSUME NEW e \in Entity
               PROVE  /\ kind'[e] = "none" => ~visible'[e] /\ e \notin shown
                      /\ ~visible'[e] /\ ToCome(kind'[e], pc') => e \notin shown
    BY DEF HiddenIsUnseen
  <2>1. CASE e \in new
    BY <1>1, <1>3, <2>1, Zenon
  <2>2. CASE e \in killed /\ e \notin new
    BY <1>1, <1>2, <2>2, Zenon
  <2>3. CASE e \notin killed /\ e \notin new
    <3>1. kind'[e] = kind[e] /\ visible'[e] = (visible[e] /\ e \notin hidden)
      BY <1>1, <2>3
    <3>2. ToCome(kind[e], pc') => e \notin hidden
      BY DEF CleanPass
    <3>3. kind[e] = "none" => ~visible[e] /\ e \notin shown
      BY DEF HiddenIsUnseen
    <3>4. ~visible[e] /\ ToCome(kind[e], pc) => e \notin shown
      BY DEF HiddenIsUnseen
    <3> QED
      BY <1>4, <3>1, <3>2, <3>3, <3>4, Zenon
  <2> QED
    BY <2>1, <2>2, <2>3
<1>9. StrikesCounted'
  <2> SUFFICES ASSUME NEW e \in Entity, kind'[e] \in Striker
               PROVE  IF visible'[e]
                      THEN \/ strikes'[e] = 0
                           \/ /\ strikes'[e] = 1 /\ e \in colliding'
                              /\ ToCome(kind'[e], pc') /\ pc' # "Collision"
                      ELSE strikes'[e] <=
                             IF ToCome(kind'[e], pc') /\ pc' # "Collision" THEN 2 ELSE 1
    BY DEF StrikesCounted
  <2>1. CASE e \in new
    BY <1>1, <2>1, Zenon
  <2>2. CASE e \in killed /\ e \notin new
    BY <1>1, <1>6, <2>2, Zenon
  <2>3. CASE e \notin killed /\ e \notin new
    <3>1. /\ kind'[e] = kind[e] /\ strikes'[e] = strikes[e]
          /\ visible'[e] = (visible[e] /\ e \notin hidden)
      BY <1>1, <2>3
    <3>2. e \in colliding' <=> e \in colliding
      BY <1>5, <2>3
    <3>3. ToCome(kind[e], pc) /\ ~ToCome(kind[e], pc') =>
              IF visible[e] THEN e \in colliding => e \in hidden ELSE e \in killed
      BY <3>1 DEF CleanPass
    <3>4. IF visible[e]
          THEN \/ strikes[e] = 0
               \/ /\ strikes[e] = 1 /\ e \in colliding
                  /\ ToCome(kind[e], pc) /\ pc # "Collision"
          ELSE strikes[e] <= IF ToCome(kind[e], pc) /\ pc # "Collision" THEN 2 ELSE 1
      BY <3>1 DEF StrikesCounted
    <3>5. pc # "Collision" /\ pc' # "Collision"
      BY DEF Onward
    <3>6. CASE visible'[e]
      BY <3>1, <3>2, <3>3, <3>4, <3>5, <3>6, Zenon
    <3>7. CASE visible[e] /\ ~visible'[e]
      <4>1. strikes[e] = 0 \/ strikes[e] = 1
        BY <3>4, <3>7, Zenon
      <4>2. strikes[e] <= 1 /\ strikes[e] <= 2
        BY <4>1
      <4> QED
        BY <3>1, <3>7, <4>2, Zenon
    <3>8. CASE ~visible[e] /\ ~visible'[e]
      <4>1. ToCome(kind[e], pc') <=> ToCome(kind[e], pc)
        BY <1>4, <2>3, <3>3, <3>8, Zenon
      <4> QED
        BY <3>1, <3>4, <3>5, <3>8, <4>1, Zenon
    <3> QED
      BY <3>1, <3>6, <3>7, <3>8, Zenon
  <2> QED
    BY <2>1, <2>2, <2>3
<1> QED
  BY <1>8, <1>9

(* New enemies have their health, the others keep theirs.                   *)
LEMMA HealthKeeps ==
    ASSUME TypeOK, EnemiesAlive, NEW killed, NEW hidden, NEW made,
           Pass(killed, hidden, made), HealthKept(killed, made)
    PROVE  health' \in [Entity -> 0..EnemyHealth] /\ EnemiesAlive'
<1>1. EnemyHealth > 0 /\ EnemyHealth \in 0..EnemyHealth /\ 0 \in 0..EnemyHealth
  BY CombatAssumption
<1>2. \A e \in Entity : health[e] \in 0..EnemyHealth
  BY DEF TypeOK
<1>3. \A e \in Entity :
         health'[e] = IF e \in DOMAIN made
                      THEN IF made[e] \in Enemy THEN EnemyHealth ELSE 0
                      ELSE IF e \in killed THEN 0 ELSE health[e]
  BY DEF HealthKept
<1>4. health' \in [Entity -> 0..EnemyHealth]
  <2>1. \A e \in Entity : (IF e \in DOMAIN made
                           THEN IF made[e] \in Enemy THEN EnemyHealth ELSE 0
                           ELSE IF e \in killed THEN 0 ELSE health[e]) \in 0..EnemyHealth
    BY <1>1, <1>2
  <2> QED
    BY <2>1, Zenon DEF HealthKept
<1>5. Affected(killed, hidden, made)
  BY PassEffect
<1>6. "none" \notin Enemy
  BY DEF Enemy
<1>7. EnemiesAlive'
  <2> SUFFICES ASSUME NEW e \in Entity, kind'[e] \in Enemy, visible'[e]
               PROVE  health'[e] > 0
    BY DEF EnemiesAlive
  <2>1. CASE e \in DOMAIN made
    <3>1. kind'[e] = made[e]
      BY <1>5, <2>1, Zenon DEF Affected
    <3> QED
      BY <1>1, <1>3, <2>1, <3>1
  <2>2. CASE e \notin DOMAIN made
    <3>1. e \notin killed
      BY <1>5, <1>6, <2>2, Zenon DEF Affected
    <3>2. kind'[e] = kind[e] /\ visible[e]
      BY <1>5, <2>2, <3>1, Zenon DEF Affected
    <3> QED
      BY <1>3, <2>2, <3>1, <3>2 DEF EnemiesAlive
  <2> QED
    BY <2>1, <2>2
<1> QED
  BY <1>4, <1>7

(* A system that leaves the ships and their timer alone.                    *)
LEMMA SystemPassKeeps ==
    ASSUME CombatInv, NEW killed, NEW hidden, NEW made, Pass(killed, hidden, made),
           CleanPass(killed, hidden, made), Onward,
           \A e \in DOMAIN made : made[e] # "Aura",
           health' \in [Entity -> 0..EnemyHealth], EnemiesAlive',
           pc' \in {"DamageTimer", "Shield", "EnemyMissile", "Bydos", "Transform",
                    "MissileCleanup", "Explosion", "Network"},
           pc # "Damage", UNCHANGED <<playerVars, damageVars, shown>>,
           _playerAttackState' \in [Player -> BOOLEAN],
           _healNb' \in 0..MaxHeal, _shieldNb' \in 0..MaxShield
    PROVE  CombatInv'
<1>1. TypeOK /\ HiddenIsUnseen /\ StrikesCounted /\ WrecksDead /\ ShieldsTimed /\ AurasTimed
  BY DEF CombatInv
<1>2. HiddenIsUnseen' /\ StrikesCounted'
  BY <1>1, CleanPassKeeps
<1>3. DOMAIN made \subseteq Entity /\ \A e \in DOMAIN made : made[e] \in Kind
  BY DEF CleanPass, Dead
<1>4. /\ kind' \in [Entity -> Kind \cup {"none"}] /\ visible' \in [Entity -> BOOLEAN]
      /\ strikes' \in [Entity -> 0..3]
      /\ colliding' \subseteq Entity \ Dead' /\ out' \subseteq Entity \ Dead'
  BY <1>1, <1>3, PassTypes
<1>5. TypeOK'
  BY <1>1, <1>4 DEF TypeOK, playerVars, damageVars
<1>6. pc' # "Damage"
  OBVIOUS
<1>7. WrecksDead' /\ ShieldsTimed'
  BY <1>1, <1>6 DEF WrecksDead, ShieldsTimed, playerVars, damageVars
<1>8. AurasTimed'
  <2> SUFFICES ASSUME NEW e \in Entity, kind'[e] = "Aura", visible'[e]
               PROVE  _invicibilityTimer' > 0
    BY DEF AurasTimed
  <2>1. Affected(killed, hidden, made) /\ "none" # "Aura"
    BY <1>1, PassEffect
  <2>2. e \notin DOMAIN made
    BY <2>1, Zenon DEF Affected
  <2>3. kind[e] = "Aura" /\ visible[e]
    BY <2>1, <2>2, Zenon DEF Affected
  <2> QED
    BY <1>1, <2>3 DEF AurasTimed, damageVars
<1> QED
  BY <1>2, <1>5, <1>7, <1>8 DEF CombatInv

-----------------------------------------------------------------------------
(* The invariant, system by system.                                         *)

LEMMA InitCombat == Init => CombatInv
<1> SUFFICES ASSUME Init PROVE CombatInv
  OBVIOUS
<1>1. \A e \in Entity : kind[e] = "none" /\ visible[e] = FALSE
  BY DEF Init
<1>2. /\ kind \in [Entity -> Kind \cup {"none"}] /\ health \in [Entity -> 0..EnemyHealth]
      /\ strikes \in [Entity -> 0..3]
  BY CombatAssumption DEF Init
<1>3. currentHealth \in [Player -> -1..MaxHealth] /\ visited \in 1..(NumPlayers + 1)
  BY CombatAssumption DEF Init
<1>4. /\ boxes \in [Player -> SUBSET Box] /\ _invicibilityTimer \in 0..InvicibilityTime
      /\ _healNb \in 0..MaxHeal /\ _shieldNb \in 0..MaxShield
  BY CombatAssumption DEF Init
<1>5. /\ visible \in [Entity -> BOOLEAN] /\ playerVisible \in [Player -> BOOLEAN]
      /\ isInvicible \in [Player -> BOOLEAN] /\ _playerAttackState \in [Player -> BOOLEAN]
      /\ _auraSpawned \in BOOLEAN
  BY Zenon DEF Init
<1>6. colliding = {} /\ out = {} /\ shown = {} /\ pc = "Collision"
  BY DEF Init
<1>7. TypeOK
  BY <1>2, <1>3, <1>4, <1>5, <1>6 DEF TypeOK
<1>8. HiddenIsUnseen /\ StrikesCounted /\ EnemiesAlive /\ AurasTimed
  BY <1>1, <1>6 DEF HiddenIsUnseen, StrikesCounted, EnemiesAlive, AurasTimed, Striker,
                    Missile, Enemy
<1>9. WrecksDead /\ ShieldsTimed
  BY CombatAssumption DEF Init, WrecksDead, ShieldsTimed
<1> QED
  BY <1>7, <1>8, <1>9 DEF CombatInv

(* Two kinds of pickups that come one by one, at most so many.              *)
LEMMA PickupCounted ==
    ASSUME NEW have \in Nat, NEW most \in Nat, have <= most,
           NEW new \in {{}} \cup (IF have < most THEN NewIds(1, Dead) ELSE {})
    PROVE  new \subseteq Dead /\ have + Cardinality(new) \in 0..most
<1>1. CASE new = {}
  BY <1>1, FS_EmptySet
<1>2. CASE have < most /\ new \in NewIds(1, Dead)
  <2>1. Dead \in SUBSET Entity
    BY DEF Dead
  <2>2. new \subseteq Dead /\ Cardinality(new) \in Nat /\ Cardinality(new) <= 1
    BY <1>2, <2>1, NewIdsAreFew
  <2> QED
    BY <1>2, <2>2
<1> QED
  BY <1>1, <1>2

LEMMA HealingKeeps ==
    ASSUME CombatInv, HealingSystem
    PROVE  CombatInv'
<1>1. TypeOK /\ EnemiesAlive
  BY DEF CombatInv
<1>2. PICK new \in {{}} \cup (IF _healNb < MaxHeal THEN NewIds(1, Dead) ELSE {}) :
         /\ Pass(Hidden("Heal"), {e \in Live("Heal") : e \in out \cup colliding}, Made(new, "Heal"))
         /\ HealthKept(Hidden("Heal"), Made(new, "Heal"))
         /\ _healNb' = _healNb + Cardinality(new)
  BY DEF HealingSystem
<1>3. /\ pc = "Healing" /\ pc' = "DamageTimer"
      /\ UNCHANGED <<playerVars, damageVars, _playerAttackState, _shieldNb, shown>>
  BY DEF HealingSystem, At
<1>4. new \subseteq Dead /\ _healNb' \in 0..MaxHeal
  BY <1>1, <1>2, PickupCounted, CombatAssumption DEF TypeOK
<1>5. DOMAIN Made(new, "Heal") = new /\ \A e \in new : Made(new, "Heal")[e] = "Heal"
  BY DEF Made
<1>6. Onward
  BY <1>3 DEF Onward, ToCome, UpToHealing, UpToShield, UpToBydos, UpToRobot, UpToCleanup,
              UpToExplosion
<1>7. "Heal" \in Kind /\ ToCome("Heal", pc) /\ ~ToCome("Heal", pc')
  BY <1>3 DEF Kind, ToCome, UpToHealing, Missile
<1>8. \A k \in Striker : ToCome(k, pc) /\ ~ToCome(k, pc') => k = "Heal"
  BY <1>3 DEF Striker, ToCome, UpToHealing, UpToShield, UpToBydos, UpToRobot, UpToCleanup,
              UpToExplosion, Missile
<1>9. CleanPass(Hidden("Heal"), {e \in Live("Heal") : e \in out \cup colliding}, Made(new, "Heal"))
  BY <1>4, <1>5, <1>7, <1>8 DEF CleanPass, Hidden, Live
<1>10. health' \in [Entity -> 0..EnemyHealth] /\ EnemiesAlive'
  BY <1>1, <1>2, HealthKeeps
<1>11. _playerAttackState' \in [Player -> BOOLEAN] /\ _shieldNb' \in 0..MaxShield
  BY <1>1, <1>3 DEF TypeOK
<1> QED
  BY <1>2, <1>3, <1>4, <1>5, <1>6, <1>9, <1>10, <1>11, SystemPassKeeps


LEMMA ShieldKeeps ==
    ASSUME CombatInv, ShieldSystem
    PROVE  CombatInv'
<1>1. TypeOK /\ EnemiesAlive
  BY DEF CombatInv
<1> DEFINE k0 == "ShieldBonus"
           killed == Hidden(k0)
           hidden == {e \in Live(k0) : e \in out \cup colliding}
<1>2. PICK new \in {{}} \cup (IF _shieldNb < MaxShield THEN NewIds(1, Dead) ELSE {}) :
         /\ Pass(killed, hidden, Made(new, k0)) /\ HealthKept(killed, Made(new, k0))
         /\ _shieldNb' = _shieldNb + Cardinality(new)
  BY DEF ShieldSystem
<1>3. /\ pc = "Shield" /\ pc' = "EnemyMissile"
      /\ UNCHANGED <<playerVars, damageVars, _playerAttackState, _healNb, shown>>
  BY DEF ShieldSystem, At
<1>4. new \subseteq Dead /\ _shieldNb' \in 0..MaxShield
  BY <1>1, <1>2, PickupCounted, CombatAssumption DEF TypeOK
<1>5. DOMAIN Made(new, k0) = new /\ \A e \in new : Made(new, k0)[e] = k0
  BY DEF Made
<1>6. Onward
  BY <1>3 DEF Onward, ToCome, UpToHealing, UpToShield, UpToBydos, UpToRobot, UpToCleanup,
              UpToExplosion
<1>7. k0 \in Kind /\ k0 # "Aura" /\ ToCome(k0, pc) /\ ~ToCome(k0, pc')
  BY <1>3 DEF Kind, ToCome, UpToHealing, UpToShield, Missile
<1>8. \A k \in Striker : ToCome(k, pc) /\ ~ToCome(k, pc') => k = k0
  BY <1>3 DEF Striker, Missile, ToCome, UpToHealing, UpToShield, UpToBydos, UpToRobot, UpToCleanup,
              UpToExplosion
<1>9. CleanPass(killed, hidden, Made(new, k0))
  BY <1>4, <1>5, <1>7, <1>8 DEF CleanPass, Hidden, Live
<1> HIDE DEF killed, hidden, k0
<1>10. health' \in [Entity -> 0..EnemyHealth] /\ EnemiesAlive'
  BY <1>1, <1>2, HealthKeeps
<1>11. _playerAttackState' \in [Player -> BOOLEAN] /\ _healNb' \in 0..MaxHeal
  BY <1>1, <1>3 DEF TypeOK
<1>12. \A e \in DOMAIN Made(new, k0) : Made(new, k0)[e] # "Aura"
  BY <1>5, <1>7
<1> QED
  BY <1>2, <1>3, <1>4, <1>6, <1>9, <1>10, <1>11, <1>12, SystemPassKeeps

(* A pass that only spawns, one kind of entity.                             *)
LEMMA SpawnPass ==
    ASSUME NEW new \in SUBSET Dead, NEW k \in Kind,
           \A s \in Striker : ToCome(s, pc) => ToCome(s, pc')
    PROVE  CleanPass({}, {}, Made(new, k))
<1>1. DOMAIN Made(new, k) = new /\ \A e \in new : Made(new, k)[e] = k
  BY DEF Made
<1> QED
  BY <1>1 DEF CleanPass

LEMMA BasicMissileKeeps ==
    ASSUME CombatInv, BasicMissileSystem
    PROVE  CombatInv'
<1>1. TypeOK /\ EnemiesAlive
  BY DEF CombatInv
<1>2. PICK attack \in SUBSET Player :
         /\ \E new \in NewIds(Cardinality(Shooters(attack)), Dead) :
               LET made == Made(new, "PlayerMissile")
               IN  Pass({}, {}, made) /\ HealthKept({}, made)
         /\ _playerAttackState' = [p \in Player |-> \/ p \in Shooters(attack)
                                                    \/ _playerAttackState[p] /\ p \in attack]
  BY DEF BasicMissileSystem
<1>3. PICK new \in NewIds(Cardinality(Shooters(attack)), Dead) :
         Pass({}, {}, Made(new, "PlayerMissile")) /\ HealthKept({}, Made(new, "PlayerMissile"))
  BY <1>2
<1>4. /\ pc = "BasicMissile" /\ pc' = "Shield"
      /\ UNCHANGED <<playerVars, damageVars, _healNb, _shieldNb, shown>>
  BY DEF BasicMissileSystem, At
<1>5. new \subseteq Dead
  BY DEF NewIds
<1>6. Onward /\ \A s \in Striker : ToCome(s, pc) => ToCome(s, pc')
  BY <1>4 DEF Onward, Striker, Missile, ToCome, UpToHealing, UpToShield, UpToBydos, UpToRobot, UpToCleanup,
              UpToExplosion
<1>7. "PlayerMissile" \in Kind
  BY DEF Kind, Missile
<1>8. CleanPass({}, {}, Made(new, "PlayerMissile"))
  BY <1>5, <1>6, <1>7, SpawnPass
<1>9. health' \in [Entity -> 0..EnemyHealth] /\ EnemiesAlive'
  BY <1>1, <1>3, HealthKeeps
<1>10. _playerAttackState' \in [Player -> BOOLEAN]
  <2>1. \A p \in Player : (p \in Shooters(attack) \/ (_playerAttackState[p] /\ p \in attack)) \in BOOLEAN
    OBVIOUS
  <2> QED
    BY <1>2, <2>1, Zenon
<1>11. _healNb' \in 0..MaxHeal /\ _shieldNb' \in 0..MaxShield
  BY <1>1, <1>4 DEF TypeOK
<1>12. \A e \in DOMAIN Made(new, "PlayerMissile") : Made(new, "PlayerMissile")[e] # "Aura"
  BY DEF Made
<1> QED
  BY <1>3, <1>4, <1>6, <1>8, <1>9, <1>10, <1>11, <1>12, SystemPassKeeps

LEMMA EnemyMissileKeeps ==
    ASSUME CombatInv, EnemyMissile
    PROVE  CombatInv'
<1>1. TypeOK /\ EnemiesAlive
  BY DEF CombatInv
<1>2. PICK attacking \in SUBSET Live("Bydos") :
         \E new \in NewIds(Cardinality(attacking), Dead) :
            LET made == Made(new, "EnemyMissile")
            IN  Pass({}, {}, made) /\ HealthKept({}, made)
  BY DEF EnemyMissile
<1>3. PICK new \in NewIds(Cardinality(attacking), Dead) :
         Pass({}, {}, Made(new, "EnemyMissile")) /\ HealthKept({}, Made(new, "EnemyMissile"))
  BY <1>2
<1>4. /\ pc = "EnemyMissile" /\ pc' = "Bydos"
      /\ UNCHANGED <<playerVars, damageVars, countVars, shown>>
  BY DEF EnemyMissile, At
<1>5. new \subseteq Dead
  BY DEF NewIds
<1>6. Onward /\ \A s \in Striker : ToCome(s, pc) => ToCome(s, pc')
  BY <1>4 DEF Onward, Striker, Missile, ToCome, UpToHealing, UpToShield, UpToBydos, UpToRobot, UpToCleanup,
              UpToExplosion
<1>7. "EnemyMissile" \in Kind
  BY DEF Kind, Missile
<1>8. CleanPass({}, {}, Made(new, "EnemyMissile"))
  BY <1>5, <1>6, <1>7, SpawnPass
<1>9. health' \in [Entity -> 0..EnemyHealth] /\ EnemiesAlive'
  BY <1>1, <1>3, HealthKeeps
<1>10. /\ _playerAttackState' \in [Player -> BOOLEAN]
       /\ _healNb' \in 0..MaxHeal /\ _shieldNb' \in 0..MaxShield
  BY <1>1, <1>4 DEF TypeOK, countVars
<1>11. \A e \in DOMAIN Made(new, "EnemyMissile") : Made(new, "EnemyMissile")[e] # "Aura"
  BY DEF Made
<1> QED
  BY <1>3, <1>4, <1>6, <1>8, <1>9, <1>10, <1>11, SystemPassKeeps

LEMMA MissileCleanupKeeps ==
    ASSUME CombatInv, MissileCleanupSystem
    PROVE  CombatInv'
<1>1. TypeOK /\ EnemiesAlive
  BY DEF CombatInv
<1> DEFINE killed == UNION {Hidden(k) : k \in Missile}
           hidden == {e \in Entity : kind[e] \in Missile /\ e \in out \cup colliding}
<1>2. Pass(killed, hidden, Nothing) /\ HealthKept(killed, Nothing)
  BY DEF MissileCleanupSystem
<1>3. /\ pc = "MissileCleanup" /\ pc' = "Explosion"
      /\ UNCHANGED <<playerVars, damageVars, countVars, shown>>
  BY DEF MissileCleanupSystem, At
<1>4. DOMAIN Nothing = {}
  BY DEF Nothing
<1>5. Onward
  BY <1>3 DEF Onward, ToCome, UpToHealing, UpToShield, UpToBydos, UpToRobot, UpToCleanup,
              UpToExplosion
<1>6. \A k \in Missile : ToCome(k, pc) /\ ~ToCome(k, pc')
  BY <1>3 DEF Missile, ToCome, UpToHealing, UpToShield, UpToBydos, UpToRobot, UpToCleanup,
              UpToExplosion
<1>7. \A k \in Striker : ToCome(k, pc) /\ ~ToCome(k, pc') => k \in Missile
  BY <1>3 DEF Striker, Missile, ToCome, UpToHealing, UpToShield, UpToBydos, UpToRobot, UpToCleanup,
              UpToExplosion
<1>8. \A e \in Entity : e \in killed <=> kind[e] \in Missile /\ ~visible[e]
  BY DEF Hidden, Live
<1>9. \A e \in killed : e \in Entity
  BY DEF Hidden, Live
<1> HIDE DEF killed
<1>10. CleanPass(killed, hidden, Nothing)
  BY <1>4, <1>6, <1>7, <1>8, <1>9 DEF CleanPass
<1> HIDE DEF hidden
<1>11. health' \in [Entity -> 0..EnemyHealth] /\ EnemiesAlive'
  BY <1>1, <1>2, HealthKeeps
<1>12. /\ _playerAttackState' \in [Player -> BOOLEAN]
       /\ _healNb' \in 0..MaxHeal /\ _shieldNb' \in 0..MaxShield
  BY <1>1, <1>3 DEF TypeOK, countVars
<1>13. \A e \in DOMAIN Nothing : Nothing[e] # "Aura"
  BY <1>4
<1> QED
  BY <1>2, <1>3, <1>5, <1>10, <1>11, <1>12, <1>13, SystemPassKeeps

LEMMA ExplosionKeeps ==
    ASSUME CombatInv, ExplosionSystem
    PROVE  CombatInv'
<1>1. TypeOK /\ EnemiesAlive
  BY DEF CombatInv
<1> DEFINE killed == Hidden("Explosion")
<1>2. PICK ended \in SUBSET (Live("Explosion") \ Hidden("Explosion")) : Pass(killed, ended, Nothing)
  BY DEF ExplosionSystem
<1>3. /\ pc = "Explosion" /\ pc' = "Network"
      /\ UNCHANGED <<health, playerVars, damageVars, countVars, shown>>
  BY DEF ExplosionSystem, At
<1>4. DOMAIN Nothing = {}
  BY DEF Nothing
<1>5. Onward
  BY <1>3 DEF Onward, ToCome, UpToHealing, UpToShield, UpToBydos, UpToRobot, UpToCleanup,
              UpToExplosion
<1>6. ToCome("Explosion", pc) /\ ~ToCome("Explosion", pc')
  BY <1>3 DEF Missile, ToCome, UpToHealing, UpToShield, UpToBydos, UpToRobot, UpToCleanup,
              UpToExplosion
<1>7. \A k \in Striker : ToCome(k, pc) => ToCome(k, pc')
  BY <1>3 DEF Striker, Missile, ToCome, UpToHealing, UpToShield, UpToBydos, UpToRobot, UpToCleanup,
              UpToExplosion
<1>8. CleanPass(killed, ended, Nothing)
  BY <1>4, <1>6, <1>7 DEF CleanPass, Hidden, Live
<1> HIDE DEF killed
<1>9. Affected(killed, ended, Nothing)
  BY <1>1, <1>2, PassEffect
<1>10. EnemiesAlive'
  <2> SUFFICES ASSUME NEW e \in Entity, kind'[e] \in Enemy, visible'[e]
               PROVE  health[e] > 0
    BY <1>3 DEF EnemiesAlive
  <2>1. "none" \notin Enemy
    BY DEF Enemy
  <2>2. e \notin killed
    BY <1>4, <1>9, <2>1 DEF Affected
  <2>3. kind[e] \in Enemy /\ visible[e]
    BY <1>4, <1>9, <2>2, Zenon DEF Affected
  <2> QED
    BY <1>1, <2>3 DEF EnemiesAlive
<1>11. /\ _playerAttackState' \in [Player -> BOOLEAN] /\ health' \in [Entity -> 0..EnemyHealth]
       /\ _healNb' \in 0..MaxHeal /\ _shieldNb' \in 0..MaxShield
  BY <1>1, <1>3 DEF TypeOK, countVars
<1>12. \A e \in DOMAIN Nothing : Nothing[e] # "Aura"
  BY <1>4
<1> QED
  BY <1>2, <1>3, <1>5, <1>8, <1>10, <1>11, <1>12, SystemPassKeeps

(* A hit enemy that is left without health is hidden in the same pass.      *)
LEMMA EnemyAIKeeps ==
    ASSUME CombatInv, NEW k \in Enemy, NEW next \in {"Transform", "MissileCleanup"},
           k = "Bydos" => next = "Transform", k = "Robot" => next = "MissileCleanup",
           EnemyAI(k, next)
    PROVE  CombatInv'
<1>1. TypeOK /\ EnemiesAlive
  BY DEF CombatInv
<1>0. \/ k = "Bydos" /\ next = "Transform"
      \/ k = "Robot" /\ next = "MissileCleanup"
  BY DEF Enemy
<1> DEFINE killed == Hidden(k)
           seen == Live(k) \ killed
           left == [e \in seen |-> IF e \in colliding THEN health[e] - 1 ELSE health[e]]
           shot == {e \in seen \ out : left[e] <= 0}
           hidden == shot \cup (seen \cap out)
<1>2. PICK boom \in NewIds(Cardinality(shot), Dead \cup killed) :
         \E new \in {{}} \cup NewIds(1, (Dead \cup killed) \ boom) :
            LET made == [e \in boom \cup new |-> IF e \in new THEN k ELSE "Explosion"]
            IN  /\ Pass(killed, hidden, made)
                /\ health' = [e \in Entity |-> IF e \in new THEN EnemyHealth
                                               ELSE IF e \in seen THEN left[e]
                                               ELSE IF e \in killed THEN 0
                                               ELSE health[e]]
  BY DEF EnemyAI
<1>3. PICK new \in {{}} \cup NewIds(1, (Dead \cup killed) \ boom) :
         LET made == [e \in boom \cup new |-> IF e \in new THEN k ELSE "Explosion"]
         IN  /\ Pass(killed, hidden, made)
             /\ health' = [e \in Entity |-> IF e \in new THEN EnemyHealth
                                            ELSE IF e \in seen THEN left[e]
                                            ELSE IF e \in killed THEN 0
                                            ELSE health[e]]
  BY <1>2
<1> DEFINE made == [e \in boom \cup new |-> IF e \in new THEN k ELSE "Explosion"]
<1>4. Pass(killed, hidden, made)
  BY <1>3
<1>5. \A e \in Entity : health'[e] = IF e \in new THEN EnemyHealth
                                     ELSE IF e \in seen THEN left[e]
                                     ELSE IF e \in killed THEN 0
                                     ELSE health[e]
  BY <1>3
<1>6. DOMAIN health' = Entity /\ health' = [e \in Entity |-> health'[e]]
  BY <1>3
<1>7. /\ pc = k /\ pc' = next /\ UNCHANGED <<playerVars, damageVars, countVars, shown>>
  BY DEF EnemyAI, At
<1>8. boom \subseteq Dead \cup killed /\ new \subseteq Dead \cup killed
  BY DEF NewIds
<1>9. /\ \A e \in killed : e \in Entity /\ kind[e] = k /\ ~visible[e]
      /\ \A e \in Entity : e \in seen <=> kind[e] = k /\ visible[e]
      /\ \A e \in seen : e \in Entity /\ left[e] = IF e \in colliding THEN health[e] - 1 ELSE health[e]
  BY DEF Hidden, Live
<1>10. \A e \in Entity : e \in hidden <=> e \in seen /\ (e \in out \/ left[e] <= 0)
  BY <1>9
<1>11. k \in Enemy /\ k \in Kind /\ "Explosion" \in Kind /\ "Explosion" \notin Enemy
       /\ "none" \notin Enemy /\ k # "Aura" /\ k \notin Striker
  BY <1>0 DEF Enemy, Kind, Striker, Missile
<1>12. DOMAIN made = boom \cup new
       /\ \A e \in boom \cup new : made[e] = IF e \in new THEN k ELSE "Explosion"
  OBVIOUS
<1> HIDE DEF killed, seen, left, shot, hidden, made
<1>13. Onward /\ (\A s \in Striker : ToCome(s, pc) => ToCome(s, pc'))
       /\ ToCome(k, pc) /\ ~ToCome(k, pc')
  BY <1>0, <1>7 DEF Onward, Striker, Missile, ToCome, UpToHealing, UpToShield, UpToBydos, UpToRobot, UpToCleanup,
              UpToExplosion
<1>14. CleanPass(killed, hidden, made)
  BY <1>8, <1>9, <1>10, <1>11, <1>12, <1>13 DEF CleanPass
<1>15. \A e \in Entity : health[e] \in 0..EnemyHealth
  BY <1>1 DEF TypeOK
<1>16. \A e \in seen : left[e] \in 0..EnemyHealth
  BY <1>1, <1>9, <1>11, <1>15, CombatAssumption DEF EnemiesAlive
<1>17. health' \in [Entity -> 0..EnemyHealth]
  <2>1. \A e \in Entity : health'[e] \in 0..EnemyHealth
    BY <1>5, <1>15, <1>16, CombatAssumption
  <2> QED
    BY <1>6, <2>1
<1>18. Affected(killed, hidden, made)
  BY <1>1, <1>4, PassEffect
<1>19. EnemiesAlive'
  <2> SUFFICES ASSUME NEW e \in Entity, kind'[e] \in Enemy, visible'[e]
               PROVE  health'[e] > 0
    BY DEF EnemiesAlive
  <2>1. CASE e \in boom \cup new
    <3>1. kind'[e] = made[e]
      BY <1>12, <1>18, <2>1, Zenon DEF Affected
    <3>2. e \in new
      BY <1>11, <1>12, <2>1, <3>1
    <3> QED
      BY <1>5, <3>2, CombatAssumption
  <2>2. CASE e \notin boom \cup new
    <3>1. e \notin killed
      BY <1>11, <1>12, <1>18, <2>2, Zenon DEF Affected
    <3>2. kind[e] \in Enemy /\ visible[e] /\ e \notin hidden
      BY <1>12, <1>18, <2>2, <3>1, Zenon DEF Affected
    <3>3. CASE e \in seen
      BY <1>5, <1>10, <1>16, <2>2, <3>2, <3>3
    <3>4. CASE e \notin seen
      BY <1>1, <1>5, <2>2, <3>1, <3>2, <3>4 DEF EnemiesAlive
    <3> QED
      BY <3>3, <3>4
  <2> QED
    BY <2>1, <2>2
<1>20. /\ _playerAttackState' \in [Player -> BOOLEAN]
       /\ _healNb' \in 0..MaxHeal /\ _shieldNb' \in 0..MaxShield
  BY <1>1, <1>7 DEF TypeOK, countVars
<1>21. \A e \in DOMAIN made : made[e] # "Aura"
  BY <1>11, <1>12
<1>22. pc # "Damage" /\ pc' \in {"Transform", "MissileCleanup"}
  BY <1>0, <1>7
<1> QED
  BY <1>4, <1>7, <1>13, <1>14, <1>17, <1>19, <1>20, <1>21, <1>22, SystemPassKeeps


(* Who touches in this frame lives, and strikes once more.                  *)
LEMMA CollisionKeeps ==
    ASSUME CombatInv, CollisionSystem
    PROVE  CombatInv'
<1>1. TypeOK
  BY DEF CombatInv
<1> DEFINE pairs == {pair \in Entity \X Player : kind[pair[1]] \in Box}
                    \cup Live("PlayerMissile") \X UNION {Live(k) : k \in Enemy}
<1>2. PICK touching \in SUBSET pairs :
         /\ colliding' = {e \in Entity : \E pair \in touching : e \in {pair[1], pair[2]}}
         /\ boxes' = [p \in Player |-> {kind[e] : e \in {m \in Entity : <<m, p>> \in touching}}]
  BY DEF CollisionSystem
<1>3. /\ pc = "Collision" /\ pc' = "Healing"
      /\ UNCHANGED <<kind, visible, health, out, playerVars, visited, _invicibilityTimer,
                     _auraSpawned, countVars, shown>>
      /\ strikes' = [e \in Entity |-> IF e \in colliding' /\ kind[e] \notin Enemy /\ strikes[e] < 3
                                      THEN strikes[e] + 1 ELSE strikes[e]]
  BY DEF CollisionSystem, At, entityVars
<1>4. \A p \in Player : p \notin Entity
  BY CombatAssumption
<1>5. colliding' \subseteq Entity \ Dead
  <2> SUFFICES ASSUME NEW e \in Entity, NEW pair \in pairs, e \in {pair[1], pair[2]}
               PROVE  kind[e] # "none"
    BY <1>2 DEF Dead
  <2>1. CASE pair \in Entity \X Player /\ kind[pair[1]] \in Box
    BY <1>4, <2>1 DEF Box
  <2>2. CASE pair \in Live("PlayerMissile") \X UNION {Live(k) : k \in Enemy}
    BY <2>2 DEF Live, Enemy
  <2> QED
    BY <2>1, <2>2
<1>6. boxes' \in [Player -> SUBSET Box]
  <2>1. ASSUME NEW p \in Player, NEW e \in Entity, <<e, p>> \in touching
        PROVE  kind[e] \in Box
    <3>1. <<e, p>> \in pairs
      BY <1>2, <2>1
    <3>2. p \notin UNION {Live(k) : k \in Enemy}
      BY <1>4 DEF Live
    <3> QED
      BY <3>1, <3>2
  <2> QED
    BY <1>2, <2>1
<1>7. strikes' \in [Entity -> 0..3]
  BY <1>1, <1>3 DEF TypeOK
<1>8. TypeOK'
  BY <1>1, <1>3, <1>5, <1>6, <1>7 DEF TypeOK, Dead, playerVars, countVars
<1>9. HiddenIsUnseen'
  BY <1>3 DEF CombatInv, HiddenIsUnseen, ToCome, UpToHealing, UpToShield, UpToBydos, UpToRobot, UpToCleanup,
              UpToExplosion
<1>10. StrikesCounted'
  <2> SUFFICES ASSUME NEW e \in Entity, kind[e] \in Striker
               PROVE  IF visible[e]
                      THEN \/ strikes'[e] = 0
                           \/ /\ strikes'[e] = 1 /\ e \in colliding'
                              /\ ToCome(kind[e], pc') /\ pc' # "Collision"
                      ELSE strikes'[e] <=
                             IF ToCome(kind[e], pc') /\ pc' # "Collision" THEN 2 ELSE 1
    BY <1>3 DEF StrikesCounted
  <2>1. IF visible[e] THEN strikes[e] = 0 ELSE strikes[e] <= 1
    BY <1>3 DEF CombatInv, StrikesCounted
  <2>2. ToCome(kind[e], pc') /\ pc' # "Collision"
    BY <1>3 DEF Striker, Missile, ToCome, UpToHealing, UpToShield, UpToBydos, UpToRobot, UpToCleanup,
              UpToExplosion
  <2>3. strikes[e] \in 0..3
    BY <1>1 DEF TypeOK
  <2>4. \/ strikes'[e] = strikes[e]
        \/ e \in colliding' /\ strikes'[e] = strikes[e] + 1
    BY <1>3
  <2>5. CASE visible[e]
    <3>1. strikes[e] = 0
      BY <2>1, <2>5, Zenon
    <3>2. strikes'[e] = 0 \/ (e \in colliding' /\ strikes'[e] = 1)
      BY <2>4, <3>1
    <3> QED
      BY <2>2, <2>5, <3>2, Zenon
  <2>6. CASE ~visible[e]
    <3>1. strikes[e] <= 1
      BY <2>1, <2>6, Zenon
    <3>2. strikes'[e] <= 2
      BY <2>3, <2>4, <3>1
    <3> QED
      BY <2>2, <2>6, <3>2, Zenon
  <2> QED
    BY <2>5, <2>6
<1>11. EnemiesAlive' /\ WrecksDead'
  BY <1>3 DEF CombatInv, EnemiesAlive, WrecksDead, playerVars
<1>12. ShieldsTimed' /\ AurasTimed'
  BY <1>3 DEF CombatInv, ShieldsTimed, AurasTimed, playerVars
<1> QED
  BY <1>8, <1>9, <1>10, <1>11, <1>12 DEF CombatInv

(* Steps that leave all entities alone.                                     *)
LEMMA EntitiesStay ==
    ASSUME HiddenIsUnseen, StrikesCounted, EnemiesAlive, pc # "Collision", pc' # "Collision",
           UNCHANGED <<entityVars, colliding, strikes, shown>>,
           \A k \in Kind : ToCome(k, pc') <=> ToCome(k, pc), TypeOK
    PROVE  HiddenIsUnseen' /\ StrikesCounted' /\ EnemiesAlive'
<1>1. \A e \in Entity : kind[e] # "none" => (ToCome(kind[e], pc') <=> ToCome(kind[e], pc))
  BY DEF TypeOK
<1>2. ~ToCome("none", pc') /\ "none" \notin Striker
  BY DEF ToCome, Striker, Missile
<1>3. HiddenIsUnseen'
  BY <1>1, <1>2 DEF HiddenIsUnseen, entityVars
<1>4. StrikesCounted'
  BY <1>1, <1>2 DEF StrikesCounted, entityVars
<1> QED
  BY <1>3, <1>4 DEF EnemiesAlive, entityVars

(* The timer may end here: the pass over the players is still to come.      *)
LEMMA DamageTimerKeeps ==
    ASSUME CombatInv, DamageTimer
    PROVE  CombatInv'
<1>1. /\ pc = "DamageTimer" /\ pc' = "Damage"
      /\ UNCHANGED <<entityVars, colliding, playerVars, visited, boxes, _auraSpawned,
                     countVars, shown, strikes>>
      /\ _invicibilityTimer' = IF _invicibilityTimer > 2 THEN _invicibilityTimer - 2 ELSE 0
  BY DEF DamageTimer, At
<1>2. _invicibilityTimer' \in 0..InvicibilityTime
  BY <1>1, CombatAssumption DEF CombatInv, TypeOK
<1>3. TypeOK'
  BY <1>1, <1>2 DEF CombatInv, TypeOK, Dead, entityVars, playerVars, countVars
<1>4. \A k \in Kind : ToCome(k, pc') <=> ToCome(k, pc)
  BY <1>1 DEF ToCome, UpToHealing, UpToShield, UpToBydos, UpToRobot, UpToCleanup,
              UpToExplosion
<1>5. HiddenIsUnseen' /\ StrikesCounted' /\ EnemiesAlive'
  BY <1>1, <1>4, EntitiesStay DEF CombatInv
<1>6. WrecksDead' /\ AurasTimed'
  BY <1>1 DEF CombatInv, WrecksDead, AurasTimed, playerVars
<1>7. ShieldsTimed'
  BY <1>1 DEF CombatInv, ShieldsTimed, Player
<1> QED
  BY <1>3, <1>5, <1>6, <1>7 DEF CombatInv

LEMMA DamageWreckKeeps ==
    ASSUME CombatInv, NEW p \in Player, DamageWreck(p)
    PROVE  CombatInv'
<1>1. /\ pc = "Damage" /\ pc' = "Damage" /\ visited = p /\ ~playerVisible[p]
      /\ visited' = p + 1 /\ boxes' = [boxes EXCEPT ![p] = {}]
      /\ UNCHANGED <<entityVars, colliding, strikes, playerVars, _invicibilityTimer,
                     _auraSpawned, countVars, shown>>
  BY DEF DamageWreck
<1>2. boxes' \in [Player -> SUBSET Box] /\ visited' \in 1..(NumPlayers + 1)
  BY <1>1, CombatAssumption DEF CombatInv, TypeOK, Player
<1>3. TypeOK'
  BY <1>1, <1>2 DEF CombatInv, TypeOK, Dead, entityVars, playerVars, countVars
<1>4. HiddenIsUnseen' /\ StrikesCounted' /\ EnemiesAlive'
  BY <1>1, EntitiesStay DEF CombatInv
<1>5. WrecksDead' /\ AurasTimed'
  BY <1>1 DEF CombatInv, WrecksDead, AurasTimed, playerVars
<1>6. ShieldsTimed'
  <2> SUFFICES ASSUME NEW q \in Player, playerVisible[q], isInvicible[q], q < p + 1
               PROVE  _invicibilityTimer > 0
    BY <1>1 DEF ShieldsTimed, playerVars
  <2>1. q # p
    BY <1>1, Zenon
  <2>2. q < p
    BY <2>1, CombatAssumption DEF Player
  <2> QED
    BY <1>1, <2>2 DEF CombatInv, ShieldsTimed
<1> QED
  BY <1>3, <1>4, <1>5, <1>6 DEF CombatInv

(* What is not shielded goes out with the timer.                            *)
LEMMA ShieldPosKeeps ==
    ASSUME CombatInv, upadateShieldPos
    PROVE  CombatInv'
<1>1. TypeOK /\ HiddenIsUnseen /\ StrikesCounted /\ EnemiesAlive
  BY DEF CombatInv
<1> DEFINE off == IF _invicibilityTimer <= 0 THEN Live("Aura") ELSE {}
<1>2. /\ pc = "Damage" /\ pc' = "BasicMissile" /\ visited > NumPlayers /\ visited' = 1
      /\ Pass({}, off, Nothing)
      /\ UNCHANGED <<health, playerVars, boxes, _invicibilityTimer, _auraSpawned,
                     countVars, shown>>
  BY DEF upadateShieldPos, At
<1>3. DOMAIN Nothing = {}
  BY DEF Nothing
<1>4. Onward /\ \A s \in Striker : ToCome(s, pc) => ToCome(s, pc')
  BY <1>2 DEF Onward, Striker, Missile, ToCome, UpToHealing, UpToShield, UpToBydos, UpToRobot, UpToCleanup,
              UpToExplosion
<1>5. ~ToCome("Aura", pc')
  BY DEF ToCome, Missile
<1>6. \A e \in off : kind[e] = "Aura"
  BY DEF Live
<1>7. \A e \in Entity : kind[e] = "Aura" /\ e \notin off => _invicibilityTimer > 0
  BY <1>1, CombatAssumption DEF Live, TypeOK
<1> HIDE DEF off
<1>8. CleanPass({}, off, Nothing)
  BY <1>3, <1>4, <1>5, <1>6 DEF CleanPass
<1>9. HiddenIsUnseen' /\ StrikesCounted'
  BY <1>1, <1>2, <1>4, <1>8, CleanPassKeeps
<1>10. /\ kind' \in [Entity -> Kind \cup {"none"}] /\ visible' \in [Entity -> BOOLEAN]
       /\ strikes' \in [Entity -> 0..3]
       /\ colliding' \subseteq Entity \ Dead' /\ out' \subseteq Entity \ Dead'
  BY <1>1, <1>2, <1>3, PassTypes
<1>11. TypeOK'
  BY <1>1, <1>2, <1>10, CombatAssumption DEF TypeOK, playerVars, countVars
<1>12. Affected({}, off, Nothing)
  BY <1>1, <1>2, PassEffect
<1>13. \A e \in Entity : kind'[e] = kind[e] /\ visible'[e] = (visible[e] /\ e \notin off)
  BY <1>3, <1>12 DEF Affected
<1>14. \A e \in Entity : visible'[e] => visible[e] /\ e \notin off
  BY <1>13, Zenon
<1>15. EnemiesAlive'
  BY <1>1, <1>2, <1>13, <1>14 DEF EnemiesAlive
<1>16. AurasTimed'
  BY <1>2, <1>7, <1>13, <1>14 DEF AurasTimed
<1>17. WrecksDead'
  BY <1>2 DEF CombatInv, WrecksDead, playerVars
<1>18. ShieldsTimed'
  <2> SUFFICES ASSUME NEW q \in Player, playerVisible[q], isInvicible[q]
               PROVE  _invicibilityTimer > 0
    BY <1>2 DEF ShieldsTimed, playerVars
  <2>1. q < visited
    BY <1>1, <1>2, CombatAssumption DEF Player, TypeOK
  <2> QED
    BY <1>2, <2>1 DEF CombatInv, ShieldsTimed
<1> QED
  BY <1>9, <1>11, <1>15, <1>16, <1>17, <1>18 DEF CombatInv

LEMMA TransformKeeps ==
    ASSUME CombatInv, TransformSystem
    PROVE  CombatInv'
<1>1. PICK gone \in SUBSET {e \in Entity : kind[e] \notin {"none", "Explosion", "Aura"}} :
         out' = out \cup gone
  BY DEF TransformSystem
<1>2. /\ pc = "Transform" /\ pc' = "Robot"
      /\ UNCHANGED <<kind, visible, health, colliding, playerVars, damageVars, countVars,
                     shown, strikes>>
  BY DEF TransformSystem, At
<1>3. out' \subseteq Entity \ Dead
  BY <1>1 DEF CombatInv, TypeOK, Dead
<1>4. TypeOK'
  BY <1>2, <1>3 DEF CombatInv, TypeOK, Dead, playerVars, damageVars, countVars
<1>5. \A k \in Kind \cup {"none"} : ToCome(k, pc') <=> ToCome(k, pc)
  BY <1>2 DEF ToCome, UpToHealing, UpToShield, UpToBydos, UpToRobot, UpToCleanup,
              UpToExplosion
<1>6. \A e \in Entity : ToCome(kind[e], pc') <=> ToCome(kind[e], pc)
  BY <1>5 DEF CombatInv, TypeOK
<1>7. HiddenIsUnseen' /\ EnemiesAlive'
  BY <1>2, <1>6 DEF CombatInv, HiddenIsUnseen, EnemiesAlive
<1>8. StrikesCounted'
  BY <1>2, <1>6 DEF CombatInv, StrikesCounted
<1>9. WrecksDead' /\ ShieldsTimed' /\ AurasTimed'
  BY <1>2 DEF CombatInv, WrecksDead, ShieldsTimed, AurasTimed, playerVars, damageVars
<1> QED
  BY <1>4, <1>7, <1>8, <1>9 DEF CombatInv

(* The clients see what is visible, and a new frame begins.                 *)
LEMMA NetworkKeeps ==
    ASSUME CombatInv, ServerNetworkSystem
    PROVE  CombatInv'
<1>1. /\ pc = "Network" /\ pc' = "Collision"
      /\ shown' = {e \in Entity : IF kind[e] = "none" THEN e \in shown ELSE visible[e]}
      /\ UNCHANGED <<kind, visible, health, out, colliding, playerVars, damageVars, countVars,
                     strikes>>
  BY DEF ServerNetworkSystem, At, entityVars
<1>2. shown' \subseteq Entity
  BY <1>1
<1>3. TypeOK'
  BY <1>1, <1>2 DEF CombatInv, TypeOK, Dead, playerVars, damageVars, countVars
<1>4. \A e \in Entity : ~ToCome(kind[e], pc)
  BY <1>1 DEF ToCome, UpToHealing, UpToShield, UpToBydos, UpToRobot, UpToCleanup,
              UpToExplosion
<1>5. HiddenIsUnseen'
  <2> SUFFICES ASSUME NEW e \in Entity, ~visible[e]
               PROVE  e \notin shown'
    BY <1>1 DEF CombatInv, HiddenIsUnseen
  <2>1. kind[e] = "none" => e \notin shown
    BY DEF CombatInv, HiddenIsUnseen
  <2> QED
    BY <1>1, <2>1, Zenon
<1>6. StrikesCounted'
  BY <1>1, <1>4 DEF CombatInv, StrikesCounted
<1>7. EnemiesAlive' /\ WrecksDead' /\ ShieldsTimed' /\ AurasTimed'
  BY <1>1 DEF CombatInv, EnemiesAlive, WrecksDead, ShieldsTimed, AurasTimed, playerVars,
              damageVars
<1> QED
  BY <1>3, <1>5, <1>6, <1>7 DEF CombatInv


(* A hit and a heal in one pass: a flying ship keeps what it has left, one  *)
(* without health gets no more than none.                                   *)
LEMMA HealedRange ==
    ASSUME TypeOK, NEW p \in Player, currentHealth[p] >= 0
    PROVE  /\ Healed(p) \in -1..MaxHealth
           /\ currentHealth[p] > 0 => Healed(p) >= 0
           /\ currentHealth[p] <= 0 => Healed(p) <= 0
<1>1. currentHealth[p] \in 0..MaxHealth /\ MaxHealth \in Nat /\ MaxHealth > 0
  BY CombatAssumption DEF TypeOK
<1>2. Hurt(p) = currentHealth[p] \/ Hurt(p) = currentHealth[p] - 1
  BY DEF Hurt
<1>3. \/ Healed(p) = Hurt(p)
      \/ Hurt(p) # 0 /\ Hurt(p) < MaxHealth /\ Healed(p) = Hurt(p) + 1
      \/ Hurt(p) # 0 /\ ~(Hurt(p) < MaxHealth) /\ Healed(p) = MaxHealth
  BY DEF Healed
<1> QED
  BY <1>1, <1>2, <1>3

(* One ship's hits, heals and bonuses of a frame.                           *)
LEMMA DamagePlayerKeeps ==
    ASSUME CombatInv, NEW p \in Player, DamagePlayer(p)
    PROVE  CombatInv'
<1>1. TypeOK /\ HiddenIsUnseen /\ StrikesCounted /\ EnemiesAlive /\ WrecksDead /\ ShieldsTimed
  BY DEF CombatInv
<1> DEFINE dies == currentHealth[p] <= 0
           bonus == "ShieldBonus" \in boxes[p]
           free == bonus /\ ~_auraSpawned /\ ~StillInvicible(p)
<1>2. /\ pc = "Damage" /\ pc' = "Damage" /\ visited = p /\ playerVisible[p]
      /\ visited' = p + 1 /\ boxes' = [boxes EXCEPT ![p] = {}]
      /\ UNCHANGED <<countVars, shown>>
      /\ playerVisible' = [playerVisible EXCEPT ![p] = ~dies]
      /\ currentHealth' = [currentHealth EXCEPT ![p] = Healed(p)]
      /\ isInvicible' = [isInvicible EXCEPT ![p] = bonus \/ StillInvicible(p)]
      /\ _invicibilityTimer' = IF bonus THEN InvicibilityTime ELSE _invicibilityTimer
  BY DEF DamagePlayer
<1>3. PICK aura \in IF dies THEN {free, FALSE} ELSE {free} :
         /\ _auraSpawned' = IF bonus THEN aura ELSE _auraSpawned
         /\ \E boom \in NewIds(IF dies THEN 1 ELSE 0, Dead) :
            \E ring \in NewIds(IF aura THEN 1 ELSE 0, Dead \ boom) :
               LET made == [e \in boom \cup ring |-> IF e \in boom THEN "Explosion" ELSE "Aura"]
               IN  Pass({}, {}, made) /\ HealthKept({}, made)
  BY DEF DamagePlayer
<1>4. PICK boom \in NewIds(IF dies THEN 1 ELSE 0, Dead) :
         \E ring \in NewIds(IF aura THEN 1 ELSE 0, Dead \ boom) :
               LET made == [e \in boom \cup ring |-> IF e \in boom THEN "Explosion" ELSE "Aura"]
               IN  Pass({}, {}, made) /\ HealthKept({}, made)
  BY <1>3
<1>5. PICK ring \in NewIds(IF aura THEN 1 ELSE 0, Dead \ boom) :
         LET made == [e \in boom \cup ring |-> IF e \in boom THEN "Explosion" ELSE "Aura"]
         IN  Pass({}, {}, made) /\ HealthKept({}, made)
  BY <1>4
<1> DEFINE made == [e \in boom \cup ring |-> IF e \in boom THEN "Explosion" ELSE "Aura"]
<1>6. Pass({}, {}, made) /\ HealthKept({}, made)
  BY <1>5
<1>7. boom \subseteq Dead /\ ring \subseteq Dead
  BY DEF NewIds
<1>8. /\ DOMAIN made \subseteq Dead
      /\ \A e \in DOMAIN made : made[e] \in Kind
  BY <1>7 DEF Kind
<1> HIDE DEF made
<1>9. Onward
  BY <1>2 DEF Onward
<1>10. CleanPass({}, {}, made)
  BY <1>2, <1>8 DEF CleanPass
<1>11. HiddenIsUnseen' /\ StrikesCounted'
  BY <1>1, <1>2, <1>6, <1>9, <1>10, CleanPassKeeps
<1>12. health' \in [Entity -> 0..EnemyHealth] /\ EnemiesAlive'
  BY <1>1, <1>6, HealthKeeps
<1>13. DOMAIN made \subseteq Entity
  BY <1>8 DEF Dead
<1>14. /\ kind' \in [Entity -> Kind \cup {"none"}] /\ visible' \in [Entity -> BOOLEAN]
       /\ strikes' \in [Entity -> 0..3]
       /\ colliding' \subseteq Entity \ Dead' /\ out' \subseteq Entity \ Dead'
  BY <1>1, <1>6, <1>8, <1>13, PassTypes
<1>15. currentHealth[p] >= 0
  BY <1>1, <1>2 DEF WrecksDead
<1>16. /\ Healed(p) \in -1..MaxHealth
       /\ currentHealth[p] > 0 => Healed(p) >= 0
       /\ currentHealth[p] <= 0 => Healed(p) <= 0
  BY <1>1, <1>15, HealedRange
<1>17. currentHealth' \in [Player -> -1..MaxHealth]
  BY <1>1, <1>2, <1>16 DEF TypeOK
<1>18. (~dies) \in BOOLEAN /\ (bonus \/ StillInvicible(p)) \in BOOLEAN /\ free \in BOOLEAN
  OBVIOUS
<1>19. playerVisible' \in [Player -> BOOLEAN] /\ isInvicible' \in [Player -> BOOLEAN]
  BY <1>1, <1>2, <1>18 DEF TypeOK
<1>20. _auraSpawned' \in BOOLEAN
  <2>1. aura \in BOOLEAN
    BY <1>3, <1>18
  <2>2. _auraSpawned \in BOOLEAN
    BY <1>1 DEF TypeOK
  <2> QED
    BY <1>3, <2>1, <2>2, Zenon
<1>21. boxes' \in [Player -> SUBSET Box] /\ visited' \in 1..(NumPlayers + 1)
       /\ _invicibilityTimer' \in 0..InvicibilityTime
  BY <1>1, <1>2, CombatAssumption DEF TypeOK, Player
<1>22. TypeOK'
  BY <1>1, <1>2, <1>12, <1>14, <1>17, <1>19, <1>20, <1>21 DEF TypeOK, countVars
<1>23. WrecksDead'
  <2> SUFFICES ASSUME NEW q \in Player
               PROVE  IF playerVisible'[q] THEN currentHealth'[q] >= 0
                      ELSE currentHealth'[q] <= 0
    BY DEF WrecksDead
  <2>1. CASE q # p
    <3>1. playerVisible'[q] = playerVisible[q] /\ currentHealth'[q] = currentHealth[q]
      BY <1>1, <1>2, <2>1 DEF TypeOK
    <3> QED
      BY <1>1, <3>1 DEF WrecksDead
  <2>2. CASE q = p
    <3>1. playerVisible'[p] = ~dies /\ currentHealth'[p] = Healed(p)
      BY <1>1, <1>2 DEF TypeOK
    <3>2. CASE dies
      <4>1. Healed(p) <= 0
        BY <1>16, <3>2
      <4> QED
        BY <2>2, <3>1, <3>2, <4>1, Zenon
    <3>3. CASE ~dies
      <4>1. Healed(p) >= 0
        BY <1>1, <1>16, <3>3 DEF TypeOK
      <4> QED
        BY <2>2, <3>1, <3>3, <4>1, Zenon
    <3> QED
      BY <3>2, <3>3
  <2> QED
    BY <2>1, <2>2
<1>24. ShieldsTimed'
  <2> SUFFICES ASSUME NEW q \in Player, playerVisible'[q], isInvicible'[q], q < p + 1
               PROVE  _invicibilityTimer' > 0
    BY <1>2 DEF ShieldsTimed
  <2>1. CASE bonus
    BY <1>2, <2>1, CombatAssumption
  <2>2. CASE ~bonus /\ q = p
    <3>1. StillInvicible(p)
      <4>1. isInvicible'[p] = (bonus \/ StillInvicible(p))
        BY <1>1, <1>2 DEF TypeOK
      <4> QED
        BY <2>2, <4>1, Zenon
    <3> QED
      BY <1>2, <2>2, <3>1 DEF StillInvicible
  <2>3. CASE ~bonus /\ q # p
    <3>1. playerVisible'[q] = playerVisible[q] /\ isInvicible'[q] = isInvicible[q]
      BY <1>1, <1>2, <2>3 DEF TypeOK
    <3>2. playerVisible[q] /\ isInvicible[q]
      BY <3>1, Zenon
    <3>3. q < visited
      BY <1>2, <2>3, CombatAssumption DEF Player
    <3> QED
      BY <1>1, <1>2, <2>3, <3>2, <3>3 DEF ShieldsTimed
  <2> QED
    BY <2>1, <2>2, <2>3
<1>25. AurasTimed'
  BY <1>2 DEF AurasTimed
<1> QED
  BY <1>11, <1>12, <1>22, <1>23, <1>24, <1>25 DEF CombatInv

LEMMA CombatStep ==
    ASSUME CombatInv, [Next]_vars
    PROVE  CombatInv'
<1>1. CASE CollisionSystem
  BY <1>1, CollisionKeeps
<1>2. CASE HealingSystem
  BY <1>2, HealingKeeps
<1>3. CASE DamageSystem
  BY <1>3, DamageTimerKeeps, ShieldPosKeeps, DamagePlayerKeeps, DamageWreckKeeps DEF DamageSystem
<1>4. CASE BasicMissileSystem
  BY <1>4, BasicMissileKeeps
<1>5. CASE ShieldSystem
  BY <1>5, ShieldKeeps
<1>6. CASE EnemyMissile
  BY <1>6, EnemyMissileKeeps
<1>7. CASE BydosAI
  <2>1. EnemyAI("Bydos", "Transform")
    BY <1>7 DEF BydosAI
  <2> QED
    BY <2>1, EnemyAIKeeps DEF Enemy
<1>8. CASE TransformSystem
  BY <1>8, TransformKeeps
<1>9. CASE RobotAI
  <2>1. EnemyAI("Robot", "MissileCleanup")
    BY <1>9 DEF RobotAI
  <2> QED
    BY <2>1, EnemyAIKeeps DEF Enemy
<1>10. CASE MissileCleanupSystem
  BY <1>10, MissileCleanupKeeps
<1>11. CASE ExplosionSystem
  BY <1>11, ExplosionKeeps
<1>12. CASE ServerNetworkSystem
  BY <1>12, NetworkKeeps
<1>13. CASE UNCHANGED vars
  <2>1. /\ UNCHANGED <<pc, kind, visible, health, out, colliding, strikes, shown>>
        /\ UNCHANGED <<playerVisible, currentHealth, isInvicible, visited, boxes,
                       _invicibilityTimer, _auraSpawned, _playerAttackState, _healNb, _shieldNb>>
    BY <1>13 DEF vars, entityVars, playerVars, damageVars, countVars
  <2>2. TypeOK'
    BY <2>1 DEF CombatInv, TypeOK, Dead
  <2>3. HiddenIsUnseen' /\ StrikesCounted' /\ EnemiesAlive'
    BY <2>1 DEF CombatInv, HiddenIsUnseen, StrikesCounted, EnemiesAlive
  <2>4. WrecksDead' /\ ShieldsTimed' /\ AurasTimed'
    BY <2>1 DEF CombatInv, WrecksDead, ShieldsTimed, AurasTimed
  <2> QED
    BY <2>2, <2>3, <2>4 DEF CombatInv
<1> QED
  BY <1>1, <1>2, <1>3, <1>4, <1>5, <1>6, <1>7, <1>8, <1>9, <1>10, <1>11, <1>12, <1>13 DEF Next

THEOREM CombatInvariant == Spec => []CombatInv
<1>1. Init => CombatInv
  BY InitCombat
<1>2. CombatInv /\ [Next]_vars => CombatInv'
  BY CombatStep
<1> QED
  BY <1>1, <1>2, PTL DEF Spec

(* The state keeps its type: no health of an enemy falls below zero, no     *)
(* ship's below minus one, and only what lives collides or leaves.          *)
THEOREM CombatTypeCorrect == Spec => []TypeOK
<1>1. CombatInv => TypeOK
  BY DEF CombatInv
<1> QED
  BY <1>1, CombatInvariant, PTL

(* The systems hide first and kill in the next frame: after a broadcast the *)
(* clients see exactly what is visible, and no killed entity.               *)
THEOREM CombatLeavesNoGhosts == Spec => []NoGhosts
<1>1. Init => NoGhosts
  BY DEF Init, NoGhosts
<1>2. CombatInv /\ NoGhosts /\ [Next]_vars => NoGhosts'
  <2> SUFFICES ASSUME CombatInv, NoGhosts, [Next]_vars, pc' = "Collision"
               PROVE  shown' = {e \in Entity : visible'[e]}
    BY DEF NoGhosts
  <2>1. CASE ServerNetworkSystem
    <3>1. \A e \in Entity : kind[e] = "none" => ~visible[e] /\ e \notin shown
      BY DEF CombatInv, HiddenIsUnseen
    <3>2. /\ shown' = {e \in Entity : IF kind[e] = "none" THEN e \in shown ELSE visible[e]}
          /\ visible' = visible
      BY <2>1 DEF ServerNetworkSystem, entityVars
    <3> QED
      BY <3>1, <3>2
  <2>2. CASE UNCHANGED vars
    BY <2>2 DEF vars, entityVars, NoGhosts
  <2> QED
    BY <2>1, <2>2 DEF Next, CollisionSystem, HealingSystem, DamageSystem, DamageTimer,
         upadateShieldPos, DamagePlayer, DamageWreck, BasicMissileSystem, ShieldSystem,
         EnemyMissile, BydosAI, RobotAI, EnemyAI, TransformSystem, MissileCleanupSystem,
         ExplosionSystem, At
<1> QED
  BY <1>1, <1>2, CombatInvariant, PTL DEF Spec

(* A missile, a heal or a bonus strikes in at most two frames.              *)
THEOREM CombatStrikesTwice == Spec => []StrikesTwiceAtMost
<1>1. CombatInv => StrikesTwiceAtMost
  <2> SUFFICES ASSUME CombatInv, NEW e \in Entity, kind[e] \in Missile \cup {"Heal", "ShieldBonus"}
               PROVE  strikes[e] <= 2
    BY DEF StrikesTwiceAtMost
  <2>1. strikes[e] \in 0..3
    BY DEF CombatInv, TypeOK
  <2>2. \/ strikes[e] = 0 \/ strikes[e] = 1 \/ strikes[e] <= 2 \/ strikes[e] <= 1
    BY DEF CombatInv, StrikesCounted, Striker
  <2> QED
    BY <2>1, <2>2
<1> QED
  BY <1>1, CombatInvariant, PTL

(* DamageSystem: shields and auras end with the timer all players share.    *)
THEOREM CombatShieldsRunOut == Spec => []ShieldsRunOut
<1>1. CombatInv => ShieldsRunOut
  <2> SUFFICES ASSUME CombatInv, pc = "Collision" PROVE ShieldsRunOut
    BY DEF ShieldsRunOut
  <2>1. \A p \in Player : playerVisible[p] /\ isInvicible[p] => _invicibilityTimer > 0
    BY DEF CombatInv, ShieldsTimed
  <2>2. \A e \in Live("Aura") : visible[e] => _invicibilityTimer > 0
    BY DEF CombatInv, AurasTimed, Live
  <2> QED
    BY <2>1, <2>2 DEF ShieldsRunOut
<1> QED
  BY <1>1, CombatInvariant, PTL

(* A destroyed ship stays hidden, without health, and shoots no more.       *)
THEOREM CombatWrecksStayDead == Spec => WrecksStayDead
<1>1. CombatInv /\ [Next]_vars =>
        [\A p \in Player : ~playerVisible[p] =>
            /\ ~playerVisible'[p] /\ currentHealth'[p] <= 0
            /\ ~_playerAttackState[p] => ~_playerAttackState'[p]]_vars
  <2> SUFFICES ASSUME CombatInv, Next, NEW p \in Player, ~playerVisible[p]
               PROVE  /\ ~playerVisible'[p] /\ currentHealth'[p] <= 0
                      /\ ~_playerAttackState[p] => ~_playerAttackState'[p]
    BY Zenon
  <2>1. currentHealth[p] <= 0
    BY DEF CombatInv, WrecksDead
  <2>2. ASSUME NEW q \in Player, DamagePlayer(q)
        PROVE  /\ ~playerVisible'[p] /\ currentHealth'[p] <= 0
               /\ _playerAttackState' = _playerAttackState
    <3>1. q # p
      BY <2>2, Zenon DEF DamagePlayer
    <3>2. playerVisible'[p] = playerVisible[p] /\ currentHealth'[p] = currentHealth[p]
      BY <2>2, <3>1 DEF DamagePlayer, CombatInv, TypeOK
    <3>3. _playerAttackState' = _playerAttackState
      BY <2>2 DEF DamagePlayer, countVars
    <3> QED
      BY <2>1, <3>2, <3>3, Zenon
  <2>3. CASE BasicMissileSystem
    <3>1. PICK attack \in SUBSET Player :
             _playerAttackState' = [r \in Player |-> \/ r \in Shooters(attack)
                                                     \/ _playerAttackState[r] /\ r \in attack]
      BY <2>3 DEF BasicMissileSystem
    <3>2. p \notin Shooters(attack)
      BY <2>1 DEF Shooters, CombatInv, TypeOK
    <3>3. ~_playerAttackState[p] => ~_playerAttackState'[p]
      BY <3>1, <3>2, Zenon
    <3>4. playerVisible' = playerVisible /\ currentHealth' = currentHealth
      BY <2>3 DEF BasicMissileSystem, playerVars
    <3> QED
      BY <2>1, <3>3, <3>4, Zenon
  <2>4. CASE ~BasicMissileSystem /\ \A q \in Player : ~DamagePlayer(q)
    <3>1. /\ playerVisible' = playerVisible /\ currentHealth' = currentHealth
          /\ _playerAttackState' = _playerAttackState
      BY <2>4, Zenon DEF Next, CollisionSystem, HealingSystem, DamageSystem, DamageTimer,
           upadateShieldPos, DamageWreck, ShieldSystem, EnemyMissile, BydosAI, RobotAI, EnemyAI,
           TransformSystem, MissileCleanupSystem, ExplosionSystem, ServerNetworkSystem,
           playerVars, countVars
    <3> QED
      BY <2>1, <3>1, Zenon
  <2> QED
    BY <2>2, <2>3, <2>4, Zenon
<1> QED
  BY <1>1, CombatInvariant, PTL DEF Spec, WrecksStayDead
=============================================================================
