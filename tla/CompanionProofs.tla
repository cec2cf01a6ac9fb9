-------------------------- MODULE CompanionProofs --------------------------
(***************************************************************************)
(* Proofs about what flies beside a ship: the force, for any number of     *)
(* ships and any sizes that satisfy ForceAssumption; and the orbs of the   *)
(* shielded boss, for any number of orbs and any healths, speeds and       *)
(* distances that satisfy CovidAssumption.                                 *)
(***************************************************************************)
EXTENDS Force, CovidBoss, WellFoundedInduction, TLAPS

-----------------------------------------------------------------------------
(* The force.                                                               *)

(* What the controls say of their clients: a ship that has not heard of its *)
(* client yet bears the number of no ship and does not attack, and a number *)
(* comes with F only in a message.                                          *)
ControlsNamed ==
    \A p \in Ships :
        /\ controls[p].clientId \in {0, p}
        /\ controls[p].clientId = 0 => ~controls[p].attack
        /\ controls[p].clientId # 0 /\ controls[p].fKey => controls[p].clientId \in pressed

(* The force belongs to nobody, or to one who asked for it.                 *)
OwnerPressed == _forceLastOwner \in pressed \cup {0, None}

(* A held attack is one the systems see.                                    *)
HeldIsSeen ==
    \A p \in spent : p \in Ships /\ controls[p].clientId = p /\ controls[p].attack

(* The shot state is kept as long as a ship that had its missile holds      *)
(* attack, and no owner has been seen without: it would be another.         *)
SpentIsShot == spent \ relieved # {} => _forceShotState

(* The force was snapped to a ship that is there, to one side of it, and    *)
(* the ship has moved by less than the offset since.                        *)
SideOf(p) == IF isAttachedFront THEN x[p] + Offset ELSE x[p] - Offset
CarrierNear ==
    carrier # None =>
        /\ carrier \in Ships
        /\ IF pass \in {"Shooting", "Transform"} THEN forceX = SideOf(carrier)
           ELSE forceX - SideOf(carrier) \in -Speed..Speed

ForceInv ==
    /\ ForceTypeOK
    /\ ControlsNamed /\ OwnerPressed /\ ShootsForPresser
    /\ HeldIsSeen /\ SpentIsShot /\ CarrierNear

-----------------------------------------------------------------------------
(* A nonempty set of natural numbers has a smallest member.                 *)
LEMMA Smallest ==
    ASSUME NEW T, T \subseteq Nat, T # {}
    PROVE  \E m \in T : \A n \in T : m <= n
<1>1. \E x0 \in T : \A y \in T : ~(<<y, x0>> \in OpToRel(<, Nat))
  BY NatLessThanWellFounded, WFMin
<1>2. \A a, b \in Nat : b < a => <<b, a>> \in OpToRel(<, Nat)
  BY DEF OpToRel
<1>3. \A a, b \in Nat : ~(b < a) => a <= b
  OBVIOUS
<1> QED
  BY <1>1, <1>2, <1>3, Zenon

(* FirstOf takes a member of a set of ships: the systems go through the     *)
(* entities in the order of their numbers.                                  *)
LEMMA FirstIsMember ==
    ASSUME NEW S, S \subseteq Player, S # {}
    PROVE  FirstOf(S) \in S
<1>1. S \subseteq Nat
  BY ForceAssumption DEF Player
<1>2. \E m \in S : \A n \in S : m <= n
  BY <1>1, Smallest
<1> QED
  BY <1>2 DEF FirstOf

(* The nearest ship is a ship.                                              *)
LEMMA NearestIsShip ==
    ASSUME ForceTypeOK, Ships # {}
    PROVE  Nearest \in Ships
<1> DEFINE T == {DistanceTo(p) : p \in Ships}
           N == {p \in Ships : \A q \in Ships : DistanceTo(p) <= DistanceTo(q)}
<1>1. Ships \subseteq Player
  BY DEF Ships
<1>2. \A p \in Player : DistanceTo(p) \in Nat
  BY ForceAssumption DEF ForceTypeOK, DistanceTo
<1>3. T \subseteq Nat /\ T # {}
  BY <1>1, <1>2
<1>4. PICK m \in T : \A n \in T : m <= n
  BY <1>3, Smallest, Zenon
<1>5. PICK p \in Ships : m = DistanceTo(p)
  BY <1>4
<1>6. p \in N
  BY <1>4, <1>5
<1>7. FirstOf(N) \in N
  BY <1>1, <1>6, FirstIsMember
<1> QED
  BY <1>7 DEF Nearest

LEMMA InitForce == ForceInit => ForceInv
<1> SUFFICES ASSUME ForceInit PROVE ForceInv
  OBVIOUS
<1>1. Ships = {}
  BY DEF ForceInit, Ships
<1>2. 1 \in 1..(Width - 1)
  BY ForceAssumption
<1>3. ForceTypeOK
  <2>1. controls \in [Player -> Control \cup {None}]
    BY DEF ForceInit
  <2>2. x \in [Player -> 1..(Width - 1)]
    BY <1>2 DEF ForceInit
  <2>3. forceX \in Int /\ pressed \subseteq Player
    BY DEF ForceInit
  <2> QED
    BY <2>1, <2>2, <2>3, Zenon DEF ForceInit, ForceTypeOK
<1> QED
  BY <1>1, <1>3 DEF ForceInit, ForceInv, ControlsNamed, OwnerPressed, ShootsForPresser,
                    HeldIsSeen, SpentIsShot, CarrierNear

(* A control is no None, so that a ship that gets one is there.             *)
LEMMA ControlIsSome ==
    ASSUME NEW p \in Player, NEW fKey \in BOOLEAN, NEW attack \in BOOLEAN
    PROVE  /\ InitialControl(p) \in Control /\ InitialControl(p) # None
           /\ [clientId |-> ClientId(p), fKey |-> fKey, attack |-> attack] \in Control
           /\ [clientId |-> ClientId(p), fKey |-> fKey, attack |-> attack] # None
<1> DEFINE c == [clientId |-> ClientId(p), fKey |-> fKey, attack |-> attack]
<1>1. p \in 0..NumPlayers /\ 0 \in 0..NumPlayers
  BY ForceAssumption DEF Player
<1>2. InitialControl(p) \in Control /\ c \in Control
  BY <1>1 DEF InitialControl, Control, ClientId
<1>3. None \notin Control
  BY ForceAssumption
<1> QED
  BY <1>2, <1>3

LEMMA ConnectKeeps ==
    ASSUME ForceInv, NEW p \in Player, Connect(p)
    PROVE  ForceInv'
<1> USE DEF ForceInv, Connect, forceVars
<1>1. InitialControl(p) \in Control /\ InitialControl(p) # None
  BY ControlIsSome
<1>2. ForceTypeOK'
  BY <1>1, ForceAssumption DEF ForceTypeOK
<1>3. Ships' = Ships \cup {p} /\ p \notin Ships
  BY <1>1 DEF ForceTypeOK, Ships
<1>4. \A q \in Ships : controls'[q] = controls[q] /\ x'[q] = x[q]
  BY <1>3 DEF ForceTypeOK, Ships
<1>5. controls'[p] = InitialControl(p)
  BY DEF ForceTypeOK
<1>6. ControlsNamed'
  BY <1>3, <1>4, <1>5 DEF ControlsNamed, InitialControl
<1>7. CarrierNear' /\ HeldIsSeen'
  BY <1>3, <1>4 DEF CarrierNear, SideOf, HeldIsSeen
<1> QED
  BY <1>2, <1>6, <1>7 DEF OwnerPressed, ShootsForPresser, SpentIsShot

LEMMA DisconnectKeeps ==
    ASSUME ForceInv, NEW p \in Player, Disconnect(p)
    PROVE  ForceInv'
<1> USE DEF ForceInv, Disconnect, Released, forceVars
<1>1. ForceTypeOK'
  BY ForceAssumption DEF ForceTypeOK
<1>2. Ships' = Ships \ {p}
  BY DEF ForceTypeOK, Ships
<1>3. \A q \in Ships' : controls'[q] = controls[q] /\ x'[q] = x[q]
  BY <1>2 DEF ForceTypeOK, Ships
<1>4. ControlsNamed'
  BY <1>2, <1>3 DEF ControlsNamed
<1>5. CarrierNear' /\ HeldIsSeen'
  BY <1>2, <1>3 DEF CarrierNear, SideOf, HeldIsSeen
<1> QED
  BY <1>1, <1>4, <1>5 DEF OwnerPressed, ShootsForPresser, SpentIsShot

LEMMA ControlReceivedKeeps ==
    ASSUME ForceInv, NEW p \in Player, NEW fKey \in BOOLEAN, NEW attack \in BOOLEAN,
           ControlReceived(p, fKey, attack)
    PROVE  ForceInv'
<1> USE DEF ForceInv, ControlReceived, Released, forceVars
<1> DEFINE c == [clientId |-> ClientId(p), fKey |-> fKey, attack |-> attack]
<1>1. c \in Control /\ c # None
  BY ControlIsSome
<1>2. pressed \subseteq pressed' /\ (fKey => p \in pressed') /\ pressed' \subseteq Player
  BY DEF ClientId, ForceTypeOK
<1>3. ForceTypeOK'
  BY <1>1, <1>2, ForceAssumption DEF ForceTypeOK
<1>4. Ships' = Ships
  BY <1>1 DEF ForceTypeOK, Ships
<1>5. controls'[p] = c /\ \A q \in Ships \ {p} : controls'[q] = controls[q]
  BY DEF ForceTypeOK, Ships
<1>6. p # 0
  BY ForceAssumption DEF Player
<1>7. ControlsNamed'
  <2> SUFFICES ASSUME NEW q \in Ships
               PROVE  /\ controls'[q].clientId \in {0, q}
                      /\ controls'[q].clientId = 0 => ~controls'[q].attack
                      /\ controls'[q].clientId # 0 /\ controls'[q].fKey
                           => controls'[q].clientId \in pressed'
    BY <1>4 DEF ControlsNamed
  <2>1. CASE q = p
    BY <1>2, <1>5, <1>6, <2>1 DEF ClientId
  <2>2. CASE q # p
    BY <1>2, <1>5, <2>2 DEF ControlsNamed
  <2> QED
    BY <2>1, <2>2
<1>8. HeldIsSeen'
  BY <1>4, <1>5 DEF HeldIsSeen, ClientId
<1>9. CarrierNear'
  BY <1>4 DEF CarrierNear, SideOf
<1> QED
  BY <1>2, <1>3, <1>7, <1>8, <1>9 DEF OwnerPressed, ShootsForPresser, SpentIsShot

LEMMA RunSystemsKeeps ==
    ASSUME ForceInv, RunSystems
    PROVE  ForceInv'
<1> USE DEF ForceInv, RunSystems, PassAt, forceVars
<1>1. ForceTypeOK'
  BY DEF ForceTypeOK
<1>2. Ships' = Ships
  BY DEF Ships
<1>3. ControlsNamed' /\ HeldIsSeen' /\ CarrierNear'
  BY <1>2 DEF ControlsNamed, HeldIsSeen, CarrierNear, SideOf
<1> QED
  BY <1>1, <1>3 DEF OwnerPressed, ShootsForPresser, SpentIsShot


LEMMA ToggleKeeps ==
    ASSUME ForceInv, ToggleForceAttachment
    PROVE  ForceInv'
<1> USE DEF ForceInv, ToggleForceAttachment, PassAt
<1> DEFINE p == FirstOf(Pressing)
<1>1. Pressing # {} => /\ p \in Ships /\ controls[p].fKey
                       /\ controls[p] \in Control
  <2>1. Pressing \subseteq Player /\ Pressing \subseteq Ships
    BY DEF Pressing, Ships
  <2>2. Pressing # {} => p \in Pressing
    BY <2>1, FirstIsMember
  <2> QED
    BY <2>1, <2>2 DEF Pressing, Ships, ForceTypeOK
<1>2. Pressing # {} => controls[p].clientId \in pressed \cup {0}
  BY <1>1 DEF ControlsNamed
<1>3. Pressing # {} => controls[p].clientId \in 0..NumPlayers
  BY <1>1 DEF Control
<1> HIDE DEF p
<1>4. _forceLastOwner' = IF Pressing # {} THEN controls[p].clientId ELSE _forceLastOwner
  BY DEF p
<1>5. isAttached' \in BOOLEAN
  BY Zenon DEF ForceTypeOK
<1>6. ForceTypeOK'
  BY <1>3, <1>4, <1>5 DEF ForceTypeOK
<1>7. OwnerPressed'
  BY <1>2, <1>4 DEF OwnerPressed
<1>8. Ships' = Ships
  BY DEF Ships
<1>9. ControlsNamed' /\ HeldIsSeen' /\ CarrierNear'
  BY <1>8 DEF ControlsNamed, HeldIsSeen, CarrierNear, SideOf
<1> QED
  BY <1>6, <1>7, <1>9 DEF ShootsForPresser, SpentIsShot

LEMMA MovementKeeps ==
    ASSUME ForceInv, UpdateForceMovement
    PROVE  ForceInv'
<1> USE DEF ForceInv, UpdateForceMovement, PassAt
<1>1. Ships' = Ships /\ Ships \subseteq Player
  BY DEF Ships
<1>2. ControlsNamed' /\ OwnerPressed' /\ ShootsForPresser' /\ HeldIsSeen' /\ SpentIsShot'
  BY <1>1 DEF ControlsNamed, OwnerPressed, ShootsForPresser, HeldIsSeen, SpentIsShot
<1>3. CASE isAttached /\ InReach /\ Snap
  <2>1. Nearest \in Ships
    BY <1>3, NearestIsShip DEF InReach
  <2>2. isAttachedFront' \in BOOLEAN
    <3>1. (forceX >= x[Nearest]) \in BOOLEAN
      OBVIOUS
    <3> QED
      BY <1>3, <3>1, Zenon DEF Snap
  <2>3. forceX' = IF isAttachedFront' THEN x[Nearest] + Offset ELSE x[Nearest] - Offset
    BY <1>3 DEF Snap
  <2>4. forceX' \in Int
    BY <1>1, <2>1, <2>3, ForceAssumption DEF ForceTypeOK
  <2>5. carrier' = Nearest
    BY <1>3 DEF Snap
  <2>6. ForceTypeOK'
    BY <1>1, <1>3, <2>1, <2>2, <2>4, <2>5 DEF ForceTypeOK, Snap
  <2>7. CarrierNear'
    BY <1>1, <2>1, <2>3, <2>5 DEF CarrierNear, SideOf
  <2> QED
    BY <1>2, <2>6, <2>7
<1>4. CASE isAttached /\ ~InReach /\ FallOff
  BY <1>2, <1>4 DEF FallOff, ForceTypeOK, CarrierNear
<1>5. CASE ~isAttached /\ Drift
  <2>1. forceX' \in Int
    BY <1>5 DEF Drift, ForceTypeOK
  <2> QED
    BY <1>2, <1>5, <2>1 DEF Drift, ForceTypeOK, CarrierNear
<1> QED
  BY <1>3, <1>4, <1>5

(* The owner that attacks is one who asked for the force, and its own ship  *)
(* says so.                                                                 *)
LEMMA AttackerPressed ==
    ASSUME ForceInv, OwnerAttacking
    PROVE  /\ _forceLastOwner \in pressed /\ _forceLastOwner \in Ships
           /\ controls[_forceLastOwner].clientId = _forceLastOwner
           /\ controls[_forceLastOwner].attack
<1>1. PICK p \in Ships : controls[p].clientId = _forceLastOwner /\ controls[p].attack
  BY DEF OwnerAttacking
<1>2. _forceLastOwner = p
  BY <1>1 DEF ForceInv, ControlsNamed
<1>3. p # 0 /\ p # None
  BY ForceAssumption DEF Ships, Player
<1> QED
  BY <1>1, <1>2, <1>3 DEF ForceInv, OwnerPressed

LEMMA ShootingKeeps ==
    ASSUME ForceInv, ForceShooting
    PROVE  ForceInv'
<1> DEFINE active == isAttached \/ _forceLastOwner # None
           shoots == active /\ OwnerAttacking /\ ~_forceShotState
<1>1. /\ pass = "Shooting" /\ pass' = "Transform"
      /\ fired' = IF shoots THEN _forceLastOwner ELSE None
      /\ _forceShotState' = IF active THEN OwnerAttacking ELSE _forceShotState
      /\ Remembered(shoots, active)
      /\ UNCHANGED <<controls, x, forceX, isAttached, isAttachedFront>>
      /\ UNCHANGED <<_forceLastOwner, carrier, pressed>>
  BY DEF ForceShooting, PassAt, forceVars
<1>2. OwnerAttacking => /\ _forceLastOwner \in pressed /\ _forceLastOwner \in Ships
                        /\ controls[_forceLastOwner].clientId = _forceLastOwner
                        /\ controls[_forceLastOwner].attack
  BY AttackerPressed
<1>3. pressed \subseteq Player
  BY DEF ForceInv, ForceTypeOK
<1>4. OwnerAttacking \in BOOLEAN
  BY DEF OwnerAttacking
<1>5. shoots => OwnerAttacking /\ active
  OBVIOUS
<1>6. Ships' = Ships
  BY <1>1 DEF Ships
<1> HIDE DEF active, shoots
<1>7. fired' \in pressed \cup {None}
  BY <1>1, <1>2, <1>5
<1>8. /\ spent' = IF shoots THEN spent \cup {_forceLastOwner} ELSE spent
      /\ relieved' = IF shoots THEN relieved \ {_forceLastOwner}
                     ELSE IF active /\ ~OwnerAttacking
                     THEN relieved \cup (spent \ {_forceLastOwner}) ELSE relieved
  BY <1>1 DEF Remembered
<1>9. ForceTypeOK'
  <2>1. spent' \subseteq Player /\ relieved' \subseteq Player
    BY <1>2, <1>3, <1>5, <1>8 DEF ForceInv, ForceTypeOK
  <2>2. _forceShotState' \in BOOLEAN
    BY <1>1, <1>4, Zenon DEF ForceInv, ForceTypeOK
  <2> QED
    BY <1>1, <1>3, <1>7, <2>1, <2>2 DEF ForceInv, ForceTypeOK
<1>10. HeldIsSeen'
  BY <1>1, <1>2, <1>5, <1>6, <1>8 DEF ForceInv, HeldIsSeen
<1>11. SpentIsShot'
  <2>1. CASE shoots
    BY <1>1, <1>5, <2>1, Zenon DEF SpentIsShot
  <2>2. CASE ~shoots /\ active /\ ~OwnerAttacking
    <3>1. _forceLastOwner \notin spent
      BY <2>2 DEF ForceInv, HeldIsSeen, OwnerAttacking
    <3>2. spent' \ relieved' = {}
      BY <1>8, <2>2, <3>1
    <3> QED
      BY <3>2 DEF SpentIsShot
  <2>3. CASE ~shoots /\ active /\ OwnerAttacking
    BY <1>1, <2>3, Zenon DEF SpentIsShot
  <2>4. CASE ~shoots /\ ~active
    <3>1. spent' = spent /\ relieved' = relieved /\ _forceShotState' = _forceShotState
      BY <1>1, <1>8, <2>4
    <3> QED
      BY <3>1 DEF ForceInv, SpentIsShot
  <2> QED
    BY <2>1, <2>2, <2>3, <2>4
<1>12. ControlsNamed' /\ CarrierNear'
  BY <1>1, <1>6 DEF ForceInv, ControlsNamed, CarrierNear, SideOf
<1> QED
  BY <1>1, <1>7, <1>9, <1>10, <1>11, <1>12 DEF ForceInv, OwnerPressed, ShootsForPresser

LEMMA TransformKeeps ==
    ASSUME ForceInv, TransformSystem
    PROVE  ForceInv'
<1> USE DEF ForceInv, TransformSystem, PassAt, forceVars
<1>1. ForceTypeOK'
  BY DEF ForceTypeOK
<1>2. Ships' = Ships /\ Ships \subseteq Player
  BY DEF Ships
<1>3. CarrierNear'
  <2> SUFFICES ASSUME carrier # None
               PROVE  carrier \in Ships /\ forceX - SideOf(carrier)' \in -Speed..Speed
    BY <1>2 DEF CarrierNear
  <2>1. carrier \in Ships /\ forceX = SideOf(carrier)
    BY DEF CarrierNear
  <2>2. x'[carrier] - x[carrier] \in -Speed..Speed
    BY <1>2, <2>1
  <2>3. x[carrier] \in Int /\ x'[carrier] \in Int
    BY <1>2, <2>1, ForceAssumption DEF ForceTypeOK
  <2> QED
    BY <2>1, <2>2, <2>3, ForceAssumption DEF SideOf
<1> QED
  BY <1>1, <1>2, <1>3 DEF ControlsNamed, OwnerPressed, ShootsForPresser, HeldIsSeen, SpentIsShot

THEOREM ForceInvariant == ForceSpec => []ForceInv
<1>1. ForceInit => ForceInv
  BY InitForce
<1>2. ForceInv /\ [ForceNext]_allForceVars => ForceInv'
  <2> SUFFICES ASSUME ForceInv, [ForceNext]_allForceVars
               PROVE  ForceInv'
    OBVIOUS
  <2>1. ASSUME NEW p \in Player, Connect(p) PROVE ForceInv'
    BY <2>1, ConnectKeeps
  <2>2. ASSUME NEW p \in Player, Disconnect(p) PROVE ForceInv'
    BY <2>2, DisconnectKeeps
  <2>3. ASSUME NEW p \in Player, NEW fKey \in BOOLEAN, NEW attack \in BOOLEAN,
               ControlReceived(p, fKey, attack)
        PROVE  ForceInv'
    BY <2>3, ControlReceivedKeeps
  <2>4. CASE RunSystems
    BY <2>4, RunSystemsKeeps
  <2>5. CASE ToggleForceAttachment
    BY <2>5, ToggleKeeps
  <2>6. CASE UpdateForceMovement
    BY <2>6, MovementKeeps
  <2>7. CASE ForceShooting
    BY <2>7, ShootingKeeps
  <2>8. CASE TransformSystem
    BY <2>8, TransformKeeps
  <2>9. CASE UNCHANGED allForceVars
    BY <2>9 DEF allForceVars, forceVars, ForceInv, ForceTypeOK, ControlsNamed, OwnerPressed,
                ShootsForPresser, HeldIsSeen, SpentIsShot, CarrierNear, SideOf, Ships
  <2> QED
    BY <2>1, <2>2, <2>3, <2>4, <2>5, <2>6, <2>7, <2>8, <2>9 DEF ForceNext, System
<1> QED
  BY <1>1, <1>2, PTL DEF ForceSpec

(* The state of the force keeps its type: it never shoots for number 0,     *)
(* which every ship has before its client's first message.                  *)
THEOREM ForceTypeCorrect == ForceSpec => []ForceTypeOK
<1>1. ForceInv => ForceTypeOK
  BY DEF ForceInv
<1> QED
  BY <1>1, ForceInvariant, PTL

(* forceShooting: the force shoots only for a ship whose player pressed F.  *)
THEOREM ForceShootsForPresser == ForceSpec => []ShootsForPresser
<1>1. ForceInv => ShootsForPresser
  BY DEF ForceInv
<1> QED
  BY <1>1, ForceInvariant, PTL

(* forceShooting: whoever else takes and gives back the force, a player who *)
(* holds attack gets one missile, unless the force was meanwhile with an    *)
(* owner who did not attack.                                                *)
THEOREM ForceShootsOncePerPress == ForceSpec => OneMissilePerPress
<1>1. ForceInv /\ [ForceNext]_allForceVars =>
        [pass = "Shooting" /\ fired' \in spent => fired' \in relieved]_allForceVars
  <2> SUFFICES ASSUME ForceInv, ForceNext, pass = "Shooting", fired' \in spent
               PROVE  fired' \in relieved
    BY Zenon
  <2>1. ForceShooting
    BY DEF ForceNext, System, Connect, Disconnect, ControlReceived, RunSystems,
           ToggleForceAttachment, UpdateForceMovement, TransformSystem, PassAt
  <2>2. fired' # None
    BY ForceAssumption DEF ForceInv, ForceTypeOK, Player
  <2>3. ~_forceShotState
    BY <2>1, <2>2, Zenon DEF ForceShooting
  <2> QED
    BY <2>3 DEF ForceInv, SpentIsShot
<1> QED
  BY <1>1, ForceInvariant, PTL DEF ForceSpec, OneMissilePerPress

(* updateForceMovement: as long as ships move by less than the offset, the  *)
(* side is never changed under the ship that carries the force.             *)
THEOREM ForceKeepsSide == ForceSpec => SideKept
<1>1. ForceInv /\ [ForceNext]_allForceVars =>
        [carrier # None /\ carrier' = carrier => isAttachedFront' = isAttachedFront]_allForceVars
  <2> SUFFICES ASSUME ForceInv, ForceNext, carrier # None, carrier' = carrier
               PROVE  isAttachedFront' = isAttachedFront
    BY Zenon
  <2>1. CASE UpdateForceMovement
    <3>1. CASE isAttached /\ InReach /\ Snap
      <4>1. carrier = Nearest /\ isAttachedFront' = (forceX >= x[carrier])
        BY <3>1 DEF Snap
      <4>2. carrier \in Ships /\ forceX - SideOf(carrier) \in -Speed..Speed
        BY <2>1 DEF ForceInv, CarrierNear, UpdateForceMovement, PassAt
      <4>3. x[carrier] \in Int /\ forceX \in Int
        BY <4>2, ForceAssumption DEF ForceInv, ForceTypeOK, Ships
      <4>4. isAttachedFront => forceX >= x[carrier]
        BY <4>2, <4>3, ForceAssumption DEF SideOf
      <4>5. ~isAttachedFront => ~(forceX >= x[carrier])
        BY <4>2, <4>3, ForceAssumption DEF SideOf
      <4>6. isAttachedFront \in BOOLEAN
        BY DEF ForceInv, ForceTypeOK
      <4>7. (forceX >= x[carrier]) \in BOOLEAN
        OBVIOUS
      <4>8. (forceX >= x[carrier]) = isAttachedFront
        BY <4>4, <4>5, <4>6, <4>7, Zenon
      <4> QED
        BY <4>1, <4>8, Zenon
    <3>2. CASE ~isAttached /\ Drift
      BY <3>2 DEF Drift
    <3>3. CASE isAttached /\ ~InReach /\ FallOff
      BY <3>3 DEF FallOff
    <3> QED
      BY <2>1, <3>1, <3>2, <3>3 DEF UpdateForceMovement
  <2>2. CASE ~UpdateForceMovement
    BY <2>2 DEF ForceNext, System, Connect, Disconnect, ControlReceived, RunSystems,
                ToggleForceAttachment, ForceShooting, TransformSystem, forceVars
  <2> QED
    BY <2>1, <2>2
<1> QED
  BY <1>1, ForceInvariant, PTL DEF ForceSpec, SideKept

-----------------------------------------------------------------------------
(* The shielded boss.                                                       *)

(* The pass over the orbs has yet to come to this one in this frame.        *)
ToVisit(o) == pc = "OrbState" \/ (pc = "Orbs" /\ next <= o)

(* An orb is seen as long as it has health, and no longer.                  *)
SeenIsAlive ==
    \A o \in Orb : IF orb[o].live /\ orb[o].visible THEN orb[o].health > 0
                   ELSE orb[o].health = 0

(* A hidden orb that the pass will kill was broadcast as hidden.            *)
HiddenIsUnseen ==
    \A o \in Orb : /\ orb[o].live /\ ~orb[o].visible
                   /\ pc = "Boss" \/ ToVisit(o)
                   => o \notin shown

(* There are orbs only around a boss, and around one that was hurt only     *)
(* hidden ones that the present pass will kill.                             *)
ShieldGone ==
    \A o \in Orb : orb[o].live =>
        /\ inLevelThree /\ boss.spawned
        /\ boss.health < BossHealth => ~orb[o].visible /\ ToVisit(o)

(* The boss of this level, once it is there, has health.                    *)
BossStands ==
    /\ inLevelThree /\ boss.spawned => boss.health > 0
    /\ pc \in {"OrbState", "Orbs"} => boss.spawned

(* Each pass goes over all orbs.                                            *)
PassBegins == pc # "Orbs" => next = 1

CovidInv == /\ TypeOK /\ PassBegins /\ SeenIsAlive /\ HiddenIsUnseen
            /\ ShieldGone /\ BossStands

-----------------------------------------------------------------------------
(* Where a flight leads.                                                    *)

(* A flight never leads farther than a goal can be.                         *)
LEMMA FlownIsDistance ==
    ASSUME NEW d \in Distance
    PROVE  Flown(d) \in Distance
BY CovidAssumption DEF Flown, Distance

LEMMA HomingTyped ==
    ASSUME NEW flags \in SUBSET Flag, NEW d \in Distance, NEW way \in Homing(flags, d)
    PROVE  way.flags \in SUBSET Flag /\ way.away \in Distance
<1>1. 0 \in Distance
  BY CovidAssumption DEF Distance
<1>2. CASE d > Near
  BY <1>2 DEF Homing
<1>3. CASE ~(d > Near)
  BY <1>1, <1>3 DEF Homing
<1> QED
  BY <1>2, <1>3

LEMMA HomingFromAnywhereTyped ==
    ASSUME NEW flags \in SUBSET Flag, NEW way \in HomingFromAnywhere(flags)
    PROVE  way.flags \in SUBSET Flag /\ way.away \in Distance
<1>1. PICK d \in Distance : way \in Homing(flags, d)
  BY DEF HomingFromAnywhere
<1> QED
  BY <1>1, HomingTyped

LEMMA AttackingTyped ==
    ASSUME NEW flags \in SUBSET Flag, NEW d \in Distance, NEW way \in Attacking(flags, d)
    PROVE  way.flags \in SUBSET Flag /\ way.away \in Distance
<1>1. CASE d > Near
  BY <1>1, FlownIsDistance DEF Attacking
<1>2. CASE ~(d > Near)
  <2> DEFINE back == (flags \ {"isAttacking"}) \cup {"isReturning"}
  <2>1. back \in SUBSET Flag
    BY DEF Flag
  <2>2. way \in HomingFromAnywhere(back)
    BY <1>2 DEF Attacking
  <2> QED
    BY <2>1, <2>2, HomingFromAnywhereTyped
<1> QED
  BY <1>1, <1>2

(* Whatever combination of flags a hit leaves, one of the branches flies on. *)
LEMMA FlightTyped ==
    ASSUME NEW before, NEW after, after.flags \in SUBSET Flag, after.away \in Distance,
           NEW way \in Flight(before, after)
    PROVE  way.flags \in SUBSET Flag /\ way.away \in Distance
<1>1. \/ after.flags = {}
      \/ after.flags = {"isDetached"}
      \/ "isAttacking" \in after.flags
      \/ "isReturning" \in after.flags
  BY DEF Flag
<1>2. \/ way \in [flags : {{}}, away : {0}]
      \/ way \in UNION {Attacking({"isDetached", "isAttacking"}, d) : d \in Distance}
      \/ way \in Attacking(after.flags, after.away)
      \/ way \in Homing(after.flags, after.away)
      \/ way \in HomingFromAnywhere(after.flags)
  BY <1>1, Zenon DEF Flight
<1>3. CASE way \in [flags : {{}}, away : {0}]
  BY <1>3, CovidAssumption DEF Distance
<1>4. CASE way \in UNION {Attacking({"isDetached", "isAttacking"}, d) : d \in Distance}
  <2>1. PICK d \in Distance : way \in Attacking({"isDetached", "isAttacking"}, d)
    BY <1>4
  <2>2. {"isDetached", "isAttacking"} \in SUBSET Flag
    BY DEF Flag
  <2> QED
    BY <2>1, <2>2, AttackingTyped
<1>5. CASE way \in Attacking(after.flags, after.away)
  BY <1>5, AttackingTyped
<1>6. CASE way \in Homing(after.flags, after.away)
  BY <1>6, HomingTyped
<1>7. CASE way \in HomingFromAnywhere(after.flags)
  BY <1>7, HomingFromAnywhereTyped
<1> QED
  BY <1>2, <1>3, <1>4, <1>5, <1>6, <1>7

-----------------------------------------------------------------------------
(* The invariant, action by action.                                         *)

LEMMA InitCovid == Init => CovidInv
<1> SUFFICES ASSUME Init PROVE CovidInv
  OBVIOUS
<1>1. NoOrb \in OrbState
  BY CovidAssumption DEF NoOrb, OrbState, Distance
<1>2. \A o \in Orb : orb[o] = NoOrb
  BY DEF Init
<1>3. orb \in [Orb -> OrbState] /\ 1 \in Orb
  BY <1>1, CovidAssumption DEF Init, Orb
<1>4. TypeOK
  BY <1>3, CovidAssumption DEF Init, TypeOK
<1>5. SeenIsAlive /\ HiddenIsUnseen /\ ShieldGone
  BY <1>2 DEF NoOrb, SeenIsAlive, HiddenIsUnseen, ShieldGone
<1>6. BossStands /\ PassBegins
  BY DEF Init, BossStands, PassBegins
<1> QED
  BY <1>4, <1>5, <1>6 DEF CovidInv

LEMMA SystemIdleKeeps ==
    ASSUME CovidInv, SystemIdle
    PROVE  CovidInv'
<1> USE DEF CovidInv, SystemIdle, At, bossVars
<1>1. TypeOK' /\ SeenIsAlive'
  BY DEF TypeOK, SeenIsAlive
<1>2. ShieldGone' /\ HiddenIsUnseen'
  BY DEF ShieldGone, HiddenIsUnseen, ToVisit
<1> QED
  BY <1>1, <1>2 DEF BossStands, PassBegins

LEMMA SpawnBossKeeps ==
    ASSUME CovidInv, SpawnBoss
    PROVE  CovidInv'
<1> USE DEF CovidInv, SpawnBoss, At
<1>1. NewOrb \in OrbState
  BY CovidAssumption DEF NewOrb, OrbState, Distance
<1>2. \A o \in Orb : orb'[o] = NewOrb
  OBVIOUS
<1>3. orb' \in [Orb -> OrbState]
  BY <1>1
<1>4. boss' \in [spawned : BOOLEAN, live : BOOLEAN, visible : BOOLEAN, health : 0..BossHealth]
  BY CovidAssumption
<1>5. TypeOK'
  BY <1>3, <1>4 DEF TypeOK
<1>6. SeenIsAlive' /\ HiddenIsUnseen'
  BY <1>2, CovidAssumption DEF NewOrb, SeenIsAlive, HiddenIsUnseen
<1>7. ShieldGone' /\ BossStands'
  BY <1>2, CovidAssumption DEF NewOrb, ShieldGone, BossStands
<1> QED
  BY <1>5, <1>6, <1>7 DEF PassBegins

(* The boss is only hurt when the last frame has left no orb to be seen, so *)
(* that none is left when it falls.                                         *)
LEMMA UpdateBossKeeps ==
    ASSUME CovidInv, UpdateBoss
    PROVE  CovidInv'
<1> USE DEF CovidInv
<1> DEFINE hurt == boss.live /\ 0 \in colliding /\ ~Shielded
           health == IF hurt THEN boss.health - 1 ELSE boss.health
<1>1. /\ inLevelThree /\ boss.spawned /\ pc = "Boss" /\ pc' = "OrbState"
      /\ boss' = [boss EXCEPT !.live = @ /\ boss.visible, !.health = health,
                              !.visible = health > 0]
      /\ inLevelThree' = (health > 0)
      /\ UNCHANGED <<next, orb, colliding, attackTimer, shown>>
  BY DEF UpdateBoss, At
<1>2. boss \in [spawned : BOOLEAN, live : BOOLEAN, visible : BOOLEAN, health : 0..BossHealth]
  BY DEF TypeOK
<1>3. boss.health > 0
  BY <1>1 DEF BossStands
<1>4. health \in 0..BossHealth /\ (~hurt => health = boss.health) /\ health <= boss.health
  BY <1>2, <1>3, CovidAssumption
<1>5. hurt => \A o \in Orb : ~(orb[o].live /\ orb[o].visible)
  BY Zenon DEF Shielded
<1>6. hurt /\ boss.health = 1 => \A o \in Orb : ~orb[o].live
  BY <1>1, CovidAssumption DEF ShieldGone, ToVisit
<1>7. health = 0 => hurt /\ boss.health = 1
  BY <1>2, <1>3
<1> HIDE DEF hurt, health
<1>8. (health > 0) \in BOOLEAN
  OBVIOUS
<1>9. (boss.live /\ boss.visible) \in BOOLEAN
  OBVIOUS
<1>10. /\ boss'.spawned = boss.spawned /\ boss'.health = health
       /\ boss' \in [spawned : BOOLEAN, live : BOOLEAN, visible : BOOLEAN, health : 0..BossHealth]
  BY <1>1, <1>2, <1>4, <1>8, <1>9
<1>11. TypeOK'
  BY <1>1, <1>8, <1>10, Zenon DEF TypeOK
<1>12. SeenIsAlive' /\ HiddenIsUnseen'
  BY <1>1 DEF SeenIsAlive, HiddenIsUnseen, ToVisit
<1>13. ShieldGone'
  <2> SUFFICES ASSUME NEW o \in Orb, orb[o].live
               PROVE  /\ inLevelThree' /\ boss'.spawned
                      /\ boss'.health < BossHealth => ~orb[o].visible /\ ToVisit(o)'
    BY <1>1 DEF ShieldGone
  <2>1. health > 0
    BY <1>4, <1>6, <1>7
  <2>2. inLevelThree' /\ boss'.spawned
    BY <1>1, <1>10, <2>1
  <2>3. health < BossHealth => ~orb[o].visible
    <3>1. CASE hurt
      BY <1>5, <3>1, Zenon
    <3>2. CASE ~hurt
      BY <1>4, <3>2 DEF ShieldGone
    <3> QED
      BY <3>1, <3>2
  <2> QED
    BY <1>1, <1>10, <2>2, <2>3 DEF ToVisit
<1>14. BossStands'
  BY <1>1, <1>10 DEF BossStands
<1> QED
  BY <1>1, <1>11, <1>12, <1>13, <1>14 DEF PassBegins

(* A launch changes the flags of one orb, and nothing else of it.           *)
LEMMA UpdateOrbStateKeeps ==
    ASSUME CovidInv, UpdateOrbState
    PROVE  CovidInv'
<1> USE DEF CovidInv
<1>1. /\ pc = "OrbState" /\ pc' = "Orbs"
      /\ UNCHANGED <<next, inLevelThree, boss, colliding, shown>>
  BY DEF UpdateOrbState, At, bossVars
<1>2. attackTimer' \in 0..AttackInterval
  BY CovidAssumption DEF UpdateOrbState, TypeOK
<1>3. \/ orb' = orb
      \/ \E o \in Orb : orb' = [orb EXCEPT ![o].flags = {"isDetached"}]
  BY DEF UpdateOrbState
<1>4. /\ orb' \in [Orb -> OrbState]
      /\ \A o \in Orb : /\ orb'[o].live = orb[o].live /\ orb'[o].visible = orb[o].visible
                        /\ orb'[o].health = orb[o].health
  <2>1. CASE orb' = orb
    BY <2>1 DEF TypeOK
  <2>2. ASSUME NEW o \in Orb, orb' = [orb EXCEPT ![o].flags = {"isDetached"}]
        PROVE  <1>4!:
    <3>1. orb \in [Orb -> OrbState]
      BY DEF TypeOK
    <3>2. [orb[o] EXCEPT !.flags = {"isDetached"}] \in OrbState
      BY <3>1 DEF OrbState, Flag
    <3>3. \A q \in Orb : orb'[q] = IF q = o THEN [orb[o] EXCEPT !.flags = {"isDetached"}] ELSE orb[q]
      BY <2>2, <3>1
    <3>4. orb' \in [Orb -> OrbState]
      BY <2>2, <3>1, <3>2
    <3>5. ASSUME NEW q \in Orb
          PROVE  /\ orb'[q].live = orb[q].live /\ orb'[q].visible = orb[q].visible
                 /\ orb'[q].health = orb[q].health
      BY <3>1, <3>3 DEF OrbState
    <3> QED
      BY <3>4, <3>5
  <2> QED
    BY <1>3, <2>1, <2>2
<1>5. TypeOK'
  BY <1>1, <1>2, <1>4 DEF TypeOK
<1>6. SeenIsAlive'
  BY <1>4 DEF SeenIsAlive
<1>7. next = 1 /\ \A o \in Orb : ToVisit(o)'
  BY <1>1 DEF PassBegins, ToVisit, Orb
<1>8. HiddenIsUnseen'
  BY <1>1, <1>4 DEF HiddenIsUnseen, ToVisit
<1>9. ShieldGone'
  BY <1>1, <1>4, <1>7 DEF ShieldGone
<1>10. BossStands'
  BY <1>1 DEF BossStands
<1> QED
  BY <1>1, <1>5, <1>6, <1>8, <1>9, <1>10 DEF PassBegins

(* The visit of one orb leaves the others alone, and passes on.             *)
LEMMA OrbPassKeeps ==
    ASSUME CovidInv, NEW o \in Orb, OrbPass(o), NEW new \in OrbState,
           orb' = [orb EXCEPT ![o] = new], colliding' \subseteq colliding,
           new.live => orb[o].live /\ orb[o].visible,
           IF new.live /\ new.visible THEN new.health > 0 ELSE new.health = 0
    PROVE  CovidInv'
<1> USE DEF CovidInv
<1>1. /\ pc = "Orbs" /\ next = o
      /\ next' = IF o = NumOrbs THEN 1 ELSE o + 1
      /\ pc' = IF o = NumOrbs THEN "Rest" ELSE "Orbs"
      /\ UNCHANGED <<inLevelThree, boss, attackTimer, shown>>
  BY DEF OrbPass, NextOrb, bossVars
<1>2. orb \in [Orb -> OrbState]
  BY DEF TypeOK
<1>3. \A q \in Orb : orb'[q] = IF q = o THEN new ELSE orb[q]
  BY <1>2
<1>4. next' \in Orb
  BY <1>1, CovidAssumption DEF Orb
<1>5. TypeOK'
  BY <1>1, <1>2, <1>4 DEF TypeOK
<1>6. PassBegins'
  BY <1>1 DEF PassBegins
<1>7. SeenIsAlive'
  BY <1>3 DEF SeenIsAlive
<1>9. \A q \in Orb : q # o /\ ToVisit(q) => ToVisit(q)'
  BY <1>1, CovidAssumption DEF ToVisit, Orb
<1>10. ~ToVisit(o)' /\ pc' # "Boss"
  BY <1>1, CovidAssumption DEF ToVisit, Orb
<1>11. \A q \in Orb : q # o /\ ToVisit(q)' => ToVisit(q)
  BY <1>1, CovidAssumption DEF ToVisit, Orb
<1>12. HiddenIsUnseen'
  BY <1>1, <1>3, <1>10, <1>11 DEF HiddenIsUnseen
<1>13. ShieldGone'
  BY <1>1, <1>3, <1>9 DEF ShieldGone
<1>14. BossStands'
  BY <1>1 DEF BossStands
<1> QED
  BY <1>5, <1>6, <1>7, <1>12, <1>13, <1>14

LEMMA PassDeadOrbKeeps ==
    ASSUME CovidInv, NEW o \in Orb, PassDeadOrb(o)
    PROVE  CovidInv'
<1>1. orb \in [Orb -> OrbState]
  BY DEF CovidInv, TypeOK
<1>2. orb[o] \in OrbState /\ ~orb[o].live /\ OrbPass(o) /\ colliding' = colliding
  BY <1>1 DEF PassDeadOrb
<1>3. orb' = [orb EXCEPT ![o] = orb[o]]
  BY <1>1 DEF PassDeadOrb
<1>4. orb[o].health = 0
  BY <1>2 DEF CovidInv, SeenIsAlive
<1> QED
  BY <1>2, <1>3, <1>4, OrbPassKeeps

LEMMA KillOrbKeeps ==
    ASSUME CovidInv, NEW o \in Orb, KillOrb(o)
    PROVE  CovidInv'
<1>1. NoOrb \in OrbState
  BY CovidAssumption DEF NoOrb, OrbState, Distance
<1>2. ~NoOrb.live /\ NoOrb.health = 0
  BY DEF NoOrb
<1>3. /\ OrbPass(o) /\ orb' = [orb EXCEPT ![o] = NoOrb]
      /\ colliding' \subseteq colliding
  BY DEF KillOrb
<1> QED
  BY <1>1, <1>2, <1>3, OrbPassKeeps

LEMMA FlyOrbKeeps ==
    ASSUME CovidInv, NEW o \in Orb, FlyOrb(o)
    PROVE  CovidInv'
<1> DEFINE hit == Struck(o)
           new(way) == [Exploded(o) EXCEPT !.flags = way.flags, !.away = way.away]
<1>1. orb[o] \in OrbState /\ orb[o].live /\ orb[o].visible /\ orb[o].health > 0
  BY DEF FlyOrb, CovidInv, TypeOK, SeenIsAlive
<1>2. hit \in OrbState /\ hit.live /\ hit.visible
  <2>1. CASE o \in colliding
    <3>1. (orb[o].flags \ {"isAttacking"}) \cup {"isReturning"} \in SUBSET Flag
      BY <1>1 DEF OrbState, Flag
    <3>2. orb[o].health - 1 \in 0..OrbHealth
      BY <1>1, CovidAssumption DEF OrbState
    <3> QED
      BY <1>1, <2>1, <3>1, <3>2 DEF Struck, OrbState
  <2>2. CASE o \notin colliding
    BY <1>1, <2>2 DEF Struck
  <2> QED
    BY <2>1, <2>2
<1> HIDE DEF hit
<1>3. Exploded(o) = [hit EXCEPT !.visible = @ /\ hit.health > 0]
  BY DEF Exploded, hit
<1>4. (hit.visible /\ hit.health > 0) \in BOOLEAN
  OBVIOUS
<1>5. /\ Exploded(o) \in OrbState /\ Exploded(o).live /\ Exploded(o).health = hit.health
      /\ Exploded(o).visible = (hit.visible /\ hit.health > 0)
  BY <1>2, <1>3, <1>4 DEF OrbState
<1>6. hit.health \in Nat
  BY <1>2, CovidAssumption DEF OrbState
<1>7. IF Exploded(o).visible THEN hit.health > 0 ELSE hit.health = 0
  <2>1. Exploded(o).visible <=> hit.health > 0
    BY <1>2, <1>5, Zenon
  <2>2. CASE hit.health > 0
    BY <2>1, <2>2, Zenon
  <2>3. CASE ~(hit.health > 0)
    <3>1. hit.health = 0
      BY <1>6, <2>3
    <3> QED
      BY <2>1, <2>3, <3>1, Zenon
  <2> QED
    BY <2>2, <2>3
<1>8. PICK way \in Flight(orb[o], Struck(o)) : orb' = [orb EXCEPT ![o] = new(way)]
  BY DEF FlyOrb
<1>9. way.flags \in SUBSET Flag /\ way.away \in Distance
  <2>1. Struck(o).flags \in SUBSET Flag /\ Struck(o).away \in Distance
    BY <1>2 DEF hit, OrbState
  <2> QED
    BY <1>8, <2>1, FlightTyped
<1>10. /\ new(way) \in OrbState /\ new(way).live
       /\ new(way).visible = Exploded(o).visible /\ new(way).health = hit.health
  BY <1>5, <1>9 DEF OrbState
<1>11. OrbPass(o) /\ colliding' \subseteq colliding
  BY DEF FlyOrb
<1> HIDE DEF new
<1> QED
  BY <1>1, <1>7, <1>8, <1>10, <1>11, OrbPassKeeps

LEMMA RestOfFrameKeeps ==
    ASSUME CovidInv, RestOfFrame
    PROVE  CovidInv'
<1> USE DEF CovidInv
<1>1. /\ pc = "Rest" /\ pc' = "Boss" /\ UNCHANGED <<next, inLevelThree, boss, orb, attackTimer>>
      /\ shown' = {o \in Orb : orb[o].live /\ orb[o].visible}
  BY DEF RestOfFrame, At, bossVars
<1>2. colliding' \subseteq Orb \cup {0}
  BY DEF RestOfFrame
<1>3. TypeOK'
  BY <1>1, <1>2 DEF TypeOK
<1>4. HiddenIsUnseen'
  BY <1>1 DEF HiddenIsUnseen
<1>5. ShieldGone'
  BY <1>1 DEF ShieldGone, ToVisit
<1> QED
  BY <1>1, <1>3, <1>4, <1>5 DEF PassBegins, SeenIsAlive, BossStands

LEMMA CovidInvariantStep ==
    ASSUME CovidInv, [Next]_vars
    PROVE  CovidInv'
<1>1. CASE SystemIdle
  BY <1>1, SystemIdleKeeps
<1>2. CASE SpawnBoss
  BY <1>2, SpawnBossKeeps
<1>3. CASE UpdateBoss
  BY <1>3, UpdateBossKeeps
<1>4. CASE UpdateOrbState
  BY <1>4, UpdateOrbStateKeeps
<1>5. ASSUME NEW o \in Orb, PassDeadOrb(o) PROVE CovidInv'
  BY <1>5, PassDeadOrbKeeps
<1>6. ASSUME NEW o \in Orb, KillOrb(o) PROVE CovidInv'
  BY <1>6, KillOrbKeeps
<1>7. ASSUME NEW o \in Orb, FlyOrb(o) PROVE CovidInv'
  BY <1>7, FlyOrbKeeps
<1>8. CASE RestOfFrame
  BY <1>8, RestOfFrameKeeps
<1>9. CASE UNCHANGED vars
  BY <1>9 DEF vars, bossVars, CovidInv, TypeOK, PassBegins, SeenIsAlive, HiddenIsUnseen,
              ShieldGone, BossStands, ToVisit
<1> QED
  BY <1>1, <1>2, <1>3, <1>4, <1>5, <1>6, <1>7, <1>8, <1>9 DEF Next, UpdateOrb

THEOREM CovidInvariant == Spec => []CovidInv
<1>1. Init => CovidInv
  BY InitCovid
<1>2. CovidInv /\ [Next]_vars => CovidInv'
  BY CovidInvariantStep
<1> QED
  BY <1>1, <1>2, PTL DEF Spec

(* The boss and its orbs keep their types.                                  *)
THEOREM CovidTypeCorrect == Spec => []TypeOK
<1>1. CovidInv => TypeOK
  BY DEF CovidInv
<1> QED
  BY <1>1, CovidInvariant, PTL

(* updateBoss: the boss loses no health while an orb has some.              *)
THEOREM CovidShieldHolds == Spec => ShieldHolds
<1>1. CovidInv /\ [Next]_vars =>
        [boss.spawned /\ boss'.health < boss.health => \A o \in Orb : orb[o].health = 0]_vars
  <2> SUFFICES ASSUME CovidInv, Next, boss.spawned, boss'.health < boss.health
               PROVE  \A o \in Orb : orb[o].health = 0
    BY Zenon
  <2>1. boss.health \in Nat
    BY CovidAssumption DEF CovidInv, TypeOK
  <2>2. UpdateBoss
    <3>1. boss' # boss
      BY <2>1
    <3>2. ~SpawnBoss
      BY DEF SpawnBoss
    <3> QED
      BY <3>1, <3>2, Zenon DEF Next, SystemIdle, UpdateOrbState, UpdateOrb, PassDeadOrb,
                               KillOrb, FlyOrb, OrbPass, RestOfFrame, bossVars
  <2>3. boss.live /\ 0 \in colliding /\ ~Shielded
    <3>1. CASE ~(boss.live /\ 0 \in colliding /\ ~Shielded)
      BY <2>1, <2>2, <3>1 DEF UpdateBoss, CovidInv, TypeOK
    <3> QED
      BY <3>1
  <2>4. \A o \in Orb : ~(orb[o].live /\ orb[o].visible)
    BY <2>3, Zenon DEF Shielded
  <2> QED
    BY <2>4 DEF CovidInv, SeenIsAlive
<1> QED
  BY <1>1, CovidInvariant, PTL DEF Spec, ShieldHolds

(* updateOrb: no orb is killed before it was broadcast as hidden, and none  *)
(* is left when the fall of the boss stops the system.                      *)
THEOREM CovidLeavesNoGhosts == Spec => NoOrbGhosts
<1>1. CovidInv /\ [Next]_vars =>
        [\A o \in Orb : /\ orb[o].live /\ ~orb'[o].live => o \notin shown
                        /\ ~inLevelThree' => ~orb'[o].live]_vars
  <2> SUFFICES ASSUME CovidInv, Next, NEW o \in Orb
               PROVE  /\ orb[o].live /\ ~orb'[o].live => o \notin shown
                      /\ ~inLevelThree' => ~orb'[o].live
    BY Zenon
  <2>1. CovidInv'
    BY CovidInvariantStep
  <2>2. ~inLevelThree' => ~orb'[o].live
    BY <2>1 DEF CovidInv, ShieldGone
  <2>3. ASSUME orb[o].live, ~orb'[o].live PROVE o \notin shown
    <3>1. PICK q \in Orb : KillOrb(q)
      <4>1. CASE SpawnBoss
        BY <2>3, <4>1 DEF SpawnBoss, NewOrb
      <4>2. CASE UpdateOrbState
        BY <2>3, <4>2 DEF UpdateOrbState, CovidInv, TypeOK, OrbState
      <4>3. ASSUME NEW q \in Orb, FlyOrb(q) PROVE FALSE
        <5>1. orb \in [Orb -> OrbState]
          BY DEF CovidInv, TypeOK
        <5>2. orb'[o].live = orb[o].live
          BY <4>3, <5>1 DEF FlyOrb, Exploded, Struck, OrbState
        <5> QED
          BY <2>3, <5>2
      <4> QED
        BY <2>3, <4>1, <4>2, <4>3 DEF Next, SystemIdle, UpdateBoss, UpdateOrb, PassDeadOrb,
                                      RestOfFrame
    <3>2. q = o
      BY <2>3, <3>1 DEF KillOrb, CovidInv, TypeOK
    <3> QED
      BY <3>1, <3>2 DEF KillOrb, OrbPass, CovidInv, HiddenIsUnseen, ToVisit, Orb
  <2> QED
    BY <2>2, <2>3
<1> QED
  BY <1>1, CovidInvariant, PTL DEF Spec, NoOrbGhosts
=============================================================================
