------------------------------- MODULE Force -------------------------------
(***************************************************************************)
(* The force, a companion that any ship may attach, detach and shoot with: *)
(* ForceSystem's passes in the order of its update (pass), between the key *)
(* messages of the clients and the movement of the ships.                  *)
(*                                                                         *)
(* Positions are on a line, in units; the height of the force, which it    *)
(* takes from its ship, is left out, and so are textures.  The force       *)
(* drifts by at most one unit a frame, in a direction chosen in every      *)
(* frame (bound: within Width of the screen).  Ships are not told from     *)
(* wrecks, since the code does not look at Health or visibility here.      *)
(***************************************************************************)
EXTENDS Integers, FiniteSets

CONSTANTS
    NumPlayers,   \* ships are 1..NumPlayers: their entities; 0 is the scene's
    Width,        \* of the screen
    Offset,       \* of an attached force from its ship: 55 pixels
    Reach,        \* within which the force attaches: 150 pixels
    Speed,        \* a ship's way in a frame, at most
    None

Player == 1..NumPlayers
ClientId(p) == p          \* a client fills it with the entity of its ship
Position == -Width..(2 * Width)
Control == [clientId : 0..NumPlayers, fKey : BOOLEAN, attack : BOOLEAN]

\* A ship moves less in a frame than the force is ahead of it (500 pixels a
\* second: frames below 0.11 seconds).
ASSUME ForceAssumption ==
    /\ NumPlayers \in Nat /\ Width \in Nat \ {0, 1}
    /\ Speed \in Nat /\ Offset \in Nat /\ Reach \in Nat
    /\ Speed < Offset /\ Offset + Speed < Reach
    /\ None \notin Nat \cup Control

VARIABLES
    pass,                  \* Inputs, Toggle, Movement, Shooting, Transform
    controls,              \* per ship, None where there is none
    x,                     \* of the ships
    forceX, isAttached, isAttachedFront,
    _forceLastOwner, _forceShotState,
    carrier,               \* history: the ship the force was snapped to, or None
    fired,                 \* history: owner of the missile of this pass, or None
    spent,                 \* history: ships that have held attack since their last missile
    relieved,              \* history: those of them since when the force was with
                           \* another that did not attack
    pressed                \* history: ships that were sent a message with F

forceVars == <<forceX, isAttached, isAttachedFront>>
allForceVars == <<pass, controls, x, forceVars, _forceLastOwner, _forceShotState, carrier,
                  fired, spent, relieved, pressed>>

Ships == {p \in Player : controls[p] # None}

\* spawnForce at 100, far left; ships come later.
ForceInit ==
    /\ pass = "Inputs"
    /\ controls = [p \in Player |-> None] /\ x = [p \in Player |-> 1]
    /\ forceX = 1 /\ isAttached = FALSE /\ isAttachedFront = FALSE
    /\ _forceLastOwner = None /\ _forceShotState = FALSE
    /\ carrier = None /\ fired = None /\ spent = {} /\ relieved = {} /\ pressed = {}

PassAt(here, next) == pass = here /\ pass' = next

-----------------------------------------------------------------------------
(* Messages, applied by the server before the systems run.                  *)

\* The entity is the last of six arguments: it is taken for fKey, true for every
\* ship; clientId is left at 0, the number of no ship.
Bug_NamedControl(p) == [clientId |-> p, fKey |-> TRUE, attack |-> FALSE]
InitialControl(p) == [clientId |-> 0, fKey |-> TRUE, attack |-> FALSE]

Connect(p) ==
    /\ pass = "Inputs" /\ p \notin Ships
    /\ controls' = [controls EXCEPT ![p] = InitialControl(p)]
    /\ x' = [x EXCEPT ![p] = Width \div 2]
    /\ UNCHANGED <<pass, forceVars, _forceLastOwner, _forceShotState, carrier, fired, spent, relieved,
                   pressed>>

\* The histories when a player lets go of attack, or of the game.
Released(p) == spent' = spent \ {p} /\ relieved' = relieved \ {p}

\* The ship is killed with all of its components.
Disconnect(p) ==
    /\ pass = "Inputs" /\ p \in Ships
    /\ controls' = [controls EXCEPT ![p] = None]
    /\ x' = [x EXCEPT ![p] = 1]
    /\ carrier' = IF carrier = p THEN None ELSE carrier
    /\ Released(p)
    /\ UNCHANGED <<pass, forceVars, _forceLastOwner, _forceShotState, fired, pressed>>

\* A client's keys replace the Controllable of its ship.
ControlReceived(p, fKey, attack) ==
    /\ pass = "Inputs" /\ p \in Ships
    /\ controls' = [controls EXCEPT ![p] =
                      [clientId |-> ClientId(p), fKey |-> fKey, attack |-> attack]]
    /\ pressed' = IF fKey THEN pressed \cup {ClientId(p)} ELSE pressed
    /\ IF attack THEN UNCHANGED <<spent, relieved>> ELSE Released(p)
    /\ UNCHANGED <<pass, x, forceVars, _forceLastOwner, _forceShotState, carrier, fired>>

\* The queue is drained and the systems run.
RunSystems ==
    /\ PassAt("Inputs", "Toggle") /\ fired' = None
    /\ UNCHANGED <<controls, x, forceVars, _forceLastOwner, _forceShotState, carrier, spent,
                   relieved, pressed>>

-----------------------------------------------------------------------------
(* ForceSystem::update.                                                     *)

Pressing == {p \in Ships : controls[p].fKey}
FirstOf(S) == CHOOSE p \in S : \A q \in S : p <= q


\* The key counts in every frame in which it is down.  The first ship that
\* holds it becomes the owner, also by detaching.
ToggleForceAttachment ==
    /\ PassAt("Toggle", "Movement")
    /\ IF Pressing # {}
       THEN /\ isAttached' = ~isAttached
            /\ _forceLastOwner' = controls[FirstOf(Pressing)].clientId
       ELSE UNCHANGED <<isAttached, _forceLastOwner>>
    /\ UNCHANGED <<controls, x, forceX, isAttachedFront, _forceShotState, carrier, fired, spent,
                   relieved, pressed>>

DistanceTo(p) == IF forceX >= x[p] THEN forceX - x[p] ELSE x[p] - forceX
Nearest == FirstOf({p \in Ships : \A q \in Ships : DistanceTo(p) <= DistanceTo(q)})
InReach == Ships # {} /\ DistanceTo(Nearest) < Reach

\* It snaps to one side of the nearest ship, whoever attached it.
Bug_AlwaysFront ==
    /\ isAttachedFront' = (carrier = None \/ ~isAttachedFront)
    /\ forceX' = IF isAttachedFront' THEN x[Nearest] + Offset ELSE x[Nearest] - Offset
    /\ carrier' = Nearest
    /\ UNCHANGED isAttached
Snap ==
    /\ isAttachedFront' = (forceX >= x[Nearest])
    /\ forceX' = IF isAttachedFront' THEN x[Nearest] + Offset ELSE x[Nearest] - Offset
    /\ carrier' = Nearest
    /\ UNCHANGED isAttached

FallOff ==
    /\ isAttached' = FALSE /\ carrier' = None
    /\ UNCHANGED <<forceX, isAttachedFront>>

Bug_DriftGrabs ==
    /\ \E step \in -1..1 : forceX' = IF forceX + step \in Position THEN forceX + step ELSE forceX
    /\ isAttached' = InReach /\ carrier' = None
    /\ UNCHANGED isAttachedFront
Drift ==
    /\ \E step \in -1..1 : forceX' = IF forceX + step \in Position THEN forceX + step ELSE forceX
    /\ carrier' = None
    /\ UNCHANGED <<isAttached, isAttachedFront>>

UpdateForceMovement ==
    /\ PassAt("Movement", "Shooting")
    /\ \/ isAttached /\ InReach /\ Snap
       \/ isAttached /\ ~InReach /\ FallOff
       \/ ~isAttached /\ Drift
    /\ UNCHANGED <<controls, x, _forceLastOwner, _forceShotState, fired, spent, relieved, pressed>>

\* Every control that carries the owner's id counts, also one of a ship that
\* has not heard of its client yet and carries 0.
OwnerAttacking == \E p \in Ships : controls[p].clientId = _forceLastOwner /\ controls[p].attack

\* The histories of a shooting pass.
Remembered(shoots, active) ==
    /\ spent' = IF shoots THEN spent \cup {_forceLastOwner} ELSE spent
    /\ relieved' = IF shoots THEN relieved \ {_forceLastOwner}
                   ELSE IF active /\ ~OwnerAttacking
                   THEN relieved \cup (spent \ {_forceLastOwner}) ELSE relieved

Bug_ShootsWhileHeld ==
    /\ PassAt("Shooting", "Transform")
    /\ LET active == isAttached \/ _forceLastOwner # None
           shoots == active /\ OwnerAttacking /\ (~_forceShotState \/ isAttached)
       IN  /\ fired' = IF shoots THEN _forceLastOwner ELSE None
           /\ _forceShotState' = IF active THEN OwnerAttacking ELSE _forceShotState
           /\ Remembered(shoots, active)
    /\ UNCHANGED <<controls, x, forceVars, _forceLastOwner, carrier, pressed>>

\* A force that is not attached shoots too, once it had an owner.
ForceShooting ==
    /\ PassAt("Shooting", "Transform")
    /\ LET active == isAttached \/ _forceLastOwner # None
           shoots == active /\ OwnerAttacking /\ ~_forceShotState
       IN  /\ fired' = IF shoots THEN _forceLastOwner ELSE None
           /\ _forceShotState' = IF active THEN OwnerAttacking ELSE _forceShotState
           /\ Remembered(shoots, active)
    /\ UNCHANGED <<controls, x, forceVars, _forceLastOwner, carrier, pressed>>

\* TransformSystem runs after ForceSystem; ships stay on the screen.
TransformSystem ==
    /\ PassAt("Transform", "Inputs")
    /\ x' \in [Player -> 1..(Width - 1)]
    /\ \A p \in Player : IF p \in Ships THEN x'[p] - x[p] \in -Speed..Speed ELSE x'[p] = x[p]
    /\ UNCHANGED <<controls, forceVars, _forceLastOwner, _forceShotState, carrier, fired, spent,
                   relieved, pressed>>

System == \/ RunSystems \/ ToggleForceAttachment \/ UpdateForceMovement \/ ForceShooting
          \/ TransformSystem

ForceNext ==
    \/ \E p \in Player : \/ Connect(p) \/ Disconnect(p)
                         \/ \E fKey, attack \in BOOLEAN : ControlReceived(p, fKey, attack)
    \/ System

ForceSpec == ForceInit /\ [][ForceNext]_allForceVars

\* The main loop never waits.
FairForceSpec == ForceSpec /\ WF_allForceVars(System)

-----------------------------------------------------------------------------
\* The force never shoots for number 0, which a ship has before its client's first
\* message, and a held attack is never counted for it.
ForceTypeOK ==
    /\ pass \in {"Inputs", "Toggle", "Movement", "Shooting", "Transform"}
    /\ controls \in [Player -> Control \cup {None}]
    /\ x \in [Player -> 1..(Width - 1)]
    /\ forceX \in Int /\ isAttached \in BOOLEAN /\ isAttachedFront \in BOOLEAN
    /\ _forceLastOwner \in 0..NumPlayers \cup {None} /\ _forceShotState \in BOOLEAN
    /\ carrier \in Player \cup {None} /\ fired \in Player \cup {None}
    /\ spent \subseteq Player /\ relieved \subseteq Player /\ pressed \subseteq Player

\* The force shoots only for a ship whose player has pressed F (or the player
\* of an earlier ship with that number).  A ship that has just joined comes
\* with F down and takes the force from its owner, but in the name of nobody.
ShootsForPresser == fired # None => fired \in pressed

\* A held attack gives one missile, however the force goes from owner to owner,
\* unless it was meanwhile with one who did not attack: the shot state is the
\* force's and not the player's, and that owner puts it back.
OneMissilePerPress ==
    [][pass = "Shooting" /\ fired' \in spent => fired' \in relieved]_allForceVars

\* A force that is carried on by the same ship stays on its side of it: a
\* ship cannot run through its force, since it moves less than the offset.
SideKept == [][carrier # None /\ carrier' = carrier => isAttachedFront' = isAttachedFront]_allForceVars

\* When the players leave F alone, the force ends attached or detached: it may
\* fall off, but nothing takes it back.
Settles == <>[](Pressing = {}) => (<>[]isAttached \/ <>[](~isAttached))
=============================================================================
