---------------------------- MODULE RegistryOps ----------------------------
(***************************************************************************)
(* The operations of ECS::Registry (ecs/include/Registry.hpp) and of the   *)
(* one function of the network protocol that writes through it             *)
(* (Protocol::updateRegistry), as operators from a registry to the         *)
(* registry the call leaves behind.                                        *)
(*                                                                         *)
(* A registry is a record:                                                 *)
(*   nextEntityId        the first id never handed out;                    *)
(*   availableEntityIds  the queue of killed ids, oldest first;            *)
(*   registered          the component types that have an array;           *)
(*   componentsArray     for each component type, the set of entity ids    *)
(*                       whose optional holds a value.                     *)
(* The values of the components are the business of the modules that need  *)
(* them.                                                                   *)
(*                                                                         *)
(* Here and in the other modules, Bug_X is a wrong version of the          *)
(* definition that follows it, kept to show that the runs would notice; no *)
(* specification uses one.                                                 *)
(***************************************************************************)
EXTENDS Naturals, Sequences

CONSTANT Component   \* the component types

RegistryType ==
    [nextEntityId : Nat,
     availableEntityIds : Seq(Nat),
     registered : SUBSET Component,
     componentsArray : [Component -> SUBSET Nat]]

EmptyRegistry ==
    [nextEntityId |-> 0,
     availableEntityIds |-> << >>,
     registered |-> {},
     componentsArray |-> [c \in Component |-> {}]]

FreeIds(reg) ==
    {reg.availableEntityIds[i] : i \in 1..Len(reg.availableEntityIds)}

\* The ids handed out and not killed since.
LiveIds(reg) == (0 .. reg.nextEntityId - 1) \ FreeIds(reg)

Has(reg, c, e) == e \in reg.componentsArray[c]

\* entityFromIndex throws for an index that was never handed out; it does not
\* look at availableEntityIds.
ValidIndex(reg, e) == e < reg.nextEntityId

\* registerComponent, after the check that throws for a second registration.
Register(reg, c) == [reg EXCEPT !.registered = @ \cup {c}]

\* The id spawnEntity returns, and the registry it leaves.
SpawnedId(reg) ==
    IF reg.availableEntityIds # << >> THEN Head(reg.availableEntityIds)
                                      ELSE reg.nextEntityId

Bug_CounterAlwaysMoves(reg) ==
    IF reg.availableEntityIds # << >>
    THEN [reg EXCEPT !.availableEntityIds = Tail(@), !.nextEntityId = @ + 1]
    ELSE [reg EXCEPT !.nextEntityId = @ + 1]
Spawned(reg) ==
    IF reg.availableEntityIds # << >>
    THEN [reg EXCEPT !.availableEntityIds = Tail(@)]
    ELSE [reg EXCEPT !.nextEntityId = @ + 1]

\* addComponent / emplaceComponent, once for every component type of S: the
\* array grows as needed and nobody asks whether the id is live.
Added(reg, e, S) ==
    [reg EXCEPT !.componentsArray =
        [c \in Component |-> IF c \in S THEN @[c] \cup {e} ELSE @[c]]]

Removed(reg, e, c) == [reg EXCEPT !.componentsArray[c] = @ \ {e}]

EntityComponentsErased(reg, e) ==
    [reg EXCEPT !.componentsArray = [c \in Component |-> @[c] \ {e}]]

\* killEntity pushes the id without asking whether it is already free.
Bug_ComponentsKept(reg, e) == [reg EXCEPT !.availableEntityIds = Append(@, e)]
Killed(reg, e) ==
    EntityComponentsErased(
        [reg EXCEPT !.availableEntityIds = Append(@, e)], e)

\* The loop of updateRegistry that spawns until the id exists: it pops every
\* free id before nextEntityId moves.
SpawnedUpTo(reg, e) ==
    IF e < reg.nextEntityId
    THEN reg
    ELSE [reg EXCEPT !.availableEntityIds = << >>, !.nextEntityId = e + 1]

Updated(reg, e, c) == Added(SpawnedUpTo(reg, e), e, {c})

-----------------------------------------------------------------------------
(***************************************************************************)
(* What the callers of a registry rely on, for the component types C that  *)
(* only the program itself writes (a message from the network may write a  *)
(* component to any id).                                                   *)
(***************************************************************************)
\* No id waits twice in the queue.
FreeDistinct(reg) ==
    \A i, j \in 1..Len(reg.availableEntityIds) :
        reg.availableEntityIds[i] = reg.availableEntityIds[j] => i = j

\* Every id in the queue was handed out before.
FreeValid(reg) == \A e \in FreeIds(reg) : ValidIndex(reg, e)

\* An id in the queue has no component.
FreeBare(reg, C) ==
    \A c \in C : \A e \in FreeIds(reg) : ~Has(reg, c, e)

\* Only ids that were handed out have components.
ArraysValid(reg, C) ==
    \A c \in C : \A e \in reg.componentsArray[c] : ValidIndex(reg, e)

WellManaged(reg, C) ==
    /\ FreeDistinct(reg)
    /\ FreeValid(reg)
    /\ FreeBare(reg, C)
    /\ ArraysValid(reg, C)
=============================================================================
