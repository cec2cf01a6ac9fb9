------------------------------ MODULE Registry ------------------------------
(***************************************************************************)
(* The life of one ECS::Registry, driven by callers that keep the          *)
(* discipline of the game's systems: an entity is spawned and given its    *)
(* components in one go, and it is killed only by a system that found it   *)
(* by one of its components (every call of killEntity in ecs/systems is    *)
(* under such a test).  The registry itself checks nothing: killEntity of  *)
(* an id that is already free would put it in the queue twice.             *)
(***************************************************************************)
EXTENDS RegistryOps

CONSTANT
    MaxEntities   \* bound on the ids handed out (size_t in the code)

ASSUME BoundAssumption == MaxEntities \in Nat

VARIABLE registry

vars == registry

Init == registry = EmptyRegistry

RegisterComponent(c) ==
    /\ c \notin registry.registered
    /\ registry' = Register(registry, c)

\* A spawner: spawnEntity, then addComponent once per component type of S.
SpawnEntity(S) ==
    /\ SpawnedId(registry) < MaxEntities
    /\ registry' = Added(Spawned(registry), SpawnedId(registry), S)

\* A system that iterates the array of c adds component d to what it finds.
AddComponent(e, c, d) ==
    /\ Has(registry, c, e)
    /\ registry' = Added(registry, e, {d})

RemoveComponent(e, c) ==
    /\ Has(registry, c, e)
    /\ registry' = Removed(registry, e, c)

\* A system that iterates the array of c kills an entity it finds there.
KillEntity(e, c) ==
    /\ Has(registry, c, e)
    /\ registry' = Killed(registry, e)

Next ==
    \/ \E c \in Component : RegisterComponent(c)
    \/ \E S \in SUBSET registry.registered : S # {} /\ SpawnEntity(S)
    \/ \E e \in 0 .. registry.nextEntityId - 1, c \in registry.registered :
          \/ \E d \in registry.registered : AddComponent(e, c, d)
          \/ RemoveComponent(e, c)
          \/ KillEntity(e, c)

Spec == Init /\ [][Next]_vars

-----------------------------------------------------------------------------
(* The registry is a record of an id counter, a queue of ids and one set of *)
(* ids per registered component type (the private members of Registry).     *)
TypeOK == registry \in RegistryType

(* No id waits twice in availableEntityIds, or two later spawns would       *)
(* return the same entity; and an entity that waits there has no component  *)
(* left, so that a spawned entity starts blank and no system acts on a dead *)
(* one.  killEntity checks neither: the first holds because of the second,  *)
(* since a second kill would have to find the entity by a component.        *)
RecycledIdsClean == FreeDistinct(registry) /\ FreeBare(registry, Component)

(* The inductive invariant: what is live and what is queued are valid ids.  *)
IdInv == TypeOK /\ WellManaged(registry, Component)

(* The queue and the counter implement the abstract pool: recycled ids are  *)
(* free ids, and the counter moves only when every id is live.              *)
Pool == INSTANCE EntityPool
        WITH live <- LiveIds(registry), peak <- registry.nextEntityId

ImplementsPool == Pool!PoolSpec
=============================================================================
