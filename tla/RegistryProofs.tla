--------------------------- MODULE RegistryProofs ---------------------------
(***************************************************************************)
(* Proofs about the registry and about the loops over its arrays, for any  *)
(* component types and any number of entities.  IdInv is an invariant,     *)
(* hence recycled ids are distinct and bare, and the registry implements   *)
(* the entity pool: a kill needs a component at the entity; free ids have  *)
(* none; so the killed id is not yet in the queue, and after the kill the  *)
(* id is in the queue and has no component.  Zipper extends Registry and   *)
(* implements it, so it inherits IdInv.                                    *)
(***************************************************************************)
EXTENDS Zipper, RegistryLemmas

(* A step in terms of the operations: it registers a type, spawns, adds to  *)
(* or removes from an id, or kills an id that is live.                      *)
LEMMA SeenIsLive ==
    ASSUME IdInv, NEW e, NEW c \in Component, Has(registry, c, e)
    PROVE  e \in Nat /\ ValidIndex(registry, e) /\ e \notin FreeIds(registry)
  BY DEF IdInv, TypeOK, RegistryType, WellManaged, FreeBare, ArraysValid, Has

LEMMA RegisterStep ==
    ASSUME IdInv, NEW c \in Component, RegisterComponent(c)
    PROVE  IdInv' /\ UNCHANGED <<LiveIds(registry), registry.nextEntityId>>
<1>1. /\ registry' \in RegistryType
      /\ registry'.nextEntityId = registry.nextEntityId
      /\ registry'.availableEntityIds = registry.availableEntityIds
      /\ registry'.componentsArray = registry.componentsArray
  BY DEF IdInv, TypeOK, RegistryType, RegisterComponent, Register
<1>2. FreeIds(registry') = FreeIds(registry)  BY <1>1 DEF FreeIds
<1>3. WellManaged(registry', Component)
  BY <1>1, <1>2
  DEF IdInv, WellManaged, FreeDistinct, FreeValid, FreeBare, ArraysValid, Has, ValidIndex
<1> QED  BY <1>1, <1>2, <1>3 DEF IdInv, TypeOK, LiveIds

LEMMA AddStep ==
    ASSUME IdInv, NEW e, NEW c \in Component, NEW d \in Component,
           AddComponent(e, c, d)
    PROVE  IdInv' /\ UNCHANGED <<LiveIds(registry), registry.nextEntityId>>
<1>1. e \in Nat /\ ValidIndex(registry, e) /\ e \notin FreeIds(registry)
  BY SeenIsLive DEF AddComponent
<1>2. registry' = Added(registry, e, {d}) /\ registry \in RegistryType
  BY DEF AddComponent, IdInv, TypeOK
<1>3. WellManaged(registry', Component)
  BY <1>1, <1>2, AddedWellManaged DEF IdInv
<1> QED  BY <1>1, <1>2, <1>3, AddedFields DEF IdInv, TypeOK, LiveIds

LEMMA RemoveStep ==
    ASSUME IdInv, NEW e, NEW c \in Component, RemoveComponent(e, c)
    PROVE  IdInv' /\ UNCHANGED <<LiveIds(registry), registry.nextEntityId>>
<1>1. e \in Nat  BY SeenIsLive DEF RemoveComponent
<1>2. registry' = Removed(registry, e, c) /\ registry \in RegistryType
  BY DEF RemoveComponent, IdInv, TypeOK
<1> QED  BY <1>1, <1>2, RemovedWellManaged DEF IdInv, TypeOK, LiveIds

LEMMA SpawnStep ==
    ASSUME IdInv, NEW S, SpawnEntity(S)
    PROVE  /\ IdInv'
           /\ SpawnedId(registry) \notin LiveIds(registry)
           /\ SpawnedId(registry) < registry'.nextEntityId
           /\ LiveIds(registry)' = LiveIds(registry) \cup {SpawnedId(registry)}
           /\ registry'.nextEntityId
                 = IF FreeIds(registry) = {} THEN registry.nextEntityId + 1
                                             ELSE registry.nextEntityId
<1> DEFINE r == Spawned(registry)
           e == SpawnedId(registry)
<1>1. registry \in RegistryType /\ WellManaged(registry, Component)
  BY DEF IdInv, TypeOK
<1>2. registry' = Added(r, e, S)  BY DEF SpawnEntity
<1>3. /\ r \in RegistryType /\ e \in Nat /\ WellManaged(r, Component)
      /\ ValidIndex(r, e) /\ e \notin FreeIds(r) /\ e \notin LiveIds(registry)
      /\ FreeIds(r) = FreeIds(registry) \ {e}
      /\ FreeIds(registry) = {} => e = registry.nextEntityId
      /\ r.nextEntityId = IF FreeIds(registry) = {} THEN registry.nextEntityId + 1
                                                    ELSE registry.nextEntityId
  BY <1>1, SpawnedFields
<1>4. /\ registry' \in RegistryType
      /\ registry'.nextEntityId = r.nextEntityId
      /\ FreeIds(registry') = FreeIds(registry) \ {e}
  BY <1>2, <1>3, AddedFields
<1>5. WellManaged(registry', Component)  BY <1>2, <1>3, AddedWellManaged
<1>6. LiveIds(registry') = LiveIds(registry) \cup {e}
  <2>1. registry.nextEntityId \in Nat  BY <1>1 DEF RegistryType
  <2>2. CASE FreeIds(registry) = {}
    <3>1. 0 .. registry.nextEntityId = (0 .. registry.nextEntityId - 1)
                                          \cup {registry.nextEntityId}
      BY <2>1
    <3> QED  BY <2>1, <2>2, <3>1, <1>3, <1>4 DEF LiveIds
  <2>3. CASE FreeIds(registry) # {}
    <3>1. e \in 0 .. registry.nextEntityId - 1
      BY <2>1, <2>3, <1>3 DEF ValidIndex
    <3> QED  BY <2>3, <3>1, <1>3, <1>4 DEF LiveIds
  <2> QED  BY <2>2, <2>3
<1> QED  BY <1>3, <1>4, <1>5, <1>6 DEF IdInv, TypeOK, ValidIndex

LEMMA KillStep ==
    ASSUME IdInv, NEW e, NEW c \in Component, KillEntity(e, c)
    PROVE  /\ IdInv'
           /\ e \in LiveIds(registry)
           /\ LiveIds(registry)' = LiveIds(registry) \ {e}
           /\ registry'.nextEntityId = registry.nextEntityId
<1>1. e \in Nat /\ ValidIndex(registry, e) /\ e \notin FreeIds(registry)
  BY SeenIsLive DEF KillEntity
<1>2. /\ registry' = Killed(registry, e)
      /\ registry \in RegistryType /\ WellManaged(registry, Component)
  BY DEF KillEntity, IdInv, TypeOK
<1>3. /\ registry' \in RegistryType
      /\ registry'.nextEntityId = registry.nextEntityId
      /\ FreeIds(registry') = FreeIds(registry) \cup {e}
      /\ WellManaged(registry', Component)
  BY <1>1, <1>2, KilledFields
<1>4. registry.nextEntityId \in Nat  BY <1>2 DEF RegistryType
<1> QED  BY <1>1, <1>3, <1>4 DEF IdInv, TypeOK, LiveIds, ValidIndex

-----------------------------------------------------------------------------
LEMMA IdInvInit == Init => IdInv
<1>1. EmptyRegistry \in RegistryType  BY EmptySeq DEF EmptyRegistry, RegistryType
<1>2. FreeIds(EmptyRegistry) = {}  BY DEF EmptyRegistry, FreeIds
<1>3. WellManaged(EmptyRegistry, Component)
  <2>1. FreeDistinct(EmptyRegistry)
    BY EmptySeq DEF EmptyRegistry, FreeDistinct
  <2>2. FreeValid(EmptyRegistry) /\ FreeBare(EmptyRegistry, Component)
    BY <1>2 DEF FreeValid, FreeBare
  <2>3. ArraysValid(EmptyRegistry, Component)
    BY DEF EmptyRegistry, ArraysValid
  <2> QED  BY <2>1, <2>2, <2>3 DEF WellManaged
<1> QED  BY <1>1, <1>3 DEF Init, IdInv, TypeOK

LEMMA IdInvStep == IdInv /\ [Next]_vars => IdInv'
<1> SUFFICES ASSUME IdInv, [Next]_vars PROVE IdInv'  OBVIOUS
<1>1. CASE UNCHANGED vars  BY <1>1 DEF vars, IdInv, TypeOK
<1>2. registry.registered \subseteq Component
  BY DEF IdInv, TypeOK, RegistryType
<1>3. ASSUME NEW c \in Component, RegisterComponent(c) PROVE IdInv'
  BY <1>3, RegisterStep
<1>4. ASSUME NEW S, SpawnEntity(S) PROVE IdInv'  BY <1>4, SpawnStep
<1>5. ASSUME NEW e, NEW c \in Component, NEW d \in Component, AddComponent(e, c, d)
      PROVE  IdInv'
  BY <1>5, AddStep
<1>6. ASSUME NEW e, NEW c \in Component, RemoveComponent(e, c) PROVE IdInv'
  BY <1>6, RemoveStep
<1>7. ASSUME NEW e, NEW c \in Component, KillEntity(e, c) PROVE IdInv'
  BY <1>7, KillStep
<1> QED  BY <1>1, <1>2, <1>3, <1>4, <1>5, <1>6, <1>7 DEF Next

(* Whatever disciplined callers do, the ids of the registry stay well       *)
(* managed.                                                                 *)
THEOREM IdsWellManaged == Spec => []IdInv
  BY IdInvInit, IdInvStep, PTL DEF Spec

(* The registry keeps its type.                                             *)
THEOREM RegistryTypeCorrect == Spec => []TypeOK
<1>1. IdInv => TypeOK  BY DEF IdInv
<1> QED  BY <1>1, IdsWellManaged, PTL

(* No id is ever queued twice for reuse, and a recycled id starts without   *)
(* components (killEntity, spawnEntity).                                    *)
THEOREM IdsRecycledClean == Spec => []RecycledIdsClean
<1>1. IdInv => RecycledIdsClean  BY DEF IdInv, WellManaged, RecycledIdsClean
<1> QED  BY <1>1, IdsWellManaged, PTL

-----------------------------------------------------------------------------
(* Every id handed out is live exactly when none is free.                   *)
LEMMA AllLive ==
    ASSUME IdInv
    PROVE  (LiveIds(registry) = 0 .. registry.nextEntityId - 1)
               <=> (FreeIds(registry) = {})
<1>1. registry.nextEntityId \in Nat  BY DEF IdInv, TypeOK, RegistryType
<1>2. FreeIds(registry) \subseteq Nat
  BY ElementOfSeq DEF IdInv, TypeOK, RegistryType, FreeIds
<1>3. FreeIds(registry) \subseteq 0 .. registry.nextEntityId - 1
  BY <1>1, <1>2 DEF IdInv, WellManaged, FreeValid, ValidIndex
<1> QED  BY <1>3 DEF LiveIds

(* The registry implements the entity pool, so that at no time an id is     *)
(* shared by two live entities and ids stay below the largest number of     *)
(* entities that were live at one time.                                     *)
THEOREM RegistryImplementsPool == Spec => ImplementsPool
<1>1. Init => Pool!PoolInit
  BY DEF Init, EmptyRegistry, Pool!PoolInit, LiveIds
<1>2. IdInv /\ IdInv' /\ [Next]_vars => [Pool!PoolNext]_(Pool!poolVars)
  <2> SUFFICES ASSUME IdInv, [Next]_vars
               PROVE  Pool!PoolNext \/ UNCHANGED Pool!poolVars
    OBVIOUS
  <2>1. registry.registered \subseteq Component /\ registry.nextEntityId \in Nat
    BY DEF IdInv, TypeOK, RegistryType
  <2>2. CASE UNCHANGED vars  BY <2>2 DEF vars, Pool!poolVars
  <2>3. ASSUME NEW c \in Component, RegisterComponent(c)
        PROVE  UNCHANGED Pool!poolVars
    BY <2>3, RegisterStep DEF Pool!poolVars
  <2>4. ASSUME NEW S, SpawnEntity(S) PROVE Pool!PoolNext
    <3>1. SpawnedId(registry) \in 0 .. registry.nextEntityId
      BY <2>1, <2>4, SpawnStep, SpawnedFields DEF IdInv, TypeOK
    <3>2. Pool!PoolSpawn(SpawnedId(registry))
      BY <2>4, SpawnStep, AllLive DEF Pool!PoolSpawn
    <3> QED  BY <3>1, <3>2 DEF Pool!PoolNext
  <2>5. ASSUME NEW e, NEW c \in Component, NEW d \in Component, AddComponent(e, c, d)
        PROVE  UNCHANGED Pool!poolVars
    BY <2>5, AddStep DEF Pool!poolVars
  <2>6. ASSUME NEW e, NEW c \in Component, RemoveComponent(e, c)
        PROVE  UNCHANGED Pool!poolVars
    BY <2>6, RemoveStep DEF Pool!poolVars
  <2>7. ASSUME NEW e, NEW c \in Component, KillEntity(e, c) PROVE Pool!PoolNext
    <3>1. e \in 0 .. registry.nextEntityId  BY <2>1, <2>7, KillStep DEF LiveIds
    <3>2. Pool!PoolKill(e)  BY <2>7, KillStep DEF Pool!PoolKill
    <3> QED  BY <3>1, <3>2 DEF Pool!PoolNext
  <2> QED  BY <2>1, <2>2, <2>3, <2>4, <2>5, <2>6, <2>7 DEF Next
<1> QED  BY <1>1, <1>2, IdsWellManaged, PTL DEF Spec, ImplementsPool, Pool!PoolSpec

-----------------------------------------------------------------------------
(* Loops over the arrays.                                                  *)

(* Every step is one of the registry, or leaves the registry alone.         *)
LEMMA LoopNextOK == LoopNext => [Next]_vars
  BY DEF LoopNext, Next, vars, Spawn, Add, Access, Remove, Kill, Begin, Advance

(* No loop has begun.                                                       *)
LEMMA LoopInitOK == LoopInit => ZipperInv
<1> SUFFICES ASSUME LoopInit PROVE ZipperInv  OBVIOUS
<1>1. IdInv  BY IdInvInit DEF LoopInit
<1>2. \A c \in Component : registry.componentsArray[c] = {}
  BY DEF LoopInit, Init, EmptyRegistry
<1> QED  BY <1>1, <1>2 DEF LoopInit, ZipperInv, LoopTypeOK, EndStays

(* A loop that begins.                                                      *)
LEMMA BeginOK ==
    ASSUME ZipperInv, NEW C \in SUBSET Component, Begin(C)
    PROVE  ZipperInv'
<1>1. PICK end \in {size[c] : c \in C} :
         /\ \A c \in C : size[c] <= end
         /\ over' = C /\ max' = end
         /\ complete' = {i \in 0..end - 1 : allSet(C, i)}
         /\ erased' = {} /\ atStart' = end
         /\ \E j \in 0..end : Start(C, end, j) /\ Goes({}, j, end)
  BY DEF Begin
<1>2. PICK j \in 0..end :
         /\ Start(C, end, j)
         /\ idx' = j
         /\ loop' = IF j = end THEN "idle" ELSE "body"
         /\ visited' = IF j = end THEN {} ELSE {j}
  BY <1>1 DEF Goes
<1>3. UNCHANGED <<registry, size>>
  BY DEF Begin
<1>4. end \in Nat
  BY <1>1 DEF ZipperInv, LoopTypeOK
<1>5. \A i \in 0..end - 1 : allSet(C, i) /\ i < j => FALSE
  <2>1. CASE allSet(C, 0) \/ end = 0
    BY <2>1, <1>2, <1>4 DEF Start
  <2>2. CASE ~(allSet(C, 0) \/ end = 0)
    <3>1. Stop(C, 0, end, j)
      BY <2>2, <1>2 DEF Start
    <3>2. \A k \in 1..j - 1 : ~allSet(C, k)
      BY <3>1 DEF Stop
    <3>3. \A i \in 0..end - 1 : i < j => i = 0 \/ i \in 1..j - 1
      BY <1>4
    <3> QED BY <2>2, <3>2, <3>3
  <2> QED BY <2>1, <2>2
<1>6. IdInv'
  BY <1>3, IdInvStep DEF vars, ZipperInv
<1>7. LoopTypeOK'
  BY <1>1, <1>2, <1>3, <1>4 DEF ZipperInv, LoopTypeOK
<1>8. (loop = "body" => idx < max /\ visited \subseteq 0..idx)'
  BY <1>1, <1>2, <1>4
<1>9. (EndStays /\ max = atStart /\ complete \subseteq 0..atStart - 1)'
  BY <1>1, <1>2, <1>4 DEF EndStays
<1>10. (\A i \in complete \ erased : allSet(over, i))'
  BY <1>1, <1>3 DEF allSet
<1>11. (\A i \in complete \ erased : loop = "idle" \/ i <= idx => i \in visited)'
  <2> SUFFICES ASSUME NEW i \in complete' \ erased', loop' = "idle" \/ i <= idx'
               PROVE  i \in visited'
    OBVIOUS
  <2>1. i \in 0..end - 1 /\ allSet(C, i)
    BY <1>1
  <2>2. ~(i < j)
    BY <2>1, <1>5
  <2> QED BY <2>1, <2>2, <1>2, <1>4
<1> QED BY <1>6, <1>7, <1>8, <1>9, <1>10, <1>11 DEF ZipperInv

(* A loop that goes on.                                                     *)
LEMMA AdvanceOK == ASSUME ZipperInv, Advance PROVE ZipperInv'
<1>1. PICK j \in 0..max : Stop(over, idx, max, j) /\ Goes(visited, j, max)
  BY DEF Advance
<1>2. loop = "body" /\ UNCHANGED <<registry, size, over, max, complete, erased, atStart>>
  BY DEF Advance
<1>3. /\ idx' = j
      /\ loop' = IF j = max THEN "idle" ELSE "body"
      /\ visited' = IF j = max THEN visited ELSE visited \cup {j}
  BY <1>1 DEF Goes
<1>4. j \in idx + 1..max /\ \A k \in idx + 1..j - 1 : ~allSet(over, k)
  BY <1>1 DEF Stop
<1>5. IdInv'
  BY <1>2, IdInvStep DEF vars, ZipperInv
<1>6. LoopTypeOK'
  BY <1>2, <1>3, <1>4 DEF ZipperInv, LoopTypeOK
<1>7. (loop = "body" => idx < max /\ visited \subseteq 0..idx)'
  BY <1>2, <1>3, <1>4 DEF ZipperInv, LoopTypeOK
<1>8. (EndStays /\ max = atStart /\ complete \subseteq 0..atStart - 1)'
  BY <1>2, <1>3, <1>4 DEF ZipperInv, EndStays, LoopTypeOK
<1>9. (\A i \in complete \ erased : allSet(over, i))'
  BY <1>2 DEF ZipperInv, allSet
<1>10. (\A i \in complete \ erased : loop = "idle" \/ i <= idx => i \in visited)'
  <2> SUFFICES ASSUME NEW i \in complete \ erased, loop' = "idle" \/ i <= j
               PROVE  i \in visited'
    BY <1>2, <1>3
  <2>1. i \in 0..max - 1 /\ allSet(over, i)
    BY DEF ZipperInv
  <2>2. CASE i <= idx
    BY <2>2, <1>3 DEF ZipperInv
  <2>3. CASE i > idx
    <3>1. i \notin idx + 1..j - 1
      BY <2>1, <1>4
    <3>2. i >= j
      BY <3>1, <2>1, <2>3, <1>4 DEF ZipperInv, LoopTypeOK
    <3> QED BY <3>2, <1>3, <2>1 DEF ZipperInv, LoopTypeOK
  <2> QED BY <2>1, <2>2, <2>3 DEF ZipperInv, LoopTypeOK
<1> QED BY <1>5, <1>6, <1>7, <1>8, <1>9, <1>10 DEF ZipperInv

(* What the steps of the registry have in common: arrays only grow, and a   *)
(* component that is lost is recorded as such.                              *)
LEMMA BodyOK ==
    ASSUME ZipperInv, IdInv', UNCHANGED iterator,
           size' \in [Component -> Nat], erased' \subseteq Nat,
           erased \subseteq erased',
           \A c \in Component : size[c] <= size'[c],
           \A c \in Component : \A e \in registry'.componentsArray[c] : e < size'[c],
           \A c \in Component : \A e \in registry.componentsArray[c] \ erased' :
              e \in registry'.componentsArray[c]
    PROVE  ZipperInv'
<1>1. UNCHANGED <<over, idx, max, loop, visited, complete, atStart>>
  BY DEF iterator, history
<1>2. LoopTypeOK'
  BY <1>1 DEF ZipperInv, LoopTypeOK
<1>3. (\A i \in complete \ erased : allSet(over, i))'
  <2> SUFFICES ASSUME NEW i \in complete \ erased', NEW c \in over
               PROVE  i < size'[c] /\ i \in registry'.componentsArray[c]
    BY <1>1 DEF allSet, Has
  <2>1. c \in Component /\ i < size[c] /\ i \in registry.componentsArray[c] /\ i \in Nat
    BY DEF ZipperInv, LoopTypeOK, allSet, Has
  <2> QED BY <2>1 DEF ZipperInv, LoopTypeOK
<1>4. (loop = "body" => idx < max /\ visited \subseteq 0..idx)'
  BY <1>1 DEF ZipperInv
<1>5. (EndStays /\ max = atStart /\ complete \subseteq 0..atStart - 1)'
  BY <1>1 DEF ZipperInv, EndStays
<1>6. (\A i \in complete \ erased : loop = "idle" \/ i <= idx => i \in visited)'
  BY <1>1 DEF ZipperInv
<1> QED BY <1>2, <1>3, <1>4, <1>5, <1>6 DEF ZipperInv

(* Room for an index, and what was there before.                            *)
LEMMA GrownOK ==
    ASSUME LoopTypeOK, NEW C \in SUBSET Component, NEW pos \in Nat
    PROVE  /\ Grown(C, pos) \in [Component -> Nat]
           /\ \A c \in Component : size[c] <= Grown(C, pos)[c]
           /\ \A c \in C : pos < Grown(C, pos)[c]
<1>1. ASSUME NEW c \in Component
      PROVE  /\ Grown(C, pos)[c] \in Nat
             /\ size[c] <= Grown(C, pos)[c]
             /\ c \in C => pos < Grown(C, pos)[c]
  <2>1. size[c] \in Nat
    BY DEF LoopTypeOK
  <2>2. Grown(C, pos)[c] = IF c \in C /\ size[c] <= pos THEN pos + 1 ELSE size[c]
    BY DEF Grown
  <2> QED BY <2>1, <2>2
<1>2. Grown(C, pos) = [c \in Component |-> Grown(C, pos)[c]]
  BY DEF Grown
<1> QED BY <1>1, <1>2

(* A step of anything keeps the invariant.                                  *)
LEMMA LoopStepOK == ASSUME ZipperInv, [LoopNext]_loopVars PROVE ZipperInv'
<1>1. IdInv'
  BY LoopNextOK, IdInvStep DEF ZipperInv, loopVars, vars
<1>2. IdInv /\ LoopTypeOK /\ registry \in RegistryType /\ registry.registered \subseteq Component
  BY DEF ZipperInv, IdInv, TypeOK, RegistryType
<1>3. ASSUME NEW c \in Component, RegisterComponent(c), UNCHANGED <<size, iterator, erased>>
      PROVE  ZipperInv'
  <2>1. registry'.componentsArray = registry.componentsArray
    BY <1>2, <1>3 DEF RegisterComponent, Register, RegistryType
  <2> QED BY <1>1, <1>2, <1>3, <2>1, BodyOK DEF LoopTypeOK
<1>4. ASSUME NEW S \in SUBSET Component, Spawn(S) PROVE ZipperInv'
  <2> DEFINE e == SpawnedId(registry)
  <2>1. e \in Nat /\ Spawned(registry).componentsArray = registry.componentsArray
    <3>1. e \in Nat
      BY <1>2, SpawnedFields DEF IdInv
    <3> QED BY <1>2, <3>1 DEF Spawned, RegistryType
  <2>2. \A c \in Component : registry'.componentsArray[c] =
             IF c \in S THEN registry.componentsArray[c] \cup {e}
                        ELSE registry.componentsArray[c]
    <3>1. Spawned(registry) \in RegistryType
      BY <1>2, SpawnedFields DEF IdInv
    <3> QED BY <1>4, <2>1, <3>1 DEF Spawn, SpawnEntity, Added, RegistryType
  <2>3. size' = Grown(S, e) /\ UNCHANGED <<iterator, erased>>
    BY <1>4 DEF Spawn
  <2> HIDE DEF e
  <2>4. \A c \in Component : \A i \in registry'.componentsArray[c] : i < size'[c]
    <3> SUFFICES ASSUME NEW c \in Component, NEW i \in registry'.componentsArray[c]
                 PROVE  i < size'[c]
      OBVIOUS
    <3>1. size[c] \in Nat /\ size'[c] \in Nat /\ size[c] <= size'[c]
      BY <1>2, <2>1, <2>3, GrownOK DEF LoopTypeOK
    <3>2. c \in S => e < size'[c]
      BY <1>2, <2>1, <2>3, GrownOK
    <3>3. i \in registry.componentsArray[c] => i \in Nat /\ i < size[c]
      BY <1>2 DEF LoopTypeOK, RegistryType
    <3>4. i \in registry.componentsArray[c] \/ (c \in S /\ i = e)
      BY <2>2
    <3> QED BY <3>1, <3>2, <3>3, <3>4
  <2> QED BY <1>1, <1>2, <2>1, <2>2, <2>3, <2>4, GrownOK, BodyOK DEF LoopTypeOK
<1>5. ASSUME NEW e, NEW c \in Component, NEW d \in Component, Add(e, c, d) \/ Access(e, c, d)
      PROVE  ZipperInv'
  <2>1. e \in Nat
    BY <1>2, <1>5, SeenIsLive DEF Add, Access, AddComponent
  <2>2. \A b \in Component :
           /\ registry.componentsArray[b] \subseteq registry'.componentsArray[b]
           /\ registry'.componentsArray[b] \subseteq registry.componentsArray[b]
                 \cup (IF b = d THEN {e} ELSE {})
    BY <1>2, <1>5 DEF Add, Access, AddComponent, Added, RegistryType
  <2>3. size' = Grown({d}, e) /\ UNCHANGED <<iterator, erased>>
    BY <1>5 DEF Add, Access
  <2>4. \A b \in Component : \A i \in registry'.componentsArray[b] : i < size'[b]
    <3> SUFFICES ASSUME NEW b \in Component, NEW i \in registry'.componentsArray[b]
                 PROVE  i < size'[b]
      OBVIOUS
    <3>1. size[b] \in Nat /\ size'[b] \in Nat /\ size[b] <= size'[b]
      BY <1>2, <2>1, <2>3, GrownOK DEF LoopTypeOK
    <3>2. b = d => e < size'[b]
      BY <1>2, <2>1, <2>3, GrownOK
    <3>3. i \in registry.componentsArray[b] => i \in Nat /\ i < size[b]
      BY <1>2 DEF LoopTypeOK, RegistryType
    <3> QED BY <2>2, <3>1, <3>2, <3>3
  <2> QED BY <1>1, <1>2, <2>1, <2>2, <2>3, <2>4, GrownOK, BodyOK DEF LoopTypeOK
<1>6. ASSUME NEW e, NEW c \in Component, Remove(e, c) \/ Kill(e, c) PROVE ZipperInv'
  <2>1. e \in Nat
    BY <1>2, <1>6, SeenIsLive DEF Remove, Kill, RemoveComponent, KillEntity
  <2>2. ASSUME NEW b \in Component
        PROVE  /\ registry'.componentsArray[b] \subseteq registry.componentsArray[b]
               /\ registry.componentsArray[b] \ {e} \subseteq registry'.componentsArray[b]
    <3>1. CASE Remove(e, c)
      <4>1. registry' = Removed(registry, e, c)
        BY <3>1 DEF Remove, RemoveComponent
      <4>2. registry'.componentsArray[b] =
              IF b = c THEN registry.componentsArray[b] \ {e} ELSE registry.componentsArray[b]
        BY <1>2, <4>1 DEF Removed, RegistryType
      <4> QED BY <4>2
    <3>2. CASE Kill(e, c)
      <4>1. registry' = Killed(registry, e)
        BY <3>2 DEF Kill, KillEntity
      <4>2. registry'.componentsArray[b] = registry.componentsArray[b] \ {e}
        BY <1>2, <4>1 DEF Killed, EntityComponentsErased, RegistryType
      <4> QED BY <4>2
    <3> QED BY <1>6, <3>1, <3>2
  <2>3. erased' = erased \cup {e} /\ UNCHANGED <<size, iterator>>
    BY <1>6 DEF Remove, Kill
  <2>4. \A b \in Component : size[b] <= size'[b]
    BY <1>2, <2>3 DEF LoopTypeOK
  <2>5. \A b \in Component : \A i \in registry'.componentsArray[b] : i < size'[b]
    BY <1>2, <2>2, <2>3 DEF LoopTypeOK
  <2>6. \A b \in Component : \A i \in registry.componentsArray[b] \ erased' :
            i \in registry'.componentsArray[b]
    BY <2>2, <2>3
  <2> QED BY <1>1, <1>2, <2>1, <2>3, <2>4, <2>5, <2>6, BodyOK DEF LoopTypeOK
<1>7. ASSUME NEW C \in SUBSET Component, Begin(C) PROVE ZipperInv'
  BY <1>7, BeginOK
<1>8. CASE Advance
  BY <1>8, AdvanceOK
<1>9. CASE UNCHANGED loopVars
  BY <1>1, <1>9 DEF loopVars, iterator, history, ZipperInv, LoopTypeOK, EndStays, allSet
<1> QED
  BY <1>2, <1>3, <1>4, <1>5, <1>6, <1>7, <1>8, <1>9 DEF LoopNext

-----------------------------------------------------------------------------
(* Loops do to a registry only what disciplined callers do, so that the     *)
(* theorems of RegistryProofs hold of it.                                   *)
THEOREM LoopsKeepDiscipline == LoopSpec => Spec
<1>1. LoopInit => Init
  BY DEF LoopInit
<1>2. [LoopNext]_loopVars => [Next]_vars
  BY LoopNextOK DEF loopVars, vars
<1> QED BY <1>1, <1>2, PTL DEF LoopSpec, Spec

(* No loop of the game misses an entity that has all the components from    *)
(* its beginning to its end, whatever its bodies spawn and kill             *)
(* (operator++).                                                            *)
THEOREM ZipperMissesNone == LoopSpec => []NoneMissed
<1>1. ZipperInv => NoneMissed
  BY DEF ZipperInv, NoneMissed
<1> QED BY LoopInitOK, LoopStepOK, <1>1, PTL DEF LoopSpec

(* No loop goes on to what its own bodies append to the arrays              *)
(* (indexedZipper::end).                                                    *)
THEOREM ZipperEndStays == LoopSpec => []EndStays
<1>1. ZipperInv => EndStays
  BY DEF ZipperInv
<1> QED BY LoopInitOK, LoopStepOK, <1>1, PTL DEF LoopSpec
=============================================================================
