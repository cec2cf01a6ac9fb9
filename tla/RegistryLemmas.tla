--------------------------- MODULE RegistryLemmas ---------------------------
(***************************************************************************)
(* What the operations of the registry do to its type and to WellManaged,  *)
(* for every registry, component type and id.  Cited by the proofs about   *)
(* the registry and about the components that hold one.                    *)
(***************************************************************************)
EXTENDS RegistryOps, TLAPS, SequenceTheorems

(* Adding components changes the arrays of S at e and nothing else.        *)
LEMMA AddedFields ==
    ASSUME NEW reg \in RegistryType, NEW e \in Nat, NEW S
    PROVE  /\ Added(reg, e, S) \in RegistryType
           /\ Added(reg, e, S).nextEntityId = reg.nextEntityId
           /\ Added(reg, e, S).availableEntityIds = reg.availableEntityIds
           /\ Added(reg, e, S).registered = reg.registered
           /\ FreeIds(Added(reg, e, S)) = FreeIds(reg)
           /\ \A c \in Component \cap S :
                 Added(reg, e, S).componentsArray[c] = reg.componentsArray[c] \cup {e}
           /\ \A c \in Component \ S :
                 Added(reg, e, S).componentsArray[c] = reg.componentsArray[c]
  BY DEF RegistryType, Added, FreeIds

(* Adding to a live id keeps the registry well managed; adding to any id   *)
(* that exists does so if the types written are outside C.                 *)
LEMMA AddedWellManaged ==
    ASSUME NEW reg \in RegistryType, NEW C \in SUBSET Component,
           WellManaged(reg, C), NEW e \in Nat, NEW S,
           ValidIndex(reg, e), e \notin FreeIds(reg) \/ S \cap C = {}
    PROVE  WellManaged(Added(reg, e, S), C)
<1> DEFINE r == Added(reg, e, S)
<1>1. FreeDistinct(r)  BY AddedFields DEF WellManaged, FreeDistinct
<1>2. FreeValid(r)  BY AddedFields DEF WellManaged, FreeValid, ValidIndex
<1>3. /\ \A c \in C \cap S : r.componentsArray[c] = reg.componentsArray[c] \cup {e}
      /\ \A c \in C \ S : r.componentsArray[c] = reg.componentsArray[c]
  BY AddedFields
<1>4. FreeBare(r, C)
  <2> SUFFICES ASSUME NEW c \in C, NEW x \in FreeIds(reg)
               PROVE  x \notin r.componentsArray[c]
    BY AddedFields DEF FreeBare, Has
  <2>1. x \notin reg.componentsArray[c]  BY DEF WellManaged, FreeBare, Has
  <2>2. CASE c \in S  BY <1>3, <2>1, <2>2
  <2>3. CASE c \notin S  BY <1>3, <2>1, <2>3
  <2> QED  BY <2>2, <2>3
<1>5. ArraysValid(r, C)
  <2> SUFFICES ASSUME NEW c \in C, NEW x \in r.componentsArray[c]
               PROVE  x < reg.nextEntityId
    BY AddedFields DEF ArraysValid, ValidIndex
  <2>1. x \in reg.componentsArray[c] \/ x = e
    <3>1. CASE c \in S  BY <1>3, <3>1
    <3>2. CASE c \notin S  BY <1>3, <3>2
    <3> QED  BY <3>1, <3>2
  <2> QED  BY <2>1 DEF WellManaged, ArraysValid, ValidIndex
<1> QED  BY <1>1, <1>2, <1>4, <1>5 DEF WellManaged

LEMMA RemovedWellManaged ==
    ASSUME NEW reg \in RegistryType, NEW C \in SUBSET Component,
           WellManaged(reg, C), NEW e \in Nat, NEW c \in Component
    PROVE  /\ Removed(reg, e, c) \in RegistryType
           /\ WellManaged(Removed(reg, e, c), C)
           /\ Removed(reg, e, c).nextEntityId = reg.nextEntityId
           /\ FreeIds(Removed(reg, e, c)) = FreeIds(reg)
<1> DEFINE r == Removed(reg, e, c)
<1>1. /\ r \in RegistryType
      /\ r.nextEntityId = reg.nextEntityId
      /\ r.availableEntityIds = reg.availableEntityIds
      /\ \A d \in Component : r.componentsArray[d] \subseteq reg.componentsArray[d]
  BY DEF RegistryType, Removed
<1>2. FreeIds(r) = FreeIds(reg)  BY <1>1 DEF FreeIds
<1>3. FreeDistinct(r) /\ FreeValid(r)
  BY <1>1, <1>2 DEF WellManaged, FreeDistinct, FreeValid, ValidIndex
<1>4. FreeBare(r, C) /\ ArraysValid(r, C)
  BY <1>1, <1>2 DEF WellManaged, FreeBare, ArraysValid, ValidIndex, Has
<1> QED  BY <1>1, <1>2, <1>3, <1>4 DEF WellManaged

(* A spawned id was not live, exists and is not free afterwards, and has   *)
(* no component of C.                                                      *)
LEMMA SpawnedFields ==
    ASSUME NEW reg \in RegistryType, NEW C \in SUBSET Component,
           WellManaged(reg, C)
    PROVE  /\ Spawned(reg) \in RegistryType
           /\ SpawnedId(reg) \in Nat
           /\ ValidIndex(Spawned(reg), SpawnedId(reg))
           /\ SpawnedId(reg) \notin LiveIds(reg)
           /\ Spawned(reg).nextEntityId
                 = IF FreeIds(reg) = {} THEN reg.nextEntityId + 1
                                        ELSE reg.nextEntityId
           /\ FreeIds(reg) = {} => SpawnedId(reg) = reg.nextEntityId
           /\ Spawned(reg).registered = reg.registered
           /\ Spawned(reg).componentsArray = reg.componentsArray
           /\ FreeIds(Spawned(reg)) = FreeIds(reg) \ {SpawnedId(reg)}
           /\ \A c \in C : ~Has(reg, c, SpawnedId(reg))
           /\ WellManaged(Spawned(reg), C)
<1> DEFINE q == reg.availableEntityIds
           r == Spawned(reg)
           e == SpawnedId(reg)
<1>1. q \in Seq(Nat) /\ reg.nextEntityId \in Nat  BY DEF RegistryType
<1>2. CASE q = << >>
  <2>1. FreeIds(reg) = {}  BY <1>2 DEF FreeIds
  <2>2. /\ r \in RegistryType
        /\ r.availableEntityIds = q
        /\ r.componentsArray = reg.componentsArray
        /\ r.registered = reg.registered
        /\ r.nextEntityId = reg.nextEntityId + 1
    BY <1>1, <1>2 DEF Spawned, RegistryType
  <2>3. e = reg.nextEntityId  BY <1>2 DEF SpawnedId
  <2>4. FreeIds(r) = {}  BY <1>2, <2>2 DEF FreeIds
  <2>5. \A c \in C : ~Has(reg, c, e)
    BY <2>3, <1>1 DEF WellManaged, ArraysValid, ValidIndex, Has
  <2>6. e \notin LiveIds(reg)  BY <1>1, <2>3 DEF LiveIds
  <2>7. WellManaged(r, C)
    <3>1. FreeDistinct(r)  BY <2>2 DEF WellManaged, FreeDistinct
    <3>2. FreeValid(r) /\ FreeBare(r, C)  BY <2>4 DEF FreeValid, FreeBare
    <3>3. ArraysValid(r, C)
      BY <2>2, <1>1 DEF WellManaged, ArraysValid, ValidIndex, RegistryType
    <3> QED  BY <3>1, <3>2, <3>3 DEF WellManaged
  <2> QED  BY <1>1, <2>1, <2>2, <2>3, <2>4, <2>5, <2>6, <2>7 DEF ValidIndex
<1>3. CASE q # << >>
  <2>1. /\ Len(q) \in Nat /\ Len(q) > 0 /\ Len(Tail(q)) = Len(q) - 1
        /\ Tail(q) \in Seq(Nat)
        /\ \A i \in 1..Len(Tail(q)) : Tail(q)[i] = q[i + 1]
    BY <1>1, <1>3, HeadTailProperties, EmptySeq
  <2>2. /\ r \in RegistryType
        /\ r.availableEntityIds = Tail(q)
        /\ r.componentsArray = reg.componentsArray
        /\ r.registered = reg.registered
        /\ r.nextEntityId = reg.nextEntityId
    BY <1>1, <1>3, <2>1 DEF Spawned, RegistryType
  <2>3. e = q[1]  BY <1>1, <1>3 DEF SpawnedId
  <2>4. e \in FreeIds(reg) /\ e \in Nat
    BY <1>1, <2>1, <2>3, ElementOfSeq DEF FreeIds
  <2>5. \A i, j \in 1..Len(q) : q[i] = q[j] => i = j
    BY DEF WellManaged, FreeDistinct
  <2>6. FreeIds(r) = FreeIds(reg) \ {e}
    <3>1. ASSUME NEW x \in FreeIds(r) PROVE x \in FreeIds(reg) \ {e}
      <4>1. PICK i \in 1..Len(Tail(q)) : x = Tail(q)[i]
        BY <3>1, <2>2 DEF FreeIds
      <4>2. i + 1 \in 1..Len(q) /\ x = q[i + 1] /\ i + 1 # 1  BY <4>1, <2>1
      <4> QED  BY <4>2, <2>1, <2>3, <2>5 DEF FreeIds
    <3>2. ASSUME NEW x \in FreeIds(reg) \ {e} PROVE x \in FreeIds(r)
      <4>1. PICK i \in 1..Len(q) : x = q[i]  BY <3>2 DEF FreeIds
      <4>2. i # 1  BY <4>1, <3>2, <2>3
      <4>3. i - 1 \in 1..Len(Tail(q)) /\ Tail(q)[i - 1] = x  BY <4>1, <4>2, <2>1
      <4> QED  BY <4>3, <2>2 DEF FreeIds
    <3> QED  BY <3>1, <3>2
  <2>7. \A i, j \in 1..Len(Tail(q)) : Tail(q)[i] = Tail(q)[j] => i = j
    BY <2>1, <2>5
  <2>8. WellManaged(r, C)
    <3>1. FreeDistinct(r)  BY <2>2, <2>7 DEF FreeDistinct
    <3>2. FreeValid(r)  BY <2>2, <2>6 DEF WellManaged, FreeValid, ValidIndex
    <3>3. FreeBare(r, C)  BY <2>2, <2>6 DEF WellManaged, FreeBare, Has
    <3>4. ArraysValid(r, C)  BY <2>2 DEF WellManaged, ArraysValid, ValidIndex
    <3> QED  BY <3>1, <3>2, <3>3, <3>4 DEF WellManaged
  <2>9. \A c \in C : ~Has(reg, c, e)  BY <2>4 DEF WellManaged, FreeBare
  <2>10. ValidIndex(r, e)  BY <2>2, <2>4 DEF WellManaged, FreeValid, ValidIndex
  <2> QED  BY <2>2, <2>4, <2>6, <2>8, <2>9, <2>10 DEF LiveIds
<1> QED  BY <1>2, <1>3

(* Killing a live id frees it once and leaves it bare; the argument for    *)
(* FreeDistinct is the only place that needs the id to be live.            *)
LEMMA KilledFields ==
    ASSUME NEW reg \in RegistryType, NEW C \in SUBSET Component,
           WellManaged(reg, C), NEW e \in Nat,
           ValidIndex(reg, e), e \notin FreeIds(reg)
    PROVE  /\ Killed(reg, e) \in RegistryType
           /\ Killed(reg, e).nextEntityId = reg.nextEntityId
           /\ Killed(reg, e).registered = reg.registered
           /\ FreeIds(Killed(reg, e)) = FreeIds(reg) \cup {e}
           /\ \A c \in Component :
                 Killed(reg, e).componentsArray[c] = reg.componentsArray[c] \ {e}
           /\ WellManaged(Killed(reg, e), C)
<1> DEFINE q == reg.availableEntityIds
           p == Append(q, e)
           r == Killed(reg, e)
<1>1. q \in Seq(Nat) /\ reg.nextEntityId \in Nat  BY DEF RegistryType
<1>2. /\ p \in Seq(Nat) /\ Len(p) = Len(q) + 1 /\ Len(q) \in Nat
      /\ \A i \in 1..Len(q) : p[i] = q[i]
      /\ p[Len(q) + 1] = e
  BY <1>1, AppendProperties, LenProperties
<1>3. /\ r \in RegistryType
      /\ r.nextEntityId = reg.nextEntityId
      /\ r.availableEntityIds = p
      /\ r.registered = reg.registered
      /\ \A c \in Component : r.componentsArray[c] = reg.componentsArray[c] \ {e}
  BY <1>1, <1>2 DEF Killed, EntityComponentsErased, RegistryType
<1>4. FreeIds(r) = FreeIds(reg) \cup {e}
  <2>1. ASSUME NEW x \in FreeIds(r) PROVE x \in FreeIds(reg) \cup {e}
    <3>1. PICK i \in 1..Len(p) : x = p[i]  BY <2>1, <1>3 DEF FreeIds
    <3> QED  BY <3>1, <1>2 DEF FreeIds
  <2>2. ASSUME NEW x \in FreeIds(reg) PROVE x \in FreeIds(r)
    <3>1. PICK i \in 1..Len(q) : x = q[i]  BY <2>2 DEF FreeIds
    <3> QED  BY <3>1, <1>2, <1>3 DEF FreeIds
  <2>3. e \in FreeIds(r)  BY <1>2, <1>3 DEF FreeIds
  <2> QED  BY <2>1, <2>2, <2>3
<1>5. FreeDistinct(r)
  <2>1. \A i \in 1..Len(q) : q[i] # e  BY DEF FreeIds
  <2>2. \A i, j \in 1..Len(q) : q[i] = q[j] => i = j
    BY DEF WellManaged, FreeDistinct
  <2>3. ASSUME NEW i \in 1..Len(p), NEW j \in 1..Len(p), p[i] = p[j]
        PROVE  i = j
    <3> HIDE DEF p, q
    <3>1. CASE i \in 1..Len(q) /\ j \in 1..Len(q)  BY <1>2, <2>2, <2>3, <3>1
    <3>2. CASE i = Len(q) + 1 /\ j \in 1..Len(q)  BY <1>2, <2>1, <2>3, <3>2
    <3>3. CASE j = Len(q) + 1 /\ i \in 1..Len(q)  BY <1>2, <2>1, <2>3, <3>3
    <3>4. \A k \in 1..Len(p) : k \in 1..Len(q) \/ k = Len(q) + 1  BY <1>2
    <3> QED  BY <3>1, <3>2, <3>3, <3>4
  <2> QED  BY <2>3, <1>3 DEF FreeDistinct
<1>6. FreeValid(r)  BY <1>3, <1>4 DEF WellManaged, FreeValid, ValidIndex
<1>7. FreeBare(r, C)  BY <1>3, <1>4 DEF WellManaged, FreeBare, Has
<1>8. ArraysValid(r, C)  BY <1>3 DEF WellManaged, ArraysValid, ValidIndex
<1> QED  BY <1>3, <1>4, <1>5, <1>6, <1>7, <1>8 DEF WellManaged
=============================================================================
