------------------------------- MODULE Zipper -------------------------------
(***************************************************************************)
(* The registry of module Registry under the loop of nearly every system:  *)
(*     for (auto &&[i, a, b] : indexedZipper(as, bs)) body                 *)
(* over the entities that have a component in each of some sparse arrays   *)
(* (Zipper and indexedZipper differ only in the index they give away).     *)
(* The body spawns, changes and kills entities, among them the one it is   *)
(* looking at: the arrays change, grow and lose values under the iterator, *)
(* whose end was fixed when the loop began.                                *)
(***************************************************************************)
EXTENDS Registry

VARIABLES
    size,        \* of the array of each component type
    over,        \* the types whose arrays the loop goes over
    idx, max,    \* the iterator
    loop,        \* "idle", or "body" while the body runs for idx
    visited,     \* history: the indices the body has run for
    complete,    \* history: the indices that were complete when the loop began
    erased,      \* history: and the ones that lost a component since
    atStart      \* history: the largest of the sizes at that time

history == <<visited, complete, atStart>>
iterator == <<over, idx, max, loop, history>>
loopVars == <<registry, size, iterator, erased>>

LoopInit ==
    /\ Init
    /\ size = [c \in Component |-> 0]
    /\ over = {} /\ idx = 0 /\ max = 0 /\ loop = "idle"
    /\ visited = {} /\ complete = {} /\ erased = {} /\ atStart = 0

allSet(C, i) == \A c \in C : i < size[c] /\ Has(registry, c, i)

\* The index operator++ stops at, from i: the next complete one, or the end.
Bug_StopHere(C, i, end, j) ==
    /\ j \in i..end
    /\ \A k \in i..j - 1 : ~allSet(C, k)
    /\ j = end \/ allSet(C, j)
Stop(C, i, end, j) ==
    /\ j \in i + 1..end
    /\ \A k \in i + 1..j - 1 : ~allSet(C, k)
    /\ j = end \/ allSet(C, j)

\* The iterator is constructed at 0 and looks for the first complete index.
Bug_Start(C, end, j) == IF end = 0 THEN j = 0 ELSE Stop(C, 0, end, j)
Start(C, end, j) ==
    IF allSet(C, 0) \/ end = 0 THEN j = 0 ELSE Stop(C, 0, end, j)

\* The loop goes on with index j, or ends if that is the end.
Goes(seen, j, end) ==
    /\ idx' = j
    /\ loop' = IF j = end THEN "idle" ELSE "body"
    /\ visited' = IF j = end THEN seen ELSE seen \cup {j}

\* The largest of the sizes; begin() and end().
Begin(C) ==
    /\ loop = "idle"
    /\ \E end \in {size[c] : c \in C} :
          /\ \A c \in C : size[c] <= end
          /\ over' = C /\ max' = end
          /\ complete' = {i \in 0..end - 1 : allSet(C, i)}
          /\ erased' = {} /\ atStart' = end
          /\ \E j \in 0..end : Start(C, end, j) /\ Goes({}, j, end)
    /\ UNCHANGED <<registry, size>>

Bug_Advance ==
    /\ loop = "body"
    /\ \E end \in {size[c] : c \in over} \cup {max} :
          /\ end >= max /\ \A c \in over : size[c] <= end
          /\ max' = end
          /\ \E j \in 0..end : Stop(over, idx, end, j) /\ Goes(visited, j, end)
    /\ UNCHANGED <<registry, size, over, complete, erased, atStart>>
Advance ==
    /\ loop = "body"
    /\ \E j \in 0..max : Stop(over, idx, max, j) /\ Goes(visited, j, max)
    /\ UNCHANGED <<registry, size, over, max, complete, erased, atStart>>

-----------------------------------------------------------------------------
(* The steps of the registry, in a body or between two loops.               *)

\* insertAt, emplaceAt and operator[] make room for an index.
Grown(C, pos) ==
    [c \in Component |-> IF c \in C /\ size[c] <= pos THEN pos + 1 ELSE size[c]]

Spawn(S) ==
    /\ SpawnEntity(S)
    /\ size' = Grown(S, SpawnedId(registry))
    /\ UNCHANGED <<iterator, erased>>

Add(e, c, d) ==
    /\ AddComponent(e, c, d)
    /\ size' = Grown({d}, e)
    /\ UNCHANGED <<iterator, erased>>

\* The array of d is read at an index found in the array of c.
Access(e, c, d) ==
    /\ Has(registry, c, e)
    /\ size' = Grown({d}, e)
    /\ UNCHANGED <<registry, iterator, erased>>

Remove(e, c) ==
    /\ RemoveComponent(e, c)
    /\ erased' = erased \cup {e}
    /\ UNCHANGED <<size, iterator>>

Kill(e, c) ==
    /\ KillEntity(e, c)
    /\ erased' = erased \cup {e}
    /\ UNCHANGED <<size, iterator>>

LoopNext ==
    \/ \E c \in Component :
          RegisterComponent(c) /\ UNCHANGED <<size, iterator, erased>>
    \/ \E S \in SUBSET registry.registered :
          S # {} /\ (Spawn(S) \/ Begin(S))
    \/ \E e \in 0 .. registry.nextEntityId - 1, c \in registry.registered :
          \/ \E d \in registry.registered : Add(e, c, d) \/ Access(e, c, d)
          \/ Remove(e, c)
          \/ Kill(e, c)
    \/ Advance

LoopSpec == LoopInit /\ [][LoopNext]_loopVars

\* A body ends and its loop goes on.
FairLoopSpec == LoopSpec /\ WF_loopVars(Advance)

-----------------------------------------------------------------------------
(* The values of an array lie below its size, and the iterator within the   *)
(* size it found.                                                           *)
LoopTypeOK ==
    /\ size \in [Component -> Nat]
    /\ \A c \in Component : \A e \in registry.componentsArray[c] : e < size[c]
    /\ over \subseteq Component
    /\ idx \in Nat /\ max \in Nat /\ atStart \in Nat
    /\ loop \in {"idle", "body"}
    /\ visited \subseteq Nat /\ complete \subseteq Nat /\ erased \subseteq Nat

(* When the loop has ended, its body has run for every entity that had all  *)
(* the components from the beginning to the end, whatever the bodies before *)
(* it spawned, added and killed.                                            *)
NoneMissed == loop = "idle" => complete \ erased \subseteq visited

(* The body runs for no entity beyond the largest size at the start, so     *)
(* that a loop whose body spawns cannot feed itself.                        *)
EndStays == visited \subseteq 0..atStart - 1

(* The inductive invariant behind these: what was complete and is not       *)
(* erased is either visited or still complete and ahead of the iterator.    *)
ZipperInv ==
    /\ IdInv /\ LoopTypeOK
    /\ loop = "body" => idx < max /\ visited \subseteq 0..idx
    /\ EndStays /\ max = atStart /\ complete \subseteq 0..atStart - 1
    /\ \A i \in complete \ erased : allSet(over, i)
    /\ \A i \in complete \ erased : loop = "idle" \/ i <= idx => i \in visited

(* Every loop ends, though every body may spawn.                            *)
Ends == loop = "body" ~> loop = "idle"
=============================================================================
