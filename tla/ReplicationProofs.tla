-------------------------- MODULE ReplicationProofs --------------------------
(***************************************************************************)
(* Proofs about Replication, for any number of clients, any bound on the   *)
(* channels and any part of the messages a frame handles, as long as the   *)
(* ids of entities fit a byte (MaxEntities <= Byte): the wire cuts them.   *)
(*                                                                         *)
(* The argument looks at what the messages on their way WILL make of a     *)
(* client's registry, not at what it holds: a frame of the client changes  *)
(* nothing of that but the controls of its own ship, and a frame of the    *)
(* server makes it agree with its world.  Since nothing is said of what is *)
(* gone, what a client shows must be tracked to the frame that hid it.     *)
(*                                                                         *)
(* Ascending and WrittenAll are recursive functions.  What they compute is *)
(* proved by induction over sets of numbers (LeastNumber, Induction).      *)
(*                                                                         *)
(* And proofs about Serialization, the bytes of a component in a message,  *)
(* for any lengths of strings and bytes of values: where each field lies,  *)
(* where the reader is when it takes it, and that it is never ahead.       *)
(***************************************************************************)
EXTENDS Replication, Serialization, SequenceTheorems, WellFoundedInduction, TLAPS

(* Induction over data, for sets of numbers: a set of numbers has a least  *)
(* one.                                                                    *)
LEMMA LeastNumber ==
    ASSUME NEW T, T \subseteq Nat, T # {}
    PROVE  \E n \in T : \A m \in T : n <= m
<1> DEFINE R == OpToRel(<, Nat)
<1>1. IsWellFoundedOn(R, Nat)
  BY NatLessThanWellFounded
<1>2. \A m, n \in Nat : m < n => <<m, n>> \in R
  BY DEF OpToRel
<1> HIDE DEF R
<1>3. PICK n \in T : \A m \in T : ~(<<m, n>> \in R)
  BY <1>1, WFMin
<1>4. ASSUME NEW m \in T PROVE n <= m
  <2>1. m \in Nat /\ n \in Nat /\ ~(<<m, n>> \in R)
    BY <1>3
  <2>2. ~(m < n)
    BY <1>2, <2>1
  <2> QED BY <2>1, <2>2
<1> QED BY <1>4

(* What holds at 0 and is passed on holds up to n.                         *)
LEMMA Induction ==
    ASSUME NEW n \in Nat, NEW T, 0 \in T, \A i \in 1..n : i - 1 \in T => i \in T
    PROVE  0..n \subseteq T
<1> DEFINE B == {i \in 0..n : i \notin T}
<1>1. SUFFICES ASSUME B # {} PROVE FALSE
  OBVIOUS
<1>2. PICK k \in B : \A m \in B : k <= m
  <2>1. B \subseteq Nat
    OBVIOUS
  <2> HIDE DEF B
  <2> QED BY <1>1, <2>1, LeastNumber
<1>3. k \in 0..n /\ k \notin T /\ k # 0
  BY <1>2
<1>4. k - 1 \in 0..n /\ k \in 1..n
  BY <1>3
<1>5. k - 1 \in T
  BY <1>2, <1>4
<1> QED BY <1>3, <1>4, <1>5

(* f is what n steps make of a, step i by the function D[i].                *)
Unfolds(f, n, a, D) == f[0] = a /\ \A i \in 1..n : f[i] = D[i][f[i - 1]]

(* There is a function that does n steps.                                  *)
LEMMA RecursionExists ==
    ASSUME NEW n \in Nat, NEW S, NEW a \in S, NEW D \in [1..n -> [S -> S]]
    PROVE  \E f \in [0..n -> S] : Unfolds(f, n, a, D)
<1> DEFINE T == {k \in 0..n : \E f \in [0..k -> S] : Unfolds(f, k, a, D)}
<1>1. 0 \in T
  <2> DEFINE g == [i \in 0..0 |-> a]
  <2>1. g \in [0..0 -> S] /\ Unfolds(g, 0, a, D) /\ 0 \in 0..n
    BY DEF Unfolds
  <2> HIDE DEF g
  <2> QED BY <2>1
<1>2. ASSUME NEW k \in 1..n, k - 1 \in T PROVE k \in T
  <2>1. PICK f \in [0..k - 1 -> S] : Unfolds(f, k - 1, a, D)
    BY <1>2
  <2> DEFINE g == [i \in 0..k |-> IF i = k THEN D[k][f[k - 1]] ELSE f[i]]
  <2>2. g \in [0..k -> S] /\ k \in 0..n
    OBVIOUS
  <2>3. Unfolds(g, k, a, D)
    BY <2>1 DEF Unfolds
  <2> HIDE DEF g
  <2> QED BY <2>2, <2>3
<1>3. n \in T
  <2> HIDE DEF T
  <2>1. 0..n \subseteq T
    BY <1>1, <1>2, Induction
  <2> QED BY <2>1
<1> QED BY <1>3

(* The recursion of Ascending has a solution, which CHOOSE takes.          *)
LEMMA AscendingSteps ==
    ASSUME NEW ids
    PROVE  \E f \in [0..MaxEntities -> Seq(Nat)] :
              /\ f[0] = << >> /\ Ascending(ids) = f[MaxEntities]
              /\ \A n \in 1..MaxEntities :
                    f[n] = IF n - 1 \in ids THEN Append(f[n - 1], n - 1) ELSE f[n - 1]
<1>0. MaxEntities \in Nat
  BY ReplicationAssumption
<1>1. PICK S, empty : S = Seq(Nat) /\ empty = << >>
  OBVIOUS
<1> DEFINE Rec(g) == g = [n \in 0..MaxEntities |->
                     IF n = 0 THEN empty
                     ELSE IF n - 1 \in ids THEN Append(g[n - 1], n - 1) ELSE g[n - 1]]
           below == CHOOSE g : Rec(g)
           D == [n \in 1..MaxEntities |-> [s \in S |->
                     IF n - 1 \in ids THEN Append(s, n - 1) ELSE s]]
<1>2. Ascending(ids) = below[MaxEntities]
  BY <1>1 DEF Ascending
<1>3. \A n \in 1..MaxEntities, s \in S :
          Append(s, n - 1) \in S /\ n - 1 \in 0..MaxEntities /\ n \in 0..MaxEntities /\ n # 0
  BY <1>0, <1>1, AppendProperties
<1>4. empty \in S /\ D \in [1..MaxEntities -> [S -> S]]
  BY <1>1, <1>3
<1>5. PICK f \in [0..MaxEntities -> S] :
         Unfolds(f, MaxEntities, empty, D)
  <2> HIDE DEF D
  <2> QED BY <1>0, <1>4, RecursionExists
<1>6. Rec(f)
  <2>1. \A n \in 0..MaxEntities : n # 0 => n \in 1..MaxEntities /\ n - 1 \in 0..MaxEntities
    BY <1>0
  <2>2. \A n \in 1..MaxEntities :
            D[n][f[n - 1]] = IF n - 1 \in ids THEN Append(f[n - 1], n - 1) ELSE f[n - 1]
    BY <1>0
  <2> QED BY <1>5, <2>1, <2>2 DEF Unfolds
<1>7. Rec(below)
  <2> HIDE DEF Rec
  <2> QED BY <1>6
<1> HIDE DEF below, D
<1>8. /\ below[0] = empty /\ DOMAIN below = 0..MaxEntities
      /\ \A n \in 1..MaxEntities :
            below[n] = IF n - 1 \in ids THEN Append(below[n - 1], n - 1) ELSE below[n - 1]
  <2>1. DOMAIN below = 0..MaxEntities
    BY <1>7
  <2>2. \A n \in 0..MaxEntities :
            below[n] = IF n = 0 THEN empty
                       ELSE IF n - 1 \in ids THEN Append(below[n - 1], n - 1)
                                             ELSE below[n - 1]
    BY <1>7, Zenon
  <2>3. below[0] = empty
    BY <1>0, <2>2
  <2>4. \A n \in 1..MaxEntities : n \in 0..MaxEntities /\ n # 0
    BY <1>0
  <2>5. \A n \in 1..MaxEntities :
            below[n] = IF n - 1 \in ids THEN Append(below[n - 1], n - 1) ELSE below[n - 1]
    BY <2>2, <2>4, Zenon
  <2> QED BY <2>1, <2>3, <2>5
<1>9. 0..MaxEntities \subseteq {n \in 0..MaxEntities : below[n] \in S}
  <2> DEFINE T == {n \in 0..MaxEntities : below[n] \in S}
  <2>1. 0 \in T
    BY <1>0, <1>4, <1>8
  <2>2. ASSUME NEW n \in 1..MaxEntities, n - 1 \in T PROVE n \in T
    BY <1>3, <1>8, <2>2
  <2> HIDE DEF T
  <2>3. 0..MaxEntities \subseteq T
    BY <1>0, <2>1, <2>2, Induction
  <2> QED BY <2>3 DEF T
<1>10. below \in [0..MaxEntities -> Seq(Nat)]
  BY <1>1, <1>7, <1>9
<1> QED BY <1>1, <1>2, <1>8, <1>10

-----------------------------------------------------------------------------
(* What a set of ids in order is made of.                                   *)
Listed(s, ids) ==
    /\ s \in Seq(Nat)
    /\ \A i \in 1..Len(s) : s[i] \in ids
    /\ \A e \in ids : \E i \in 1..Len(s) : s[i] = e
    /\ \A i, j \in 1..Len(s) : i # j => s[i] # s[j]

LEMMA ListedAppend ==
    ASSUME NEW ids, NEW s, NEW e \in Nat, Listed(s, ids), e \notin ids
    PROVE  Listed(Append(s, e), ids \cup {e})
<1> DEFINE t == Append(s, e)
<1>1. /\ t \in Seq(Nat) /\ Len(t) = Len(s) + 1 /\ Len(s) \in Nat
      /\ t[Len(s) + 1] = e
      /\ \A i \in 1..Len(s) : t[i] = s[i] /\ i \in 1..Len(s) + 1
  BY AppendProperties, LenProperties DEF Listed
<1> HIDE DEF t
<1>2. \A i \in 1..Len(t) : i = Len(s) + 1 \/ i \in 1..Len(s)
  BY <1>1
<1>3. \A i \in 1..Len(t) : t[i] \in ids \cup {e}
  BY <1>1, <1>2 DEF Listed
<1>4. ASSUME NEW d \in ids \cup {e} PROVE \E i \in 1..Len(t) : t[i] = d
  <2>1. CASE d = e
    <3>1. Len(s) + 1 \in 1..Len(t)
      BY <1>1
    <3> QED BY <1>1, <2>1, <3>1
  <2>2. CASE d \in ids
    <3>1. PICK i \in 1..Len(s) : s[i] = d
      BY <2>2 DEF Listed
    <3> QED BY <1>1, <3>1
  <2> QED BY <2>1, <2>2
<1>5. \A i, j \in 1..Len(t) : i # j => t[i] # t[j]
  BY <1>1, <1>2 DEF Listed
<1>6. Listed(t, ids \cup {e})
  BY <1>1, <1>3, <1>4, <1>5 DEF Listed
<1> QED BY <1>6 DEF t

(* Ascending lists what is below the bound, each once.                     *)
LEMMA AscendingFacts ==
    ASSUME NEW ids
    PROVE  Listed(Ascending(ids), ids \cap (0..MaxEntities - 1))
<1>0. MaxEntities \in Nat
  BY ReplicationAssumption
<1>1. PICK f \in [0..MaxEntities -> Seq(Nat)] :
         /\ f[0] = << >> /\ Ascending(ids) = f[MaxEntities]
         /\ \A n \in 1..MaxEntities :
               f[n] = IF n - 1 \in ids THEN Append(f[n - 1], n - 1) ELSE f[n - 1]
  BY AscendingSteps
<1> DEFINE T == {n \in 0..MaxEntities : Listed(f[n], ids \cap (0..n - 1))}
<1>2. 0 \in T
  <2>1. ids \cap (0..0 - 1) = {}
    OBVIOUS
  <2>2. Listed(<< >>, {})
    BY DEF Listed
  <2>3. Listed(f[0], ids \cap (0..0 - 1))
    BY <1>1, <2>1, <2>2
  <2> QED BY <1>0, <2>3
<1>3. ASSUME NEW n \in 1..MaxEntities, n - 1 \in T PROVE n \in T
  <2>1. n \in 0..MaxEntities /\ n - 1 \in 0..MaxEntities /\ n - 1 \in Nat
    BY <1>0
  <2>2. Listed(f[n - 1], ids \cap (0..(n - 1) - 1))
    BY <1>3
  <2>3. CASE n - 1 \in ids
    <3>1. Listed(Append(f[n - 1], n - 1), (ids \cap (0..(n - 1) - 1)) \cup {n - 1})
      <4>1. n - 1 \notin ids \cap (0..(n - 1) - 1)
        BY <2>1
      <4> QED BY <2>1, <2>2, <4>1, ListedAppend
    <3>2. (ids \cap (0..(n - 1) - 1)) \cup {n - 1} = ids \cap (0..n - 1)
      BY <2>1, <2>3
    <3> QED BY <1>1, <2>1, <2>3, <3>1, <3>2
  <2>4. CASE n - 1 \notin ids
    <3>1. ids \cap (0..(n - 1) - 1) = ids \cap (0..n - 1)
      BY <2>1, <2>4
    <3> QED BY <1>1, <2>1, <2>2, <2>4, <3>1
  <2> QED BY <2>3, <2>4
<1>4. MaxEntities \in T
  <2> HIDE DEF T
  <2>1. 0..MaxEntities \subseteq T
    BY <1>0, <1>2, <1>3, Induction
  <2> QED BY <1>0, <2>1
<1> QED BY <1>1, <1>4

-----------------------------------------------------------------------------
(* What components and messages hold.                                      *)
Value == BOOLEAN \cup Nat \cup {Initial} \cup (Client \X Keys)
World == [Types -> UNION {[ids -> Value] : ids \in SUBSET Nat}]
Message == [entity : Nat, type : Types, value : Value]

(* The value of a component, as a set: empty if there is none.             *)
Cell(w, type, e) == {w[type][i] : i \in {e} \cap DOMAIN w[type]}
About(m, type, e) == m.type = type /\ m.entity = e /\ e # WelcomeTag

IsWorld(w) ==
    /\ w = [type \in Types |-> w[type]]
    /\ \A type \in Types :
         /\ w[type] = [e \in DOMAIN w[type] |-> w[type][e]]
         /\ DOMAIN w[type] \subseteq Nat
         /\ \A e \in DOMAIN w[type] : w[type][e] \in Value

(* A world, without the set of all worlds.                                 *)
LEMMA WorldFacts ==
    ASSUME NEW w
    PROVE  w \in World <=> IsWorld(w)
<1> DEFINE F == UNION {[ids -> Value] : ids \in SUBSET Nat}
<1>1. ASSUME NEW g
      PROVE  g \in F <=> /\ g = [e \in DOMAIN g |-> g[e]]
                         /\ DOMAIN g \subseteq Nat
                         /\ \A e \in DOMAIN g : g[e] \in Value
  <2>1. ASSUME g \in F
        PROVE  /\ g = [e \in DOMAIN g |-> g[e]]
               /\ DOMAIN g \subseteq Nat
               /\ \A e \in DOMAIN g : g[e] \in Value
    <3>1. PICK ids \in SUBSET Nat : g \in [ids -> Value]
      BY <2>1
    <3> QED BY <3>1
  <2>2. ASSUME g = [e \in DOMAIN g |-> g[e]], DOMAIN g \subseteq Nat,
               \A e \in DOMAIN g : g[e] \in Value
        PROVE  g \in F
    <3>1. g \in [DOMAIN g -> Value]
      BY <2>2
    <3> QED BY <2>2, <3>1
  <2> QED BY <2>1, <2>2
<1>2. w \in [Types -> F] <=> w = [type \in Types |-> w[type]] /\ \A type \in Types : w[type] \in F
  <2> HIDE DEF F
  <2> QED OBVIOUS
<1>3. World = [Types -> F]
  BY DEF World
<1> HIDE DEF F
<1> QED BY <1>1, <1>2, <1>3, Zenon DEF IsWorld

IsPut(p, w, type, e, v) ==
    /\ p \in World
    /\ \A t \in Types : DOMAIN p[t] =
          IF t = type THEN DOMAIN w[t] \cup {e} ELSE DOMAIN w[t]
    /\ \A t \in Types : \A i \in DOMAIN p[t] :
          p[t][i] = IF t = type /\ i = e THEN v ELSE w[t][i]
    /\ \A t \in Types : \A i :
          Cell(p, t, i) = IF t = type /\ i = e THEN {v} ELSE Cell(w, t, i)

(* Writing a component.                                                    *)
LEMMA PutFacts ==
    ASSUME NEW w \in World, NEW type \in Types, NEW e \in Nat, NEW v \in Value
    PROVE  IsPut(Put(w, type, e, v), w, type, e, v)
<1>0. PICK p : p = Put(w, type, e, v)
  OBVIOUS
<1>1. /\ w = [t \in Types |-> w[t]]
      /\ \A t \in Types : /\ w[t] = [i \in DOMAIN w[t] |-> w[t][i]]
                          /\ DOMAIN w[t] \subseteq Nat
                          /\ \A i \in DOMAIN w[t] : w[t][i] \in Value
  BY WorldFacts DEF IsWorld
<1>2. p = [t \in Types |-> IF t = type THEN [i \in DOMAIN w[type] \cup {e} |->
                                                IF i = e THEN v ELSE w[type][i]]
                           ELSE w[t]]
  <2>1. DOMAIN w = Types
    BY <1>1
  <2> QED BY <1>0, <2>1 DEF Put
<1>3. p[type] = [i \in DOMAIN w[type] \cup {e} |-> IF i = e THEN v ELSE w[type][i]]
  BY <1>2
<1>4. \A t \in Types \ {type} : p[t] = w[t]
  BY <1>2
<1>5. p = [t \in Types |-> p[t]]
  BY <1>2
<1>6. \A t \in Types : DOMAIN p[t] = IF t = type THEN DOMAIN w[t] \cup {e} ELSE DOMAIN w[t]
  BY <1>3, <1>4
<1>7. \A t \in Types : \A i \in DOMAIN p[t] : p[t][i] = IF t = type /\ i = e THEN v ELSE w[t][i]
  BY <1>3, <1>4
<1>8. p \in World
  <2>1. ASSUME NEW t \in Types
        PROVE  /\ p[t] = [i \in DOMAIN p[t] |-> p[t][i]]
               /\ DOMAIN p[t] \subseteq Nat
               /\ \A i \in DOMAIN p[t] : p[t][i] \in Value
    <3>1. CASE t = type
      <4>1. p[t] = [i \in DOMAIN p[t] |-> p[t][i]]
        BY <1>3, <3>1
      <4>2. DOMAIN p[t] = DOMAIN w[t] \cup {e}
        BY <1>6, <3>1
      <4>3. DOMAIN p[t] \subseteq Nat
        BY <1>1, <4>2
      <4>4. ASSUME NEW i \in DOMAIN p[t] PROVE p[t][i] \in Value
        <5>1. p[t][i] = IF i = e THEN v ELSE w[t][i]
          BY <1>7, <3>1
        <5>2. i # e => w[t][i] \in Value
          BY <1>1, <4>2
        <5> QED BY <5>1, <5>2
      <4> QED BY <4>1, <4>3, <4>4
    <3>2. CASE t # type
      BY <1>1, <1>4, <3>2
    <3> QED BY <3>1, <3>2
  <2>2. IsWorld(p)
    BY <1>5, <2>1, Zenon DEF IsWorld
  <2> QED BY <2>2, WorldFacts
<1>9. ASSUME NEW t \in Types, NEW i
      PROVE  Cell(p, t, i) = IF t = type /\ i = e THEN {v} ELSE Cell(w, t, i)
  <2>1. CASE t = type /\ i = e
    <3>1. {i} \cap DOMAIN p[t] = {e} /\ p[t][e] = v
      BY <1>6, <1>7, <2>1
    <3> QED BY <2>1, <3>1 DEF Cell
  <2>2. CASE ~(t = type /\ i = e)
    <3>1. {i} \cap DOMAIN p[t] = {i} \cap DOMAIN w[t]
      BY <1>6, <2>2
    <3>2. \A j \in {i} \cap DOMAIN w[t] : p[t][j] = w[t][j]
      BY <1>7, <2>2, <3>1
    <3>3. Cell(p, t, i) = Cell(w, t, i)
      BY <3>1, <3>2 DEF Cell
    <3> QED BY <2>2, <3>3
  <2> QED BY <2>1, <2>2
<1> QED BY <1>0, <1>6, <1>7, <1>8, <1>9, Zenon DEF IsPut

(* A component that is there, and one that is not.                         *)
LEMMA CellFacts ==
    ASSUME NEW w, NEW type, NEW e
    PROVE  /\ e \in DOMAIN w[type] => Cell(w, type, e) = {w[type][e]}
           /\ e \notin DOMAIN w[type] => Cell(w, type, e) = {}
           /\ \A v : Cell(w, type, e) = {v} => e \in DOMAIN w[type] /\ w[type][e] = v
BY DEF Cell

-----------------------------------------------------------------------------
IsWritten(x, w, m) ==
    /\ x \in World
    /\ \A t \in Types : \A e :
          Cell(x, t, e) = IF About(m, t, e) THEN {m.value} ELSE Cell(w, t, e)

(* Handling a message (updateRegistry).                                    *)
LEMMA WrittenFacts ==
    ASSUME NEW w \in World, NEW m \in Message
    PROVE  IsWritten(Written(w, m), w, m)
<1>0. PICK x : x = Written(w, m)
  OBVIOUS
<1>1. m.type \in Types /\ m.entity \in Nat /\ m.value \in Value
  BY DEF Message
<1>2. CASE m.entity = WelcomeTag
  BY <1>0, <1>2 DEF Written, About, IsWritten
<1>3. CASE m.entity # WelcomeTag
  <2>1. x = Put(w, m.type, m.entity, m.value)
    BY <1>0, <1>3 DEF Written
  <2>2. /\ x \in World
        /\ \A t \in Types : \A e : Cell(x, t, e) =
              IF t = m.type /\ e = m.entity THEN {m.value} ELSE Cell(w, t, e)
    <3>1. IsPut(x, w, m.type, m.entity, m.value)
      BY <1>1, <2>1, PutFacts
    <3> QED BY <3>1 DEF IsPut
  <2> QED BY <1>0, <1>3, <2>2 DEF About, IsWritten
<1> QED BY <1>2, <1>3

(* Messages are handled one after the other.                               *)
LEMMA WrittenAllSteps ==
    ASSUME NEW w \in World, NEW s \in Seq(Message)
    PROVE  \E f \in [0..Len(s) -> World] :
              /\ f[0] = w /\ WrittenAll(w, s) = f[Len(s)]
              /\ \A n \in 1..Len(s) : f[n] = Written(f[n - 1], s[n])
<1> DEFINE Rec(g) == g = [n \in 0..Len(s) |->
                             IF n = 0 THEN w ELSE Written(g[n - 1], s[n])]
           after == CHOOSE g : Rec(g)
           D == [n \in 1..Len(s) |-> [x \in World |-> Written(x, s[n])]]
<1>0. Len(s) \in Nat /\ \A n \in 1..Len(s) : s[n] \in Message
  BY LenProperties, ElementOfSeq
<1>1. WrittenAll(w, s) = after[Len(s)]
  BY DEF WrittenAll
<1>2. \A n \in 1..Len(s), x \in World :
          Written(x, s[n]) \in World /\ n - 1 \in 0..Len(s) /\ n \in 0..Len(s) /\ n # 0
  <2>1. \A n \in 1..Len(s) : n - 1 \in 0..Len(s) /\ n \in 0..Len(s) /\ n # 0
    BY <1>0
  <2>2. \A n \in 1..Len(s), x \in World : Written(x, s[n]) \in World
    BY <1>0, WrittenFacts DEF IsWritten
  <2> QED BY <2>1, <2>2
<1>3. D \in [1..Len(s) -> [World -> World]]
  BY <1>2
<1>4. PICK f \in [0..Len(s) -> World] : Unfolds(f, Len(s), w, D)
  <2> HIDE DEF D
  <2> QED BY <1>0, <1>3, RecursionExists
<1>5. Rec(f)
  <2>1. \A n \in 0..Len(s) : n # 0 => n \in 1..Len(s) /\ n - 1 \in 0..Len(s)
    BY <1>0
  <2>2. \A n \in 1..Len(s) : D[n][f[n - 1]] = Written(f[n - 1], s[n])
    BY <1>0
  <2> QED BY <1>4, <2>1, <2>2 DEF Unfolds
<1>6. Rec(after)
  <2> HIDE DEF Rec
  <2> QED BY <1>5
<1> HIDE DEF after, D
<1>7. DOMAIN after = 0..Len(s)
  BY <1>6
<1>8. \A n \in 0..Len(s) : after[n] = IF n = 0 THEN w ELSE Written(after[n - 1], s[n])
  BY <1>6, Zenon
<1>9. after[0] = w
  BY <1>0, <1>8
<1>10. \A n \in 1..Len(s) : after[n] = Written(after[n - 1], s[n])
  BY <1>2, <1>8, Zenon
<1>11. 0..Len(s) \subseteq {n \in 0..Len(s) : after[n] \in World}
  <2> DEFINE T == {n \in 0..Len(s) : after[n] \in World}
  <2>1. 0 \in T
    BY <1>0, <1>9
  <2>2. ASSUME NEW n \in 1..Len(s), n - 1 \in T PROVE n \in T
    BY <1>2, <1>10, <2>2
  <2> HIDE DEF T
  <2>3. 0..Len(s) \subseteq T
    BY <1>0, <2>1, <2>2, Induction
  <2> QED BY <2>3 DEF T
<1>12. after \in [0..Len(s) -> World]
  BY <1>6, <1>7, <1>11
<1> QED BY <1>1, <1>9, <1>10, <1>12

(* The last message about a component, if there is one.                     *)
LastAbout(s, k, t, e) ==
    /\ k \in 1..Len(s) /\ About(s[k], t, e)
    /\ \A i \in k + 1..Len(s) : ~About(s[i], t, e)
NoneAbout(s, t, e) == \A i \in 1..Len(s) : ~About(s[i], t, e)

LEMMA LastExists ==
    ASSUME NEW s \in Seq(Message), NEW t, NEW e
    PROVE  NoneAbout(s, t, e) \/ \E k \in 1..Len(s) : LastAbout(s, k, t, e)
<1>0. Len(s) \in Nat
  BY LenProperties
<1> DEFINE T == {n \in 0..Len(s) - 1 : About(s[Len(s) - n], t, e)}
<1>1. CASE T = {}
  <2>1. ASSUME NEW i \in 1..Len(s) PROVE ~About(s[i], t, e)
    <3>1. Len(s) - i \in 0..Len(s) - 1 /\ Len(s) - (Len(s) - i) = i
      BY <1>0
    <3>2. Len(s) - i \notin T
      <4> HIDE DEF T
      <4> QED BY <1>1
    <3> QED BY <3>1, <3>2
  <2> QED BY <2>1 DEF NoneAbout
<1>2. CASE T # {}
  <2>1. PICK n \in T : \A m \in T : n <= m
    <3>1. T \subseteq Nat
      BY <1>0
    <3> HIDE DEF T
    <3> QED BY <1>2, <3>1, LeastNumber
  <2> DEFINE k == Len(s) - n
  <2>2. n \in 0..Len(s) - 1 /\ k \in 1..Len(s) /\ About(s[k], t, e)
    BY <1>0, <2>1
  <2>3. ASSUME NEW i \in k + 1..Len(s) PROVE ~About(s[i], t, e)
    <3>1. Len(s) - i \in 0..Len(s) - 1 /\ Len(s) - (Len(s) - i) = i /\ Len(s) - i < n
      BY <1>0, <2>2
    <3>2. Len(s) - i \notin T
      <4> HIDE DEF T
      <4> QED BY <1>0, <2>1, <2>2, <3>1
    <3> QED BY <3>1, <3>2
  <2> QED BY <2>2, <2>3 DEF LastAbout
<1> QED BY <1>1, <1>2

IsWrittenAll(x, w, s) ==
    /\ x \in World
    /\ \A t \in Types : \A e :
         /\ NoneAbout(s, t, e) => Cell(x, t, e) = Cell(w, t, e)
         /\ \A k \in 1..Len(s) : LastAbout(s, k, t, e) => Cell(x, t, e) = {s[k].value}

(* A component is what the last message about it says, or as it was.       *)
LEMMA WrittenAllFacts ==
    ASSUME NEW w \in World, NEW s \in Seq(Message)
    PROVE  IsWrittenAll(WrittenAll(w, s), w, s)
<1> DEFINE x == WrittenAll(w, s)
<1>0. Len(s) \in Nat /\ \A n \in 1..Len(s) : s[n] \in Message
  BY LenProperties, ElementOfSeq
<1>1. PICK f \in [0..Len(s) -> World] :
         /\ f[0] = w /\ WrittenAll(w, s) = f[Len(s)]
         /\ \A n \in 1..Len(s) : f[n] = Written(f[n - 1], s[n])
  BY WrittenAllSteps
<1>2. x \in World
  BY <1>0, <1>1
<1>3. ASSUME NEW n \in 1..Len(s), NEW t \in Types, NEW e
      PROVE  Cell(f[n], t, e) = IF About(s[n], t, e) THEN {s[n].value} ELSE Cell(f[n - 1], t, e)
  <2>1. n - 1 \in 0..Len(s)
    BY <1>0
  <2>2. f[n - 1] \in World /\ s[n] \in Message /\ f[n] = Written(f[n - 1], s[n])
    BY <1>0, <1>1, <2>1
  <2>3. IsWritten(f[n], f[n - 1], s[n])
    BY <2>2, WrittenFacts
  <2> QED BY <2>3 DEF IsWritten
<1>4. ASSUME NEW t \in Types, NEW e, NoneAbout(s, t, e)
      PROVE  Cell(x, t, e) = Cell(w, t, e)
  <2> DEFINE T == {n \in 0..Len(s) : Cell(f[n], t, e) = Cell(w, t, e)}
  <2>1. 0 \in T
    BY <1>0, <1>1
  <2>2. ASSUME NEW n \in 1..Len(s), n - 1 \in T PROVE n \in T
    <3>1. ~About(s[n], t, e)
      BY <1>4 DEF NoneAbout
    <3>2. n \in 0..Len(s)
      BY <1>0
    <3> QED BY <1>3, <2>2, <3>1, <3>2
  <2>3. Len(s) \in T
    <3> HIDE DEF T
    <3>1. 0..Len(s) \subseteq T
      BY <1>0, <2>1, <2>2, Induction
    <3> QED BY <1>0, <3>1
  <2> QED BY <1>1, <2>3
<1>5. ASSUME NEW t \in Types, NEW e, NEW k \in 1..Len(s), LastAbout(s, k, t, e)
      PROVE  Cell(x, t, e) = {s[k].value}
  <2> DEFINE T == {n \in 0..Len(s) : n >= k => Cell(f[n], t, e) = {s[k].value}}
  <2>1. 0 \in T
    BY <1>0
  <2>2. ASSUME NEW n \in 1..Len(s), n - 1 \in T PROVE n \in T
    <3>1. n \in 0..Len(s)
      BY <1>0
    <3>2. CASE n < k
      BY <1>0, <3>1, <3>2
    <3>3. CASE n = k
      BY <1>3, <1>5, <3>1, <3>3 DEF LastAbout
    <3>4. CASE n > k
      <4>1. n \in k + 1..Len(s) /\ n - 1 >= k
        BY <1>0, <3>4
      <4>2. ~About(s[n], t, e)
        BY <1>5, <4>1 DEF LastAbout
      <4> QED BY <1>3, <2>2, <3>1, <4>1, <4>2
    <3> QED BY <1>0, <3>2, <3>3, <3>4
  <2>3. Len(s) \in T
    <3> HIDE DEF T
    <3>1. 0..Len(s) \subseteq T
      BY <1>0, <2>1, <2>2, Induction
    <3> QED BY <1>0, <3>1
  <2> QED BY <1>0, <1>1, <2>3
<1> QED BY <1>2, <1>4, <1>5 DEF IsWrittenAll

-----------------------------------------------------------------------------
(* Sequences one after the other, and the two parts of one.                *)
LEMMA ConcatFacts ==
    ASSUME NEW S, NEW a \in Seq(S), NEW b \in Seq(S), NEW c, c = a \o b
    PROVE  /\ c \in Seq(S) /\ Len(a) \in Nat /\ Len(b) \in Nat
           /\ Len(c) = Len(a) + Len(b)
           /\ \A i \in 1..Len(a) : i \in 1..Len(c) /\ c[i] = a[i]
           /\ \A i \in 1..Len(b) : Len(a) + i \in 1..Len(c) /\ c[Len(a) + i] = b[i]
           /\ \A i \in 1..Len(c) : i \in 1..Len(a) \/ i - Len(a) \in 1..Len(b)
           /\ \A i \in 1..Len(c) : i \notin 1..Len(a) => c[i] = b[i - Len(a)]
<1>1. /\ c \in Seq(S) /\ Len(a) \in Nat /\ Len(b) \in Nat
      /\ Len(c) = Len(a) + Len(b)
      /\ \A i \in 1..Len(a) + Len(b) : c[i] = IF i <= Len(a) THEN a[i] ELSE b[i - Len(a)]
  BY ConcatProperties, LenProperties
<1>2. \A i \in 1..Len(b) : (Len(a) + i) - Len(a) = i /\ ~(Len(a) + i <= Len(a))
                           /\ Len(a) + i \in 1..Len(a) + Len(b)
  BY <1>1
<1> QED BY <1>1, <1>2

LEMMA SuffixFacts ==
    ASSUME NEW S, NEW s \in Seq(S), NEW n \in Nat, n <= Len(s), NEW b, b = SubSeq(s, n + 1, Len(s))
    PROVE  /\ b \in Seq(S) /\ Len(s) \in Nat /\ Len(b) = Len(s) - n
           /\ \A i \in 1..Len(b) : n + i \in 1..Len(s) /\ b[i] = s[n + i]
           /\ \A i \in 1..Len(s) : i \in 1..n \/ (i - n \in 1..Len(b) /\ b[i - n] = s[i])
<1>1. Len(s) \in Nat
  BY LenProperties
<1>2. n + 1 \in 1..Len(s) + 1 /\ Len(s) \in (n + 1) - 1 .. Len(s)
  BY <1>1
<1>3. \A i \in n + 1..Len(s) : s[i] \in S
  BY <1>1, ElementOfSeq
<1>4. /\ b \in Seq(S) /\ Len(b) = Len(s) - n
      /\ \A i \in 1..Len(b) : b[i] = s[n + i]
  BY <1>1, <1>3
<1>a. PICK k \in Nat : k = Len(s)
  BY <1>1
<1>b. PICK l \in Nat : l = Len(b)
  BY <1>4, LenProperties
<1>5. k = Len(s) /\ l = Len(b) /\ l = k - n
  BY <1>4, <1>a, <1>b
<1>6. \A i \in 1..l : n + i \in 1..k
  BY <1>5
<1>7. \A i \in 1..k : i \in 1..n \/ (i - n \in 1..l /\ n + (i - n) = i)
  BY <1>5
<1> QED BY <1>4, <1>5, <1>6, <1>7

LEMMA PrefixFacts ==
    ASSUME NEW S, NEW s \in Seq(S), NEW n \in Nat, n <= Len(s), NEW a, a = SubSeq(s, 1, n)
    PROVE  /\ a \in Seq(S) /\ Len(a) = n
           /\ \A i \in 1..n : i \in 1..Len(s) /\ a[i] = s[i]
<1>1. Len(s) \in Nat
  BY LenProperties
<1>3. \A i \in 1..n : s[i] \in S
  BY <1>1, ElementOfSeq
<1>4. /\ a \in Seq(S) /\ Len(a) = n
      /\ \A i \in 1..n : a[i] = s[i]
  BY <1>1, <1>3
<1> QED BY <1>1, <1>4

(* Messages about all components of the types of a set, a velocity after    *)
(* all players.                                                             *)
Says(s, w, types) ==
    /\ s \in Seq(Message)
    /\ \A i \in 1..Len(s) : /\ s[i].type \in types
                            /\ s[i].entity \in DOMAIN w[s[i].type]
                            /\ s[i].value = w[s[i].type][s[i].entity]
    /\ \A t \in types : \A e \in DOMAIN w[t] :
          \E i \in 1..Len(s) : s[i].type = t /\ s[i].entity = e
    /\ \A i, j \in 1..Len(s) : s[i].type = "Velocity" /\ s[j].type = "Player" => j < i

LEMMA SaysBoth ==
    ASSUME NEW w, NEW S, NEW T, NEW a, NEW b, Says(a, w, S), Says(b, w, T),
           "Velocity" \notin S \/ "Player" \notin T
    PROVE  Says(a \o b, w, S \cup T)
<1> DEFINE c == a \o b
<1>0. a \in Seq(Message) /\ b \in Seq(Message)
  BY DEF Says
<1>1. /\ c \in Seq(Message) /\ Len(a) \in Nat /\ Len(b) \in Nat
      /\ Len(c) = Len(a) + Len(b)
      /\ \A i \in 1..Len(a) : i \in 1..Len(c) /\ c[i] = a[i]
      /\ \A i \in 1..Len(b) : Len(a) + i \in 1..Len(c) /\ c[Len(a) + i] = b[i]
      /\ \A i \in 1..Len(c) : i \in 1..Len(a) \/ i - Len(a) \in 1..Len(b)
      /\ \A i \in 1..Len(c) : i \notin 1..Len(a) => c[i] = b[i - Len(a)]
  BY <1>0, ConcatFacts
<1> HIDE DEF c
<1>2. ASSUME NEW i \in 1..Len(c)
      PROVE  /\ c[i].type \in S \cup T
             /\ c[i].entity \in DOMAIN w[c[i].type]
             /\ c[i].value = w[c[i].type][c[i].entity]
  <2>1. CASE i \in 1..Len(a)
    BY <1>1, <2>1 DEF Says
  <2>2. CASE i \notin 1..Len(a)
    <3>1. PICK k \in 1..Len(b) : c[i] = b[k]
      BY <1>1, <2>2
    <3>2. /\ b[k].type \in T
          /\ b[k].entity \in DOMAIN w[b[k].type]
          /\ b[k].value = w[b[k].type][b[k].entity]
      BY DEF Says
    <3> QED BY <3>1, <3>2
  <2> QED BY <2>1, <2>2
<1>3. ASSUME NEW t \in S \cup T, NEW e \in DOMAIN w[t]
      PROVE  \E i \in 1..Len(c) : c[i].type = t /\ c[i].entity = e
  <2>1. CASE t \in S
    <3>1. PICK i \in 1..Len(a) : a[i].type = t /\ a[i].entity = e
      BY <2>1 DEF Says
    <3> QED BY <1>1, <3>1
  <2>2. CASE t \in T
    <3>1. PICK i \in 1..Len(b) : b[i].type = t /\ b[i].entity = e
      BY <2>2 DEF Says
    <3> QED BY <1>1, <3>1
  <2> QED BY <2>1, <2>2
<1>4. ASSUME NEW i \in 1..Len(c), NEW j \in 1..Len(c), c[i].type = "Velocity", c[j].type = "Player"
      PROVE  j < i
  <2>1. CASE i \in 1..Len(a) /\ j \in 1..Len(a)
    BY <1>1, <1>4, <2>1 DEF Says
  <2>2. CASE i \notin 1..Len(a) /\ j \in 1..Len(a)
    BY <1>1, <2>2
  <2>3. CASE i \in 1..Len(a) /\ j \notin 1..Len(a)
    <3>1. a[i].type = "Velocity" /\ b[j - Len(a)].type = "Player" /\ j - Len(a) \in 1..Len(b)
      BY <1>1, <1>4, <2>3
    <3> QED BY <2>3, <3>1 DEF Says
  <2>4. CASE i \notin 1..Len(a) /\ j \notin 1..Len(a)
    <3>1. /\ b[i - Len(a)].type = "Velocity" /\ b[j - Len(a)].type = "Player"
          /\ i - Len(a) \in 1..Len(b) /\ j - Len(a) \in 1..Len(b)
      BY <1>1, <1>4, <2>4
    <3>2. j - Len(a) < i - Len(a)
      BY <3>1 DEF Says
    <3> QED BY <1>1, <3>2
  <2> QED BY <2>1, <2>2, <2>3, <2>4
<1>5. Says(c, w, S \cup T)
  BY <1>1, <1>2, <1>3, <1>4 DEF Says
<1> QED BY <1>5 DEF c

(* sendComponentData says all of one type: no id is changed by the cut to  *)
(* a byte.                                                                 *)
LEMMA MessagesSay ==
    ASSUME MaxEntities <= Byte, NEW w \in World, NEW type \in Types,
           DOMAIN w[type] \subseteq 0..MaxEntities - 1
    PROVE  Says(Messages(w, type), w, {type})
<1>0. MaxEntities \in Nat /\ Byte \in Nat \ {0}
  BY ReplicationAssumption
<1> DEFINE ids == Ascending(DOMAIN w[type])
           s == Messages(w, type)
<1>1. Listed(ids, DOMAIN w[type])
  <2>1. DOMAIN w[type] \cap (0..MaxEntities - 1) = DOMAIN w[type]
    OBVIOUS
  <2> QED BY <2>1, AscendingFacts
<1>2. s = [i \in 1..Len(ids) |-> [entity |-> ids[i] % Byte, type |-> type,
                                  value |-> w[type][ids[i]]]]
  BY DEF Messages
<1> HIDE DEF ids, s
<1>3. Len(ids) \in Nat /\ \A i \in 1..Len(ids) : ids[i] \in DOMAIN w[type]
  BY <1>1, LenProperties DEF Listed
<1>4. ASSUME NEW i \in 1..Len(ids)
      PROVE  ids[i] \in Nat /\ ids[i] % Byte = ids[i] /\ w[type][ids[i]] \in Value
  <2>1. ids[i] \in Nat /\ ids[i] < Byte
    BY <1>0, <1>3
  <2>2. ids[i] % Byte = ids[i]
    BY <1>0, <2>1
  <2>3. w[type][ids[i]] \in Value
    BY <1>3, WorldFacts DEF IsWorld
  <2> QED BY <2>1, <2>2, <2>3
<1>5. s = [i \in 1..Len(ids) |-> [entity |-> ids[i], type |-> type, value |-> w[type][ids[i]]]]
  BY <1>2, <1>4
<1>6. s \in Seq(Message) /\ Len(s) = Len(ids)
  <2>1. \A i \in 1..Len(ids) :
           [entity |-> ids[i], type |-> type, value |-> w[type][ids[i]]] \in Message
    BY <1>4 DEF Message
  <2>2. s \in [1..Len(ids) -> Message]
    BY <1>5, <2>1
  <2> QED BY <1>3, <2>2
<1>7. \A i \in 1..Len(s) : s[i].type = type /\ s[i].entity = ids[i] /\ s[i].value = w[type][ids[i]]
  BY <1>5, <1>6
<1>8. ASSUME NEW e \in DOMAIN w[type] PROVE \E i \in 1..Len(s) : s[i].type = type /\ s[i].entity = e
  <2>1. PICK i \in 1..Len(ids) : ids[i] = e
    BY <1>1 DEF Listed
  <2> QED BY <1>6, <1>7, <2>1
<1>9. Says(s, w, {type})
  <2>1. \A i \in 1..Len(s) : /\ s[i].type \in {type}
                             /\ s[i].entity \in DOMAIN w[s[i].type]
                             /\ s[i].value = w[s[i].type][s[i].entity]
    BY <1>3, <1>6, <1>7
  <2>2. \A i, j \in 1..Len(s) : s[i].type = "Velocity" /\ s[j].type = "Player" => j < i
    BY <1>7
  <2> QED BY <1>6, <1>8, <2>1, <2>2 DEF Says
<1> QED BY <1>9 DEF s

(* The broadcast of a frame says all there is.                             *)
LEMMA BroadcastSays ==
    ASSUME MaxEntities <= Byte, NEW w \in World,
           \A type \in Types : DOMAIN w[type] \subseteq 0..MaxEntities - 1
    PROVE  Says(Broadcast(w), w, Types)
<1>1. /\ Says(Messages(w, "Renderable"), w, {"Renderable"})
      /\ Says(Messages(w, "Player"), w, {"Player"})
      /\ Says(Messages(w, "Controllable"), w, {"Controllable"})
      /\ Says(Messages(w, "Velocity"), w, {"Velocity"})
      /\ Says(Messages(w, "ParallaxScroller"), w, {"ParallaxScroller"})
  BY MessagesSay DEF Types
<1> DEFINE two == Messages(w, "Renderable") \o Messages(w, "Player")
           three == two \o Messages(w, "Controllable")
           four == three \o Messages(w, "Velocity")
           five == four \o Messages(w, "ParallaxScroller")
<1>2. Says(two, w, {"Renderable"} \cup {"Player"})
  BY <1>1, SaysBoth
<1> HIDE DEF two
<1>3. Says(three, w, {"Renderable"} \cup {"Player"} \cup {"Controllable"})
  BY <1>1, <1>2, SaysBoth
<1> HIDE DEF three
<1>4. Says(four, w, {"Renderable"} \cup {"Player"} \cup {"Controllable"} \cup {"Velocity"})
  BY <1>1, <1>3, SaysBoth
<1> HIDE DEF four
<1>5. Says(five, w, {"Renderable"} \cup {"Player"} \cup {"Controllable"} \cup {"Velocity"}
                      \cup {"ParallaxScroller"})
  BY <1>1, <1>4, SaysBoth
<1>6. Types = {"Renderable"} \cup {"Player"} \cup {"Controllable"} \cup {"Velocity"}
                \cup {"ParallaxScroller"}
  BY DEF Types
<1>7. Broadcast(w) = five
  BY DEF Broadcast, five, four, three, two
<1> HIDE DEF five
<1> QED BY <1>5, <1>6, <1>7

-----------------------------------------------------------------------------
(* A value comes from the registry or from a message.                      *)
LEMMA CellWithin ==
    ASSUME NEW w \in World, NEW s \in Seq(Message), NEW t \in Types, NEW e, NEW G,
           Cell(w, t, e) \subseteq G,
           \A i \in 1..Len(s) : About(s[i], t, e) => s[i].value \in G
    PROVE  Cell(WrittenAll(w, s), t, e) \subseteq G
<1>1. IsWrittenAll(WrittenAll(w, s), w, s)
  BY WrittenAllFacts
<1>2. CASE NoneAbout(s, t, e)
  BY <1>1, <1>2 DEF IsWrittenAll
<1>3. CASE \E k \in 1..Len(s) : LastAbout(s, k, t, e)
  <2>1. PICK k \in 1..Len(s) : LastAbout(s, k, t, e)
    BY <1>3
  <2>2. Cell(WrittenAll(w, s), t, e) = {s[k].value}
    BY <1>1, <2>1 DEF IsWrittenAll
  <2> QED BY <2>1, <2>2 DEF LastAbout
<1> QED BY <1>2, <1>3, LastExists

(* A component that was there stays, and a message makes it.               *)
LEMMA CellMade ==
    ASSUME NEW w \in World, NEW s \in Seq(Message), NEW t \in Types, NEW e
    PROVE  Cell(WrittenAll(w, s), t, e) # {} <=>
              Cell(w, t, e) # {} \/ \E i \in 1..Len(s) : About(s[i], t, e)
<1>1. IsWrittenAll(WrittenAll(w, s), w, s)
  BY WrittenAllFacts
<1>2. CASE NoneAbout(s, t, e)
  BY <1>1, <1>2 DEF IsWrittenAll, NoneAbout
<1>3. CASE \E k \in 1..Len(s) : LastAbout(s, k, t, e)
  <2>1. PICK k \in 1..Len(s) : LastAbout(s, k, t, e)
    BY <1>3
  <2>2. Cell(WrittenAll(w, s), t, e) = {s[k].value}
    BY <1>1, <2>1 DEF IsWrittenAll
  <2> QED BY <2>1, <2>2 DEF LastAbout
<1> QED BY <1>2, <1>3, LastExists

(* After a broadcast a component is as it says, or it says nothing of it.  *)
LEMMA CellAfterBroadcast ==
    ASSUME NEW w \in World, NEW s \in Seq(Message), NEW v, NEW b, Says(b, v, Types),
           NEW t \in Types, NEW e
    PROVE  Cell(WrittenAll(w, s \o b), t, e) =
              IF e \in DOMAIN v[t] /\ e # WelcomeTag THEN {v[t][e]}
              ELSE Cell(WrittenAll(w, s), t, e)
<1> DEFINE c == s \o b
           x == WrittenAll(w, c)
           y == WrittenAll(w, s)
<1>0. b \in Seq(Message)
  BY DEF Says
<1>1. /\ c \in Seq(Message) /\ Len(s) \in Nat /\ Len(b) \in Nat
      /\ Len(c) = Len(s) + Len(b)
      /\ \A i \in 1..Len(s) : i \in 1..Len(c) /\ c[i] = s[i]
      /\ \A i \in 1..Len(b) : Len(s) + i \in 1..Len(c) /\ c[Len(s) + i] = b[i]
      /\ \A i \in 1..Len(c) : i \in 1..Len(s) \/ i - Len(s) \in 1..Len(b)
      /\ \A i \in 1..Len(c) : i \notin 1..Len(s) => c[i] = b[i - Len(s)]
  BY <1>0, ConcatFacts
<1> HIDE DEF c
<1>2. IsWrittenAll(x, w, c) /\ IsWrittenAll(y, w, s)
  BY <1>1, WrittenAllFacts
<1> HIDE DEF x, y
<1>3. CASE e \in DOMAIN v[t] /\ e # WelcomeTag
  <2>1. PICK i \in 1..Len(b) : b[i].type = t /\ b[i].entity = e
    BY <1>3 DEF Says
  <2>2. Len(s) + i \in 1..Len(c) /\ About(c[Len(s) + i], t, e)
    BY <1>1, <1>3, <2>1 DEF About
  <2>3. PICK k \in 1..Len(c) : LastAbout(c, k, t, e)
    BY <1>1, <2>2, LastExists DEF NoneAbout
  <2>4. k >= Len(s) + i
    <3>1. ~(Len(s) + i \in k + 1..Len(c))
      BY <2>2, <2>3 DEF LastAbout
    <3> QED BY <1>1, <2>2, <3>1
  <2>5. k \notin 1..Len(s)
    BY <1>1, <2>4
  <2>6. PICK j \in 1..Len(b) : c[k] = b[j]
    BY <1>1, <2>5
  <2>7. b[j].type = t /\ b[j].entity = e
    BY <2>3, <2>6 DEF LastAbout, About
  <2>8. c[k].value = v[t][e]
    BY <2>6, <2>7 DEF Says
  <2>9. Cell(x, t, e) = {c[k].value}
    BY <1>2, <2>3 DEF IsWrittenAll
  <2> QED BY <1>3, <2>8, <2>9 DEF x, c
<1>4. CASE ~(e \in DOMAIN v[t] /\ e # WelcomeTag)
  <2>1. \A i \in 1..Len(b) : ~About(b[i], t, e)
    BY <1>4 DEF Says, About
  <2>2. \A i \in 1..Len(c) : i \notin 1..Len(s) => ~About(c[i], t, e)
    BY <1>1, <2>1
  <2>3. CASE NoneAbout(s, t, e)
    <3>1. NoneAbout(c, t, e)
      BY <1>1, <2>2, <2>3 DEF NoneAbout
    <3>2. Cell(x, t, e) = Cell(y, t, e)
      BY <1>2, <2>3, <3>1 DEF IsWrittenAll
    <3> QED BY <1>4, <3>2 DEF x, y, c
  <2>4. CASE \E k \in 1..Len(s) : LastAbout(s, k, t, e)
    <3>1. PICK k \in 1..Len(s) : LastAbout(s, k, t, e)
      BY <2>4
    <3>2. k \in 1..Len(c) /\ c[k] = s[k]
      BY <1>1
    <3>3. \A i \in k + 1..Len(c) : ~About(c[i], t, e)
      <4>1. ASSUME NEW i \in k + 1..Len(c) PROVE ~About(c[i], t, e)
        <5>1. i \in 1..Len(c)
          BY <1>1
        <5>2. CASE i \in 1..Len(s)
          <6>1. i \in k + 1..Len(s)
            BY <1>1, <5>2
          <6> QED BY <1>1, <3>1, <5>2, <6>1 DEF LastAbout
        <5>3. CASE i \notin 1..Len(s)
          BY <2>2, <5>1, <5>3
        <5> QED BY <5>2, <5>3
      <4> QED BY <4>1
    <3>4. LastAbout(c, k, t, e)
      BY <3>1, <3>2, <3>3 DEF LastAbout
    <3>5. Cell(x, t, e) = {c[k].value} /\ Cell(y, t, e) = {s[k].value}
      BY <1>2, <3>1, <3>2, <3>4 DEF IsWrittenAll
    <3> QED BY <1>4, <3>2, <3>5 DEF x, y, c
  <2> QED BY <2>3, <2>4, LastExists
<1> QED BY <1>3, <1>4

(* Handling a part of the messages changes nothing of what all of them     *)
(* make.                                                                   *)
LEMMA CellAfterRead ==
    ASSUME NEW w \in World, NEW s \in Seq(Message), NEW n \in Nat, n <= Len(s),
           NEW y \in World, NEW t \in Types, NEW e,
           Cell(y, t, e) = Cell(WrittenAll(w, SubSeq(s, 1, n)), t, e)
    PROVE  Cell(WrittenAll(y, SubSeq(s, n + 1, Len(s))), t, e) = Cell(WrittenAll(w, s), t, e)
<1> DEFINE a == SubSeq(s, 1, n)
           b == SubSeq(s, n + 1, Len(s))
           p == WrittenAll(w, a)
           q == WrittenAll(y, b)
           x == WrittenAll(w, s)
<1>0. /\ a \in Seq(Message) /\ Len(a) = n
      /\ \A i \in 1..n : i \in 1..Len(s) /\ a[i] = s[i]
  BY PrefixFacts
<1>1. /\ b \in Seq(Message) /\ Len(s) \in Nat /\ Len(b) = Len(s) - n
      /\ \A i \in 1..Len(b) : n + i \in 1..Len(s) /\ b[i] = s[n + i]
      /\ \A i \in 1..Len(s) : i \in 1..n \/ (i - n \in 1..Len(b) /\ b[i - n] = s[i])
  BY SuffixFacts
<1>2. IsWrittenAll(p, w, a) /\ IsWrittenAll(q, y, b) /\ IsWrittenAll(x, w, s)
  BY <1>0, <1>1, WrittenAllFacts
<1>3. Cell(y, t, e) = Cell(p, t, e)
  OBVIOUS
<1> HIDE DEF a, b, p, q, x
<1>4. CASE NoneAbout(s, t, e)
  <2>1. NoneAbout(a, t, e) /\ NoneAbout(b, t, e)
    BY <1>0, <1>1, <1>4 DEF NoneAbout
  <2>2. Cell(x, t, e) = Cell(w, t, e) /\ Cell(p, t, e) = Cell(w, t, e) /\ Cell(q, t, e) = Cell(y, t, e)
    BY <1>2, <1>4, <2>1 DEF IsWrittenAll
  <2>3. Cell(q, t, e) = Cell(x, t, e)
    BY <1>3, <2>2
  <2> QED BY <2>3 DEF q, x, b
<1>5. CASE \E k \in 1..Len(s) : LastAbout(s, k, t, e)
  <2>1. PICK k \in 1..Len(s) : LastAbout(s, k, t, e)
    BY <1>5
  <2>2. Cell(x, t, e) = {s[k].value}
    BY <1>2, <2>1 DEF IsWrittenAll
  <2>3. CASE k \in 1..n
    <3>1. NoneAbout(b, t, e)
      <4>1. ASSUME NEW i \in 1..Len(b) PROVE ~About(b[i], t, e)
        <5>1. n + i \in k + 1..Len(s) /\ b[i] = s[n + i]
          BY <1>1, <2>3
        <5> QED BY <2>1, <5>1 DEF LastAbout
      <4> QED BY <4>1 DEF NoneAbout
    <3>2. LastAbout(a, k, t, e)
      <4>1. \A i \in k + 1..n : i \in 1..n /\ i \in k + 1..Len(s)
        BY <1>1, <2>3
      <4> QED BY <1>0, <2>1, <2>3, <4>1 DEF LastAbout
    <3>3. k \in 1..Len(a)
      BY <1>0, <2>3
    <3>4. Cell(p, t, e) = {a[k].value} /\ Cell(q, t, e) = Cell(y, t, e)
      BY <1>2, <3>1, <3>2, <3>3 DEF IsWrittenAll
    <3>5. Cell(q, t, e) = Cell(x, t, e)
      BY <1>0, <1>3, <2>2, <2>3, <3>4
    <3> QED BY <3>5 DEF q, x, b
  <2>4. CASE k \notin 1..n
    <3>1. PICK j \in 1..Len(b) : j = k - n /\ b[j] = s[k]
      BY <1>1, <2>1, <2>4
    <3>2. LastAbout(b, j, t, e)
      <4>1. ASSUME NEW i \in j + 1..Len(b) PROVE ~About(b[i], t, e)
        <5>1. n + i \in k + 1..Len(s) /\ b[i] = s[n + i]
          BY <1>1, <3>1
        <5> QED BY <2>1, <5>1 DEF LastAbout
      <4> QED BY <2>1, <3>1, <4>1 DEF LastAbout
    <3>3. Cell(q, t, e) = {b[j].value}
      BY <1>2, <3>2 DEF IsWrittenAll
    <3>4. Cell(q, t, e) = Cell(x, t, e)
      BY <2>2, <3>1, <3>3
    <3> QED BY <3>4 DEF q, x, b
  <2> QED BY <2>3, <2>4
<1> QED BY <1>4, <1>5, LastExists

-----------------------------------------------------------------------------
(* Ids that are free: below the next new one, not in use, each once.        *)
Free(s, next, used) ==
    /\ s \in Seq(Nat)
    /\ \A i \in 1..Len(s) : s[i] < next /\ s[i] \notin used
    /\ \A i, j \in 1..Len(s) : i # j => s[i] # s[j]

(* A kill frees an id.                                                     *)
LEMMA FreeAppend ==
    ASSUME NEW s, NEW next \in Nat, NEW used, Free(s, next, used),
           NEW e \in Nat, e \in used, e < next
    PROVE  Free(Append(s, e), next, used \ {e})
<1> DEFINE t == Append(s, e)
<1>1. /\ t \in Seq(Nat) /\ Len(t) = Len(s) + 1 /\ Len(s) \in Nat
      /\ t[Len(s) + 1] = e
      /\ \A i \in 1..Len(s) : t[i] = s[i]
  BY AppendProperties, LenProperties DEF Free
<1> HIDE DEF t
<1>2. \A i \in 1..Len(t) : i = Len(s) + 1 \/ i \in 1..Len(s)
  BY <1>1
<1>3. Free(t, next, used \ {e})
  BY <1>1, <1>2 DEF Free
<1> QED BY <1>3 DEF t

(* A frame frees the ids of all it kills.                                  *)
LEMMA FreeConcat ==
    ASSUME NEW s, NEW next \in Nat, NEW used, Free(s, next, used),
           NEW b, NEW dead, Listed(b, dead), dead \subseteq used,
           \A e \in dead : e < next
    PROVE  Free(s \o b, next, used \ dead)
<1> DEFINE c == s \o b
<1>0. s \in Seq(Nat) /\ b \in Seq(Nat)
  BY DEF Free, Listed
<1>1. /\ c \in Seq(Nat) /\ Len(s) \in Nat /\ Len(b) \in Nat
      /\ Len(c) = Len(s) + Len(b)
      /\ \A i \in 1..Len(s) : i \in 1..Len(c) /\ c[i] = s[i]
      /\ \A i \in 1..Len(b) : Len(s) + i \in 1..Len(c) /\ c[Len(s) + i] = b[i]
      /\ \A i \in 1..Len(c) : i \in 1..Len(s) \/ i - Len(s) \in 1..Len(b)
      /\ \A i \in 1..Len(c) : i \notin 1..Len(s) => c[i] = b[i - Len(s)]
  BY <1>0, ConcatFacts
<1> HIDE DEF c
<1>2. ASSUME NEW i \in 1..Len(c) PROVE c[i] < next /\ c[i] \notin used \ dead
  <2>1. CASE i \in 1..Len(s)
    BY <1>1, <2>1 DEF Free
  <2>2. CASE i \notin 1..Len(s)
    <3>1. c[i] \in dead
      BY <1>1, <2>2 DEF Listed
    <3> QED BY <3>1
  <2> QED BY <2>1, <2>2
<1>3. ASSUME NEW i \in 1..Len(c), NEW j \in 1..Len(c), i # j PROVE c[i] # c[j]
  <2>1. CASE i \in 1..Len(s) /\ j \in 1..Len(s)
    BY <1>1, <1>3, <2>1 DEF Free
  <2>2. CASE i \in 1..Len(s) /\ j \notin 1..Len(s)
    <3>1. c[i] \notin used /\ c[j] \in dead
      BY <1>1, <2>2 DEF Free, Listed
    <3> QED BY <3>1
  <2>3. CASE i \notin 1..Len(s) /\ j \in 1..Len(s)
    <3>1. c[j] \notin used /\ c[i] \in dead
      BY <1>1, <2>3 DEF Free, Listed
    <3> QED BY <3>1
  <2>4. CASE i \notin 1..Len(s) /\ j \notin 1..Len(s)
    <3>1. PICK k \in 1..Len(b) : k = i - Len(s) /\ c[i] = b[k]
      BY <1>1, <2>4
    <3>2. PICK l \in 1..Len(b) : l = j - Len(s) /\ c[j] = b[l]
      BY <1>1, <2>4
    <3>3. k # l
      BY <1>1, <1>3, <3>1, <3>2
    <3> QED BY <3>1, <3>2, <3>3 DEF Listed
  <2> QED BY <2>1, <2>2, <2>3, <2>4
<1>4. Free(c, next, used \ dead)
  BY <1>1, <1>2, <1>3 DEF Free
<1> QED BY <1>4 DEF c

Spawned(e, s2, next2, s, next, used) ==
    /\ e \in Nat /\ e \notin used /\ e < next2 /\ next2 \in Nat /\ next <= next2
    /\ next2 <= next \/ next2 <= e + 1
    /\ Free(s2, next2, used \cup {e})

(* A spawn takes the first free id, or the next new one.                   *)
LEMMA SpawnTakes ==
    ASSUME NEW next \in Nat, NEW s, NEW used, Free(s, next, used),
           \A e \in used : e < next, s # << >>
    PROVE  Spawned(Head(s), Tail(s), next, s, next, used)
<1> DEFINE h == Head(s)
           t == Tail(s)
<1>1. /\ t \in Seq(Nat) /\ Len(t) = Len(s) - 1 /\ Len(s) \in Nat \ {0} /\ h = s[1] /\ h \in Nat
      /\ \A i \in 1..Len(t) : t[i] = s[i + 1]
  BY HeadTailProperties, EmptySeq, LenProperties DEF Free
<1> HIDE DEF h, t
<1>2. h < next /\ h \notin used
  BY <1>1 DEF Free
<1>3. Free(t, next, used \cup {h})
  <2>1. \A i \in 1..Len(t) : i + 1 \in 1..Len(s) /\ i + 1 # 1
    BY <1>1
  <2>2. ASSUME NEW i \in 1..Len(t) PROVE t[i] < next /\ t[i] \notin used \cup {h}
    <3>1. PICK k \in 1..Len(s) : k # 1 /\ t[i] = s[k]
      BY <1>1, <2>1
    <3>2. s[k] # s[1]
      BY <1>1, <3>1 DEF Free
    <3> QED BY <1>1, <3>1, <3>2 DEF Free
  <2>3. ASSUME NEW i \in 1..Len(t), NEW j \in 1..Len(t), i # j PROVE t[i] # t[j]
    <3>1. PICK k \in 1..Len(s) : k = i + 1 /\ t[i] = s[k]
      BY <1>1, <2>1
    <3>2. PICK l \in 1..Len(s) : l = j + 1 /\ t[j] = s[l]
      BY <1>1, <2>1
    <3>3. k # l
      BY <1>1, <2>3, <3>1, <3>2
    <3> QED BY <3>1, <3>2, <3>3 DEF Free
  <2> QED BY <1>1, <2>2, <2>3 DEF Free
<1>4. Spawned(h, t, next, s, next, used)
  BY <1>1, <1>2, <1>3 DEF Spawned
<1> QED BY <1>4 DEF h, t

LEMMA SpawnNew ==
    ASSUME NEW next \in Nat, NEW s, NEW used, Free(s, next, used),
           \A e \in used : e < next, s = << >>
    PROVE  Spawned(next, s, next + 1, s, next, used)
<1>1. Len(s) = 0 /\ s \in Seq(Nat)
  BY EmptySeq DEF Free
<1>2. next \notin used
  OBVIOUS
<1>3. Free(s, next + 1, used \cup {next})
  BY <1>1 DEF Free
<1> QED BY <1>2, <1>3 DEF Spawned

-----------------------------------------------------------------------------
IsKilled(x, w, dead) ==
    /\ x \in World
    /\ \A t \in Types : DOMAIN x[t] = DOMAIN w[t] \ dead
    /\ \A t \in Types : \A e \in DOMAIN x[t] : x[t][e] = w[t][e]

LEMMA KilledFacts ==
    ASSUME NEW w \in World, NEW dead
    PROVE  IsKilled(KilledIn(w, dead), w, dead)
<1>0. PICK x : x = KilledIn(w, dead)
  OBVIOUS
<1>1. IsWorld(w)
  BY WorldFacts
<1>2. x = [t \in Types |-> [e \in DOMAIN w[t] \ dead |-> w[t][e]]]
  <2>1. DOMAIN w = Types
    BY <1>1 DEF IsWorld
  <2>2. \A t \in Types : DOMAIN w[t] \cap (DOMAIN w[t] \ dead) = DOMAIN w[t] \ dead
    OBVIOUS
  <2> QED BY <1>0, <2>1, <2>2 DEF KilledIn, Restrict
<1>3. \A t \in Types : x[t] = [e \in DOMAIN w[t] \ dead |-> w[t][e]]
  BY <1>2
<1>4. /\ \A t \in Types : DOMAIN x[t] = DOMAIN w[t] \ dead
      /\ \A t \in Types : \A e \in DOMAIN x[t] : x[t][e] = w[t][e]
  BY <1>3
<1>5. IsWorld(x)
  <2>1. x = [t \in Types |-> x[t]]
    BY <1>2
  <2>2. ASSUME NEW t \in Types
        PROVE  /\ x[t] = [e \in DOMAIN x[t] |-> x[t][e]]
               /\ DOMAIN x[t] \subseteq Nat
               /\ \A e \in DOMAIN x[t] : x[t][e] \in Value
    <3>1. x[t] = [e \in DOMAIN x[t] |-> x[t][e]]
      BY <1>3
    <3>2. /\ DOMAIN x[t] \subseteq Nat
          /\ \A e \in DOMAIN x[t] : x[t][e] \in Value
      BY <1>1, <1>4 DEF IsWorld
    <3> QED BY <3>1, <3>2
  <2> QED BY <2>1, <2>2, Zenon DEF IsWorld
<1>6. x \in World
  BY <1>5, WorldFacts
<1> QED BY <1>0, <1>4, <1>6 DEF IsKilled

IsHidden(x, w, gone) ==
    /\ x \in World
    /\ \A t \in Types : DOMAIN x[t] = DOMAIN w[t]
    /\ \A t \in Types \ {"Renderable"} : x[t] = w[t]
    /\ \A e \in DOMAIN w["Renderable"] :
          /\ x["Renderable"][e] \in BOOLEAN
          /\ x["Renderable"][e] = TRUE <=> w["Renderable"][e] = TRUE /\ e \notin gone

LEMMA HiddenFacts ==
    ASSUME NEW w \in World, NEW gone, \A e \in DOMAIN w["Renderable"] : w["Renderable"][e] \in BOOLEAN
    PROVE  IsHidden(HiddenIn(w, gone), w, gone)
<1>0. PICK x : x = HiddenIn(w, gone)
  OBVIOUS
<1>1. IsWorld(w) /\ "Renderable" \in Types
  BY WorldFacts DEF Types
<1>2. x = [t \in Types |-> IF t = "Renderable"
                           THEN [e \in DOMAIN w["Renderable"] |-> w["Renderable"][e] /\ e \notin gone]
                           ELSE w[t]]
  <2>1. DOMAIN w = Types
    BY <1>1 DEF IsWorld
  <2> QED BY <1>0, <2>1 DEF HiddenIn
<1>3. x["Renderable"] = [e \in DOMAIN w["Renderable"] |-> w["Renderable"][e] /\ e \notin gone]
  BY <1>1, <1>2
<1>4. \A t \in Types \ {"Renderable"} : x[t] = w[t]
  BY <1>2
<1>5. \A t \in Types : DOMAIN x[t] = DOMAIN w[t]
  BY <1>3, <1>4
<1>6. ASSUME NEW e \in DOMAIN w["Renderable"]
      PROVE  /\ x["Renderable"][e] \in BOOLEAN
             /\ x["Renderable"][e] = TRUE <=> w["Renderable"][e] = TRUE /\ e \notin gone
  <2>1. x["Renderable"][e] = (w["Renderable"][e] /\ e \notin gone)
    BY <1>3
  <2>2. w["Renderable"][e] \in BOOLEAN
    OBVIOUS
  <2> QED BY <2>1, <2>2
<1>7. IsWorld(x)
  <2>1. x = [t \in Types |-> x[t]]
    BY <1>2
  <2>2. ASSUME NEW t \in Types
        PROVE  /\ x[t] = [e \in DOMAIN x[t] |-> x[t][e]]
               /\ DOMAIN x[t] \subseteq Nat
               /\ \A e \in DOMAIN x[t] : x[t][e] \in Value
    <3>1. CASE t = "Renderable"
      <4>1. x[t] = [e \in DOMAIN x[t] |-> x[t][e]]
        BY <1>3, <3>1
      <4>2. DOMAIN x[t] \subseteq Nat
        BY <1>1, <1>5 DEF IsWorld
      <4>3. \A e \in DOMAIN x[t] : x[t][e] \in Value
        BY <1>5, <1>6, <3>1 DEF Value
      <4> QED BY <4>1, <4>2, <4>3
    <3>2. CASE t # "Renderable"
      BY <1>1, <1>4, <3>2 DEF IsWorld
    <3> QED BY <3>1, <3>2
  <2> QED BY <2>1, <2>2, Zenon DEF IsWorld
<1>8. x \in World
  BY <1>7, WorldFacts
<1> QED BY <1>0, <1>4, <1>5, <1>6, <1>8, Zenon DEF IsHidden

IsTyped(x, w, c, number) ==
    /\ x \in World
    /\ \A t \in Types : DOMAIN x[t] = DOMAIN w[t]
    /\ \A t \in Types \ {"Controllable"} : x[t] = w[t]
    /\ \A e \in DOMAIN w["Controllable"] :
          x["Controllable"][e] =
             IF e \in Mine(w, number) /\ e \in DOMAIN w["Velocity"]
             THEN <<c, keys[c]>> ELSE w["Controllable"][e]

LEMMA TypedFacts ==
    ASSUME NEW w \in World, NEW c \in Client, keys[c] \in Keys, NEW number
    PROVE  IsTyped(Typed(c, w, number), w, c, number)
<1>0. PICK x : x = Typed(c, w, number)
  OBVIOUS
<1>1. IsWorld(w) /\ "Controllable" \in Types
  BY WorldFacts DEF Types
<1> DEFINE new(e) == IF e \in Mine(w, number) /\ e \in DOMAIN w["Velocity"]
                     THEN <<c, keys[c]>> ELSE w["Controllable"][e]
<1>2. x = [t \in Types |-> IF t = "Controllable"
                           THEN [e \in DOMAIN w["Controllable"] |-> new(e)]
                           ELSE w[t]]
  <2>1. DOMAIN w = Types
    BY <1>1 DEF IsWorld
  <2> QED BY <1>0, <2>1 DEF Typed
<1>3. x["Controllable"] = [e \in DOMAIN w["Controllable"] |-> new(e)]
  BY <1>1, <1>2
<1>4. \A t \in Types \ {"Controllable"} : x[t] = w[t]
  BY <1>2
<1>5. \A t \in Types : DOMAIN x[t] = DOMAIN w[t]
  BY <1>3, <1>4
<1>6. \A e \in DOMAIN w["Controllable"] : x["Controllable"][e] = new(e)
  BY <1>3
<1>7. IsWorld(x)
  <2>1. x = [t \in Types |-> x[t]]
    BY <1>2
  <2>2. ASSUME NEW t \in Types
        PROVE  /\ x[t] = [e \in DOMAIN x[t] |-> x[t][e]]
               /\ DOMAIN x[t] \subseteq Nat
               /\ \A e \in DOMAIN x[t] : x[t][e] \in Value
    <3>1. CASE t = "Controllable"
      <4>1. x[t] = [e \in DOMAIN x[t] |-> x[t][e]]
        BY <1>3, <3>1
      <4>2. DOMAIN x[t] \subseteq Nat
        BY <1>1, <1>5 DEF IsWorld
      <4>3. ASSUME NEW e \in DOMAIN x[t] PROVE x[t][e] \in Value
        <5>1. x[t][e] = new(e) /\ e \in DOMAIN w["Controllable"]
          BY <1>5, <1>6, <3>1
        <5>2. w["Controllable"][e] \in Value
          BY <1>1, <5>1 DEF IsWorld
        <5>3. <<c, keys[c]>> \in Value
          BY DEF Value
        <5> QED BY <5>1, <5>2, <5>3
      <4> QED BY <4>1, <4>2, <4>3
    <3>2. CASE t # "Controllable"
      BY <1>1, <1>4, <3>2 DEF IsWorld
    <3> QED BY <3>1, <3>2
  <2> QED BY <2>1, <2>2, Zenon DEF IsWorld
<1>8. x \in World
  BY <1>7, WorldFacts
<1> QED BY <1>0, <1>4, <1>5, <1>6, <1>8, Zenon DEF IsTyped

-----------------------------------------------------------------------------
(* The invariant.                                                          *)
Control == [entity : Nat, value : Value]
Own(c) == {Initial} \cup ({c} \X Keys)
Ships == {ship[c] : c \in Client} \ {None}
InUse(w) == DOMAIN w["Renderable"] \cup Layers(w)
Used == InUse(world)

TypeInv ==
    /\ nextEntityId \in 0..MaxEntities
    /\ world \in World
    /\ ship \in [Client -> Nat \cup {None}]
    /\ keys \in [Client -> Keys]
    /\ channel \in [Client -> Seq(Message)]
    /\ upstream \in [Client -> Seq(Control)]
    /\ view \in [Client -> World]
    /\ PlayerEntityId \in [Client -> Nat \cup {None}]
    /\ told \in [Client -> World]

(* Ids are used or free, never both.                                       *)
PoolInv ==
    /\ \A e \in Used : e < nextEntityId
    /\ Free(availableEntityIds, nextEntityId, Used)

(* What is drawn is visible or not, layers are layers alone, and the ships s *)
(* are the only things with more than one component.                       *)
Manned(w, s) ==
    /\ s \subseteq DOMAIN w["Renderable"]
    /\ DOMAIN w["Renderable"] \cap Layers(w) = {}
    /\ \A type \in Types \ Drawn : DOMAIN w[type] = s
    /\ \A type \in Drawn : \A e \in DOMAIN w[type] : w[type][e] \in BOOLEAN

(* Ships are distinct entities.                                            *)
ShipInv ==
    /\ Manned(world, Ships)
    /\ \A c, d \in Client : c # d /\ ship[c] # None => ship[c] # ship[d]
    /\ \A e \in Ships : world["Player"][e] = e
    /\ \A c \in Client : ship[c] # None => world["Controllable"][ship[c]] \in Own(c)

(* What is fine for a client c with ship s: its registry vw, the messages   *)
(* ch to it and up from it, its number num, what it was told td.            *)
NothingLeft(s, ch, up, vw, td, num) ==
    s = None => /\ ch = << >> /\ up = << >>
                /\ vw = Nothing /\ td = Nothing /\ num = None
(* The values that may be written for entity e.                            *)
May(c, s, type, e, v) ==
    /\ e # WelcomeTag
    /\ type \in Drawn => v \in BOOLEAN
    /\ type = "Player" => v = e
    /\ type = "Controllable" /\ e = s => v \in Own(c)
SeenFine(c, s, vw) ==
    \A type \in Types : \A e \in DOMAIN vw[type] : May(c, s, type, e, vw[type][e])
ComingFine(c, s, ch) ==
    \A i \in 1..Len(ch) : ch[i].entity # WelcomeTag =>
        May(c, s, ch[i].type, ch[i].entity, ch[i].value)
(* Messages to the server name the ship and hold its own controls.         *)
SteersOwn(c, s, up) == \A i \in 1..Len(up) : up[i].entity = s /\ up[i].value \in Own(c)
(* The client knows whose its ship is when it knows of its velocity.       *)
PlayerFirst(s, ch, vw) ==
    /\ s \in DOMAIN vw["Velocity"] => s \in DOMAIN vw["Player"]
    /\ \A i \in 1..Len(ch) : About(ch[i], "Velocity", s) =>
          s \in DOMAIN vw["Player"] \/ \E j \in 1..i - 1 : About(ch[j], "Player", s)
(* With a velocity, the controls are keys.                                 *)
EchoFree(c, s, vw) ==
    s \in DOMAIN vw["Velocity"] /\ s \in DOMAIN vw["Controllable"] =>
        vw["Controllable"][s] \in {c} \X Keys
(* What the messages on the way will make of the registry is what was      *)
(* told.                                                                   *)
Agrees(s, ch, vw, td) ==
    \A type \in Types : \A e \in DOMAIN td[type] :
        e < WelcomeTag /\ <<type, e>> # <<"Controllable", s>> =>
            Cell(WrittenAll(vw, ch), type, e) = Cell(td, type, e)
(* What they will show is there, or was killed as it was (lf).              *)
Vanished(type, ch, vw, td, lf, visible) ==
    \A e \in Nat : Cell(WrittenAll(vw, ch), type, e) = {TRUE} =>
        /\ e \in DOMAIN td[type] \/ e \in lf
        /\ e \in lf \/ e \in visible

(* What is on the screen of the server, or may be again.                   *)
Visible == {e \in DOMAIN world["Renderable"] : world["Renderable"][e] = TRUE \/ e \in Ships}

ClientInv(c) ==
    /\ NothingLeft(ship[c], channel[c], upstream[c], view[c], told[c], PlayerEntityId[c])
    /\ PlayerEntityId[c] \in {None, ship[c]}
    /\ SeenFine(c, ship[c], view[c])
    /\ ComingFine(c, ship[c], channel[c])
    /\ SteersOwn(c, ship[c], upstream[c])
    /\ PlayerFirst(ship[c], channel[c], view[c])
    /\ EchoFree(c, ship[c], view[c])
    /\ Agrees(ship[c], channel[c], view[c], told[c])

(* What a client shows, or will, is visible, the ship of one who left or a  *)
(* layer of an earlier background.                                         *)
GhostInv(c) ==
    /\ Vanished("Renderable", channel[c], view[c], told[c], left, Visible)
    /\ Vanished("ParallaxScroller", channel[c], view[c], told[c], replaced, Layers(world))

IInv == /\ TypeInv /\ PoolInv /\ ShipInv
        /\ \A c \in Client : ClientInv(c) /\ GhostInv(c)

-----------------------------------------------------------------------------
LEMMA NothingFacts ==
    /\ Nothing \in World
    /\ \A t \in Types : DOMAIN Nothing[t] = {}
    /\ \A t \in Types : \A e : Cell(Nothing, t, e) = {}
<1>1. \A t \in Types : Nothing[t] = << >> /\ DOMAIN Nothing[t] = {}
  BY DEF Nothing
<1>2. IsWorld(Nothing)
  <2>1. Nothing = [t \in Types |-> Nothing[t]]
    BY DEF Nothing
  <2>2. ASSUME NEW t \in Types
        PROVE  /\ Nothing[t] = [e \in DOMAIN Nothing[t] |-> Nothing[t][e]]
               /\ DOMAIN Nothing[t] \subseteq Nat
               /\ \A e \in DOMAIN Nothing[t] : Nothing[t][e] \in Value
    BY <1>1
  <2> QED BY <2>1, <2>2, Zenon DEF IsWorld
<1>3. Nothing \in World
  BY <1>2, WorldFacts
<1>4. \A t \in Types : \A e : Cell(Nothing, t, e) = {}
  BY <1>1 DEF Cell
<1> QED BY <1>1, <1>3, <1>4

Fresh(c, s, ch, up, vw, td, num) ==
    /\ ch = << >> /\ up = << >> /\ vw = Nothing /\ td = Nothing
    /\ num \in {None, s}

(* All is fine for a client that has just come, or gone.                   *)
LEMMA FreshFine ==
    ASSUME NEW c \in Client, NEW s, NEW ch, NEW up, NEW vw, NEW td, NEW num,
           Fresh(c, s, ch, up, vw, td, num)
    PROVE  /\ NothingLeft(s, ch, up, vw, td, num)
           /\ SeenFine(c, s, vw)
           /\ ComingFine(c, s, ch)
           /\ SteersOwn(c, s, up)
           /\ PlayerFirst(s, ch, vw)
           /\ EchoFree(c, s, vw)
           /\ Agrees(s, ch, vw, td)
           /\ \A type \in Types : \A lf, visible : Vanished(type, ch, vw, td, lf, visible)
<1>1. /\ \A t \in Types : DOMAIN vw[t] = {} /\ DOMAIN td[t] = {}
      /\ \A i \in 1..Len(ch) : FALSE
      /\ \A i \in 1..Len(up) : FALSE
  <2>1. Len(ch) = 0 /\ Len(up) = 0
    BY DEF Fresh
  <2> QED BY <2>1, NothingFacts DEF Fresh
<1>2. NothingLeft(s, ch, up, vw, td, num)
  BY DEF Fresh, NothingLeft
<1>3. SeenFine(c, s, vw) /\ Agrees(s, ch, vw, td)
  BY <1>1 DEF SeenFine, Agrees
<1>4. ComingFine(c, s, ch) /\ SteersOwn(c, s, up)
  BY <1>1 DEF ComingFine, SteersOwn
<1>5. PlayerFirst(s, ch, vw) /\ EchoFree(c, s, vw)
  BY <1>1 DEF PlayerFirst, EchoFree, Types
<1>6. ASSUME NEW type \in Types, NEW lf, NEW visible
      PROVE  Vanished(type, ch, vw, td, lf, visible)
  <2>1. vw \in World /\ ch \in Seq(Message)
    BY NothingFacts DEF Fresh
  <2>2. \A e : Cell(vw, type, e) = {}
    BY NothingFacts DEF Fresh
  <2>3. \A e : Cell(WrittenAll(vw, ch), type, e) = {}
    BY <1>1, <2>1, <2>2, CellMade
  <2> QED BY <2>3 DEF Vanished
<1> QED BY <1>2, <1>3, <1>4, <1>5, <1>6

LEMMA ServerFacts ==
    ASSUME TypeInv, PoolInv, ShipInv
    PROVE  /\ Used \subseteq 0..MaxEntities - 1
           /\ \A type \in Types : DOMAIN world[type] \subseteq Used
           /\ Used \subseteq Nat
           /\ MaxEntities \in Nat /\ Byte \in Nat \ {0} /\ nextEntityId \in Nat
           /\ \A type \in Types : \A e \in DOMAIN world[type] : world[type][e] \in Value
<1>1. MaxEntities \in Nat /\ Byte \in Nat \ {0}
  BY ReplicationAssumption
<1>2. IsWorld(world)
  BY WorldFacts DEF TypeInv
<1>3. Used \subseteq Nat
  BY <1>2 DEF IsWorld, Used, InUse, Layers, Types
<1>4. Used \subseteq 0..MaxEntities - 1
  BY <1>1, <1>3 DEF PoolInv, TypeInv
<1>5. \A type \in Types : DOMAIN world[type] \subseteq Used
  <2>1. ASSUME NEW type \in Types, type \notin Drawn PROVE DOMAIN world[type] \subseteq Used
    BY <2>1 DEF ShipInv, Manned, Used, InUse
  <2>2. ASSUME NEW type \in Drawn PROVE DOMAIN world[type] \subseteq Used
    BY DEF Drawn, Used, InUse, Layers
  <2> QED BY <2>1, <2>2
<1>6. nextEntityId \in Nat
  BY <1>1 DEF TypeInv
<1>7. \A type \in Types : \A e \in DOMAIN world[type] : world[type][e] \in Value
  BY <1>2 DEF IsWorld
<1> QED BY <1>1, <1>3, <1>4, <1>5, <1>6, <1>7

-----------------------------------------------------------------------------
IsShipMade(x, w, e) ==
    /\ x \in World
    /\ \A t \in Types \ {"ParallaxScroller"} : DOMAIN x[t] = DOMAIN w[t] \cup {e}
    /\ DOMAIN x["ParallaxScroller"] = DOMAIN w["ParallaxScroller"]
    /\ \A t \in Types : \A i \in DOMAIN w[t] : i # e => x[t][i] = w[t][i]
    /\ x["Renderable"][e] = TRUE /\ x["Player"][e] = e /\ x["Controllable"][e] = Initial

(* HandleClientConnection makes a ship with all its components.            *)
LEMMA ShipMade ==
    ASSUME NEW w \in World, NEW e \in Nat
    PROVE  IsShipMade(Put(Put(Put(Put(w, "Renderable", e, TRUE), "Player", e, e),
                              "Controllable", e, Initial), "Velocity", e, 0), w, e)
<1>1. TRUE \in Value /\ e \in Value /\ Initial \in Value /\ 0 \in Value
  BY DEF Value
<1>2. /\ Types = {"Renderable", "Player", "Controllable", "Velocity", "ParallaxScroller"}
      /\ "Renderable" \in Types /\ "Player" \in Types /\ "Controllable" \in Types
      /\ "Velocity" \in Types
  BY DEF Types
<1>3. PICK w1 : w1 = Put(w, "Renderable", e, TRUE)
  OBVIOUS
<1>4. IsPut(w1, w, "Renderable", e, TRUE)
  BY <1>1, <1>2, <1>3, PutFacts
<1>5. PICK w2 : w2 = Put(w1, "Player", e, e)
  OBVIOUS
<1>6. IsPut(w2, w1, "Player", e, e)
  <2>1. w1 \in World
    BY <1>4 DEF IsPut
  <2> QED BY <2>1, <1>1, <1>2, <1>5, PutFacts
<1>7. PICK w3 : w3 = Put(w2, "Controllable", e, Initial)
  OBVIOUS
<1>8. IsPut(w3, w2, "Controllable", e, Initial)
  <2>1. w2 \in World
    BY <1>6 DEF IsPut
  <2> QED BY <2>1, <1>1, <1>2, <1>7, PutFacts
<1>9. PICK x : x = Put(w3, "Velocity", e, 0)
  OBVIOUS
<1>10. IsPut(x, w3, "Velocity", e, 0)
  <2>1. w3 \in World
    BY <1>8 DEF IsPut
  <2> QED BY <2>1, <1>1, <1>2, <1>9, PutFacts
<1>11. /\ \A t \in Types \ {"ParallaxScroller"} : DOMAIN x[t] = DOMAIN w[t] \cup {e}
       /\ DOMAIN x["ParallaxScroller"] = DOMAIN w["ParallaxScroller"]
  BY <1>2, <1>4, <1>6, <1>8, <1>10 DEF IsPut
<1>12. ASSUME NEW t \in Types, NEW i \in DOMAIN w[t], i # e PROVE x[t][i] = w[t][i]
  <2>1. w1[t][i] = w[t][i] /\ i \in DOMAIN w1[t]
    BY <1>4, <1>12 DEF IsPut
  <2>2. w2[t][i] = w1[t][i] /\ i \in DOMAIN w2[t]
    BY <1>6, <1>12, <2>1 DEF IsPut
  <2>3. w3[t][i] = w2[t][i] /\ i \in DOMAIN w3[t]
    BY <1>8, <1>12, <2>2 DEF IsPut
  <2>4. x[t][i] = w3[t][i]
    BY <1>10, <1>12, <2>3 DEF IsPut
  <2> QED BY <2>1, <2>2, <2>3, <2>4
<1>13. /\ e \in DOMAIN w1["Renderable"] /\ w1["Renderable"][e] = TRUE
       /\ e \in DOMAIN w2["Renderable"] /\ w2["Renderable"][e] = TRUE
       /\ e \in DOMAIN w3["Renderable"] /\ w3["Renderable"][e] = TRUE
  <2>1. e \in DOMAIN w1["Renderable"] /\ w1["Renderable"][e] = TRUE
    BY <1>2, <1>4 DEF IsPut
  <2>2. e \in DOMAIN w2["Renderable"] /\ w2["Renderable"][e] = TRUE
    BY <1>2, <1>6, <2>1 DEF IsPut
  <2>3. e \in DOMAIN w3["Renderable"] /\ w3["Renderable"][e] = TRUE
    BY <1>2, <1>8, <2>2 DEF IsPut
  <2> QED BY <2>1, <2>2, <2>3
<1>14. /\ e \in DOMAIN w2["Player"] /\ w2["Player"][e] = e
       /\ e \in DOMAIN w3["Player"] /\ w3["Player"][e] = e
       /\ e \in DOMAIN w3["Controllable"] /\ w3["Controllable"][e] = Initial
  BY <1>2, <1>6, <1>8 DEF IsPut
<1>15. x["Renderable"][e] = TRUE /\ x["Player"][e] = e /\ x["Controllable"][e] = Initial
  BY <1>2, <1>10, <1>11, <1>13, <1>14 DEF IsPut
<1>16. IsShipMade(x, w, e)
  <2>1. x \in World
    BY <1>10 DEF IsPut
  <2> QED BY <1>11, <1>12, <1>15, <2>1, Zenon DEF IsShipMade
<1> QED BY <1>3, <1>5, <1>7, <1>9, <1>16

-----------------------------------------------------------------------------
(* One lemma for each action, first where all begins.                      *)
LEMMA InitFine == Init => IInv
<1> SUFFICES ASSUME Init PROVE IInv
  OBVIOUS
<1>0. MaxEntities \in Nat /\ None \notin Nat
  BY ReplicationAssumption
<1>1. Used = {} /\ Ships = {}
  <2>1. DOMAIN Nothing["Renderable"] = {} /\ DOMAIN Nothing["ParallaxScroller"] = {}
    BY NothingFacts DEF Types
  <2>2. \A c \in Client : ship[c] = None
    BY DEF Init
  <2> QED BY <2>1, <2>2 DEF Init, Used, InUse, Layers, Ships
<1>2. TypeInv
  <2>1. << >> \in Seq(Message) /\ << >> \in Seq(Control)
    BY EmptySeq
  <2> QED BY <1>0, <2>1, NothingFacts DEF Init, TypeInv
<1>3. PoolInv
  BY <1>1, EmptySeq DEF Init, PoolInv, Free
<1>4. ShipInv
  <2>1. \A type \in Types : DOMAIN world[type] = {}
    BY NothingFacts DEF Init
  <2>2. \A c \in Client : ship[c] = None
    BY DEF Init
  <2>3. Manned(world, Ships)
    BY <1>1, <2>1 DEF Manned, Layers, Drawn, Types
  <2> QED BY <1>1, <2>2, <2>3 DEF ShipInv
<1>5. ASSUME NEW c \in Client PROVE ClientInv(c) /\ GhostInv(c)
  <2>1. Fresh(c, ship[c], channel[c], upstream[c], view[c], told[c], PlayerEntityId[c])
    BY DEF Init, Fresh
  <2>2. /\ NothingLeft(ship[c], channel[c], upstream[c], view[c], told[c], PlayerEntityId[c])
        /\ SeenFine(c, ship[c], view[c])
        /\ ComingFine(c, ship[c], channel[c])
        /\ SteersOwn(c, ship[c], upstream[c])
        /\ PlayerFirst(ship[c], channel[c], view[c])
        /\ EchoFree(c, ship[c], view[c])
        /\ Agrees(ship[c], channel[c], view[c], told[c])
        /\ \A type \in Types : \A lf, visible :
              Vanished(type, channel[c], view[c], told[c], lf, visible)
    BY <2>1, FreshFine
  <2> QED BY <2>1, <2>2 DEF ClientInv, GhostInv, Fresh, Types
<1> QED BY <1>2, <1>3, <1>4, <1>5 DEF IInv

(* A client nothing happens to.                                             *)
Unmoved(c) ==
    /\ ship'[c] = ship[c] /\ channel'[c] = channel[c] /\ upstream'[c] = upstream[c]
    /\ view'[c] = view[c] /\ told'[c] = told[c] /\ PlayerEntityId'[c] = PlayerEntityId[c]

LEMMA UnmovedFine ==
    ASSUME NEW c \in Client, ClientInv(c), Unmoved(c)
    PROVE  ClientInv(c)'
BY DEF ClientInv, Unmoved

LEMMA VanishedKept ==
    ASSUME NEW c \in Client, GhostInv(c), Unmoved(c), left \subseteq left',
           replaced' = replaced, Layers(world)' = Layers(world),
           \A e \in Visible : e \in Visible' \/ e \in left'
    PROVE  GhostInv(c)'
BY DEF GhostInv, Vanished, Unmoved

LEMMA FreshKept ==
    ASSUME NEW c \in Client, Fresh(c, ship[c], channel[c], upstream[c], view[c], told[c],
                                   PlayerEntityId[c])'
    PROVE  ClientInv(c)' /\ GhostInv(c)'
<1>1. PICK s, ch, up, vw, td, num :
         /\ s = ship'[c] /\ ch = channel'[c] /\ up = upstream'[c] /\ vw = view'[c]
         /\ td = told'[c] /\ num = PlayerEntityId'[c]
  OBVIOUS
<1>2. Fresh(c, s, ch, up, vw, td, num)
  BY <1>1
<1>3. /\ NothingLeft(s, ch, up, vw, td, num)
      /\ SeenFine(c, s, vw)
      /\ ComingFine(c, s, ch)
      /\ SteersOwn(c, s, up)
      /\ PlayerFirst(s, ch, vw)
      /\ EchoFree(c, s, vw)
      /\ Agrees(s, ch, vw, td)
      /\ \A type \in Types : \A lf, visible : Vanished(type, ch, vw, td, lf, visible)
  BY <1>2, FreshFine
<1>4. num \in {None, s}
  BY <1>2 DEF Fresh
<1>5. ClientInv(c)'
  BY <1>1, <1>3, <1>4 DEF ClientInv
<1>6. GhostInv(c)'
  BY <1>1, <1>3 DEF GhostInv, Types
<1> QED BY <1>5, <1>6

(* The new ship gets an id that is not in use.                             *)
LEMMA ConnectKeeps ==
    ASSUME IInv, NEW c \in Client, Connect(c)
    PROVE  IInv'
<1> DEFINE e == SpawnedId
<1>0. /\ Used \subseteq 0..MaxEntities - 1
      /\ \A type \in Types : DOMAIN world[type] \subseteq Used
      /\ Used \subseteq Nat
      /\ MaxEntities \in Nat /\ Byte \in Nat \ {0} /\ nextEntityId \in Nat
      /\ None \notin Nat
  BY ServerFacts, ReplicationAssumption DEF IInv
<1>1. Spawned(e, availableEntityIds', nextEntityId', availableEntityIds, nextEntityId, Used)
  <2>1. CASE availableEntityIds # << >>
    <3>1. Spawned(Head(availableEntityIds), Tail(availableEntityIds), nextEntityId,
                  availableEntityIds, nextEntityId, Used)
      BY <1>0, <2>1, SpawnTakes DEF IInv, PoolInv
    <3> QED BY <2>1, <3>1 DEF Connect, SpawnedId
  <2>2. CASE availableEntityIds = << >>
    <3>1. Spawned(nextEntityId, availableEntityIds, nextEntityId + 1,
                  availableEntityIds, nextEntityId, Used)
      BY <1>0, <2>2, SpawnNew DEF IInv, PoolInv
    <3> QED BY <2>2, <3>1 DEF Connect, SpawnedId
  <2> QED BY <2>1, <2>2
<1>2. /\ e < MaxEntities
      /\ world' = Put(Put(Put(Put(world, "Renderable", e, TRUE), "Player", e, e),
                               "Controllable", e, Initial), "Velocity", e, 0)
      /\ ship[c] = None
      /\ ship' = [ship EXCEPT ![c] = e]
      /\ PlayerEntityId' = [PlayerEntityId EXCEPT ![c] = e]
      /\ UNCHANGED <<keys, view, told, channel, upstream, left, replaced>>
  BY DEF Connect, CanSpawn, histories
<1> HIDE DEF e
<1>3. e \in Nat /\ e \notin Used /\ e < nextEntityId' /\ nextEntityId' \in 0..MaxEntities
      /\ nextEntityId <= nextEntityId'
  BY <1>0, <1>1, <1>2 DEF Spawned, IInv, TypeInv
<1>4. IsShipMade(world', world, e)
  BY <1>2, <1>3, ShipMade DEF IInv, TypeInv
<1>5. /\ \A d \in Client \ {c} : ship'[d] = ship[d]
      /\ ship'[c] = e
      /\ ship' \in [Client -> Nat \cup {None}]
      /\ PlayerEntityId' \in [Client -> Nat \cup {None}]
      /\ PlayerEntityId'[c] = e
      /\ \A d \in Client \ {c} : PlayerEntityId'[d] = PlayerEntityId[d]
  BY <1>2, <1>3 DEF IInv, TypeInv
<1>6. Used' = Used \cup {e} /\ Layers(world') = Layers(world)
  BY <1>4 DEF IsShipMade, Used, InUse, Layers, Types
<1>7. Ships' = Ships \cup {e}
  BY <1>0, <1>2, <1>3, <1>5 DEF Ships
<1>8. TypeInv'
  BY <1>2, <1>3, <1>4, <1>5 DEF IInv, TypeInv, IsShipMade
<1>9. PoolInv'
  <2>1. \A i \in Used' : i < nextEntityId'
    BY <1>0, <1>3, <1>6 DEF IInv, PoolInv
  <2> QED BY <1>1, <1>6, <2>1 DEF Spawned, PoolInv
<1>10. ShipInv'
  <2>1. /\ DOMAIN world'["Renderable"] = DOMAIN world["Renderable"] \cup {e}
        /\ Layers(world') = Layers(world)
    BY <1>4 DEF IsShipMade, Layers, Types
  <2>2. \A d1, d2 \in Client : d1 # d2 /\ ship'[d1] # None => ship'[d1] # ship'[d2]
    <3>1. \A d \in Client \ {c} : ship'[d] # e
      <4>1. ASSUME NEW d \in Client \ {c}, ship'[d] = e PROVE FALSE
        <5>1. ship[d] \in Ships
          BY <1>0, <1>3, <1>5, <4>1 DEF Ships
        <5> QED BY <1>3, <1>5, <4>1, <5>1 DEF IInv, ShipInv, Manned, Used, InUse
      <4> QED BY <4>1
    <3> QED BY <1>5, <3>1 DEF IInv, ShipInv
  <2>3. \A type \in Types \ Drawn : DOMAIN world'[type] = Ships'
    <3>1. \A type \in Types \ Drawn : type \in Types \ {"ParallaxScroller"}
      BY DEF Drawn
    <3> QED BY <1>4, <1>7, <3>1 DEF IInv, ShipInv, Manned, IsShipMade
  <2>4. Manned(world', Ships')
    <3>1. ASSUME NEW type \in Drawn, NEW i \in DOMAIN world'[type] PROVE world'[type][i] \in BOOLEAN
      <4>1. CASE i \in DOMAIN world[type] /\ i # e
        <5>1. world'[type][i] = world[type][i]
          BY <1>4, <4>1 DEF IsShipMade, Drawn, Types
        <5> QED BY <4>1, <5>1 DEF IInv, ShipInv, Manned
      <4>2. CASE i \notin DOMAIN world[type] \/ i = e
        <5>1. type = "Renderable" /\ i = e
          BY <1>3, <2>1, <4>2 DEF Drawn, Layers, Used, InUse
        <5> QED BY <1>4, <5>1 DEF IsShipMade
      <4> QED BY <4>1, <4>2
    <3>2. Ships' \subseteq DOMAIN world'["Renderable"]
      BY <1>7, <2>1 DEF IInv, ShipInv, Manned
    <3>3. DOMAIN world'["Renderable"] \cap Layers(world') = {}
      BY <1>3, <2>1 DEF IInv, ShipInv, Manned, Used, InUse
    <3> QED BY <2>3, <3>1, <3>2, <3>3 DEF Manned
  <2>5. \A i \in Ships' : world'["Player"][i] = i
    <3>1. ASSUME NEW i \in Ships', i # e PROVE world'["Player"][i] = i
      <4>1. i \in Ships /\ i \in DOMAIN world["Player"]
        BY <1>7, <3>1 DEF IInv, ShipInv, Manned, Drawn, Types
      <4>2. world'["Player"][i] = world["Player"][i]
        BY <1>4, <3>1, <4>1 DEF IsShipMade, Types
      <4> QED BY <4>1, <4>2 DEF IInv, ShipInv
    <3> QED BY <1>4, <3>1 DEF IsShipMade
  <2>6. ASSUME NEW d \in Client, ship'[d] # None
        PROVE  world'["Controllable"][ship'[d]] \in Own(d)
    <3>1. CASE d = c
      BY <1>4, <1>5, <3>1 DEF IsShipMade, Own
    <3>2. CASE d # c
      <4>1. ship'[d] = ship[d] /\ ship[d] \in Ships /\ ship[d] \in DOMAIN world["Controllable"]
        BY <1>5, <2>6, <3>2 DEF IInv, ShipInv, Manned, Drawn, Types, Ships
      <4>2. ship[d] # e
        BY <1>3, <4>1 DEF IInv, ShipInv, Manned, Used, InUse
      <4>3. world'["Controllable"][ship[d]] = world["Controllable"][ship[d]]
        BY <1>4, <4>1, <4>2 DEF IsShipMade, Types
      <4> QED BY <2>6, <4>1, <4>3 DEF IInv, ShipInv
    <3> QED BY <3>1, <3>2
  <2> QED BY <2>2, <2>4, <2>5, <2>6 DEF ShipInv
<1>11. \A i \in Visible : i \in Visible'
  <2>1. ASSUME NEW i \in Visible PROVE i \in Visible'
    <3>1. i # e /\ i \in DOMAIN world["Renderable"]
      BY <1>3 DEF Visible, Used, InUse
    <3>2. i \in DOMAIN world'["Renderable"] /\ world'["Renderable"][i] = world["Renderable"][i]
      BY <1>4, <3>1 DEF IsShipMade, Types
    <3> QED BY <1>7, <3>1, <3>2 DEF Visible
  <2> QED BY <2>1
<1>12. ASSUME NEW d \in Client PROVE ClientInv(d)' /\ GhostInv(d)'
  <2>1. CASE d = c
    <3>1. NothingLeft(ship[c], channel[c], upstream[c], view[c], told[c], PlayerEntityId[c])
      BY DEF IInv, ClientInv
    <3>2. Fresh(c, ship[c], channel[c], upstream[c], view[c], told[c], PlayerEntityId[c])'
      BY <1>2, <1>5, <3>1 DEF NothingLeft, Fresh
    <3> QED BY <2>1, <3>2, FreshKept
  <2>2. CASE d # c
    <3>1. Unmoved(d)
      BY <1>2, <1>5, <2>2 DEF Unmoved
    <3>2. ClientInv(d)'
      BY <3>1, UnmovedFine DEF IInv
    <3>3. GhostInv(d)'
      <4>1. left \subseteq left' /\ replaced' = replaced
        BY <1>2
      <4> QED BY <1>6, <1>11, <3>1, <4>1, VanishedKept DEF IInv
    <3> QED BY <3>2, <3>3
  <2> QED BY <2>1, <2>2
<1> QED BY <1>8, <1>9, <1>10, <1>12 DEF IInv

(* The ship leaves the world and its id is free.                           *)
LEMMA DisconnectKeeps ==
    ASSUME IInv, NEW c \in Client, Disconnect(c)
    PROVE  IInv'
<1>0. /\ Used \subseteq 0..MaxEntities - 1
      /\ \A type \in Types : DOMAIN world[type] \subseteq Used
      /\ Used \subseteq Nat
      /\ MaxEntities \in Nat /\ Byte \in Nat \ {0} /\ nextEntityId \in Nat
      /\ None \notin Nat
  BY ServerFacts, ReplicationAssumption DEF IInv
<1>1. PICK e : e = ship[c]
  OBVIOUS
<1>2. /\ e # None
      /\ world' = KilledIn(world, {e})
      /\ availableEntityIds' = Append(availableEntityIds, e)
      /\ left' = left \cup {e}
      /\ ship' = [ship EXCEPT ![c] = None]
      /\ PlayerEntityId' = [PlayerEntityId EXCEPT ![c] = None]
      /\ channel' = [channel EXCEPT ![c] = << >>]
      /\ upstream' = [upstream EXCEPT ![c] = << >>]
      /\ view' = [view EXCEPT ![c] = Nothing]
      /\ told' = [told EXCEPT ![c] = Nothing]
      /\ UNCHANGED <<nextEntityId, keys, replaced>>
  BY <1>1 DEF Disconnect
<1>3. e \in Nat /\ e \in Ships /\ e \in Used /\ e < nextEntityId
  <2>1. e \in Ships
    BY <1>1, <1>2 DEF Ships
  <2>2. e \in Used
    BY <2>1 DEF IInv, ShipInv, Manned, Used, InUse
  <2> QED BY <1>0, <2>1, <2>2 DEF IInv, PoolInv
<1>4. IsKilled(world', world, {e})
  BY <1>2, KilledFacts DEF IInv, TypeInv
<1>5. /\ DOMAIN world'["Renderable"] = DOMAIN world["Renderable"] \ {e}
      /\ Layers(world') = Layers(world)
      /\ Used' = Used \ {e}
  <2>1. e \notin Layers(world)
    BY <1>3 DEF IInv, ShipInv, Manned
  <2> QED BY <1>4, <2>1 DEF IsKilled, Used, InUse, Layers, Types
<1>6. /\ \A d \in Client \ {c} : ship'[d] = ship[d] /\ ship'[d] # e
      /\ ship'[c] = None
      /\ ship' \in [Client -> Nat \cup {None}]
  <2>1. ship' \in [Client -> Nat \cup {None}] /\ ship'[c] = None
        /\ \A d \in Client \ {c} : ship'[d] = ship[d]
    BY <1>2 DEF IInv, TypeInv
  <2>2. \A d \in Client \ {c} : ship[d] # e
    BY <1>1, <1>2 DEF IInv, ShipInv
  <2> QED BY <2>1, <2>2
<1>7. Ships' = Ships \ {e}
  BY <1>1, <1>6 DEF Ships
<1>8. TypeInv'
  <2>1. PlayerEntityId' \in [Client -> Nat \cup {None}]
    BY <1>2 DEF IInv, TypeInv
  <2>2. channel' \in [Client -> Seq(Message)] /\ upstream' \in [Client -> Seq(Control)]
    <3>1. << >> \in Seq(Message) /\ << >> \in Seq(Control)
      BY EmptySeq
    <3> QED BY <1>2, <3>1 DEF IInv, TypeInv
  <2>3. view' \in [Client -> World] /\ told' \in [Client -> World]
    BY <1>2, NothingFacts DEF IInv, TypeInv
  <2>4. nextEntityId' \in 0..MaxEntities /\ keys' \in [Client -> Keys]
    BY <1>2 DEF IInv, TypeInv
  <2> QED BY <1>4, <1>6, <2>1, <2>2, <2>3, <2>4 DEF TypeInv, IsKilled
<1>9. PoolInv'
  <2>1. Free(availableEntityIds', nextEntityId', Used')
    BY <1>0, <1>2, <1>3, <1>5, FreeAppend DEF IInv, PoolInv
  <2> QED BY <1>2, <1>5, <2>1 DEF IInv, PoolInv
<1>10. ShipInv'
  <2>1. \A t \in Types : \A i \in DOMAIN world'[t] :
            i # e /\ i \in DOMAIN world[t] /\ world'[t][i] = world[t][i]
    BY <1>4 DEF IsKilled
  <2>2. /\ Ships' \subseteq DOMAIN world'["Renderable"]
        /\ DOMAIN world'["Renderable"] \cap Layers(world') = {}
    BY <1>5, <1>7 DEF IInv, ShipInv, Manned
  <2>3. \A d1, d2 \in Client : d1 # d2 /\ ship'[d1] # None => ship'[d1] # ship'[d2]
    BY <1>6 DEF IInv, ShipInv
  <2>4. \A type \in Types \ Drawn : DOMAIN world'[type] = Ships'
    BY <1>4, <1>7 DEF IInv, ShipInv, Manned, IsKilled
  <2>5. Manned(world', Ships')
    <3>1. \A type \in Drawn : \A i \in DOMAIN world'[type] : world'[type][i] \in BOOLEAN
      <4>1. \A type \in Drawn : type \in Types
        BY DEF Drawn, Types
      <4> QED BY <2>1, <4>1 DEF IInv, ShipInv, Manned
    <3> QED BY <2>2, <2>4, <3>1 DEF Manned
  <2>6. \A i \in Ships' : world'["Player"][i] = i
    <3>1. ASSUME NEW i \in Ships' PROVE world'["Player"][i] = i
      <4>1. i \in Ships /\ i \in DOMAIN world'["Player"]
        BY <1>7, <2>4 DEF Drawn, Types
      <4>2. world'["Player"][i] = world["Player"][i]
        BY <2>1, <4>1 DEF Types
      <4> QED BY <4>1, <4>2 DEF IInv, ShipInv
    <3> QED BY <3>1
  <2>7. ASSUME NEW d \in Client, ship'[d] # None
        PROVE  world'["Controllable"][ship'[d]] \in Own(d)
    <3>1. ship'[d] = ship[d] /\ ship'[d] \in Ships'
      BY <1>6, <2>7 DEF Ships
    <3>2. ship'[d] \in DOMAIN world'["Controllable"]
      BY <2>4, <3>1 DEF Drawn, Types
    <3>3. world'["Controllable"][ship[d]] = world["Controllable"][ship[d]]
      BY <2>1, <3>1, <3>2 DEF Types
    <3> QED BY <2>7, <3>1, <3>3 DEF IInv, ShipInv
  <2> QED BY <2>3, <2>5, <2>6, <2>7 DEF ShipInv
<1>11. \A i \in Visible : i \in Visible' \/ i \in left'
  <2>1. ASSUME NEW i \in Visible, i # e PROVE i \in Visible'
    <3>1. i \in DOMAIN world'["Renderable"] /\ (world["Renderable"][i] = TRUE \/ i \in Ships)
      BY <1>5, <2>1 DEF Visible
    <3>2. world'["Renderable"][i] = world["Renderable"][i]
      BY <1>4, <3>1 DEF IsKilled, Types
    <3> QED BY <1>7, <2>1, <3>1, <3>2 DEF Visible
  <2> QED BY <1>2, <2>1
<1>12. ASSUME NEW d \in Client PROVE ClientInv(d)' /\ GhostInv(d)'
  <2>1. CASE d = c
    <3>1. Fresh(c, ship[c], channel[c], upstream[c], view[c], told[c], PlayerEntityId[c])'
      BY <1>2, <1>6 DEF Fresh, IInv, TypeInv
    <3> QED BY <2>1, <3>1, FreshKept
  <2>2. CASE d # c
    <3>1. Unmoved(d)
      BY <1>2, <1>6, <2>2 DEF Unmoved, IInv, TypeInv
    <3>2. ClientInv(d)'
      BY <3>1, UnmovedFine DEF IInv
    <3>3. GhostInv(d)'
      <4>1. left \subseteq left' /\ replaced' = replaced
        BY <1>2
      <4> QED BY <1>5, <1>11, <3>1, <4>1, VanishedKept DEF IInv
    <3> QED BY <3>2, <3>3
  <2> QED BY <2>1, <2>2
<1> QED BY <1>8, <1>9, <1>10, <1>12 DEF IInv

(* The message names the ship of the client that sent it.                  *)
LEMMA ReceiveControlsKeeps ==
    ASSUME IInv, NEW c \in Client, ReceiveControls(c)
    PROVE  IInv'
<1>0. /\ Used \subseteq Nat
      /\ \A type \in Types : DOMAIN world[type] \subseteq Used
      /\ None \notin Nat
  BY ServerFacts, ReplicationAssumption DEF IInv
<1>1. upstream[c] \in Seq(Control) /\ upstream[c] # << >>
  BY DEF IInv, TypeInv, ReceiveControls
<1>2. /\ Tail(upstream[c]) \in Seq(Control) /\ Len(upstream[c]) \in Nat \ {0}
      /\ Len(Tail(upstream[c])) = Len(upstream[c]) - 1
      /\ \A i \in 1..Len(Tail(upstream[c])) : Tail(upstream[c])[i] = upstream[c][i + 1]
      /\ Head(upstream[c]) = upstream[c][1]
  BY <1>1, HeadTailProperties, EmptySeq
<1>3. PICK e, v : e = upstream[c][1].entity /\ v = upstream[c][1].value
  OBVIOUS
<1>4. e = ship[c] /\ v \in Own(c) /\ v \in Value /\ e \in Nat
  <2>1. 1 \in 1..Len(upstream[c])
    BY <1>2
  <2>2. upstream[c][1] \in Control
    BY <1>1, <2>1, ElementOfSeq
  <2>3. SteersOwn(c, ship[c], upstream[c])
    BY DEF IInv, ClientInv
  <2> QED BY <1>3, <2>1, <2>2, <2>3 DEF SteersOwn, Control
<1>5. /\ world' = Put(world, "Controllable", e, v)
      /\ upstream' = [upstream EXCEPT ![c] = Tail(@)]
      /\ UNCHANGED <<nextEntityId, availableEntityIds, ship, keys, view, PlayerEntityId,
                     channel, told, left, replaced>>
  BY <1>2, <1>3 DEF ReceiveControls, clientVars, histories
<1>6. IsPut(world', world, "Controllable", e, v)
  BY <1>4, <1>5, PutFacts DEF IInv, TypeInv, Types
<1>7. e \in Ships /\ e \in DOMAIN world["Controllable"]
  <2>1. e # None
    BY <1>0, <1>4
  <2> QED BY <1>4, <2>1 DEF Ships, IInv, ShipInv, Manned, Drawn, Types
<1>8. /\ \A t \in Types : DOMAIN world'[t] = DOMAIN world[t]
      /\ \A t \in Types \ {"Controllable"} : \A i \in DOMAIN world[t] : world'[t][i] = world[t][i]
      /\ \A i \in DOMAIN world["Controllable"] :
            world'["Controllable"][i] = IF i = e THEN v ELSE world["Controllable"][i]
  <2>1. \A t \in Types : DOMAIN world'[t] = DOMAIN world[t]
    BY <1>6, <1>7 DEF IsPut
  <2>2. "Controllable" \in Types
    BY DEF Types
  <2> QED BY <1>6, <2>1, <2>2 DEF IsPut
<1>9. Used' = Used /\ Ships' = Ships /\ Layers(world') = Layers(world)
  BY <1>5, <1>8 DEF Used, InUse, Ships, Layers, Types
<1>10. TypeInv'
  <2>1. upstream' \in [Client -> Seq(Control)]
    BY <1>2, <1>5 DEF IInv, TypeInv
  <2> QED BY <1>5, <1>6, <2>1 DEF IInv, TypeInv, IsPut
<1>11. PoolInv'
  BY <1>5, <1>9 DEF IInv, PoolInv
<1>12. ShipInv'
  <2>1. \A type \in Types \ Drawn : DOMAIN world'[type] = Ships'
    BY <1>8, <1>9 DEF IInv, ShipInv, Manned
  <2>2. Manned(world', Ships')
    <3>1. \A type \in Drawn : type \in Types \ {"Controllable"}
      BY DEF Drawn, Types
    <3>2. \A type \in Drawn : \A i \in DOMAIN world'[type] : world'[type][i] \in BOOLEAN
      BY <1>8, <3>1 DEF IInv, ShipInv, Manned
    <3>3. DOMAIN world'["Renderable"] = DOMAIN world["Renderable"]
      BY <1>8 DEF Types
    <3> QED BY <1>9, <2>1, <3>2, <3>3 DEF IInv, ShipInv, Manned
  <2>3. \A i \in Ships' : world'["Player"][i] = i
    <3>1. ASSUME NEW i \in Ships' PROVE world'["Player"][i] = i
      <4>1. i \in Ships /\ i \in DOMAIN world["Player"]
        BY <1>9 DEF IInv, ShipInv, Manned, Drawn, Types
      <4>2. world'["Player"][i] = world["Player"][i]
        BY <1>8, <4>1 DEF Types
      <4> QED BY <4>1, <4>2 DEF IInv, ShipInv
    <3> QED BY <3>1
  <2>4. ASSUME NEW d \in Client, ship'[d] # None
        PROVE  world'["Controllable"][ship'[d]] \in Own(d)
    <3>1. ship'[d] = ship[d] /\ ship[d] \in Ships /\ ship[d] \in DOMAIN world["Controllable"]
      BY <1>5, <2>4 DEF Ships, IInv, ShipInv, Manned, Drawn, Types
    <3>2. CASE ship[d] = e
      <4>1. d = c
        BY <1>4, <2>4, <3>1, <3>2 DEF IInv, ShipInv
      <4> QED BY <1>4, <1>8, <3>1, <3>2, <4>1
    <3>3. CASE ship[d] # e
      BY <1>8, <2>4, <3>1, <3>3 DEF IInv, ShipInv
    <3> QED BY <3>2, <3>3
  <2> QED BY <1>5, <2>2, <2>3, <2>4 DEF IInv, ShipInv
<1>13. \A i \in Visible : i \in Visible'
  <2>1. ASSUME NEW i \in Visible PROVE i \in Visible'
    <3>1. /\ i \in DOMAIN world'["Renderable"]
          /\ world'["Renderable"][i] = world["Renderable"][i]
      BY <1>8 DEF Visible, Types
    <3> QED BY <1>9, <3>1 DEF Visible
  <2> QED BY <2>1
<1>14. ASSUME NEW d \in Client PROVE ClientInv(d)' /\ GhostInv(d)'
  <2>1. CASE d # c
    <3>1. Unmoved(d)
      BY <1>5, <2>1 DEF Unmoved, IInv, TypeInv
    <3>2. ClientInv(d)'
      BY <3>1, UnmovedFine DEF IInv
    <3>3. GhostInv(d)'
      BY <1>5, <1>9, <1>13, <3>1, VanishedKept DEF IInv
    <3> QED BY <3>2, <3>3
  <2>2. CASE d = c
    <3>1. upstream'[c] = Tail(upstream[c])
      BY <1>5 DEF IInv, TypeInv
    <3>2. SteersOwn(c, ship[c], upstream'[c])
      <4>1. \A i \in 1..Len(Tail(upstream[c])) : i + 1 \in 1..Len(upstream[c])
        BY <1>2
      <4>2. SteersOwn(c, ship[c], upstream[c])
        BY DEF IInv, ClientInv
      <4> QED BY <1>2, <3>1, <4>1, <4>2 DEF SteersOwn
    <3>3. ship[c] # None
      BY <1>0, <1>4
    <3>4. ClientInv(c)'
      BY <1>5, <3>2, <3>3 DEF IInv, ClientInv, NothingLeft
    <3>5. GhostInv(c)'
      BY <1>5, <1>9, <1>13 DEF IInv, GhostInv, Vanished
    <3> QED BY <2>2, <3>4, <3>5
  <2> QED BY <2>1, <2>2
<1> QED BY <1>10, <1>11, <1>12, <1>14 DEF IInv

LEMMA PressKeysKeeps ==
    ASSUME IInv, NEW c \in Client, NEW k \in Keys, PressKeys(c, k)
    PROVE  IInv'
<1>1. /\ keys' = [keys EXCEPT ![c] = k]
      /\ UNCHANGED <<nextEntityId, availableEntityIds, world, ship, view, PlayerEntityId,
                     channel, upstream, told, left, replaced>>
  BY DEF PressKeys, serverVars, histories
<1>2. Used' = Used /\ Ships' = Ships /\ Visible' = Visible
  BY <1>1 DEF Used, InUse, Ships, Visible
<1>3. TypeInv'
  BY <1>1 DEF IInv, TypeInv
<1>4. PoolInv' /\ ShipInv'
  BY <1>1, <1>2 DEF IInv, PoolInv, ShipInv
<1>5. ASSUME NEW d \in Client PROVE ClientInv(d)' /\ GhostInv(d)'
  BY <1>1, <1>2 DEF IInv, ClientInv, GhostInv
<1> QED BY <1>3, <1>4, <1>5 DEF IInv

(* A client sends controls of its own ship only.                           *)
LEMMA ControlsFacts ==
    ASSUME MaxEntities <= Byte, IInv, NEW c \in Client, ship[c] # None,
           NEW s, s = Controls(c)
    PROVE  /\ s \in Seq(Control)
           /\ \A i \in 1..Len(s) : /\ ship[c] \in DOMAIN view[c]["Controllable"]
                                   /\ s[i].entity = ship[c]
                                   /\ s[i].value = view[c]["Controllable"][ship[c]]
<1>0. /\ Used \subseteq 0..MaxEntities - 1 /\ MaxEntities \in Nat /\ Byte \in Nat \ {0}
      /\ None \notin Nat
  BY ServerFacts, ReplicationAssumption DEF IInv
<1> DEFINE vw == view[c]
           own == Mine(vw, PlayerEntityId[c]) \cap DOMAIN vw["Controllable"]
           ids == Ascending(own)
<1>1. ship[c] \in 0..MaxEntities - 1 /\ ship[c] % Byte = ship[c]
  <2>1. ship[c] \in 0..MaxEntities - 1
    BY <1>0 DEF IInv, ShipInv, Manned, Ships, Used, InUse
  <2> QED BY <1>0, <2>1
<1>2. IsWorld(vw)
  BY WorldFacts DEF IInv, TypeInv
<1>3. ASSUME NEW e \in own PROVE e = ship[c] /\ e \in DOMAIN vw["Controllable"]
  <2>1. e \in DOMAIN vw["Player"] /\ vw["Player"][e] = PlayerEntityId[c] /\ e \in DOMAIN vw["Controllable"]
    BY DEF Mine
  <2>2. e \in Nat
    BY <1>2, <2>1 DEF IsWorld, Types
  <2>3. vw["Player"][e] = e
    <3>1. SeenFine(c, ship[c], vw)
      BY DEF IInv, ClientInv
    <3> QED BY <2>1, <3>1 DEF SeenFine, May, Types
  <2>4. PlayerEntityId[c] \in {None, ship[c]}
    BY DEF IInv, ClientInv
  <2> QED BY <1>0, <2>1, <2>2, <2>3, <2>4
<1>4. Listed(ids, own \cap (0..MaxEntities - 1))
  <2> HIDE DEF own
  <2> QED BY AscendingFacts
<1>5. s = [i \in 1..Len(ids) |-> [entity |-> ids[i] % Byte, value |-> vw["Controllable"][ids[i]]]]
  BY DEF Controls
<1> HIDE DEF own, ids
<1>6. Len(ids) \in Nat
  BY <1>4, LenProperties DEF Listed
<1>7. \A i \in 1..Len(ids) : ids[i] = ship[c] /\ ship[c] \in DOMAIN vw["Controllable"]
  BY <1>3, <1>4 DEF Listed
<1>8. \A i \in 1..Len(ids) : [entity |-> ids[i] % Byte, value |-> vw["Controllable"][ids[i]]] \in Control
  <2>1. \A e \in DOMAIN vw["Controllable"] : vw["Controllable"][e] \in Value
    BY <1>2 DEF IsWorld, Types
  <2> QED BY <1>1, <1>7, <2>1 DEF Control
<1>9. s \in [1..Len(ids) -> Control]
  BY <1>5, <1>8
<1>10. s \in Seq(Control) /\ Len(s) = Len(ids)
  BY <1>6, <1>9
<1> QED BY <1>1, <1>5, <1>7, <1>10

(* What a client's frame makes of its registry.                             *)
IsRead(y, post, c, s, ch, vw) ==
    /\ y \in World /\ post \in Seq(Message)
    /\ SeenFine(c, s, y) /\ ComingFine(c, s, post) /\ PlayerFirst(s, post, y)
    /\ EchoFree(c, s, y)
    /\ \A t \in Types : \A e : t # "Controllable" \/ e # s =>
          Cell(WrittenAll(y, post), t, e) = Cell(WrittenAll(vw, ch), t, e)

LEMMA ReadFine ==
    ASSUME NEW c \in Client, NEW s, s # None, keys[c] \in Keys,
           NEW ch \in Seq(Message), NEW n \in Nat, n <= Len(ch), NEW vw \in World,
           SeenFine(c, s, vw), ComingFine(c, s, ch), PlayerFirst(s, ch, vw),
           NEW y, y = Typed(c, WrittenAll(vw, SubSeq(ch, 1, n)), s),
           NEW post, post = SubSeq(ch, n + 1, Len(ch))
    PROVE  IsRead(y, post, c, s, ch, vw)
<1>1. PICK pre : pre = SubSeq(ch, 1, n)
  OBVIOUS
<1>2. /\ pre \in Seq(Message) /\ Len(pre) = n
      /\ \A i \in 1..n : i \in 1..Len(ch) /\ pre[i] = ch[i]
  BY <1>1, PrefixFacts
<1>3. /\ post \in Seq(Message) /\ Len(ch) \in Nat /\ Len(post) = Len(ch) - n
      /\ \A i \in 1..Len(post) : n + i \in 1..Len(ch) /\ post[i] = ch[n + i]
      /\ \A i \in 1..Len(ch) : i \in 1..n \/ (i - n \in 1..Len(post) /\ post[i - n] = ch[i])
  BY SuffixFacts
<1>4. PICK p : p = WrittenAll(vw, pre)
  OBVIOUS
<1>5. p \in World
  BY <1>2, <1>4, WrittenAllFacts DEF IsWrittenAll
<1>6. IsTyped(y, p, c, s)
  BY <1>1, <1>4, <1>5, TypedFacts
<1>7. y \in World
  BY <1>6 DEF IsTyped
<1>8. ASSUME NEW t \in Types, NEW e
      PROVE  e \in DOMAIN p[t] <=> e \in DOMAIN vw[t] \/ \E i \in 1..n : About(ch[i], t, e)
  <2>1. Cell(p, t, e) # {} <=> Cell(vw, t, e) # {} \/ \E i \in 1..Len(pre) : About(pre[i], t, e)
    BY <1>2, <1>4, CellMade
  <2>2. /\ Cell(p, t, e) # {} <=> e \in DOMAIN p[t]
        /\ Cell(vw, t, e) # {} <=> e \in DOMAIN vw[t]
    BY DEF Cell
  <2> QED BY <1>2, <2>1, <2>2
<1>9. SeenFine(c, s, p)
  <2>1. ASSUME NEW t \in Types, NEW e \in DOMAIN p[t] PROVE May(c, s, t, e, p[t][e])
    <3> DEFINE G == {v \in {p[t][e]} \cup Cell(vw, t, e) \cup {pre[i].value : i \in 1..Len(pre)} :
                        May(c, s, t, e, v)}
    <3>1. Cell(vw, t, e) \subseteq G
      BY DEF SeenFine, Cell
    <3>2. \A i \in 1..Len(pre) : About(pre[i], t, e) => pre[i].value \in G
      BY <1>2 DEF ComingFine, About
    <3>3. Cell(p, t, e) \subseteq G
      <4> HIDE DEF G
      <4> QED BY <1>2, <1>4, <3>1, <3>2, CellWithin
    <3>4. p[t][e] \in Cell(p, t, e)
      BY DEF Cell
    <3> QED BY <3>3, <3>4
  <2> QED BY <2>1 DEF SeenFine
<1>10. \A e \in Mine(p, s) : e = s
  BY <1>9 DEF Mine, SeenFine, May, Types
<1>11. SeenFine(c, s, y)
  <2>1. ASSUME NEW t \in Types, NEW e \in DOMAIN y[t] PROVE May(c, s, t, e, y[t][e])
    <3>1. e \in DOMAIN p[t]
      BY <1>6 DEF IsTyped
    <3>2. May(c, s, t, e, p[t][e])
      BY <1>9, <3>1 DEF SeenFine
    <3>3. CASE t # "Controllable"
      BY <1>6, <3>2, <3>3 DEF IsTyped
    <3>4. CASE t = "Controllable"
      <4>1. y[t][e] = p[t][e] \/ y[t][e] = <<c, keys[c]>>
        BY <1>6, <3>1, <3>4 DEF IsTyped
      <4>2. <<c, keys[c]>> \in Own(c)
        BY DEF Own
      <4>3. t \notin Drawn
        BY <3>4 DEF Drawn
      <4> QED BY <3>2, <3>4, <4>1, <4>2, <4>3 DEF May
    <3> QED BY <3>3, <3>4
  <2> QED BY <2>1 DEF SeenFine
<1>12. ComingFine(c, s, post)
  BY <1>3 DEF ComingFine
<1>13. \A t \in Types : DOMAIN y[t] = DOMAIN p[t]
  BY <1>6 DEF IsTyped
<1>14. s \in DOMAIN p["Velocity"] => s \in DOMAIN p["Player"]
  <2>1. ASSUME s \in DOMAIN p["Velocity"] PROVE s \in DOMAIN p["Player"]
    <3>1. CASE s \in DOMAIN vw["Velocity"]
      BY <1>8, <3>1 DEF PlayerFirst, Types
    <3>2. CASE \E i \in 1..n : About(ch[i], "Velocity", s)
      <4>1. PICK i \in 1..n : About(ch[i], "Velocity", s)
        BY <3>2
      <4>2. s \in DOMAIN vw["Player"] \/ \E j \in 1..i - 1 : About(ch[j], "Player", s)
        BY <1>2, <4>1 DEF PlayerFirst
      <4>3. \A j \in 1..i - 1 : j \in 1..n
        OBVIOUS
      <4> QED BY <1>8, <4>2, <4>3 DEF Types
    <3> QED BY <1>8, <2>1, <3>1, <3>2 DEF Types
  <2> QED BY <2>1
<1>15. PlayerFirst(s, post, y)
  <2>1. s \in DOMAIN y["Velocity"] => s \in DOMAIN y["Player"]
    BY <1>13, <1>14 DEF Types
  <2>2. ASSUME NEW i \in 1..Len(post), About(post[i], "Velocity", s),
               s \notin DOMAIN y["Player"]
        PROVE  \E j \in 1..i - 1 : About(post[j], "Player", s)
    <3>1. n + i \in 1..Len(ch) /\ About(ch[n + i], "Velocity", s)
      BY <1>3, <2>2
    <3>2. s \notin DOMAIN vw["Player"] /\ \A j \in 1..n : ~About(ch[j], "Player", s)
      BY <1>8, <1>13, <2>2 DEF Types
    <3>3. PICK j \in 1..(n + i) - 1 : About(ch[j], "Player", s)
      BY <3>1, <3>2 DEF PlayerFirst
    <3>4. j \in 1..Len(ch) /\ j \notin 1..n
      BY <1>3, <3>1, <3>2, <3>3
    <3>5. j - n \in 1..i - 1 /\ post[j - n] = ch[j]
      BY <1>3, <3>4
    <3> QED BY <3>3, <3>5
  <2> QED BY <2>1, <2>2 DEF PlayerFirst
<1>16. EchoFree(c, s, y)
  <2>1. ASSUME s \in DOMAIN y["Velocity"], s \in DOMAIN y["Controllable"]
        PROVE  y["Controllable"][s] \in {c} \X Keys
    <3>1. s \in DOMAIN p["Velocity"] /\ s \in DOMAIN p["Controllable"] /\ s \in DOMAIN p["Player"]
      BY <1>13, <1>14, <2>1 DEF Types
    <3>2. s \in Mine(p, s)
      BY <1>9, <3>1 DEF Mine, SeenFine, May, Types
    <3> QED BY <1>6, <3>1, <3>2 DEF IsTyped
  <2> QED BY <2>1 DEF EchoFree
<1>17. ASSUME NEW t \in Types, NEW e, t # "Controllable" \/ e # s
       PROVE  Cell(WrittenAll(y, post), t, e) = Cell(WrittenAll(vw, ch), t, e)
  <2>1. Cell(y, t, e) = Cell(p, t, e)
    <3>1. CASE t # "Controllable"
      BY <1>6, <3>1 DEF IsTyped, Cell
    <3>2. CASE t = "Controllable" /\ e # s
      <4>1. e \notin Mine(p, s)
        BY <1>10, <3>2
      <4>2. \A i \in {e} \cap DOMAIN p[t] : y[t][i] = p[t][i]
        BY <1>6, <3>2, <4>1 DEF IsTyped
      <4>3. {e} \cap DOMAIN p[t] = {e} \cap DOMAIN y[t]
        BY <1>13
      <4> QED BY <4>2, <4>3 DEF Cell
    <3> QED BY <1>17, <3>1, <3>2
  <2>2. Cell(y, t, e) = Cell(WrittenAll(vw, SubSeq(ch, 1, n)), t, e)
    BY <1>1, <1>4, <2>1
  <2> QED BY <1>7, <2>2, CellAfterRead
<1> QED BY <1>3, <1>7, <1>11, <1>12, <1>15, <1>16, <1>17 DEF IsRead

LEMMA ClientFrameKeeps ==
    ASSUME MaxEntities <= Byte, IInv, NEW c \in Client, NEW n \in Nat, ClientFrame(c, n)
    PROVE  IInv'
<1>0. None \notin Nat
  BY ReplicationAssumption
<1>1. PICK s, ch, vw, y, post, sent :
         /\ s = ship[c] /\ ch = channel[c] /\ vw = view[c]
         /\ y = Typed(c, WrittenAll(vw, SubSeq(ch, 1, n)), s)
         /\ post = SubSeq(ch, n + 1, Len(ch))
         /\ sent = Controls(c)
  OBVIOUS
<1>2. /\ s # None /\ n <= Len(ch)
      /\ UNCHANGED <<nextEntityId, availableEntityIds, world, ship, keys, told, left, replaced>>
      /\ upstream' = [upstream EXCEPT ![c] = @ \o sent]
      /\ view' = [view EXCEPT ![c] = y]
      /\ channel' = [channel EXCEPT ![c] = post]
  BY <1>1 DEF ClientFrame, serverVars, histories, IInv, TypeInv
<1>3. PlayerEntityId' = [PlayerEntityId EXCEPT ![c] = NumberRead(@, SubSeq(channel[c], 1, n))]
  BY DEF ClientFrame
<1>4. ch \in Seq(Message) /\ vw \in World /\ keys[c] \in Keys
      /\ SeenFine(c, s, vw) /\ ComingFine(c, s, ch) /\ PlayerFirst(s, ch, vw)
  BY <1>1 DEF IInv, TypeInv, ClientInv
<1>5. /\ y \in World /\ post \in Seq(Message)
      /\ SeenFine(c, s, y) /\ ComingFine(c, s, post) /\ PlayerFirst(s, post, y)
      /\ EchoFree(c, s, y)
      /\ \A t \in Types : \A e : t # "Controllable" \/ e # s =>
            Cell(WrittenAll(y, post), t, e) = Cell(WrittenAll(vw, ch), t, e)
  <2>1. IsRead(y, post, c, s, ch, vw)
    BY <1>1, <1>2, <1>4, ReadFine
  <2> QED BY <2>1 DEF IsRead
<1>6. /\ sent \in Seq(Control)
      /\ \A i \in 1..Len(sent) : /\ s \in DOMAIN vw["Controllable"]
                                 /\ sent[i].entity = s
                                 /\ sent[i].value = vw["Controllable"][s]
  BY <1>1, <1>2, ControlsFacts
<1>7. upstream[c] \in Seq(Control) /\ upstream[c] \o sent \in Seq(Control)
  BY <1>6, ConcatProperties DEF IInv, TypeInv
<1>8. Used' = Used /\ Ships' = Ships /\ Visible' = Visible
  BY <1>2 DEF Used, InUse, Ships, Visible
<1>9. \A num \in {None, s} : NumberRead(num, SubSeq(channel[c], 1, n)) \in {None, s}
  BY DEF NumberRead
<1>10. PlayerEntityId[c] \in {None, s}
  BY <1>1 DEF IInv, ClientInv
<1>11. /\ PlayerEntityId'[c] \in {None, s}
       /\ \A d \in Client \ {c} : PlayerEntityId'[d] = PlayerEntityId[d]
       /\ PlayerEntityId' \in [Client -> Nat \cup {None}]
  <2>1. PICK num : num = NumberRead(PlayerEntityId[c], SubSeq(channel[c], 1, n))
    OBVIOUS
  <2>2. num \in {None, s}
    BY <1>9, <1>10, <2>1
  <2>3. s \in Nat \cup {None}
    BY <1>1 DEF IInv, TypeInv
  <2>4. PlayerEntityId' = [PlayerEntityId EXCEPT ![c] = num]
    BY <1>3, <2>1
  <2> QED BY <2>2, <2>3, <2>4 DEF IInv, TypeInv
<1>12. TypeInv'
  BY <1>2, <1>5, <1>7, <1>11 DEF IInv, TypeInv
<1>13. PoolInv' /\ ShipInv'
  BY <1>2, <1>8 DEF IInv, PoolInv, ShipInv
<1>14. ASSUME NEW d \in Client PROVE ClientInv(d)' /\ GhostInv(d)'
  <2>1. CASE d # c
    <3>1. Unmoved(d)
      BY <1>2, <1>11, <2>1 DEF Unmoved, IInv, TypeInv
    <3>2. ClientInv(d)'
      BY <3>1, UnmovedFine DEF IInv
    <3>3. GhostInv(d)'
      BY <1>2, <1>8, <3>1, VanishedKept DEF IInv
    <3> QED BY <3>2, <3>3
  <2>2. CASE d = c
    <3>1. /\ ship'[c] = s /\ channel'[c] = post /\ view'[c] = y
          /\ told'[c] = told[c] /\ upstream'[c] = upstream[c] \o sent
      BY <1>1, <1>2 DEF IInv, TypeInv
    <3>2. SteersOwn(c, s, upstream[c] \o sent)
      <4>1. PICK up, both : up = upstream[c] /\ both = up \o sent
        OBVIOUS
      <4>2. /\ Len(up) \in Nat
            /\ \A i \in 1..Len(both) : i \in 1..Len(up) \/ i - Len(up) \in 1..Len(sent)
            /\ \A i \in 1..Len(up) : both[i] = up[i]
            /\ \A i \in 1..Len(both) : i \notin 1..Len(up) => both[i] = sent[i - Len(up)]
        BY <1>6, <1>7, <4>1, ConcatFacts
      <4>3. \A i \in 1..Len(up) : up[i].entity = s /\ up[i].value \in Own(c)
        BY <1>1, <4>1 DEF IInv, ClientInv, SteersOwn
      <4>4. \A i \in 1..Len(sent) : sent[i].entity = s /\ sent[i].value \in Own(c)
        BY <1>4, <1>6 DEF SeenFine, May, Types
      <4>5. \A i \in 1..Len(both) : both[i].entity = s /\ both[i].value \in Own(c)
        BY <4>2, <4>3, <4>4
      <4> QED BY <4>1, <4>5 DEF SteersOwn
    <3>3. Agrees(s, post, y, told[c])
      <4>1. Agrees(s, ch, vw, told[c])
        BY <1>1 DEF IInv, ClientInv
      <4>2. \A t \in Types : \A e : <<t, e>> # <<"Controllable", s>> =>
               Cell(WrittenAll(y, post), t, e) = Cell(WrittenAll(vw, ch), t, e)
        BY <1>5
      <4> QED BY <4>1, <4>2 DEF Agrees
    <3>4. NothingLeft(s, post, upstream[c] \o sent, y, told[c], PlayerEntityId'[c])
      BY <1>2 DEF NothingLeft
    <3>5. ClientInv(c)'
      BY <1>5, <1>11, <3>1, <3>2, <3>3, <3>4 DEF ClientInv
    <3>6. GhostInv(c)'
      <4>1. /\ Vanished("Renderable", ch, vw, told[c], left, Visible)
            /\ Vanished("ParallaxScroller", ch, vw, told[c], replaced, Layers(world))
        BY <1>1 DEF IInv, GhostInv
      <4>2. \A type \in Drawn : \A e :
               Cell(WrittenAll(y, post), type, e) = Cell(WrittenAll(vw, ch), type, e)
        BY <1>5 DEF Drawn, Types
      <4>3. /\ Vanished("Renderable", post, y, told[c], left, Visible)
            /\ Vanished("ParallaxScroller", post, y, told[c], replaced, Layers(world))
        BY <4>1, <4>2 DEF Vanished, Drawn
      <4> QED BY <1>2, <1>8, <3>1, <4>3 DEF GhostInv
    <3> QED BY <2>2, <3>5, <3>6
  <2> QED BY <2>1, <2>2
<1> QED BY <1>12, <1>13, <1>14 DEF IInv

(* What the systems of a frame work on, g, with the ships s.                *)
GoodPool(g, s) ==
    /\ g.world \in World /\ g.next \in Nat
    /\ \A i \in InUse(g.world) : i < g.next
    /\ Free(g.free, g.next, InUse(g.world))
    /\ Manned(g.world, s)

(* A system makes h of it, in which only dead is no more drawn.             *)
Kept(h, g, dead, s) ==
    /\ GoodPool(h, s) /\ g.next <= h.next
    /\ \A type \in Types \ Drawn :
         /\ DOMAIN h.world[type] = DOMAIN g.world[type]
         /\ \A i \in DOMAIN g.world[type] : h.world[type][i] = g.world[type][i]
    /\ DOMAIN g.world["Renderable"] \ dead \subseteq DOMAIN h.world["Renderable"]

LEMMA KeptBoth ==
    ASSUME NEW g, NEW h, NEW k, NEW s, NEW dead,
           GoodPool(g, s), Kept(h, g, dead, s), Kept(k, h, {}, s)
    PROVE  Kept(k, g, dead, s)
<1>1. g.next \in Nat /\ h.next \in Nat /\ k.next \in Nat /\ g.next <= h.next /\ h.next <= k.next
  BY DEF Kept, GoodPool
<1>2. g.next <= k.next
  BY <1>1
<1> QED BY <1>2 DEF Kept

LEMMA InUseFacts ==
    ASSUME NEW g, NEW s, GoodPool(g, s)
    PROVE  /\ InUse(g.world) \subseteq Nat
           /\ \A type \in Types : DOMAIN g.world[type] \subseteq InUse(g.world)
           /\ s \subseteq InUse(g.world)
<1>1. IsWorld(g.world)
  BY WorldFacts DEF GoodPool
<1>2. InUse(g.world) \subseteq Nat
  BY <1>1 DEF IsWorld, InUse, Layers, Types
<1>3. s \subseteq InUse(g.world)
  BY DEF GoodPool, Manned, InUse
<1>4. \A type \in Types \ Drawn : DOMAIN g.world[type] \subseteq InUse(g.world)
  BY <1>3 DEF GoodPool, Manned
<1>5. \A type \in Drawn : DOMAIN g.world[type] \subseteq InUse(g.world)
  BY DEF Drawn, InUse, Layers
<1> QED BY <1>2, <1>3, <1>4, <1>5

LEMMA KillKeeps ==
    ASSUME NEW g, NEW s, GoodPool(g, s), g.next <= MaxEntities,
           NEW dead, dead \subseteq InUse(g.world) \ s
    PROVE  Kept(Kill(g, dead), g, dead, s)
<1>0. /\ InUse(g.world) \subseteq Nat
      /\ \A type \in Types : DOMAIN g.world[type] \subseteq InUse(g.world)
      /\ MaxEntities \in Nat /\ g.next \in Nat
  BY InUseFacts, ReplicationAssumption DEF GoodPool
<1>1. PICK h, w, x : h = Kill(g, dead) /\ w = g.world /\ x = KilledIn(w, dead)
  OBVIOUS
<1>2. h.world = x /\ h.free = g.free \o Ascending(dead) /\ h.next = g.next
  BY <1>1 DEF Kill
<1>3. IsKilled(x, w, dead)
  BY <1>1, KilledFacts DEF GoodPool
<1>4. InUse(x) = InUse(w) \ dead
  BY <1>3 DEF IsKilled, InUse, Layers, Types
<1>5. Free(h.free, h.next, InUse(x))
  <2>1. Listed(Ascending(dead), dead)
    <3>1. dead \cap (0..MaxEntities - 1) = dead
      <4>1. \A i \in dead : i \in Nat /\ i < g.next
        BY <1>0 DEF GoodPool
      <4> QED BY <1>0, <4>1
    <3> QED BY <3>1, AscendingFacts
  <2>2. /\ Free(g.free, g.next, InUse(w)) /\ dead \subseteq InUse(w)
        /\ \A i \in dead : i < g.next
    BY <1>1 DEF GoodPool
  <2> QED BY <1>0, <1>2, <1>4, <2>1, <2>2, FreeConcat
<1>6. Manned(x, s)
  <2>1. \A type \in Types \ Drawn : DOMAIN x[type] = s
    <3>1. \A type \in Types \ Drawn : DOMAIN w[type] = s /\ s \ dead = s
      BY <1>1 DEF GoodPool, Manned
    <3> QED BY <1>3, <3>1 DEF IsKilled
  <2>2. \A type \in Drawn : \A i \in DOMAIN x[type] : x[type][i] \in BOOLEAN
    <3>1. \A type \in Drawn : type \in Types
      BY DEF Drawn, Types
    <3> QED BY <1>1, <1>3, <3>1 DEF IsKilled, GoodPool, Manned
  <2>3. /\ DOMAIN x["Renderable"] = DOMAIN w["Renderable"] \ dead
        /\ Layers(x) = Layers(w) \ dead
    BY <1>3 DEF IsKilled, Layers, Types
  <2>4. s \subseteq DOMAIN x["Renderable"] /\ DOMAIN x["Renderable"] \cap Layers(x) = {}
    BY <1>1, <2>3 DEF GoodPool, Manned
  <2> QED BY <2>1, <2>2, <2>4 DEF Manned
<1>7. GoodPool(h, s)
  <2>1. x \in World /\ \A i \in InUse(x) : i < h.next
    BY <1>1, <1>2, <1>3, <1>4 DEF IsKilled, GoodPool
  <2> QED BY <1>0, <1>2, <1>5, <1>6, <2>1 DEF GoodPool
<1>8. ASSUME NEW type \in Types \ Drawn
      PROVE  /\ DOMAIN x[type] = DOMAIN w[type]
             /\ \A i \in DOMAIN w[type] : x[type][i] = w[type][i]
  <2>1. DOMAIN x[type] = DOMAIN w[type]
    BY <1>1, <1>6 DEF GoodPool, Manned
  <2> QED BY <1>3, <2>1 DEF IsKilled
<1>9. DOMAIN w["Renderable"] \ dead \subseteq DOMAIN x["Renderable"]
  BY <1>3 DEF IsKilled, Types
<1>10. g.next <= h.next
  BY <1>0, <1>2
<1> QED BY <1>1, <1>2, <1>7, <1>8, <1>9, <1>10 DEF Kept

LEMMA HideKeeps ==
    ASSUME NEW g, NEW s, GoodPool(g, s), NEW gone,
           NEW h, h.world = HiddenIn(g.world, gone), h.free = g.free, h.next = g.next
    PROVE  Kept(h, g, {}, s)
<1>1. PICK w, x : w = g.world /\ x = HiddenIn(w, gone)
  OBVIOUS
<1>2. IsHidden(x, w, gone)
  <2>1. \A i \in DOMAIN w["Renderable"] : w["Renderable"][i] \in BOOLEAN
    BY <1>1 DEF GoodPool, Manned, Drawn
  <2> QED BY <1>1, <2>1, HiddenFacts DEF GoodPool
<1>3. \A type \in Types : DOMAIN x[type] = DOMAIN w[type]
  BY <1>2 DEF IsHidden
<1>4. InUse(x) = InUse(w) /\ Layers(x) = Layers(w)
  BY <1>3 DEF InUse, Layers, Types
<1>5. Manned(x, s)
  <2>1. Manned(w, s)
    BY <1>1 DEF GoodPool
  <2>2. ASSUME NEW type \in Drawn, NEW i \in DOMAIN x[type] PROVE x[type][i] \in BOOLEAN
    <3>1. CASE type = "Renderable"
      BY <1>2, <2>2, <3>1 DEF IsHidden, Types
    <3>2. CASE type # "Renderable"
      <4>1. type \in Types \ {"Renderable"}
        BY <3>2 DEF Drawn, Types
      <4>2. x[type] = w[type]
        BY <1>2, <4>1 DEF IsHidden
      <4> QED BY <2>1, <2>2, <4>2 DEF Manned
    <3> QED BY <3>1, <3>2
  <2>3. DOMAIN x["Renderable"] = DOMAIN w["Renderable"]
    BY <1>3 DEF Types
  <2> QED BY <1>3, <1>4, <2>1, <2>2, <2>3 DEF Manned
<1>6. GoodPool(h, s)
  <2>1. x \in World
    BY <1>2 DEF IsHidden
  <2> QED BY <1>1, <1>4, <1>5, <2>1 DEF GoodPool
<1>7. \A type \in Types \ Drawn : x[type] = w[type]
  <2>1. \A type \in Types \ Drawn : type \in Types \ {"Renderable"}
    BY DEF Drawn
  <2> QED BY <1>2, <2>1 DEF IsHidden
<1>8. g.next <= h.next
  <2>1. g.next \in Nat
    BY DEF GoodPool
  <2> QED BY <2>1
<1>9. DOMAIN x["Renderable"] = DOMAIN w["Renderable"]
  BY <1>3 DEF Types
<1> QED BY <1>1, <1>6, <1>7, <1>8, <1>9 DEF Kept

LEMMA SpawnKeeps ==
    ASSUME NEW g, NEW s, GoodPool(g, s), NEW type \in Drawn
    PROVE  Kept(Spawn(g, type), g, {}, s)
<1>0. /\ InUse(g.world) \subseteq Nat /\ s \subseteq InUse(g.world)
      /\ g.next \in Nat /\ type \in Types /\ TRUE \in Value
  BY InUseFacts DEF GoodPool, Drawn, Types, Value
<1>1. PICK h, e : h = Spawn(g, type) /\ e = IF g.free # << >> THEN Head(g.free) ELSE g.next
  OBVIOUS
<1>2. PICK w, x : w = g.world /\ x = Put(w, type, e, TRUE)
  OBVIOUS
<1>3. /\ h.world = x
      /\ h.free = IF g.free # << >> THEN Tail(g.free) ELSE g.free
      /\ h.next = IF g.free # << >> THEN g.next ELSE g.next + 1
  BY <1>1, <1>2 DEF Spawn
<1>4. Spawned(e, h.free, h.next, g.free, g.next, InUse(w))
  <2>1. Free(g.free, g.next, InUse(w)) /\ \A i \in InUse(w) : i < g.next
    BY <1>2 DEF GoodPool
  <2>2. CASE g.free # << >>
    <3>1. Spawned(Head(g.free), Tail(g.free), g.next, g.free, g.next, InUse(w))
      BY <1>0, <2>1, <2>2, SpawnTakes
    <3> QED BY <1>1, <1>3, <2>2, <3>1
  <2>3. CASE g.free = << >>
    <3>1. Spawned(g.next, g.free, g.next + 1, g.free, g.next, InUse(w))
      BY <1>0, <2>1, <2>3, SpawnNew
    <3> QED BY <1>1, <1>3, <2>3, <3>1
  <2> QED BY <2>2, <2>3
<1>5. e \in Nat /\ e \notin InUse(w) /\ e < h.next /\ h.next \in Nat /\ g.next <= h.next
  BY <1>4 DEF Spawned
<1>6. IsPut(x, w, type, e, TRUE)
  BY <1>0, <1>2, <1>5, PutFacts DEF GoodPool
<1>7. InUse(x) = InUse(w) \cup {e}
  <2>1. type = "Renderable" \/ type = "ParallaxScroller"
    BY DEF Drawn
  <2> QED BY <1>6, <2>1 DEF IsPut, InUse, Layers, Types
<1>8. \A t \in Types \ Drawn :
         /\ DOMAIN x[t] = DOMAIN w[t]
         /\ \A i \in DOMAIN w[t] : x[t][i] = w[t][i]
  BY <1>6 DEF IsPut
<1>9. DOMAIN w["Renderable"] \subseteq DOMAIN x["Renderable"]
  BY <1>6 DEF IsPut, Types
<1>10. Manned(x, s)
  <2>1. Manned(w, s)
    BY <1>2 DEF GoodPool
  <2>2. ASSUME NEW t \in Drawn, NEW i \in DOMAIN x[t] PROVE x[t][i] \in BOOLEAN
    <3>1. t \in Types
      BY DEF Drawn, Types
    <3>2. CASE t = type /\ i = e
      BY <1>6, <2>2, <3>1, <3>2 DEF IsPut
    <3>3. CASE ~(t = type /\ i = e)
      <4>1. i \in DOMAIN w[t] /\ x[t][i] = w[t][i]
        BY <1>6, <2>2, <3>1, <3>3 DEF IsPut
      <4> QED BY <2>1, <4>1 DEF Manned
    <3> QED BY <3>2, <3>3
  <2>3. DOMAIN x["Renderable"] \cap Layers(x) = {}
    <3>1. CASE type = "Renderable"
      <4>1. Layers(x) = Layers(w) /\ DOMAIN x["Renderable"] = DOMAIN w["Renderable"] \cup {e}
        BY <1>6, <3>1 DEF IsPut, Layers, Types
      <4> QED BY <1>5, <2>1, <4>1 DEF Manned, InUse
    <3>2. CASE type = "ParallaxScroller"
      <4>1. Layers(x) = Layers(w) \cup {e} /\ DOMAIN x["Renderable"] = DOMAIN w["Renderable"]
        BY <1>6, <3>2 DEF IsPut, Layers, Types
      <4> QED BY <1>5, <2>1, <4>1 DEF Manned, InUse
    <3> QED BY <3>1, <3>2 DEF Drawn
  <2> QED BY <1>8, <1>9, <2>1, <2>2, <2>3 DEF Manned
<1>11. GoodPool(h, s)
  <2>1. x \in World
    BY <1>6 DEF IsPut
  <2>2. \A i \in InUse(w) : i \in Nat /\ i < g.next
    BY <1>0, <1>2 DEF GoodPool
  <2>3. \A i \in InUse(x) : i < h.next
    BY <1>0, <1>5, <1>7, <2>2
  <2>4. Free(h.free, h.next, InUse(x))
    BY <1>4, <1>7 DEF Spawned
  <2> QED BY <1>3, <1>5, <1>10, <2>1, <2>3, <2>4 DEF GoodPool
<1> QED BY <1>1, <1>2, <1>3, <1>5, <1>8, <1>9, <1>11 DEF Kept

(* The systems of the game kill what is hidden, no ship and nothing seen.   *)
LEMMA PlayedKeeps ==
    ASSUME NEW g, NEW s, GoodPool(g, s), g.next <= MaxEntities,
           Hidden(g.world) \subseteq InUse(g.world) \ s, NEW gone, NEW spawn \in BOOLEAN
    PROVE  Kept(Played(g, gone, spawn), g, Hidden(g.world), s)
<1>1. PICK dead, rest, seen :
         /\ dead = Hidden(g.world) /\ rest = Kill(g, dead)
         /\ seen = [rest EXCEPT !.world = HiddenIn(@, gone)]
  OBVIOUS
<1>2. Kept(rest, g, dead, s)
  BY <1>1, KillKeeps
<1>3. Kept(seen, rest, {}, s)
  <2>1. /\ seen.world = HiddenIn(rest.world, gone)
        /\ seen.free = rest.free /\ seen.next = rest.next
    BY <1>1 DEF Kill
  <2>2. GoodPool(rest, s)
    BY <1>2 DEF Kept
  <2> QED BY <2>1, <2>2, HideKeeps
<1>4. Kept(seen, g, dead, s)
  BY <1>2, <1>3, KeptBoth
<1>5. Kept(Spawn(seen, "Renderable"), g, dead, s)
  <2>1. GoodPool(seen, s) /\ "Renderable" \in Drawn
    BY <1>4 DEF Kept, Drawn
  <2>2. Kept(Spawn(seen, "Renderable"), seen, {}, s)
    BY <2>1, SpawnKeeps
  <2> QED BY <1>4, <2>2, KeptBoth
<1> QED BY <1>1, <1>4, <1>5 DEF Played

(* A new background takes away nothing that is drawn but layers.            *)
LEMMA SetLevelKeeps ==
    ASSUME NEW g, NEW s, GoodPool(g, s), setLevel(g).next <= MaxEntities
    PROVE  Kept(setLevel(g), g, {}, s)
<1>1. PICK dead, rest : dead = Layers(g.world) /\ rest = Kill(g, dead)
  OBVIOUS
<1>2. setLevel(g) = Spawn(rest, "ParallaxScroller") /\ rest.next = g.next
  BY <1>1 DEF setLevel, Kill
<1>3. g.next <= MaxEntities
  <2>1. PICK h : h = setLevel(g)
    OBVIOUS
  <2>2. h.next = g.next \/ h.next = g.next + 1
    BY <1>2, <2>1 DEF Spawn
  <2> QED BY <2>1, <2>2, ReplicationAssumption DEF GoodPool
<1>4. /\ dead \subseteq InUse(g.world) \ s
      /\ DOMAIN g.world["Renderable"] \ dead = DOMAIN g.world["Renderable"]
  BY <1>1 DEF GoodPool, Manned, InUse
<1>5. Kept(rest, g, dead, s)
  BY <1>1, <1>3, <1>4, KillKeeps
<1>6. Kept(rest, g, {}, s)
  BY <1>4, <1>5 DEF Kept
<1>7. Kept(Spawn(rest, "ParallaxScroller"), rest, {}, s)
  <2>1. GoodPool(rest, s) /\ "ParallaxScroller" \in Drawn
    BY <1>6 DEF Kept, Drawn
  <2> QED BY <2>1, SpawnKeeps
<1> QED BY <1>2, <1>6, <1>7, KeptBoth

(* What a frame of the server makes of its world.                           *)
LEMMA FrameFacts ==
    ASSUME IInv, NEW gone, NEW spawn \in BOOLEAN, NEW switch \in BOOLEAN,
           Frame(gone, spawn, switch)
    PROVE  \E g, h, dead :
              /\ g.world = world
              /\ h.world = world' /\ h.free = availableEntityIds' /\ h.next = nextEntityId'
              /\ h.next <= MaxEntities /\ Kept(h, g, dead, Ships)
              /\ \A i \in Visible : i \notin dead
<1>0. MaxEntities \in Nat /\ nextEntityId \in Nat /\ nextEntityId <= MaxEntities
  BY ServerFacts DEF IInv, TypeInv
<1>1. PICK g, s : /\ g = [world |-> world, free |-> availableEntityIds, next |-> nextEntityId]
                  /\ s = Ships
  OBVIOUS
<1>2. g.world = world /\ g.free = availableEntityIds /\ g.next = nextEntityId
  BY <1>1
<1>3. GoodPool(g, s)
  BY <1>0, <1>1, <1>2 DEF GoodPool, InUse, Used, IInv, TypeInv, PoolInv, ShipInv
<1>4. PICK dead : dead = Hidden(world)
  OBVIOUS
<1>5. dead \subseteq InUse(world) \ s /\ \A i \in Visible : i \notin dead
  <2>1. \A i \in dead : /\ i \in DOMAIN world["Renderable"]
                        /\ i \notin {ship[c] : c \in Client} /\ ~world["Renderable"][i]
    BY <1>4 DEF Hidden, Props
  <2>2. \A i \in dead : i \in InUse(world) \ s
    BY <1>1, <2>1 DEF Ships, InUse
  <2>3. \A i \in dead : i \notin Visible
    BY <1>1, <2>1, <2>2 DEF Visible
  <2> QED BY <2>2, <2>3
<1>6. PICK played : played = Played(g, gone, spawn)
  OBVIOUS
<1>7. Kept(played, g, dead, s)
  BY <1>0, <1>2, <1>3, <1>4, <1>5, <1>6, PlayedKeeps
<1>8. PICK h : h = IF switch THEN setLevel(played) ELSE played
  OBVIOUS
<1>9. /\ h.next <= MaxEntities
      /\ h.world = world' /\ h.free = availableEntityIds' /\ h.next = nextEntityId'
  BY <1>1, <1>6, <1>8 DEF Frame
<1>10. Kept(h, g, dead, s)
  <2>1. CASE switch
    <3>1. h = setLevel(played) /\ GoodPool(played, s)
      BY <1>7, <1>8, <2>1 DEF Kept
    <3>2. Kept(h, played, {}, s)
      BY <1>9, <3>1, SetLevelKeeps
    <3> QED BY <1>3, <1>7, <3>2, KeptBoth
  <2>2. CASE ~switch
    BY <1>7, <1>8, <2>2
  <2> QED BY <2>1, <2>2
<1> QED BY <1>1, <1>2, <1>5, <1>9, <1>10

(* What a client gets from a frame.                                         *)
IsSent(b, w, c, s, ch, vw) ==
    /\ ch \o b \in Seq(Message)
    /\ ComingFine(c, s, ch \o b) /\ PlayerFirst(s, ch \o b, vw)
    /\ Agrees(s, ch \o b, vw, w)
    /\ \A t \in Types : \A e : Cell(WrittenAll(vw, ch \o b), t, e) =
          IF e \in DOMAIN w[t] /\ e # WelcomeTag THEN {w[t][e]}
          ELSE Cell(WrittenAll(vw, ch), t, e)

LEMMA SentFine ==
    ASSUME NEW c \in Client, NEW s, NEW w \in World, NEW b, Says(b, w, Types),
           NEW ch \in Seq(Message), NEW vw \in World,
           ComingFine(c, s, ch), PlayerFirst(s, ch, vw),
           \A t \in Types : \A e \in DOMAIN w[t] : e # WelcomeTag => May(c, s, t, e, w[t][e]),
           s \in DOMAIN w["Velocity"] => s \in DOMAIN w["Player"]
    PROVE  IsSent(b, w, c, s, ch, vw)
<1>1. b \in Seq(Message)
  BY DEF Says
<1>2. PICK both : both = ch \o b
  OBVIOUS
<1>3. /\ both \in Seq(Message) /\ Len(ch) \in Nat /\ Len(b) \in Nat
      /\ Len(both) = Len(ch) + Len(b)
      /\ \A i \in 1..Len(ch) : i \in 1..Len(both) /\ both[i] = ch[i]
      /\ \A i \in 1..Len(b) : Len(ch) + i \in 1..Len(both) /\ both[Len(ch) + i] = b[i]
      /\ \A i \in 1..Len(both) : i \in 1..Len(ch) \/ i - Len(ch) \in 1..Len(b)
      /\ \A i \in 1..Len(both) : i \notin 1..Len(ch) => both[i] = b[i - Len(ch)]
  BY <1>1, <1>2, ConcatFacts
<1>4. ComingFine(c, s, both)
  <2>1. ASSUME NEW i \in 1..Len(both), both[i].entity # WelcomeTag
        PROVE  May(c, s, both[i].type, both[i].entity, both[i].value)
    <3>1. CASE i \in 1..Len(ch)
      BY <1>3, <2>1, <3>1 DEF ComingFine
    <3>2. CASE i \notin 1..Len(ch)
      <4>1. PICK k \in 1..Len(b) : both[i] = b[k]
        BY <1>3, <3>2
      <4>2. /\ b[k].type \in Types /\ b[k].entity \in DOMAIN w[b[k].type]
            /\ b[k].value = w[b[k].type][b[k].entity]
        BY DEF Says
      <4> QED BY <2>1, <4>1, <4>2
    <3> QED BY <3>1, <3>2
  <2> QED BY <2>1 DEF ComingFine
<1>5. PlayerFirst(s, both, vw)
  <2>1. s \in DOMAIN vw["Velocity"] => s \in DOMAIN vw["Player"]
    BY DEF PlayerFirst
  <2>2. ASSUME NEW i \in 1..Len(both), About(both[i], "Velocity", s)
        PROVE  s \in DOMAIN vw["Player"] \/ \E j \in 1..i - 1 : About(both[j], "Player", s)
    <3>1. CASE i \in 1..Len(ch)
      <4>1. s \in DOMAIN vw["Player"] \/ \E j \in 1..i - 1 : About(ch[j], "Player", s)
        BY <1>3, <2>2, <3>1 DEF PlayerFirst
      <4>2. \A j \in 1..i - 1 : j \in 1..Len(ch)
        BY <1>3, <3>1
      <4> QED BY <1>3, <4>1, <4>2
    <3>2. CASE i \notin 1..Len(ch)
      <4>1. PICK k \in 1..Len(b) : k = i - Len(ch) /\ both[i] = b[k]
        BY <1>3, <3>2
      <4>2. b[k].type = "Velocity" /\ b[k].entity = s /\ s # WelcomeTag
        BY <2>2, <4>1 DEF About
      <4>3. s \in DOMAIN w["Player"]
        BY <4>2 DEF Says
      <4>4. PICK j \in 1..Len(b) : b[j].type = "Player" /\ b[j].entity = s
        BY <4>3 DEF Says, Types
      <4>5. j < k
        BY <4>2, <4>4 DEF Says
      <4>6. Len(ch) + j \in 1..i - 1 /\ both[Len(ch) + j] = b[j]
        BY <1>3, <4>1, <4>5
      <4>7. About(both[Len(ch) + j], "Player", s)
        BY <4>2, <4>4, <4>6 DEF About
      <4> QED BY <4>6, <4>7
    <3> QED BY <3>1, <3>2
  <2> QED BY <2>1, <2>2 DEF PlayerFirst
<1>6. ASSUME NEW t \in Types, NEW e
      PROVE  Cell(WrittenAll(vw, both), t, e) =
                IF e \in DOMAIN w[t] /\ e # WelcomeTag THEN {w[t][e]}
                ELSE Cell(WrittenAll(vw, ch), t, e)
  BY <1>2, CellAfterBroadcast
<1>7. Agrees(s, both, vw, w)
  <2>1. ASSUME NEW t \in Types, NEW e \in DOMAIN w[t], e < WelcomeTag
        PROVE  Cell(WrittenAll(vw, both), t, e) = Cell(w, t, e)
    <3>1. e # WelcomeTag
      <4>1. e \in Nat
        <5>1. IsWorld(w)
          BY WorldFacts
        <5> QED BY <5>1 DEF IsWorld
      <4>2. WelcomeTag \in Int
        BY ReplicationAssumption DEF WelcomeTag
      <4> QED BY <2>1, <4>1, <4>2
    <3>2. Cell(WrittenAll(vw, both), t, e) = {w[t][e]}
      BY <1>6, <3>1
    <3> QED BY <3>2, CellFacts
  <2> QED BY <2>1 DEF Agrees
<1> QED BY <1>2, <1>3, <1>4, <1>5, <1>6, <1>7, Zenon DEF IsSent

LEMMA FrameKeeps ==
    ASSUME MaxEntities <= Byte, IInv, NEW gone, NEW spawn \in BOOLEAN, NEW switch \in BOOLEAN,
           Frame(gone, spawn, switch)
    PROVE  IInv'
<1>0. /\ Used \subseteq Nat /\ MaxEntities \in Nat /\ Byte \in Nat \ {0} /\ None \notin Nat
  BY ServerFacts, ReplicationAssumption DEF IInv
<1>1. PICK g, h, dead :
         /\ g.world = world
         /\ h.world = world' /\ h.free = availableEntityIds' /\ h.next = nextEntityId'
         /\ h.next <= MaxEntities /\ Kept(h, g, dead, Ships)
         /\ \A i \in Visible : i \notin dead
  BY FrameFacts
<1>2. PICK messages : messages = Broadcast(world')
  OBVIOUS
<1>3. /\ UNCHANGED <<ship, keys, view, PlayerEntityId, upstream>>
      /\ channel' = [c \in Client |-> IF ship[c] = None THEN channel[c]
                                      ELSE channel[c] \o messages]
      /\ told' = [c \in Client |-> IF ship[c] = None THEN told[c] ELSE world']
      /\ left' = left \ DOMAIN world'["Renderable"]
      /\ replaced' = (replaced \cup Layers(world)) \ Layers(world')
  BY <1>2 DEF Frame, clientVars
<1>4. Ships' = Ships
  BY <1>3 DEF Ships
<1>5. /\ PoolInv' /\ Manned(world', Ships')
      /\ world' \in World /\ nextEntityId' \in 0..MaxEntities
      /\ \A type \in Types \ Drawn :
            /\ DOMAIN world'[type] = DOMAIN world[type]
            /\ \A i \in DOMAIN world[type] : world'[type][i] = world[type][i]
      /\ \A i \in Visible : i \in DOMAIN world'["Renderable"]
  <2>1. GoodPool(h, Ships) /\ InUse(h.world) = Used'
    BY <1>1 DEF Kept, Used
  <2>2. PoolInv'
    BY <1>1, <2>1 DEF GoodPool, PoolInv
  <2>3. Manned(world', Ships') /\ world' \in World
    BY <1>1, <1>4, <2>1 DEF GoodPool
  <2>4. nextEntityId' \in 0..MaxEntities
    <3>1. h.next \in Nat
      BY <2>1 DEF GoodPool
    <3> QED BY <1>0, <1>1, <3>1
  <2>5. \A type \in Types \ Drawn :
           /\ DOMAIN world'[type] = DOMAIN world[type]
           /\ \A i \in DOMAIN world[type] : world'[type][i] = world[type][i]
    BY <1>1 DEF Kept
  <2>6. \A i \in Visible : i \in DOMAIN world'["Renderable"]
    <3>1. DOMAIN world["Renderable"] \ dead \subseteq DOMAIN world'["Renderable"]
      BY <1>1 DEF Kept
    <3> QED BY <1>1, <3>1 DEF Visible
  <2> QED BY <2>2, <2>3, <2>4, <2>5, <2>6
<1>6. ShipInv'
  <2>1. "Player" \in Types \ Drawn /\ "Controllable" \in Types \ Drawn
    BY DEF Types, Drawn
  <2>2. ASSUME NEW i \in Ships PROVE world'["Player"][i] = i
    <3>1. i \in DOMAIN world["Player"] /\ world["Player"][i] = i
      BY <2>1 DEF IInv, ShipInv, Manned
    <3> QED BY <1>5, <2>1, <3>1
  <2>3. ASSUME NEW c \in Client, ship[c] # None PROVE world'["Controllable"][ship[c]] \in Own(c)
    <3>1. ship[c] \in DOMAIN world["Controllable"] /\ world["Controllable"][ship[c]] \in Own(c)
      BY <2>1, <2>3 DEF IInv, ShipInv, Manned, Ships
    <3> QED BY <1>5, <2>1, <3>1
  <2>4. \A c, d \in Client : c # d /\ ship[c] # None => ship[c] # ship[d]
    BY DEF IInv, ShipInv
  <2> QED BY <1>3, <1>4, <1>5, <2>2, <2>3, <2>4 DEF ShipInv
<1>7. /\ world' \in World
      /\ \A type \in Types : DOMAIN world'[type] \subseteq Used'
      /\ Used' \subseteq 0..MaxEntities - 1
  <2>1. \A type \in Types : DOMAIN world'[type] \subseteq Used'
    <3>1. GoodPool(h, Ships)
      BY <1>1 DEF Kept
    <3>2. /\ InUse(h.world) \subseteq Nat
          /\ \A type \in Types : DOMAIN h.world[type] \subseteq InUse(h.world)
      BY <3>1, InUseFacts
    <3> QED BY <1>1, <3>2 DEF Used
  <2>2. Used' \subseteq Nat
    <3>1. IsWorld(world')
      BY <1>5, WorldFacts
    <3> QED BY <3>1 DEF IsWorld, Used, InUse, Layers, Types
  <2>3. Used' \subseteq 0..MaxEntities - 1
    <3>1. \A i \in Used' : i < nextEntityId'
      BY <1>5 DEF PoolInv
    <3> QED BY <1>0, <1>5, <2>2, <3>1
  <2> QED BY <1>5, <2>1, <2>3
<1>8. Says(messages, world', Types)
  <2>1. PICK w : w = world'
    OBVIOUS
  <2>2. w \in World /\ \A type \in Types : DOMAIN w[type] \subseteq 0..MaxEntities - 1
    BY <1>7, <2>1
  <2>3. Says(Broadcast(w), w, Types)
    BY <2>2, BroadcastSays
  <2> QED BY <1>2, <2>1, <2>3
<1>9. ASSUME NEW c \in Client, ship[c] # None
      PROVE  IsSent(messages, world', c, ship[c], channel[c], view[c])
  <2>1. \A t \in Types : \A i \in DOMAIN world'[t] : i # WelcomeTag => May(c, ship[c], t, i, world'[t][i])
    <3>1. ASSUME NEW t \in Types, NEW i \in DOMAIN world'[t], i # WelcomeTag
          PROVE  May(c, ship[c], t, i, world'[t][i])
      <4>1. t \in Drawn => world'[t][i] \in BOOLEAN
        BY <1>5 DEF Manned
      <4>2. t = "Player" => world'[t][i] = i
        BY <1>5, <1>6 DEF ShipInv, Manned, Drawn, Types
      <4>3. t = "Controllable" /\ i = ship[c] => world'[t][i] \in Own(c)
        BY <1>3, <1>6, <1>9 DEF ShipInv
      <4> QED BY <3>1, <4>1, <4>2, <4>3 DEF May
    <3> QED BY <3>1
  <2>2. ship[c] \in DOMAIN world'["Velocity"] => ship[c] \in DOMAIN world'["Player"]
    BY <1>5 DEF Manned, Drawn, Types
  <2>3. PICK w, s, ch, vw : w = world' /\ s = ship[c] /\ ch = channel[c] /\ vw = view[c]
    OBVIOUS
  <2>4. ch \in Seq(Message) /\ vw \in World /\ ComingFine(c, s, ch) /\ PlayerFirst(s, ch, vw)
    BY <2>3 DEF IInv, TypeInv, ClientInv
  <2>5. w \in World /\ Says(messages, w, Types)
        /\ \A t \in Types : \A i \in DOMAIN w[t] : i # WelcomeTag => May(c, s, t, i, w[t][i])
    BY <1>7, <1>8, <2>1, <2>3
  <2>6. s \in DOMAIN w["Velocity"] => s \in DOMAIN w["Player"]
    BY <2>2, <2>3
  <2>7. IsSent(messages, w, c, s, ch, vw)
    BY <2>4, <2>5, <2>6, SentFine
  <2> QED BY <2>3, <2>7
<1>10. TypeInv'
  <2>1. channel' \in [Client -> Seq(Message)]
    <3>1. ASSUME NEW c \in Client, ship[c] # None PROVE channel[c] \o messages \in Seq(Message)
      BY <1>9, <3>1 DEF IsSent
    <3>2. \A c \in Client : channel[c] \in Seq(Message)
      BY DEF IInv, TypeInv
    <3> QED BY <1>3, <3>1, <3>2
  <2>2. told' \in [Client -> World]
    BY <1>3, <1>7 DEF IInv, TypeInv
  <2>3. nextEntityId' \in 0..MaxEntities
    BY <1>5
  <2> QED BY <1>3, <1>7, <2>1, <2>2, <2>3 DEF IInv, TypeInv
<1>11. ASSUME NEW c \in Client PROVE ClientInv(c)' /\ GhostInv(c)'
  <2>1. CASE ship[c] = None
    <3>1. Fresh(c, ship[c], channel[c], upstream[c], view[c], told[c], PlayerEntityId[c])'
      <4>1. NothingLeft(ship[c], channel[c], upstream[c], view[c], told[c], PlayerEntityId[c])
        BY DEF IInv, ClientInv
      <4> QED BY <1>3, <2>1, <4>1 DEF NothingLeft, Fresh
    <3> QED BY <3>1, FreshKept
  <2>2. CASE ship[c] # None
    <3>1. /\ channel'[c] = channel[c] \o messages /\ told'[c] = world'
          /\ ship'[c] = ship[c] /\ view'[c] = view[c] /\ upstream'[c] = upstream[c]
          /\ PlayerEntityId'[c] = PlayerEntityId[c]
      BY <1>3, <2>2
    <3>2. IsSent(messages, world', c, ship[c], channel[c], view[c])
      BY <1>9, <2>2
    <3>3. ClientInv(c)'
      BY <2>2, <3>1, <3>2 DEF IInv, ClientInv, IsSent, NothingLeft
    <3>4. PICK both, x, w : /\ both = channel[c] \o messages
                            /\ x = WrittenAll(view[c], both) /\ w = world'
      OBVIOUS
    <3>5. /\ view[c] \in World /\ both \in Seq(Message)
          /\ \A t \in Types : \A i : Cell(x, t, i) =
                IF i \in DOMAIN w[t] /\ i # WelcomeTag THEN {w[t][i]}
                ELSE Cell(WrittenAll(view[c], channel[c]), t, i)
      BY <3>2, <3>4 DEF IsSent, IInv, TypeInv
    <3>6. ASSUME NEW t \in Drawn, NEW i \in Nat, Cell(x, t, i) = {TRUE}
          PROVE  \/ i \in DOMAIN w[t] /\ w[t][i] = TRUE
                 \/ /\ i \notin DOMAIN w[t]
                    /\ Cell(WrittenAll(view[c], channel[c]), t, i) = {TRUE}
      <4>0. t \in Types
        BY DEF Drawn, Types
      <4>1. i # WelcomeTag
        <5>1. ASSUME i = WelcomeTag PROVE FALSE
          <6>1. Cell(view[c], t, i) = {}
            BY <4>0, <5>1 DEF IInv, ClientInv, SeenFine, May, Cell
          <6>2. \A k \in 1..Len(both) : ~About(both[k], t, i)
            BY <5>1 DEF About
          <6>3. Cell(x, t, i) = {}
            BY <3>4, <3>5, <4>0, <6>1, <6>2, CellMade
          <6> QED BY <3>6, <6>3
        <5> QED BY <5>1
      <4>2. CASE i \in DOMAIN w[t]
        <5>1. {w[t][i]} = {TRUE}
          BY <3>5, <3>6, <4>0, <4>1, <4>2
        <5> QED BY <4>2, <5>1
      <4>3. CASE i \notin DOMAIN w[t]
        BY <3>5, <3>6, <4>0, <4>3
      <4> QED BY <4>2, <4>3
    <3>7. /\ Vanished("Renderable", channel[c], view[c], told[c], left, Visible)
          /\ Vanished("ParallaxScroller", channel[c], view[c], told[c], replaced, Layers(world))
      BY DEF IInv, GhostInv
    <3>8. Vanished("Renderable", both, view[c], w, left', Visible')
      <4>1. ASSUME NEW i \in Nat, Cell(x, "Renderable", i) = {TRUE}
            PROVE  /\ i \in DOMAIN w["Renderable"] \/ i \in left'
                   /\ i \in left' \/ i \in Visible'
        <5>1. CASE i \in DOMAIN w["Renderable"] /\ w["Renderable"][i] = TRUE
          BY <3>4, <5>1 DEF Visible
        <5>2. CASE /\ i \notin DOMAIN w["Renderable"]
                   /\ Cell(WrittenAll(view[c], channel[c]), "Renderable", i) = {TRUE}
          <6>1. i \in left \/ i \in Visible
            BY <3>7, <5>2 DEF Vanished
          <6> QED BY <1>3, <1>5, <3>4, <5>2, <6>1
        <5>3. "Renderable" \in Drawn
          BY DEF Drawn
        <5> QED BY <3>6, <4>1, <5>1, <5>2, <5>3
      <4> QED BY <3>4, <4>1 DEF Vanished
    <3>9. Vanished("ParallaxScroller", both, view[c], w, replaced', Layers(w))
      <4>1. ASSUME NEW i \in Nat, Cell(x, "ParallaxScroller", i) = {TRUE}
            PROVE  i \in replaced' \/ i \in Layers(w)
        <5>1. CASE /\ i \notin DOMAIN w["ParallaxScroller"]
                   /\ Cell(WrittenAll(view[c], channel[c]), "ParallaxScroller", i) = {TRUE}
          <6>1. i \in replaced \/ i \in Layers(world)
            BY <3>7, <5>1 DEF Vanished
          <6> QED BY <1>3, <3>4, <5>1, <6>1 DEF Layers
        <5>2. "ParallaxScroller" \in Drawn
          BY DEF Drawn
        <5> QED BY <3>6, <4>1, <5>1, <5>2 DEF Layers
      <4> QED BY <3>4, <4>1 DEF Vanished, Layers
    <3>10. GhostInv(c)'
      BY <3>1, <3>4, <3>8, <3>9 DEF GhostInv
    <3> QED BY <3>3, <3>10
  <2> QED BY <2>1, <2>2
<1> QED BY <1>5, <1>6, <1>10, <1>11 DEF IInv

-----------------------------------------------------------------------------
LEMMA NextKeeps == ASSUME MaxEntities <= Byte, IInv, [Next]_vars PROVE IInv'
<1>1. ASSUME NEW c \in Client, Connect(c) PROVE IInv'
  BY <1>1, ConnectKeeps
<1>2. ASSUME NEW c \in Client, Disconnect(c) PROVE IInv'
  BY <1>2, DisconnectKeeps
<1>3. ASSUME NEW c \in Client, ReceiveControls(c) PROVE IInv'
  BY <1>3, ReceiveControlsKeeps
<1>4. ASSUME NEW c \in Client, NEW n \in Polled \cup {Len(channel[c])}, ClientFrame(c, n)
      PROVE  IInv'
  <2>1. n \in Nat
    BY ReplicationAssumption, LenProperties DEF IInv, TypeInv
  <2> QED BY <1>4, <2>1, ClientFrameKeeps
<1>5. ASSUME NEW c \in Client, NEW k \in Keys, PressKeys(c, k) PROVE IInv'
  BY <1>5, PressKeysKeeps
<1>6. ASSUME NEW gone, NEW spawn \in BOOLEAN, NEW switch \in BOOLEAN,
             Frame(gone, spawn, switch)
      PROVE  IInv'
  BY <1>6, FrameKeeps
<1>7. CASE UNCHANGED vars
  <2>1. /\ UNCHANGED <<nextEntityId, availableEntityIds, world, ship, keys, view,
                       PlayerEntityId, channel, upstream, told, left, replaced>>
    BY <1>7 DEF vars, serverVars, clientVars, histories
  <2>2. Used' = Used /\ Ships' = Ships /\ Visible' = Visible
    BY <2>1 DEF Used, InUse, Ships, Visible
  <2>3. TypeInv' /\ PoolInv' /\ ShipInv'
    BY <2>1, <2>2 DEF IInv, TypeInv, PoolInv, ShipInv
  <2>4. ASSUME NEW c \in Client PROVE ClientInv(c)' /\ GhostInv(c)'
    BY <2>1, <2>2 DEF IInv, ClientInv, GhostInv
  <2> QED BY <2>3, <2>4 DEF IInv
<1> QED BY <1>1, <1>2, <1>3, <1>4, <1>5, <1>6, <1>7 DEF Next

(* IInv is an invariant as long as ids fit a byte.                         *)
THEOREM ReplicationInductive ==
    ASSUME MaxEntities <= Byte PROVE Spec => []IInv
<1>1. Init => IInv
  BY InitFine
<1>2. IInv /\ [Next]_vars => IInv'
  BY NextKeeps
<1> QED BY <1>1, <1>2, PTL DEF Spec

(* OwnControls: whatever ids are recycled, the controls of a ship are      *)
(* those it was made with or keys of its own player (ServerNetworkSystem,  *)
(* handleClientMessage).                                                   *)
THEOREM OwnControlsAlways ==
    ASSUME MaxEntities <= Byte PROVE Spec => []OwnControls
<1>1. IInv => OwnControls
  BY DEF IInv, ShipInv, Manned, Drawn, OwnControls, Own, Ships, Types
<1> QED BY <1>1, ReplicationInductive, PTL

(* Nothing is left to handle.                                              *)
LEMMA ReadAll ==
    ASSUME IInv, NEW c \in Client, channel[c] = << >>, NEW t \in Types, NEW e
    PROVE  Cell(WrittenAll(view[c], channel[c]), t, e) = Cell(view[c], t, e)
<1>1. view[c] \in World /\ channel[c] \in Seq(Message)
  BY DEF IInv, TypeInv
<1>2. NoneAbout(channel[c], t, e)
  <2>1. Len(channel[c]) = 0
    BY EmptySeq
  <2> QED BY <2>1 DEF NoneAbout
<1>3. IsWrittenAll(WrittenAll(view[c], channel[c]), view[c], channel[c])
  BY <1>1, WrittenAllFacts
<1> QED BY <1>2, <1>3 DEF IsWrittenAll

(* CaughtUp: with all messages handled, a client has every component the   *)
(* server last sent, but for the controls of its own ship                  *)
(* (updateRegistry).                                                       *)
THEOREM CaughtUpAlways ==
    ASSUME MaxEntities <= Byte PROVE Spec => []CaughtUp
<1>1. ASSUME IInv, NEW c \in Client, channel[c] = << >>, NEW t \in Types,
             NEW e \in DOMAIN told[c][t], e < WelcomeTag,
             <<t, e>> # <<"Controllable", ship[c]>>
      PROVE  e \in DOMAIN view[c][t] /\ view[c][t][e] = told[c][t][e]
  <2>1. Cell(WrittenAll(view[c], channel[c]), t, e) = Cell(told[c], t, e)
    BY <1>1 DEF IInv, ClientInv, Agrees
  <2>2. Cell(view[c], t, e) = {told[c][t][e]}
    BY <1>1, <2>1, ReadAll, CellFacts
  <2> QED BY <2>2, CellFacts
<1>2. IInv => CaughtUp
  BY <1>1 DEF CaughtUp
<1> QED BY <1>2, ReplicationInductive, PTL

(* NoGhosts: with all messages handled, what a client shows and is gone is *)
(* the ship of a player who left or a layer of an earlier background       *)
(* (ParallaxSystem kills layers in the frame that hides them).             *)
THEOREM NoGhostsAlways ==
    ASSUME MaxEntities <= Byte PROVE Spec => []NoGhosts
<1>1. ASSUME IInv, NEW c \in Client, channel[c] = << >>, NEW type \in Drawn,
             NEW e \in DOMAIN view[c][type], view[c][type][e]
      PROVE  \/ e \in DOMAIN told[c][type]
             \/ e \in (IF type = "Renderable" THEN left ELSE replaced)
  <2>1. type \in Types /\ type \in {"Renderable", "ParallaxScroller"}
    BY DEF Drawn, Types
  <2>2. e \in Nat
    <3>1. IsWorld(view[c])
      BY <1>1, WorldFacts DEF IInv, TypeInv
    <3> QED BY <2>1, <3>1 DEF IsWorld
  <2>3. view[c][type][e] = TRUE
    <3>1. view[c][type][e] \in BOOLEAN
      BY <1>1, <2>1 DEF IInv, ClientInv, SeenFine, May
    <3> QED BY <1>1, <3>1
  <2>4. Cell(WrittenAll(view[c], channel[c]), type, e) = {TRUE}
    <3>1. Cell(view[c], type, e) = {TRUE}
      BY <2>3 DEF Cell
    <3> QED BY <1>1, <2>1, <3>1, ReadAll
  <2> QED BY <1>1, <2>1, <2>2, <2>4 DEF IInv, GhostInv, Vanished
<1>2. IInv => NoGhosts
  BY <1>1 DEF NoGhosts
<1> QED BY <1>2, ReplicationInductive, PTL

(* NoEcho: a client with its velocity never sends back the controls its    *)
(* ship was made with (InputSystem runs after the messages).               *)
THEOREM NoEchoAlways ==
    ASSUME MaxEntities <= Byte PROVE Spec => NoEcho
<1> DEFINE Echo == \A c \in Client :
          Len(upstream'[c]) > Len(upstream[c]) /\ ship[c] \in DOMAIN view[c]["Velocity"] =>
             Last(upstream'[c]).value # Initial
<1>1. ASSUME MaxEntities <= Byte, IInv, Next, NEW c \in Client,
             Len(upstream'[c]) > Len(upstream[c]), ship[c] \in DOMAIN view[c]["Velocity"]
      PROVE  Last(upstream'[c]).value # Initial
  <2>0. upstream \in [Client -> Seq(Control)] /\ Len(upstream[c]) \in Nat
    BY <1>1, LenProperties DEF IInv, TypeInv
  <2>1. PICK n : ClientFrame(c, n)
    <3>1. ASSUME NEW d \in Client, Disconnect(d) PROVE FALSE
      <4>1. upstream' = [upstream EXCEPT ![d] = << >>]
        BY <3>1 DEF Disconnect
      <4>2. CASE d = c
        BY <1>1, <2>0, <4>1, <4>2
      <4>3. CASE d # c
        BY <1>1, <2>0, <4>1, <4>3
      <4> QED BY <4>2, <4>3
    <3>2. ASSUME NEW d \in Client, ReceiveControls(d) PROVE FALSE
      <4>1. upstream' = [upstream EXCEPT ![d] = Tail(@)] /\ upstream[d] # << >>
        BY <3>2 DEF ReceiveControls
      <4>2. CASE d = c
        <5>1. Len(upstream'[c]) = Len(upstream[c]) - 1
          BY <2>0, <4>1, <4>2, HeadTailProperties
        <5> QED BY <1>1, <2>0, <5>1
      <4>3. CASE d # c
        BY <1>1, <2>0, <4>1, <4>3
      <4> QED BY <4>2, <4>3
    <3>3. ASSUME UNCHANGED upstream PROVE FALSE
      BY <1>1, <2>0, <3>3
    <3>4. ASSUME NEW d \in Client, Connect(d) PROVE FALSE
      BY <3>3, <3>4 DEF Connect
    <3>5. ASSUME NEW d \in Client, NEW k \in Keys, PressKeys(d, k) PROVE FALSE
      BY <3>3, <3>5 DEF PressKeys
    <3>6. ASSUME NEW gone, NEW spawn, NEW switch, Frame(gone, spawn, switch) PROVE FALSE
      BY <3>3, <3>6 DEF Frame
    <3>7. ASSUME NEW d \in Client \ {c}, NEW n, ClientFrame(d, n) PROVE FALSE
      BY <1>1, <2>0, <3>7 DEF ClientFrame
    <3> QED BY <1>1, <3>1, <3>2, <3>4, <3>5, <3>6, <3>7 DEF Next
  <2>2. PICK sent : sent = Controls(c)
    OBVIOUS
  <2>3. ship[c] # None /\ upstream'[c] = upstream[c] \o sent
    BY <2>0, <2>1, <2>2 DEF ClientFrame
  <2>4. /\ sent \in Seq(Control)
        /\ \A i \in 1..Len(sent) : /\ ship[c] \in DOMAIN view[c]["Controllable"]
                                   /\ sent[i].entity = ship[c]
                                   /\ sent[i].value = view[c]["Controllable"][ship[c]]
    BY <1>1, <2>2, <2>3, ControlsFacts
  <2>5. PICK up, both : up = upstream[c] /\ both = up \o sent
    OBVIOUS
  <2>6. /\ both \in Seq(Control) /\ Len(up) \in Nat /\ Len(sent) \in Nat
        /\ Len(both) = Len(up) + Len(sent)
        /\ \A i \in 1..Len(sent) : Len(up) + i \in 1..Len(both) /\ both[Len(up) + i] = sent[i]
    BY <2>0, <2>4, <2>5, ConcatFacts
  <2>7. Len(sent) \in 1..Len(sent) /\ both[Len(both)] = sent[Len(sent)]
    BY <1>1, <2>3, <2>5, <2>6
  <2>8. ship[c] \in DOMAIN view[c]["Controllable"]
        /\ both[Len(both)].value = view[c]["Controllable"][ship[c]]
    BY <2>4, <2>7
  <2>9. both[Len(both)].value \in {c} \X Keys
    BY <1>1, <2>8 DEF IInv, ClientInv, EchoFree
  <2>10. \A v \in {c} \X Keys : v # Initial
    BY ReplicationAssumption
  <2> QED BY <2>3, <2>5, <2>9, <2>10 DEF Last
<1>2. ASSUME MaxEntities <= Byte, IInv, UNCHANGED vars, NEW c \in Client,
             Len(upstream'[c]) > Len(upstream[c])
      PROVE  FALSE
  <2>1. upstream' = upstream
    BY <1>2 DEF vars
  <2>2. Len(upstream[c]) \in Nat
    BY <1>2, LenProperties DEF IInv, TypeInv
  <2> QED BY <1>2, <2>1, <2>2
<1>3. IInv /\ [Next]_vars => [Echo]_vars
  BY <1>1 DEF Echo
<1> QED BY <1>3, ReplicationInductive, PTL DEF NoEcho, Spec

-----------------------------------------------------------------------------
(* The bytes of a component.                                                *)

(* The constructor takes the values in the order of as_tuple, no member is *)
(* there twice, and strings, three at most, come first.                    *)
TypeFacts(t) ==
    /\ Len(t.tuple) \in Nat \ {0} /\ DOMAIN t.tuple = 1..Len(t.tuple)
    /\ t.ctor = t.tuple
    /\ \A i, j \in 1..Len(t.tuple) : t.tuple[i] = t.tuple[j] => i = j
    /\ \A i \in 1..Len(t.tuple) :
          t.tuple[i] \in Strings => i <= 3 /\ \A j \in 1..i : t.tuple[j] \in Strings

(* A type has twelve members at most.                                     *)
LEMMA UpToTwelve ==
    \A n \in 1..12 : \A i \in 1..n :
        i \in {1, 2, 3, 4, 5, 6, 7, 8, 9, 10, 11, 12}
OBVIOUS

(* Every type that is sent is one of these.                                *)
LEMMA TypesWellFormed == ASSUME NEW t \in Sent PROVE TypeFacts(t)
<1>1. TypeFacts(Color)
  BY UpToTwelve DEF TypeFacts, Color, Strings
<1>2. TypeFacts(Shape)
  BY UpToTwelve DEF TypeFacts, Shape, Strings
<1>3. TypeFacts(Transformable)
  BY UpToTwelve DEF TypeFacts, Transformable, Strings
<1>4. TypeFacts(Velocity)
  BY UpToTwelve DEF TypeFacts, Velocity, Strings
<1>5. TypeFacts(Controllable)
  BY UpToTwelve DEF TypeFacts, Controllable, Strings
<1>6. TypeFacts(Score)
  BY UpToTwelve DEF TypeFacts, Score, Strings
<1>7. TypeFacts(Player)
  BY UpToTwelve DEF TypeFacts, Player, Strings
<1>8. TypeFacts(Renderable)
  BY UpToTwelve DEF TypeFacts, Renderable, Strings
<1>9. TypeFacts(TextRenderable)
  BY UpToTwelve DEF TypeFacts, TextRenderable, Strings
<1>10. TypeFacts(Audio)
  BY UpToTwelve DEF TypeFacts, Audio, Strings
<1>11. TypeFacts(ParallaxScroller)
  BY UpToTwelve DEF TypeFacts, ParallaxScroller, Strings
<1>12. TypeFacts(ClockComponent)
  BY UpToTwelve DEF TypeFacts, ClockComponent, Strings
<1> QED BY <1>1, <1>2, <1>3, <1>4, <1>5, <1>6, <1>7, <1>8, <1>9, <1>10, <1>11, <1>12 DEF Sent

(* A tag names one type.                                                   *)
LEMMA TagsDiffer ==
    /\ \A t \in Sent : t.tag \in Nat
    /\ \A s, t \in Sent : s.tag = t.tag => s = t
BY DEF Sent, Color, Shape, Transformable, Velocity, Controllable, Score, Player, Renderable,
       TextRenderable, Audio, ParallaxScroller, ClockComponent

(* Numbers and their last byte.                                             *)
LEMMA LastByte ==
    ASSUME NEW n \in Nat
    PROVE  \E q \in Nat, k \in 0..255 : n = 256 * q + k /\ k = n % 256
<1>1. n % 256 \in 0..255
  OBVIOUS
<1>2. n \div 256 \in Nat
  OBVIOUS
<1>3. n = 256 * (n \div 256) + (n % 256)
  OBVIOUS
<1> QED BY <1>1, <1>2, <1>3

(* The bytes of strings are ASCII, those of other values anything.         *)
Octet == 0..255
Ascii == 0..127
FieldFacts(m, v) ==
    IF m \in Strings THEN v \in Seq(Ascii) ELSE v \in Seq(Octet) /\ Len(v) = Size(m)

(* The bytes of a field: a string follows the byte of its length.          *)
LEMMA FieldIsBytes ==
    ASSUME NEW m, NEW v, FieldFacts(m, v)
    PROVE  /\ v \in Seq(Octet) /\ FieldBytes(m, v) \in Seq(Octet)
           /\ m \in Strings =>
                 /\ Len(FieldBytes(m, v)) = Len(v) + 1
                 /\ FieldBytes(m, v)[1] = LengthByte(v)
                 /\ \A p \in 1..Len(v) : FieldBytes(m, v)[p + 1] = v[p]
           /\ m \notin Strings => FieldBytes(m, v) = v
<1>1. v \in Seq(Octet)
  <2>1. Ascii \subseteq Octet
    BY DEF Ascii, Octet
  <2> QED BY <2>1 DEF FieldFacts
<1>2. CASE m \in Strings
  <2>1. LengthByte(v) \in Octet
    <3>1. Len(v) \in Nat
      BY <1>1, LenProperties
    <3>2. \A k \in Nat : k % 256 \in 0..255
      OBVIOUS
    <3> QED BY <3>1, <3>2 DEF LengthByte, Octet
  <2>2. PICK b : b = LengthByte(v)
    OBVIOUS
  <2>3. <<b>> \in Seq(Octet) /\ Len(<<b>>) = 1 /\ <<b>>[1] = b
    BY <2>1, <2>2
  <2>4. /\ <<b>> \o v \in Seq(Octet) /\ Len(<<b>> \o v) = 1 + Len(v)
        /\ \A i \in 1..1 + Len(v) : (<<b>> \o v)[i] = IF i <= 1 THEN <<b>>[i] ELSE v[i - 1]
    BY <1>1, <2>3, ConcatProperties
  <2>5. FieldBytes(m, v) = <<b>> \o v
    BY <1>2, <2>2 DEF FieldBytes
  <2> QED BY <1>1, <1>2, <2>2, <2>3, <2>4, <2>5
<1>3. CASE m \notin Strings
  BY <1>1, <1>3 DEF FieldBytes
<1> QED BY <1>1, <1>2, <1>3

(* FlattenSeq joins the parts one by one.                                  *)
LEMMA FlattenSteps ==
    ASSUME NEW n \in Nat \ {0}, NEW B \in [1..n -> Seq(Octet)]
    PROVE  \E f \in [0..n -> Seq(Octet)] :
              /\ f[0] = << >> /\ FlattenSeq(B) = f[n]
              /\ \A i \in 1..n : f[i] = f[i - 1] \o B[i]
<1>1. PICK S, empty : S = Seq(Octet) /\ empty = << >>
  OBVIOUS
<1> DEFINE Rec(g) == g = [i \in 1..n |-> IF i = 1 THEN B[i] ELSE g[i - 1] \o B[i]]
           joined == CHOOSE g : Rec(g)
           D == [i \in 1..n |-> [s \in S |-> s \o B[i]]]
<1>2. Len(B) = n
  OBVIOUS
<1>3. FlattenSeq(B) = joined[n]
  BY <1>2 DEF FlattenSeq
<1>4. \A i \in 1..n, s \in S : s \o B[i] \in S
  BY <1>1, ConcatProperties
<1>5. empty \in S /\ D \in [1..n -> [S -> S]]
  BY <1>1, <1>4
<1>6. PICK f \in [0..n -> S] : Unfolds(f, n, empty, D)
  <2> HIDE DEF D
  <2> QED BY <1>5, RecursionExists
<1>7. \A i \in 1..n : f[i] = f[i - 1] \o B[i]
  <2>1. \A i \in 1..n, s \in S : D[i][s] = s \o B[i]
    OBVIOUS
  <2>2. \A i \in 1..n : i - 1 \in 0..n
    OBVIOUS
  <2> HIDE DEF D
  <2> QED BY <1>6, <2>1, <2>2 DEF Unfolds
<1>8. f[1] = B[1] /\ f[0] = empty /\ 1 \in 1..n
  <2>1. f[0] = empty
    BY <1>6 DEF Unfolds
  <2>2. 1 \in 1..n /\ 1 - 1 = 0
    OBVIOUS
  <2>3. B[1] \in Seq(Octet)
    BY <2>2
  <2>4. empty \o B[1] = B[1]
    BY <1>1, <2>3, ConcatEmptySeq
  <2>5. f[1] = f[1 - 1] \o B[1]
    BY <1>7, <2>2
  <2> HIDE DEF D
  <2> QED BY <2>1, <2>2, <2>4, <2>5
<1> DEFINE h == [i \in 1..n |-> f[i]]
<1>9. Rec(h)
  <2>1. \A i \in 1..n : i # 1 => i - 1 \in 1..n
    OBVIOUS
  <2>2. \A i \in 1..n : f[i] = IF i = 1 THEN B[i] ELSE f[i - 1] \o B[i]
    BY <1>7, <1>8
  <2> QED BY <2>1, <2>2
<1>10. Rec(joined)
  <2> HIDE DEF Rec, h
  <2> QED BY <1>9
<1> HIDE DEF joined, h, D
<1>11. joined[1] = B[1] /\ \A i \in 1..n : i # 1 => joined[i] = joined[i - 1] \o B[i]
  BY <1>8, <1>10
<1> HIDE DEF Rec
<1>12. \A i \in 1..n : joined[i] = f[i]
  <2> DEFINE T == {i \in 0..n : i # 0 => joined[i] = f[i]}
  <2>1. 0 \in T
    OBVIOUS
  <2>2. ASSUME NEW i \in 1..n, i - 1 \in T PROVE i \in T
    <3>1. CASE i = 1
      BY <1>8, <1>11, <3>1
    <3>2. CASE i # 1
      <4>1. joined[i - 1] = f[i - 1]
        BY <2>2, <3>2
      <4>2. joined[i] = joined[i - 1] \o B[i] /\ f[i] = f[i - 1] \o B[i] /\ i \in 0..n
        <5>1. joined[i] = joined[i - 1] \o B[i]
          BY <1>11, <3>2, Zenon
        <5>2. f[i] = f[i - 1] \o B[i]
          BY <1>7, Zenon
        <5> QED BY <5>1, <5>2
      <4> QED BY <4>1, <4>2
    <3> QED BY <3>1, <3>2
  <2> HIDE DEF T
  <2>3. 0..n \subseteq T
    BY <2>1, <2>2, Induction
  <2> USE DEF T
  <2> QED BY <2>3
<1>13. FlattenSeq(B) = f[n] /\ f \in [0..n -> Seq(Octet)] /\ f[0] = << >>
  BY <1>1, <1>3, <1>8, <1>12
<1> QED BY <1>7, <1>13

(* Where the parts lie: pos[i] bytes are the first i parts.                *)
Layout(data, B, n, pos) ==
    /\ data \in Seq(Octet) /\ pos \in [0..n -> Nat]
    /\ pos[0] = 0 /\ pos[n] = Len(data)
    /\ \A i \in 1..n :
          /\ pos[i] = pos[i - 1] + Len(B[i]) /\ pos[i] <= Len(data)
          /\ \A p \in 1..Len(B[i]) : data[pos[i - 1] + p] = B[i][p]

(* What is flattened lies there part by part.                              *)
LEMMA FlattenLayout ==
    ASSUME NEW n \in Nat \ {0}, NEW B \in [1..n -> Seq(Octet)]
    PROVE  \E pos : Layout(FlattenSeq(B), B, n, pos)
<1>1. PICK f \in [0..n -> Seq(Octet)] :
              /\ f[0] = << >> /\ FlattenSeq(B) = f[n]
              /\ \A i \in 1..n : f[i] = f[i - 1] \o B[i]
  BY FlattenSteps
<1>2. \A i \in 1..n :
          /\ i - 1 \in 0..n /\ i \in 0..n
          /\ Len(f[i]) = Len(f[i - 1]) + Len(B[i])
          /\ \A p \in 1..Len(f[i]) :
                f[i][p] = IF p <= Len(f[i - 1]) THEN f[i - 1][p] ELSE B[i][p - Len(f[i - 1])]
  <2> TAKE i \in 1..n
  <2>1. PICK s \in Seq(Octet), t \in Seq(Octet) : s = f[i - 1] /\ t = B[i]
    OBVIOUS
  <2>2. f[i] = s \o t
    BY <1>1, <2>1
  <2>3. /\ Len(s \o t) = Len(s) + Len(t)
        /\ \A p \in 1..Len(s) + Len(t) : (s \o t)[p] = IF p <= Len(s) THEN s[p] ELSE t[p - Len(s)]
    BY ConcatProperties
  <2> QED BY <2>1, <2>2, <2>3
<1>3. \A i \in 0..n : Len(f[i]) \in Nat
  OBVIOUS
<1>4. \A i \in 1..n : Len(B[i]) \in Nat
  OBVIOUS
<1> DEFINE Part(i, k) == Len(f[i]) <= Len(f[k]) /\ \A p \in 1..Len(f[i]) : f[k][p] = f[i][p]
           T == {k \in 0..n : \A i \in 0..k : Part(i, k)}
<1>5. 0 \in T
  BY <1>3
<1>6. ASSUME NEW k \in 1..n, k - 1 \in T PROVE k \in T
  <2>1. ASSUME NEW i \in 0..k PROVE Part(i, k)
    <3>1. CASE i = k
      BY <1>3, <3>1
    <3>2. CASE i # k
      <4>1. i \in 0..k - 1 /\ i \in 0..n
        BY <3>2
      <4>2. Part(i, k - 1)
        BY <1>6, <4>1
      <4>3. /\ Len(f[i]) \in Nat /\ Len(f[k - 1]) \in Nat /\ Len(B[k]) \in Nat
            /\ Len(f[k]) = Len(f[k - 1]) + Len(B[k])
        BY <1>2, <1>3, <1>4, <4>1
      <4>4. \A p \in 1..Len(f[k - 1]) : f[k][p] = f[k - 1][p]
        <5> TAKE p \in 1..Len(f[k - 1])
        <5>2. p \in 1..Len(f[k]) /\ p <= Len(f[k - 1])
          BY <4>3
        <5>3. f[k][p] = IF p <= Len(f[k - 1]) THEN f[k - 1][p] ELSE B[k][p - Len(f[k - 1])]
          BY <1>2, <5>2, Zenon
        <5> QED BY <5>2, <5>3, Zenon
      <4> QED BY <4>2, <4>3, <4>4
    <3> QED BY <3>1, <3>2
  <2> QED BY <2>1
<1>7. \A i \in 0..n : Part(i, n)
  <2> HIDE DEF T
  <2>1. 0..n \subseteq T
    BY <1>5, <1>6, Induction
  <2> USE DEF T
  <2> QED BY <2>1
<1> DEFINE pos == [i \in 0..n |-> Len(f[i])]
           data == FlattenSeq(B)
<1>8. data \in Seq(Octet) /\ pos \in [0..n -> Nat] /\ pos[0] = 0 /\ pos[n] = Len(data)
  BY <1>1, <1>3
<1>9. ASSUME NEW i \in 1..n
      PROVE  /\ pos[i] = pos[i - 1] + Len(B[i]) /\ pos[i] <= Len(data)
             /\ \A p \in 1..Len(B[i]) : data[pos[i - 1] + p] = B[i][p]
  <2>1. /\ pos[i] = Len(f[i]) /\ pos[i - 1] = Len(f[i - 1]) /\ data = f[n]
        /\ i \in 0..n /\ i - 1 \in 0..n
    BY <1>1
  <2>2. pos[i] = pos[i - 1] + Len(B[i]) /\ pos[i] <= Len(data)
    BY <1>2, <1>7, <2>1
  <2>3. ASSUME NEW p \in 1..Len(B[i]) PROVE data[pos[i - 1] + p] = B[i][p]
    <3>1. PICK a \in Nat, l \in Nat : a = Len(f[i - 1]) /\ l = Len(B[i])
      BY <1>3, <1>4, <2>1
    <3>2. pos[i - 1] = a /\ Len(f[i]) = a + l /\ p \in 1..l
      BY <1>2, <2>1, <3>1
    <3>3. p \in Nat /\ a + p \in 1..(a + l) /\ ~(a + p <= a) /\ (a + p) - a = p
      <4>1. \A x, y \in Nat : \A z \in 1..y : x + z \in 1..(x + y) /\ ~(x + z <= x) /\ (x + z) - x = z
        OBVIOUS
      <4> QED BY <3>2, <4>1
    <3>a. \A r \in 1..Len(f[i]) :
             f[i][r] = IF r <= Len(f[i - 1]) THEN f[i - 1][r] ELSE B[i][r - Len(f[i - 1])]
      BY <1>2
    <3>4. f[i][a + p] = B[i][p]
      BY <3>a, <3>1, <3>2, <3>3
    <3>5. f[n][a + p] = f[i][a + p]
      BY <1>7, <2>1, <3>2, <3>3
    <3> QED BY <2>1, <3>2, <3>4, <3>5
  <2> QED BY <2>2, <2>3
<1> HIDE DEF pos, data
<1>10. Layout(data, B, n, pos)
  BY <1>8, <1>9 DEF Layout
<1> QED BY <1>10 DEF data

-----------------------------------------------------------------------------
(* What is read: bytes of the message as long as they last, and no more.   *)
LEMMA TakenBytes ==
    ASSUME NEW data \in Seq(Octet), NEW offset \in Nat, NEW n \in Nat
    PROVE  /\ Taken(data, offset, n) \in Seq(Octet \cup {Garbage})
           /\ Len(Taken(data, offset, n)) = n
           /\ offset + n <= Len(data) =>
                 /\ Taken(data, offset, n) \in Seq(Octet)
                 /\ \A i \in 1..n : Taken(data, offset, n)[i] = data[offset + i]
<1>1. PICK t : t = Taken(data, offset, n)
  OBVIOUS
<1>2. t = [i \in 1..n |-> IF offset + i <= Len(data) THEN data[offset + i] ELSE Garbage]
  BY <1>1 DEF Taken
<1>3. \A i \in 1..n : offset + i <= Len(data) => data[offset + i] \in Octet
  OBVIOUS
<1>4. t \in Seq(Octet \cup {Garbage}) /\ Len(t) = n
  BY <1>2, <1>3
<1>5. ASSUME offset + n <= Len(data)
      PROVE  t \in Seq(Octet) /\ \A i \in 1..n : t[i] = data[offset + i]
  <2>1. \A i \in 1..n : offset + i <= Len(data)
    BY <1>5
  <2> QED BY <1>2, <1>3, <2>1
<1> QED BY <1>1, <1>4, <1>5

ReadState == [value : Seq(Octet \cup {Garbage}), offset : Nat]

LEMMA FieldReadTyped ==
    ASSUME NEW data \in Seq(Octet), NEW offset \in Nat, NEW m
    PROVE  FieldRead(data, offset, m) \in ReadState
<1>1. PICK length : length = Taken(data, offset, 1)[1]
  OBVIOUS
<1>2. length \in Octet \cup {Garbage}
  BY <1>1, TakenBytes
<1>3. CASE m \notin Strings
  <2>1. Size(m) \in Nat
    BY DEF Size
  <2> QED BY <1>3, <2>1, TakenBytes DEF FieldRead, ReadState
<1>4. CASE m \in Strings /\ length = Garbage
  <2>1. <<Garbage>> \in Seq(Octet \cup {Garbage})
    OBVIOUS
  <2> QED BY <1>1, <1>4, <2>1 DEF FieldRead, ReadState
<1>5. CASE m \in Strings /\ length # Garbage
  <2>1. length \in Nat
    BY <1>2, <1>5 DEF Octet
  <2>2. Taken(data, offset + 1, length) \in Seq(Octet \cup {Garbage})
    BY <2>1, offset + 1 \in Nat, TakenBytes
  <2> QED BY <1>1, <1>5, <2>1, <2>2 DEF FieldRead, ReadState
<1> QED BY <1>3, <1>4, <1>5

(* Within a message, a string is as long as the byte before it says.        *)
LEMMA FieldReadInside ==
    ASSUME NEW data \in Seq(Octet), NEW offset \in Nat, NEW m
    PROVE  /\ m \notin Strings =>
                 FieldRead(data, offset, m)
                     = [value |-> Taken(data, offset, Size(m)), offset |-> offset + Size(m)]
           /\ m \in Strings /\ offset + 1 <= Len(data) =>
                 /\ data[offset + 1] \in Octet
                 /\ FieldRead(data, offset, m)
                        = [value |-> Taken(data, offset + 1, data[offset + 1]),
                           offset |-> offset + 1 + data[offset + 1]]
<1>1. m \notin Strings =>
          FieldRead(data, offset, m)
              = [value |-> Taken(data, offset, Size(m)), offset |-> offset + Size(m)]
  BY DEF FieldRead
<1>2. ASSUME m \in Strings, offset + 1 <= Len(data)
      PROVE  /\ data[offset + 1] \in Octet
             /\ FieldRead(data, offset, m)
                    = [value |-> Taken(data, offset + 1, data[offset + 1]),
                       offset |-> offset + 1 + data[offset + 1]]
  <2>1. Taken(data, offset, 1)[1] = data[offset + 1]
    BY <1>2, TakenBytes
  <2>2. data[offset + 1] \in Octet
    BY <1>2
  <2>3. data[offset + 1] # Garbage
    BY <2>2, SerializationAssumption DEF Octet
  <2> QED BY <1>2, <2>1, <2>2, <2>3 DEF FieldRead
<1> QED BY <1>1, <1>2

(* The reader takes the fields one by one.                                 *)
LEMMA ReadSteps ==
    ASSUME NEW t, Len(t.tuple) \in Nat, NEW data \in Seq(Octet)
    PROVE  /\ FieldsRead(t, data)[0].offset = 0
           /\ \A i \in 0..Len(t.tuple) : FieldsRead(t, data)[i].offset \in Nat
           /\ \A i \in 1..Len(t.tuple) :
                 FieldsRead(t, data)[i]
                     = FieldRead(data, FieldsRead(t, data)[i - 1].offset, t.tuple[i])
<1>0. PICK n \in Nat : n = Len(t.tuple)
  OBVIOUS
<1>a. PICK members, first : members = t.tuple /\ first = [value |-> << >>, offset |-> 0]
  OBVIOUS
<1>1. n = Len(t.tuple) /\ members = t.tuple /\ first = [value |-> << >>, offset |-> 0]
  BY <1>0, <1>a
<1>2. PICK S : S = ReadState
  OBVIOUS
<1> DEFINE Rec(g) == g = [i \in 0..n |->
                             IF i = 0 THEN first
                             ELSE FieldRead(data, g[i - 1].offset, members[i])]
           read == CHOOSE g : Rec(g)
           D == [i \in 1..n |-> [s \in S |-> FieldRead(data, s.offset, members[i])]]
<1>3. FieldsRead(t, data) = read
  BY <1>1 DEF FieldsRead
<1>4. \A i \in 1..n, s \in S : FieldRead(data, s.offset, members[i]) \in S
  <2>1. \A s \in S : s.offset \in Nat
    BY <1>2 DEF ReadState
  <2> QED BY <1>2, <2>1, FieldReadTyped
<1>5. first \in S /\ D \in [1..n -> [S -> S]]
  <2>1. first \in S
    BY <1>1, <1>2 DEF ReadState
  <2> QED BY <1>4, <2>1
<1>6. PICK f \in [0..n -> S] : Unfolds(f, n, first, D)
  <2> HIDE DEF D
  <2> QED BY <1>5, RecursionExists
<1>7. f[0] = first /\ \A i \in 1..n : f[i] = FieldRead(data, f[i - 1].offset, members[i])
  <2>1. \A i \in 1..n, s \in S : D[i][s] = FieldRead(data, s.offset, members[i])
    OBVIOUS
  <2>2. \A i \in 1..n : i - 1 \in 0..n
    OBVIOUS
  <2> HIDE DEF D
  <2> QED BY <1>6, <2>1, <2>2 DEF Unfolds
<1>8. Rec(f)
  <2>1. \A i \in 0..n : i # 0 => i \in 1..n
    OBVIOUS
  <2>2. \A i \in 0..n :
            f[i] = IF i = 0 THEN first ELSE FieldRead(data, f[i - 1].offset, members[i])
    BY <1>7, <2>1
  <2> HIDE DEF D
  <2> QED BY <2>2
<1>9. Rec(read)
  <2> HIDE DEF Rec
  <2> QED BY <1>8
<1> HIDE DEF read, D
<1>10. /\ read[0] = first
       /\ \A i \in 1..n : read[i] = FieldRead(data, read[i - 1].offset, members[i])
  <2>1. \A i \in 1..n : i \in 0..n /\ i # 0
    OBVIOUS
  <2> QED BY <1>9, <2>1
<1> HIDE DEF Rec
<1>11. \A i \in 0..n : read[i] \in S
  <2> DEFINE T == {i \in 0..n : read[i] \in S}
  <2>1. 0 \in T
    BY <1>5, <1>10
  <2>2. ASSUME NEW i \in 1..n, i - 1 \in T PROVE i \in T
    <3>1. read[i - 1] \in S /\ i \in 0..n
      BY <2>2
    <3>2. FieldRead(data, read[i - 1].offset, members[i]) \in S
      BY <1>4, <3>1
    <3> QED BY <1>10, <3>1, <3>2
  <2> HIDE DEF T
  <2>3. 0..n \subseteq T
    BY <2>1, <2>2, Induction
  <2> USE DEF T
  <2> QED BY <2>3
<1>12. \A i \in 0..n : read[i].offset \in Nat
  BY <1>2, <1>11 DEF ReadState
<1>13. read[0].offset = 0
  BY <1>1, <1>10
<1> QED BY <1>1, <1>3, <1>10, <1>12, <1>13

(* One field that lies at offset, whatever its length.                      *)
LEMMA ReadField ==
    ASSUME NEW data \in Seq(Octet), NEW offset \in Nat, NEW m, NEW v, FieldFacts(m, v),
           NEW b, b = FieldBytes(m, v), offset + Len(b) <= Len(data),
           \A p \in 1..Len(b) : data[offset + p] = b[p]
    PROVE  /\ FieldRead(data, offset, m).value \in Seq(Octet)
           /\ m \notin Strings =>
                 FieldRead(data, offset, m) = [value |-> v, offset |-> offset + Len(b)]
           /\ m \in Strings =>
                 /\ Len(v) \in Nat /\ Len(b) = Len(v) + 1
                 /\ FieldRead(data, offset, m).offset = offset + 1 + LengthByte(v)
                 /\ Len(v) < 256 => FieldRead(data, offset, m).value = v
                 /\ \A p \in 1..Len(v) : data[offset + 1 + p] \in Ascii
<1>1. /\ v \in Seq(Octet) /\ b \in Seq(Octet) /\ Len(v) \in Nat /\ Len(b) \in Nat
      /\ m \in Strings =>
            Len(b) = Len(v) + 1 /\ b[1] = LengthByte(v) /\ \A p \in 1..Len(v) : b[p + 1] = v[p]
      /\ m \notin Strings => b = v
  <2>1. /\ v \in Seq(Octet) /\ b \in Seq(Octet)
        /\ m \in Strings =>
              Len(b) = Len(v) + 1 /\ b[1] = LengthByte(v) /\ \A p \in 1..Len(v) : b[p + 1] = v[p]
        /\ m \notin Strings => b = v
    <3>1. v \in Seq(Octet) /\ FieldBytes(m, v) \in Seq(Octet)
      BY FieldIsBytes
    <3>2. m \in Strings =>
              /\ Len(FieldBytes(m, v)) = Len(v) + 1
              /\ FieldBytes(m, v)[1] = LengthByte(v)
              /\ \A p \in 1..Len(v) : FieldBytes(m, v)[p + 1] = v[p]
      BY FieldIsBytes
    <3>3. m \notin Strings => FieldBytes(m, v) = v
      BY FieldIsBytes
    <3> QED BY <3>1, <3>2, <3>3
  <2>2. Len(v) \in Nat /\ Len(b) \in Nat
    BY <2>1, LenProperties
  <2> QED BY <2>1, <2>2, Zenon
<1>2. CASE m \notin Strings
  <2>1. Len(v) = Size(m) /\ b = v
    BY <1>1, <1>2 DEF FieldFacts
  <2>2. PICK t : t = Taken(data, offset, Len(v))
    OBVIOUS
  <2>3. t \in Seq(Octet) /\ Len(t) = Len(v) /\ \A i \in 1..Len(v) : t[i] = data[offset + i]
    BY <1>1, <2>1, <2>2, TakenBytes
  <2>4. t = v
    BY <1>1, <2>1, <2>3, SeqEqual
  <2>5. FieldRead(data, offset, m) = [value |-> v, offset |-> offset + Len(b)]
    <3>1. FieldRead(data, offset, m)
              = [value |-> Taken(data, offset, Size(m)), offset |-> offset + Size(m)]
      BY <1>2, FieldReadInside
    <3> QED BY <2>1, <2>2, <2>4, <3>1
  <2> QED BY <1>1, <1>2, <2>5
<1>3. CASE m \in Strings
  <2>1. Len(b) = Len(v) + 1 /\ b[1] = LengthByte(v) /\ \A p \in 1..Len(v) : b[p + 1] = v[p]
    BY <1>1, <1>3
  <2>2. PICK k : k = LengthByte(v)
    OBVIOUS
  <2>3. k \in Nat /\ k <= Len(v) /\ (Len(v) < 256 => k = Len(v))
    <3>1. \A n \in Nat : n % 256 \in Nat /\ n % 256 <= n /\ (n < 256 => n % 256 = n)
      <4> TAKE n \in Nat
      <4>2. PICK q \in Nat, k1 \in 0..255 : n = 256 * q + k1 /\ k1 = n % 256
        BY LastByte
      <4> QED BY <4>2
    <3>2. Len(v) \in Nat
      BY <1>1
    <3> QED BY <2>2, <3>1, <3>2 DEF LengthByte
  <2>4. offset + 1 <= Len(data) /\ data[offset + 1] = k
    BY <1>1, <2>1, <2>2
  <2>5. FieldRead(data, offset, m)
            = [value |-> Taken(data, offset + 1, k), offset |-> offset + 1 + k]
    BY <1>3, <2>4, FieldReadInside
  <2>6. PICK t : t = Taken(data, offset + 1, k)
    OBVIOUS
  <2>7. offset + 1 \in Nat /\ offset + 1 + k <= Len(data)
    BY <1>1, <2>1, <2>3
  <2>8. t \in Seq(Octet) /\ Len(t) = k /\ \A i \in 1..k : t[i] = data[offset + 1 + i]
    BY <2>3, <2>6, <2>7, TakenBytes
  <2>9. \A p \in 1..Len(v) : data[offset + 1 + p] = v[p]
    <3> TAKE p \in 1..Len(v)
    <3>1. p + 1 \in 1..Len(b) /\ offset + (p + 1) = offset + 1 + p
      <4>1. Len(v) \in Nat /\ Len(b) = Len(v) + 1
        BY <1>1, <2>1
      <4>2. PICK k1 \in Nat : k1 = Len(v)
        BY <4>1
      <4>3. p \in 1..k1 /\ Len(b) = k1 + 1
        BY <4>1, <4>2
      <4> QED BY <4>3
    <3>2. data[offset + (p + 1)] = b[p + 1]
      BY <3>1
    <3> QED BY <2>1, <3>1, <3>2
  <2>10. Len(v) < 256 => t = v
    BY <1>1, <2>3, <2>8, <2>9, SeqEqual
  <2>11. \A p \in 1..Len(v) : v[p] \in Ascii
    BY <1>3 DEF FieldFacts
  <2>12. /\ FieldRead(data, offset, m).value = t
         /\ FieldRead(data, offset, m).offset = offset + 1 + LengthByte(v)
    BY <2>2, <2>5, <2>6
  <2>13. \A p \in 1..Len(v) : data[offset + 1 + p] \in Ascii
    BY <2>9, <2>11
  <2>14. Len(v) \in Nat
    BY <1>1
  <2> QED BY <1>3, <2>1, <2>8, <2>10, <2>12, <2>13, <2>14
<1> QED BY <1>2, <1>3

(* What type t with the values v[1], v[2], ... is on the wire.              *)
Parts(t, v) == [i \in 1..Len(t.tuple) |-> FieldBytes(t.tuple[i], v[i])]
OnWire(t, v, data, pos) ==
    /\ TypeFacts(t) /\ Layout(data, Parts(t, v), Len(t.tuple), pos)
    /\ \A i \in 1..Len(t.tuple) : FieldFacts(t.tuple[i], v[i])

(* Field i of a message, read from where it lies; then parts of this.      *)
LEMMA ReadAny ==
    ASSUME NEW t, NEW v, NEW data, NEW pos, OnWire(t, v, data, pos), NEW i \in 1..Len(t.tuple)
    PROVE  /\ pos[i - 1] \in Nat /\ pos[i] \in Nat /\ pos[i] <= Len(data) /\ Len(data) \in Nat
           /\ FieldRead(data, pos[i - 1], t.tuple[i]).value \in Seq(Octet)
           /\ t.tuple[i] \notin Strings =>
                 /\ FieldRead(data, pos[i - 1], t.tuple[i]) = [value |-> v[i], offset |-> pos[i]]
                 /\ pos[i] = pos[i - 1] + Size(t.tuple[i])
           /\ t.tuple[i] \in Strings =>
                 /\ Len(v[i]) \in Nat /\ pos[i] = pos[i - 1] + Len(v[i]) + 1
                 /\ FieldRead(data, pos[i - 1], t.tuple[i]).offset
                        = pos[i - 1] + 1 + LengthByte(v[i])
                 /\ Len(v[i]) < 256 => FieldRead(data, pos[i - 1], t.tuple[i]).value = v[i]
                 /\ \A p \in 1..Len(v[i]) : data[pos[i - 1] + 1 + p] \in Ascii
<1>1. PICK n, B, b, m, w, o :
         /\ n = Len(t.tuple) /\ B = Parts(t, v) /\ b = FieldBytes(t.tuple[i], v[i])
         /\ m = t.tuple[i] /\ w = v[i] /\ o = pos[i - 1]
  OBVIOUS
<1>2. n \in Nat /\ i \in 1..n /\ i - 1 \in 0..n /\ i \in 0..n
  BY <1>1 DEF OnWire, TypeFacts
<1>3. Layout(data, B, n, pos) /\ B[i] = b /\ FieldFacts(m, w) /\ b = FieldBytes(m, w)
  BY <1>1, <1>2 DEF OnWire, Parts
<1>4. /\ data \in Seq(Octet) /\ o \in Nat /\ pos[i] \in Nat /\ Len(data) \in Nat
      /\ pos[i] = o + Len(b) /\ pos[i] <= Len(data)
      /\ \A p \in 1..Len(b) : data[o + p] = b[p]
  <2>1. /\ data \in Seq(Octet) /\ pos \in [0..n -> Nat]
        /\ pos[i] = pos[i - 1] + Len(B[i]) /\ pos[i] <= Len(data)
        /\ \A p \in 1..Len(B[i]) : data[pos[i - 1] + p] = B[i][p]
    BY <1>2, <1>3 DEF Layout
  <2>2. o \in Nat /\ pos[i] \in Nat /\ Len(data) \in Nat
    BY <1>1, <1>2, <2>1
  <2>3. o = pos[i - 1] /\ B[i] = b
    BY <1>1, <1>3
  <2> QED BY <2>1, <2>2, <2>3
<1>5. /\ FieldRead(data, o, m).value \in Seq(Octet)
      /\ m \notin Strings => FieldRead(data, o, m) = [value |-> w, offset |-> o + Len(b)]
      /\ m \in Strings =>
            /\ Len(w) \in Nat /\ Len(b) = Len(w) + 1
            /\ FieldRead(data, o, m).offset = o + 1 + LengthByte(w)
            /\ Len(w) < 256 => FieldRead(data, o, m).value = w
            /\ \A p \in 1..Len(w) : data[o + 1 + p] \in Ascii
  BY <1>3, <1>4, ReadField
<1>6. m \notin Strings => Len(b) = Size(m)
  BY <1>3 DEF FieldFacts, FieldBytes
<1>7. /\ m \notin Strings => pos[i] = o + Size(m) /\ pos[i] = o + Len(b)
      /\ m \in Strings => pos[i] = o + Len(w) + 1
  <2>1. ASSUME m \notin Strings PROVE pos[i] = o + Size(m) /\ pos[i] = o + Len(b)
    BY <1>4, <1>6, <2>1, Zenon
  <2>2. ASSUME m \in Strings PROVE pos[i] = o + Len(w) + 1
    <3>1. Len(w) \in Nat /\ Len(b) = Len(w) + 1
      BY <1>5, <2>2, Zenon
    <3> QED BY <1>4, <3>1
  <2> QED BY <2>1, <2>2
<1>8. m = t.tuple[i] /\ w = v[i] /\ o = pos[i - 1]
  BY <1>1
<1> HIDE DEF OnWire
<1> QED BY <1>4, <1>5, <1>7, <1>8, Zenon

LEMMA ReadNext ==
    ASSUME NEW t, NEW v, NEW data, NEW pos, OnWire(t, v, data, pos), NEW i \in 1..Len(t.tuple)
    PROVE  /\ pos[i - 1] \in Nat /\ pos[i] \in Nat /\ pos[i] <= Len(data) /\ Len(data) \in Nat
           /\ FieldRead(data, pos[i - 1], t.tuple[i]).value \in Seq(Octet)
BY ReadAny

LEMMA ReadOther ==
    ASSUME NEW t, NEW v, NEW data, NEW pos, OnWire(t, v, data, pos), NEW i \in 1..Len(t.tuple),
           t.tuple[i] \notin Strings
    PROVE  /\ FieldRead(data, pos[i - 1], t.tuple[i]) = [value |-> v[i], offset |-> pos[i]]
           /\ pos[i] = pos[i - 1] + Size(t.tuple[i])
BY ReadAny

LEMMA ReadString ==
    ASSUME NEW t, NEW v, NEW data, NEW pos, OnWire(t, v, data, pos), NEW i \in 1..Len(t.tuple),
           t.tuple[i] \in Strings
    PROVE  /\ Len(v[i]) \in Nat /\ pos[i] = pos[i - 1] + Len(v[i]) + 1
           /\ FieldRead(data, pos[i - 1], t.tuple[i]).offset = pos[i - 1] + 1 + LengthByte(v[i])
           /\ Len(v[i]) < 256 => FieldRead(data, pos[i - 1], t.tuple[i]).value = v[i]
           /\ \A p \in 1..Len(v[i]) : data[pos[i - 1] + 1 + p] \in Ascii
BY ReadAny

(* The reader's place and value for field i.                                *)
Place(t, data, i) == FieldsRead(t, data)[i].offset
FieldValue(t, data, i) == FieldsRead(t, data)[i].value

(* The reader begins at 0 and takes field after field.                     *)
LEMMA ReaderSteps ==
    ASSUME NEW t, NEW v, NEW data, NEW pos, OnWire(t, v, data, pos)
    PROVE  /\ Len(t.tuple) \in Nat /\ data \in Seq(Octet) /\ Len(data) \in Nat
           /\ pos[0] = 0 /\ Place(t, data, 0) = 0
           /\ \A i \in 0..Len(t.tuple) : Place(t, data, i) \in Nat /\ pos[i] \in Nat
           /\ \A i \in 1..Len(t.tuple) :
                 LET next == FieldRead(data, Place(t, data, i - 1), t.tuple[i])
                 IN  Place(t, data, i) = next.offset /\ FieldValue(t, data, i) = next.value
<1>1. /\ Len(t.tuple) \in Nat /\ data \in Seq(Octet)
      /\ pos[0] = 0 /\ \A i \in 0..Len(t.tuple) : pos[i] \in Nat
  BY DEF OnWire, TypeFacts, Layout
<1>2. /\ FieldsRead(t, data)[0].offset = 0
      /\ \A i \in 0..Len(t.tuple) : FieldsRead(t, data)[i].offset \in Nat
      /\ \A i \in 1..Len(t.tuple) :
            FieldsRead(t, data)[i]
                = FieldRead(data, FieldsRead(t, data)[i - 1].offset, t.tuple[i])
  BY <1>1, ReadSteps
<1>3. Len(data) \in Nat
  BY <1>1
<1> HIDE DEF OnWire
<1> QED BY <1>1, <1>2, <1>3 DEF Place, FieldValue

(* Strings shorter than 256 are read as they were written, up to the first *)
(* that is not.                                                            *)
LEMMA ShortFieldsArrive ==
    ASSUME NEW t, NEW v, NEW data, NEW pos, OnWire(t, v, data, pos),
           NEW k \in 1..Len(t.tuple),
           \A j \in 1..k : t.tuple[j] \in Strings => Len(v[j]) < 256
    PROVE  FieldValue(t, data, k) = v[k]
<1>1. Len(t.tuple) \in Nat /\ k \in Nat /\ pos[0] = 0 /\ Place(t, data, 0) = 0
  BY ReaderSteps
<1>2. ASSUME NEW i \in 1..k, Place(t, data, i - 1) = pos[i - 1]
      PROVE  Place(t, data, i) = pos[i] /\ FieldValue(t, data, i) = v[i]
  <2>1. i \in 1..Len(t.tuple)
    BY <1>1
  <2>2. PICK next : next = FieldRead(data, pos[i - 1], t.tuple[i])
    OBVIOUS
  <2>3. Place(t, data, i) = next.offset /\ FieldValue(t, data, i) = next.value
    BY <1>2, <2>1, <2>2, ReaderSteps
  <2>4. CASE t.tuple[i] \notin Strings
    <3>1. next = [value |-> v[i], offset |-> pos[i]]
      <4>1. FieldRead(data, pos[i - 1], t.tuple[i]) = [value |-> v[i], offset |-> pos[i]]
        BY <2>1, <2>4, ReadOther
      <4> QED BY <2>2, <4>1
    <3> QED BY <2>3, <3>1
  <2>5. CASE t.tuple[i] \in Strings
    <3>1. /\ Len(v[i]) \in Nat /\ pos[i - 1] \in Nat /\ pos[i] = pos[i - 1] + Len(v[i]) + 1
          /\ next.offset = pos[i - 1] + 1 + LengthByte(v[i])
          /\ Len(v[i]) < 256 => next.value = v[i]
      <4>1. pos[i - 1] \in Nat
        BY <2>1, ReadNext
      <4> QED BY <2>1, <2>2, <2>5, <4>1, ReadString
    <3>2. Len(v[i]) < 256
      BY <2>5
    <3>3. LengthByte(v[i]) = Len(v[i])
      <4>1. \A n \in Nat : n < 256 => n % 256 = n
        OBVIOUS
      <4> QED BY <3>1, <3>2, <4>1 DEF LengthByte
    <3> QED BY <2>3, <3>1, <3>2, <3>3
  <2> QED BY <2>4, <2>5
<1> DEFINE T == {i \in 0..k : Place(t, data, i) = pos[i]}
<1>3. 0 \in T
  BY <1>1
<1>4. \A i \in 1..k : i - 1 \in T => i \in T
  BY <1>2
<1>5. k - 1 \in T
  <2> HIDE DEF T
  <2>1. 0..k \subseteq T
    BY <1>1, <1>3, <1>4, Induction
  <2> QED BY <1>1, <2>1
<1> QED BY <1>1, <1>2, <1>5

(* Behind a string of 256 characters or more the reader lags by 256 bytes at *)
(* least, and makes up for 128 at most with each string that it reads in the *)
(* midst of characters.  No type has more than three strings, and they come *)
(* first.                                                                  *)
Lagging(t, data, pos, i) ==
    \E j \in 1..i :
       /\ pos[j - 1] + 1 <= Place(t, data, i) /\ pos[j] <= pos[i]
       /\ Place(t, data, i) + 256 <= pos[j] + 128 * (i - j)
       /\ \A p \in (pos[j - 1] + 2)..pos[j] : data[p] \in Ascii
NotAhead(t, data, pos, i) ==
    /\ Place(t, data, i) <= pos[i]
    /\ i = 0 \/ t.tuple[i] \in Strings =>
          Place(t, data, i) = pos[i] \/ Lagging(t, data, pos, i)

(* One field more, and the reader is still not ahead.                      *)
LEMMA ReaderStaysBehind ==
    ASSUME NEW t, NEW v, NEW data, NEW pos, OnWire(t, v, data, pos),
           NEW i \in 1..Len(t.tuple), NotAhead(t, data, pos, i - 1)
    PROVE  NotAhead(t, data, pos, i) /\ FieldValue(t, data, i) \in Seq(Octet)
<1>0. /\ i \in Nat /\ i - 1 \in Nat /\ i - 1 \in 0..Len(t.tuple) /\ i \in 0..Len(t.tuple)
      /\ Len(t.tuple) \in Nat /\ data \in Seq(Octet)
  BY ReaderSteps
<1>1. PICK o \in Nat : o = Place(t, data, i - 1)
  BY <1>0, ReaderSteps
<1>a. PICK next : next = FieldRead(data, o, t.tuple[i])
  OBVIOUS
<1>2. /\ Place(t, data, i) = next.offset /\ FieldValue(t, data, i) = next.value
  BY <1>0, <1>1, <1>a, ReaderSteps
<1>3. /\ pos[i - 1] \in Nat /\ pos[i] \in Nat /\ pos[i] <= Len(data) /\ Len(data) \in Nat
  BY ReadNext
<1>4. CASE t.tuple[i] \notin Strings
  <2>1. Size(t.tuple[i]) \in Nat /\ pos[i] = pos[i - 1] + Size(t.tuple[i])
    <3>1. Size(t.tuple[i]) \in Nat
      BY DEF Size
    <3>2. /\ FieldRead(data, pos[i - 1], t.tuple[i]) = [value |-> v[i], offset |-> pos[i]]
          /\ pos[i] = pos[i - 1] + Size(t.tuple[i])
      BY <1>4, ReadOther
    <3> QED BY <3>1, <3>2
  <2>2. next = [value |-> Taken(data, o, Size(t.tuple[i])), offset |-> o + Size(t.tuple[i])]
    BY <1>0, <1>a, <1>4, FieldReadInside
  <2>3. o <= pos[i - 1]
    BY <1>1 DEF NotAhead
  <2>4. o + Size(t.tuple[i]) <= Len(data)
    BY <1>3, <2>1, <2>3
  <2>5. Taken(data, o, Size(t.tuple[i])) \in Seq(Octet)
    BY <1>0, <2>1, <2>4, TakenBytes
  <2>6. Place(t, data, i) <= pos[i]
    BY <1>2, <1>3, <2>1, <2>2, <2>3
  <2> QED BY <1>0, <1>2, <1>4, <2>2, <2>5, <2>6 DEF NotAhead
<1>5. CASE t.tuple[i] \in Strings
  <2>1. i <= 3 /\ (i - 1 = 0 \/ t.tuple[i - 1] \in Strings)
    <3>1. i <= 3 /\ \A j \in 1..i : t.tuple[j] \in Strings
      BY <1>5 DEF OnWire, TypeFacts
    <3> QED BY <1>0, <3>1
  <2>2. o = pos[i - 1] \/ Lagging(t, data, pos, i - 1)
    BY <1>1, <2>1 DEF NotAhead
  <2>3. /\ Len(v[i]) \in Nat /\ pos[i] = pos[i - 1] + Len(v[i]) + 1
        /\ \A p \in 1..Len(v[i]) : data[pos[i - 1] + 1 + p] \in Ascii
    BY <1>5, ReadString
  <2>4. CASE o = pos[i - 1]
    <3>1. next.value \in Seq(Octet) /\ next.offset = pos[i - 1] + 1 + LengthByte(v[i])
      BY <1>a, <1>5, <2>4, ReadNext, ReadString
    <3>2. PICK length \in Nat, k \in 0..255 :
             length = Len(v[i]) /\ k = LengthByte(v[i]) /\ (k = length \/ k + 256 <= length)
      <4> DEFINE n == Len(v[i])
      <4>1. n \in Nat
        BY <2>3
      <4> HIDE DEF n
      <4>3. PICK q \in Nat, k \in 0..255 : n = 256 * q + k /\ k = n % 256
        BY <4>1, LastByte
      <4>4. k = n \/ k + 256 <= n
        BY <4>3
      <4>5. LengthByte(v[i]) = n % 256 /\ n = Len(v[i])
        BY DEF n, LengthByte
      <4> QED BY <4>1, <4>3, <4>4, <4>5
    <3>3. Place(t, data, i) = pos[i - 1] + 1 + k /\ pos[i] = pos[i - 1] + length + 1
      BY <1>2, <2>3, <3>1, <3>2
    <3>4. CASE k = length
      <4>1. Place(t, data, i) = pos[i]
        BY <1>3, <3>3, <3>4
      <4> QED BY <1>2, <1>3, <3>1, <4>1 DEF NotAhead
    <3>5. CASE k + 256 <= length
      <4>1. /\ Place(t, data, i) <= pos[i] /\ pos[i - 1] + 1 <= Place(t, data, i)
            /\ Place(t, data, i) + 256 <= pos[i] + 128 * (i - i)
        <5>1. PICK a \in Nat, l \in Nat : a = pos[i - 1] /\ l = length
          BY <1>3
        <5>2. Place(t, data, i) = a + 1 + k /\ pos[i] = a + l + 1 /\ k + 256 <= l
          BY <3>3, <3>5, <5>1
        <5>3. /\ a + 1 + k <= a + l + 1 /\ a + 1 <= a + 1 + k
              /\ a + 1 + k + 256 <= a + l + 1 + 0
          <6>1. a \in Nat /\ l \in Nat /\ k \in Nat /\ k + 256 <= l
            BY <5>1, <5>2
          <6> QED BY <6>1
        <5>4. 128 * (i - i) = 0
          BY <1>0
        <5> QED BY <5>1, <5>2, <5>3, <5>4
      <4>2. \A p \in (pos[i - 1] + 2)..pos[i] : data[p] \in Ascii
        <5> TAKE p \in (pos[i - 1] + 2)..pos[i]
        <5>1. PICK p1 \in 1..length : p = pos[i - 1] + 1 + p1
          <6>1. p - (pos[i - 1] + 1) \in 1..length /\ p = pos[i - 1] + 1 + (p - (pos[i - 1] + 1))
            <7>1. PICK a \in Nat, l \in Nat : a = pos[i - 1] /\ l = length
              BY <1>3
            <7>2. p \in (a + 2)..(a + l + 1)
              BY <3>3, <7>1
            <7>3. p - (a + 1) \in 1..l /\ p = a + 1 + (p - (a + 1))
              <8>1. \A x, y, z \in Int : z \in (x + 2)..(x + y + 1) =>
                        z - (x + 1) \in 1..y /\ z = x + 1 + (z - (x + 1))
                OBVIOUS
              <8>2. a \in Int /\ l \in Int /\ p \in Int
                BY <7>1, <7>2
              <8> QED BY <7>2, <8>1, <8>2
            <7> QED BY <7>1, <7>3
          <6> QED BY <6>1
        <5> QED BY <2>3, <3>2, <5>1
      <4>3. i \in 1..i /\ pos[i] <= pos[i]
        BY <1>0, <1>3
      <4>4. Lagging(t, data, pos, i)
        BY <4>1, <4>2, <4>3 DEF Lagging
      <4> QED BY <1>2, <3>1, <4>1, <4>4 DEF NotAhead
    <3> QED BY <3>2, <3>4, <3>5
  <2>5. CASE Lagging(t, data, pos, i - 1)
    <3>1. PICK j \in 1..i - 1 :
             /\ pos[j - 1] + 1 <= o /\ pos[j] <= pos[i - 1]
             /\ o + 256 <= pos[j] + 128 * (i - 1 - j)
             /\ \A p \in (pos[j - 1] + 2)..pos[j] : data[p] \in Ascii
      BY <1>1, <2>5 DEF Lagging
    <3>2. /\ j \in Nat /\ j \in 1..Len(t.tuple) /\ i - 1 - j \in 0..1 /\ j \in 1..i
          /\ 128 * (i - j) = 128 * (i - 1 - j) + 128
      BY <1>0, <2>1
    <3>3. pos[j - 1] \in Nat /\ pos[j] \in Nat
      BY <3>2, ReadNext
    <3>a. PICK d \in 0..1 :
             d = i - 1 - j /\ 128 * (i - j) = 128 * d + 128 /\ o + 256 <= pos[j] + 128 * d
      BY <3>1, <3>2
    <3>b. PICK e \in Nat, f \in Nat, g \in Nat, l \in Nat :
             e = pos[j] /\ f = pos[i - 1] /\ g = Len(data) /\ l = Len(v[i])
      BY <1>3, <2>3, <3>3
    <3>4. o + 128 <= pos[j] /\ pos[j] <= pos[i] /\ pos[j] <= Len(data)
      <4>1. o + 256 <= e + 128 * d /\ e <= f /\ pos[i] = f + l + 1 /\ pos[i] <= g
        BY <1>3, <2>3, <3>1, <3>a, <3>b
      <4>2. f + l + 1 <= g
        BY <4>1
      <4>3. o + 128 <= e /\ e <= f + l + 1 /\ e <= g
        BY <4>1, <4>2
      <4> QED BY <3>b, <4>1, <4>3
    <3>5. PICK c \in Ascii : c = data[o + 1]
      <4>1. o + 1 \in (pos[j - 1] + 2)..pos[j]
        <5>1. PICK a \in Nat : a = pos[j - 1]
          BY <3>3
        <5>2. a + 1 <= o /\ o + 128 <= e
          BY <3>1, <3>4, <3>b, <5>1
        <5>3. o + 1 \in (a + 2)..e
          BY <5>2
        <5> QED BY <3>b, <5>1, <5>3
      <4> QED BY <3>1, <4>1
    <3>6. c \in 0..127
      BY <3>5 DEF Ascii
    <3>7. next = [value |-> Taken(data, o + 1, c), offset |-> o + 1 + c]
      <4>1. o + 1 <= Len(data)
        BY <1>1, <1>3, <3>3, <3>4
      <4> QED BY <1>0, <1>a, <1>5, <3>5, <4>1, FieldReadInside
    <3>8. Taken(data, o + 1, c) \in Seq(Octet)
      <4>1. o + 1 \in Nat /\ c \in Nat /\ o + 1 + c <= Len(data)
        BY <1>1, <1>3, <3>3, <3>4, <3>6
      <4> QED BY <1>0, <4>1, TakenBytes
    <3>9. /\ Place(t, data, i) = o + 1 + c /\ Place(t, data, i) <= pos[i]
          /\ pos[j - 1] + 1 <= Place(t, data, i)
          /\ Place(t, data, i) + 256 <= pos[j] + 128 * (i - j)
      <4>1. Place(t, data, i) = o + 1 + c
        BY <1>2, <3>7
      <4>2. PICK a \in Nat, b \in Nat : a = pos[j - 1] /\ b = pos[i]
        BY <1>3, <3>3
      <4>3. a + 1 <= o /\ o + 128 <= e /\ e <= b /\ o + 256 <= e + 128 * d
        BY <3>1, <3>4, <3>a, <3>b, <4>2
      <4>4. o + 1 + c <= b /\ a + 1 <= o + 1 + c /\ o + 1 + c + 256 <= e + (128 * d + 128)
        BY <3>6, <4>3
      <4> QED BY <3>a, <3>b, <4>1, <4>2, <4>4
    <3>10. Lagging(t, data, pos, i)
      BY <3>1, <3>2, <3>4, <3>9 DEF Lagging
    <3> QED BY <1>2, <3>7, <3>8, <3>9, <3>10 DEF NotAhead
  <2> QED BY <2>2, <2>4, <2>5
<1> QED BY <1>4, <1>5

(* No field has anything but bytes of the message.                         *)
LEMMA NoFieldOverread ==
    ASSUME NEW t, NEW v, NEW data, NEW pos, OnWire(t, v, data, pos), NEW k \in 1..Len(t.tuple)
    PROVE  FieldValue(t, data, k) \in Seq(Octet)
<1>1. Len(t.tuple) \in Nat /\ k \in Nat /\ k - 1 \in 0..Len(t.tuple)
  BY ReaderSteps
<1> DEFINE T == {i \in 0..Len(t.tuple) : NotAhead(t, data, pos, i)}
<1>2. 0 \in T
  <2>1. Place(t, data, 0) = 0 /\ pos[0] = 0
    BY ReaderSteps
  <2> QED BY <1>1, <2>1 DEF NotAhead
<1>3. \A i \in 1..Len(t.tuple) : i - 1 \in T => i \in T
  BY <1>1, ReaderStaysBehind
<1>4. k - 1 \in T
  <2> HIDE DEF T
  <2>1. 0..Len(t.tuple) \subseteq T
    BY <1>1, <1>2, <1>3, Induction
  <2> QED BY <1>1, <2>1
<1> QED BY <1>4, ReaderStaysBehind

(* The messages of the model are on the wire in this sense.                 *)
LEMMA IndexOfMember ==
    ASSUME NEW t, TypeFacts(t), NEW i \in 1..Len(t.tuple)
    PROVE  /\ Index(t.tuple, t.tuple[i]) = i /\ Index(t.ctor, t.tuple[i]) = i
           /\ t.tuple[i] \in ToSet(t.tuple) /\ t.tuple[i] \in ToSet(t.ctor)
<1>1. /\ \A j \in 1..Len(t.tuple) : t.tuple[j] = t.tuple[i] => j = i
      /\ t.ctor = t.tuple /\ DOMAIN t.tuple = 1..Len(t.tuple)
  BY DEF TypeFacts
<1>2. Index(t.tuple, t.tuple[i]) = i
  BY <1>1 DEF Index
<1>3. t.tuple[i] \in ToSet(t.tuple)
  BY <1>1 DEF ToSet
<1> QED BY <1>1, <1>2, <1>3

LEMMA MemberIsSome ==
    ASSUME NEW t, TypeFacts(t), NEW m \in ToSet(t.ctor)
    PROVE  \E i \in 1..Len(t.tuple) : m = t.tuple[i]
BY DEF TypeFacts, ToSet

(* Numbers and bytes are no garbage.                                       *)
LEMMA FillIsNumbers == \A fill \in Fill : fill \in Nat
BY SerializationAssumption

LEMMA BytesAreNoGarbage ==
    ASSUME NEW s \in Seq(Octet)
    PROVE  Garbage \notin ToSet(s)
<1>1. \A p \in DOMAIN s : s[p] \in 0..255
  <2>1. \A p \in DOMAIN s : s[p] \in Octet
    OBVIOUS
  <2> QED BY <2>1 DEF Octet
<1>2. \A p \in DOMAIN s : s[p] # Garbage
  BY <1>1, SerializationAssumption
<1> QED BY <1>2 DEF ToSet

(* The values of the model are what FieldFacts says.                       *)
LEMMA ValuesWellFormed ==
    ASSUME NEW t \in Sent, NEW c \in Values(t), NEW i \in 1..Len(t.tuple)
    PROVE  FieldFacts(t.tuple[i], c[t.tuple[i]])
<1>1. TypeFacts(t)
  BY TypesWellFormed
<1>2. PICK m, n : m = t.tuple[i] /\ n = i
  OBVIOUS
<1>3. i \in Nat /\ m \in ToSet(t.tuple) /\ Index(t.tuple, m) = i
  <2>1. Len(t.tuple) \in Nat
    BY <1>1 DEF TypeFacts
  <2> QED BY <1>1, <1>2, <2>1, IndexOfMember
<1>4. PICK fill \in Fill, length \in [Strings \cap ToSet(t.tuple) -> Lengths] :
         c[m] = ValueOf(t, m, fill, length)
  <2>1. PICK fill \in Fill, length \in [Strings \cap ToSet(t.tuple) -> Lengths] :
           c = [k \in ToSet(t.tuple) |-> ValueOf(t, k, fill, length)]
    BY DEF Values
  <2> QED BY <1>3, <2>1
<1>5. fill \in Nat
  BY FillIsNumbers
<1>6. PICK byte \in Nat, one \in Nat : byte = fill + 16 * i /\ one = fill + i
  BY <1>3, <1>5
<1>7. /\ byte % 128 \in Ascii /\ byte % 256 \in Octet /\ one % 2 \in Octet
  BY DEF Ascii, Octet
<1>8. CASE m \in Strings
  <2>1. PICK l \in Nat : l = length[m]
    BY <1>3, <1>4, <1>8, SerializationAssumption
  <2>2. c[m] = [p \in 1..l |-> byte % 128]
    BY <1>3, <1>4, <1>6, <1>8, <2>1 DEF ValueOf
  <2>3. c[m] \in Seq(Ascii)
    BY <1>7, <2>2
  <2> QED BY <1>2, <1>8, <2>3 DEF FieldFacts
<1>9. CASE m \notin Strings /\ m \in Bools
  <2>1. c[m] = <<one % 2>>
    BY <1>3, <1>4, <1>6, <1>9 DEF ValueOf
  <2>2. c[m] \in Seq(Octet) /\ Len(c[m]) = 1
    BY <1>7, <2>1
  <2> QED BY <1>2, <1>9, <2>2 DEF FieldFacts, Size
<1>10. CASE m \notin Strings /\ m \notin Bools
  <2>1. c[m] = [p \in 1..4 |-> byte % 256]
    BY <1>3, <1>4, <1>6, <1>10 DEF ValueOf
  <2>2. c[m] \in Seq(Octet) /\ Len(c[m]) = 4
    BY <1>7, <2>1
  <2> QED BY <1>2, <1>10, <2>2 DEF FieldFacts, Size
<1> QED BY <1>8, <1>9, <1>10

(* The values of component c of type t, by their places.                    *)
InOrderOf(t, c) == [i \in 1..Len(t.tuple) |-> c[t.tuple[i]]]

(* A message is a tag and the bytes of its component.                      *)
LEMMA SentIsOnWire ==
    ASSUME NEW t \in Sent, NEW c \in Values(t)
    PROVE  \E data, pos :
              /\ OnWire(t, InOrderOf(t, c), data, pos)
              /\ serializeGameState(t, c) # << >> /\ Head(serializeGameState(t, c)) = t.tag
              /\ Tail(serializeGameState(t, c)) = data
<1>1. TypeFacts(t)
  BY TypesWellFormed
<1>2. PICK n \in Nat \ {0} : n = Len(t.tuple)
  BY <1>1 DEF TypeFacts
<1>3. PICK v : v = InOrderOf(t, c)
  OBVIOUS
<1>4. \A i \in 1..n : FieldFacts(t.tuple[i], v[i])
  BY <1>2, <1>3, ValuesWellFormed DEF InOrderOf
<1>5. PICK B : B = Parts(t, v)
  OBVIOUS
<1>6. B \in [1..n -> Seq(Octet)]
  <2>1. \A i \in 1..n : FieldBytes(t.tuple[i], v[i]) \in Seq(Octet)
    BY <1>4, FieldIsBytes
  <2> QED BY <1>2, <1>5, <2>1 DEF Parts
<1>7. PICK data, pos : data = FlattenSeq(B) /\ Layout(data, B, n, pos)
  BY <1>6, FlattenLayout
<1>8. OnWire(t, v, data, pos)
  BY <1>1, <1>2, <1>4, <1>5, <1>7 DEF OnWire
<1>9. PICK tag \in Nat : tag = t.tag
  BY TagsDiffer
<1>10. serializeGameState(t, c) = <<tag>> \o data
  <2>1. B = [i \in 1..Len(t.tuple) |-> FieldBytes(t.tuple[i], c[t.tuple[i]])]
    BY <1>3, <1>5 DEF Parts, InOrderOf
  <2> QED BY <1>7, <1>9, <2>1 DEF serializeGameState
<1>11. PICK w : w = <<tag>> \o data
  OBVIOUS
<1>12. data \in Seq(Nat)
  <2>1. data \in Seq(Octet) /\ Octet \subseteq Nat
    BY <1>7 DEF Layout, Octet
  <2>2. data \in [1..Len(data) -> Nat] /\ Len(data) \in Nat
    BY <2>1, LenProperties
  <2> QED BY <2>2
<1>13. /\ w \in Seq(Nat) /\ Len(w) = 1 + Len(data)
       /\ \A i \in 1..1 + Len(data) : w[i] = IF i <= 1 THEN <<tag>>[i] ELSE data[i - 1]
  <2>1. <<tag>> \in Seq(Nat) /\ Len(<<tag>>) = 1
    OBVIOUS
  <2> QED BY <1>11, <1>12, <2>1, ConcatProperties
<1>14. PICK l \in Nat : l = Len(data)
  BY <1>12
<1>15. w # << >> /\ Head(w) = tag
  <2>1. Len(w) > 0 /\ w[1] = tag
    BY <1>13, <1>14
  <2> QED BY <1>13, <2>1
<1>16. Tail(w) = data
  <2>1. /\ Tail(w) \in Seq(Nat) /\ Len(Tail(w)) = Len(w) - 1
        /\ \A i \in 1..Len(Tail(w)) : Tail(w)[i] = w[i + 1]
    BY <1>13, <1>15, HeadTailProperties
  <2>2. Len(Tail(w)) = l
    BY <1>13, <1>14, <2>1
  <2>3. \A i \in 1..l : w[i + 1] = data[i]
    BY <1>13, <1>14
  <2> QED BY <1>12, <1>14, <2>1, <2>2, <2>3, SeqEqual
<1> QED BY <1>3, <1>8, <1>9, <1>10, <1>11, <1>15, <1>16

(* What handleMessage makes of it.                                          *)
LEMMA Deserialized ==
    ASSUME NEW t \in Sent, NEW data
    PROVE  /\ DOMAIN deserialize(t, data) = ToSet(t.ctor)
           /\ \A i \in 1..Len(t.tuple) : deserialize(t, data)[t.tuple[i]] = FieldValue(t, data, i)
<1>1. TypeFacts(t)
  BY TypesWellFormed
<1>2. PICK r : r = FieldsRead(t, data)
  OBVIOUS
<1>3. deserialize(t, data) = [m \in ToSet(t.ctor) |-> r[Index(t.ctor, m)].value]
  BY <1>2 DEF deserialize
<1>4. ASSUME NEW i \in 1..Len(t.tuple)
      PROVE  deserialize(t, data)[t.tuple[i]] = FieldValue(t, data, i)
  BY <1>1, <1>2, <1>3, IndexOfMember DEF FieldValue
<1> QED BY <1>3, <1>4

WireInv ==
    /\ RoundTrip /\ NothingOverread
    /\ message # << >> =>
          \E t \in Sent : \E c \in Values(t) :
             carried = [type |-> t, members |-> c] /\ message = serializeGameState(t, c)

LEMMA WireInitially == WireInit => WireInv
BY DEF WireInit, WireInv, RoundTrip, NothingOverread

(* A message holds what was sent last; what is received is read from it.   *)
LEMMA WireStep == WireInv /\ [WireNext]_wireVars => WireInv'
<1> SUFFICES ASSUME WireInv, [WireNext]_wireVars PROVE WireInv'
  OBVIOUS
<1>1. ASSUME NEW type \in Sent, Send(type) PROVE WireInv'
  <2>1. PICK c \in Values(type) :
           carried' = [type |-> type, members |-> c] /\ message' = serializeGameState(type, c)
    BY <1>1 DEF Send
  <2>2. received' = << >>
    BY <1>1 DEF Send
  <2> QED BY <2>1, <2>2 DEF WireInv, RoundTrip, NothingOverread
<1>2. ASSUME NEW type \in Sent, HandleMessage(type) PROVE WireInv'
  <2>a. PICK t \in Sent :
           \E c \in Values(t) :
              carried = [type |-> t, members |-> c] /\ message = serializeGameState(t, c)
    BY <1>2 DEF HandleMessage, WireInv
  <2>1. PICK c \in Values(t) :
           carried = [type |-> t, members |-> c] /\ message = serializeGameState(t, c)
    BY <2>a
  <2>2. PICK v, data, pos :
           /\ v = InOrderOf(t, c) /\ OnWire(t, v, data, pos)
           /\ Head(message) = t.tag /\ Tail(message) = data
    BY <2>1, SentIsOnWire
  <2>3. type = t
    BY <1>2, <2>2, TagsDiffer DEF HandleMessage
  <2>4. /\ message' = << >> /\ carried' = carried
        /\ received' = deserialize(t, data) \/ received' = << >>
    BY <1>2, <2>2, <2>3 DEF HandleMessage
  <2>5. carried'.type = t /\ carried'.members = c
    BY <2>1, <2>4
  <2>6. CASE received' = << >>
    BY <2>4, <2>6 DEF WireInv, RoundTrip, NothingOverread
  <2>7. CASE received' = deserialize(t, data)
    <3>1. RoundTrip'
      <4>1. ASSUME NEW i \in 1..Len(t.tuple),
                   \A j \in 1..i : t.tuple[j] \in Strings => Len(c[t.tuple[j]]) < 256
            PROVE  received'[t.tuple[i]] = c[t.tuple[i]]
        <5>1. i \in Nat /\ Len(t.tuple) \in Nat
          BY <2>2, ReaderSteps
        <5>2. \A j \in 1..i : j \in 1..Len(t.tuple)
          BY <5>1
        <5>3. \A j \in 1..i : t.tuple[j] \in Strings => Len(v[j]) < 256
          BY <2>2, <4>1, <5>2 DEF InOrderOf
        <5>4. FieldValue(t, data, i) = v[i]
          BY <2>2, <5>3, ShortFieldsArrive
        <5>5. v[i] = c[t.tuple[i]]
          BY <2>2 DEF InOrderOf
        <5>6. received'[t.tuple[i]] = FieldValue(t, data, i)
          BY <2>7, Deserialized
        <5> QED BY <5>4, <5>5, <5>6
      <4> QED BY <2>5, <4>1 DEF RoundTrip, Short
    <3>2. NothingOverread'
      <4>1. ASSUME NEW m \in DOMAIN received' PROVE Garbage \notin ToSet(received'[m])
        <5>1. PICK i \in 1..Len(t.tuple) : m = t.tuple[i]
          <6>1. m \in ToSet(t.ctor)
            BY <2>7, <4>1, Deserialized
          <6> QED BY <6>1, MemberIsSome, TypesWellFormed
        <5>2. PICK s \in Seq(Octet) : s = received'[m]
          <6>1. received'[m] = FieldValue(t, data, i)
            BY <2>7, <5>1, Deserialized
          <6> QED BY <2>2, <6>1, NoFieldOverread
        <5> QED BY <5>2, BytesAreNoGarbage
      <4> QED BY <4>1 DEF NothingOverread
    <3> QED BY <2>4, <3>1, <3>2 DEF WireInv
  <2> QED BY <2>4, <2>6, <2>7
<1>3. CASE UNCHANGED wireVars
  BY <1>3 DEF wireVars, WireInv, RoundTrip, NothingOverread, Short
<1> QED BY <1>1, <1>2, <1>3 DEF WireNext

(* A component arrives as it was sent, up to its first string of 256        *)
(* characters or more, for any lengths and bytes of its values.             *)
THEOREM WireRoundTrip == WireSpec => []RoundTrip
<1>1. WireInv => RoundTrip
  BY DEF WireInv
<1> QED BY <1>1, WireInitially, WireStep, PTL DEF WireSpec

(* Nothing is read behind the end of a message, however long its strings:   *)
(* the reader, which never asks for the end, is never ahead of the writer.  *)
THEOREM WireNothingOverread == WireSpec => []NothingOverread
<1>1. WireInv => NothingOverread
  BY DEF WireInv
<1> QED BY <1>1, WireInitially, WireStep, PTL DEF WireSpec
=============================================================================
