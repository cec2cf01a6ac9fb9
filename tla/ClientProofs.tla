---------------------------- MODULE ClientProofs ----------------------------
(***************************************************************************)
(* Proofs about the client program beside its registry: its connection,    *)
(* with any number of updates, and its screens before the game, with any   *)
(* actions and keys that satisfy ScreensAssumption.                        *)
(*                                                                         *)
(* The argument about the connection is about one sequence, the events on  *)
(* their way from ENet to the registry: what a thread does to it is to add *)
(* one at the end, to drop one that is not a packet with a number, to lose *)
(* the last ones, and, once, to move one to the front.                     *)
(***************************************************************************)
EXTENDS NetworkClient, Screens, SequenceTheorems, TLAPS

-----------------------------------------------------------------------------
(* The connection.                                                          *)

(* The types of what has a value while the program is not about to end.    *)
Typed ==
    /\ handled \in Seq(Nat) /\ messageQueue \in Seq(Event)
    /\ hand \in Seq(Event) /\ incoming \in Seq(Event) /\ sent \in Nat

(* A packet of s is older than n, from the k-th on packets are in order,   *)
(* none is there twice; and if all, then none below n is missing.          *)
IsPacket(s, i) == s[i].type = "RECEIVE"
Older(s, n) == \A i \in 1..Len(s) : IsPacket(s, i) => s[i].packet < n
Ordered(s, k) ==
    \A i, j \in k..Len(s) : IsPacket(s, i) /\ IsPacket(s, j) /\ i < j => s[i].packet < s[j].packet
Once(s) == \A i, j \in 1..Len(s) : IsPacket(s, i) /\ s[i] = s[j] => i = j
Complete(s, n) == \A m \in 0..(n - 1) : \E i \in 1..Len(s) : s[i] = Received(m)
Arrives(s, k, n, all) ==
    /\ s \in Seq(Event)
    /\ Older(s, n) /\ Ordered(s, k) /\ Once(s)
    /\ all => Complete(s, n)

(* t has the events of s where f says, and its packets from the j-th on    *)
(* come from the k-th on and keep their order.                             *)
Taken(t, s, f, j, k) ==
    /\ s \in Seq(Event) /\ t \in Seq(Event)
    /\ f \in [1..Len(t) -> 1..Len(s)]
    /\ \A i \in 1..Len(t) : t[i] = s[f[i]]
    /\ \A i, h \in 1..Len(t) : f[i] = f[h] => i = h
    /\ \A i \in j..Len(t) : f[i] >= k
    /\ \A i, h \in j..Len(t) : i < h => f[i] < f[h]

LEMMA TakenArrives ==
    ASSUME NEW s, NEW t, NEW f, NEW j \in Nat \ {0}, NEW k \in Nat, NEW n \in Nat,
           Taken(t, s, f, j, k), Arrives(s, k, n, FALSE)
    PROVE  Arrives(t, j, n, FALSE)
<1>0. Len(t) \in Nat /\ Len(s) \in Nat
  BY LenProperties DEF Taken
<1>1. Older(t, n)
  BY DEF Older, IsPacket, Taken, Arrives
<1>2. Ordered(t, j)
  <2> SUFFICES ASSUME NEW i \in j..Len(t), NEW h \in j..Len(t),
                      IsPacket(t, i), IsPacket(t, h), i < h
               PROVE  t[i].packet < t[h].packet
    BY DEF Ordered
  <2>1. i \in 1..Len(t) /\ h \in 1..Len(t)
    BY <1>0
  <2>2. f[i] \in k..Len(s) /\ f[h] \in k..Len(s) /\ f[i] < f[h]
    BY <1>0, <2>1 DEF Taken
  <2>3. t[i] = s[f[i]] /\ t[h] = s[f[h]]
    BY <2>1 DEF Taken
  <2> QED BY <2>2, <2>3 DEF Arrives, Ordered, IsPacket
<1>3. Once(t)
  <2> SUFFICES ASSUME NEW i \in 1..Len(t), NEW h \in 1..Len(t), IsPacket(t, i), t[i] = t[h]
               PROVE  i = h
    BY DEF Once
  <2>1. /\ f[i] \in 1..Len(s) /\ f[h] \in 1..Len(s)
        /\ t[i] = s[f[i]] /\ t[h] = s[f[h]] /\ (f[i] = f[h] => i = h)
    BY DEF Taken
  <2>2. IsPacket(s, f[i]) /\ s[f[i]] = s[f[h]]
    BY <2>1 DEF IsPacket
  <2> QED BY <2>1, <2>2 DEF Arrives, Once
<1> QED BY <1>1, <1>2, <1>3 DEF Arrives, Taken

(* The facts about sequences, for events.                                  *)
LEMMA Assoc ==
    ASSUME NEW s \in Seq(Event), NEW t \in Seq(Event), NEW u \in Seq(Event)
    PROVE  (s \o t) \o u = s \o (t \o u)
BY ConcatAssociative

LEMMA Concat ==
    ASSUME NEW s \in Seq(Event), NEW t \in Seq(Event)
    PROVE  /\ s \o t \in Seq(Event) /\ Len(s \o t) = Len(s) + Len(t)
           /\ Len(s) \in Nat /\ Len(t) \in Nat
           /\ \A i \in 1..Len(s) + Len(t) :
                 (s \o t)[i] = IF i <= Len(s) THEN s[i] ELSE t[i - Len(s)]
<1>1. Len(s) \in Nat /\ Len(t) \in Nat
  BY LenProperties, Zenon
<1> QED BY <1>1, ConcatProperties, Zenon

(* What is there, in the words of sequences.                               *)
LEMMA Parts ==
    ASSUME NEW a \in Seq(Event), NEW e \in Event, NEW b \in Seq(Event)
    PROVE  LET s == a \o <<e>> \o b
           IN  /\ s \in Seq(Event) /\ Len(a) \in Nat /\ Len(b) \in Nat
               /\ Len(s) = Len(a) + 1 + Len(b)
               /\ \A i \in 1..Len(s) : s[i] = IF i <= Len(a) THEN a[i]
                                              ELSE IF i = Len(a) + 1 THEN e
                                              ELSE b[i - Len(a) - 1]
<1>1. <<e>> \in Seq(Event) /\ Len(<<e>>) = 1 /\ <<e>>[1] = e
  OBVIOUS
<1>2. PICK o : o = <<e>>
  OBVIOUS
<1>3. /\ a \o o \in Seq(Event) /\ Len(a \o o) = Len(a) + 1 /\ Len(a) \in Nat /\ Len(b) \in Nat
      /\ \A i \in 1..Len(a) + 1 : (a \o o)[i] = IF i <= Len(a) THEN a[i] ELSE o[i - Len(a)]
  BY <1>1, <1>2, Concat, LenProperties
<1>4. PICK c : c = a \o o
  OBVIOUS
<1>5. /\ c \o b \in Seq(Event) /\ Len(c \o b) = Len(c) + Len(b)
      /\ \A i \in 1..Len(c) + Len(b) : (c \o b)[i] = IF i <= Len(c) THEN c[i] ELSE b[i - Len(c)]
  BY <1>3, <1>4, Concat
<1>6. PICK s : s = c \o b
  OBVIOUS
<1>7. ASSUME NEW i \in 1..Len(s)
      PROVE  s[i] = IF i <= Len(a) THEN a[i] ELSE IF i = Len(a) + 1 THEN e ELSE b[i - Len(a) - 1]
  <2>1. CASE i <= Len(a)
    BY <1>3, <1>4, <1>5, <1>6, <2>1
  <2>2. CASE i = Len(a) + 1
    BY <1>1, <1>2, <1>3, <1>4, <1>5, <1>6, <2>2
  <2>3. CASE i > Len(a) + 1
    BY <1>3, <1>4, <1>5, <1>6, <2>3
  <2> QED BY <1>3, <2>1, <2>2, <2>3
<1> QED BY <1>2, <1>3, <1>4, <1>5, <1>6, <1>7

(* What is no packet may go.                                               *)
LEMMA DropArrives ==
    ASSUME NEW a \in Seq(Event), NEW e \in Event, NEW b \in Seq(Event), NEW all,
           NEW k \in Nat \ {0}, NEW n \in Nat, e.type # "RECEIVE",
           Arrives(a \o <<e>> \o b, k, n, all)
    PROVE  Arrives(a \o b, k, n, all)
<1>1. PICK s : s = a \o <<e>> \o b
  OBVIOUS
<1>2. PICK t : t = a \o b
  OBVIOUS
<1>3. /\ s \in Seq(Event) /\ Len(a) \in Nat /\ Len(b) \in Nat
      /\ Len(s) = Len(a) + 1 + Len(b)
      /\ \A i \in 1..Len(s) : s[i] = IF i <= Len(a) THEN a[i]
                                     ELSE IF i = Len(a) + 1 THEN e ELSE b[i - Len(a) - 1]
  BY <1>1, Parts
<1>4. /\ t \in Seq(Event) /\ Len(t) = Len(a) + Len(b)
      /\ \A i \in 1..Len(t) : t[i] = IF i <= Len(a) THEN a[i] ELSE b[i - Len(a)]
  BY <1>2, Concat
<1>5. PICK f : f = [i \in 1..Len(t) |-> IF i <= Len(a) THEN i ELSE i + 1]
  OBVIOUS
<1>6. ASSUME NEW i \in 1..Len(t) PROVE f[i] \in 1..Len(s) /\ t[i] = s[f[i]]
  <2>1. CASE i <= Len(a)
    <3>1. f[i] = i /\ t[i] = a[i]
      BY <1>4, <1>5, <2>1
    <3>2. i \in 1..Len(s) /\ s[i] = a[i]
      BY <1>3, <1>4, <2>1
    <3> QED BY <3>1, <3>2
  <2>2. CASE i > Len(a)
    <3>1. f[i] = i + 1 /\ t[i] = b[i - Len(a)]
      BY <1>3, <1>4, <1>5, <2>2
    <3>2. i + 1 \in 1..Len(s) /\ ~(i + 1 <= Len(a)) /\ i + 1 # Len(a) + 1
          /\ i + 1 - Len(a) - 1 = i - Len(a)
      BY <1>3, <1>4, <2>2
    <3>3. s[i + 1] = b[i - Len(a)]
      BY <1>3, <3>2
    <3> QED BY <3>1, <3>2, <3>3
  <2> QED BY <1>3, <1>4, <2>1, <2>2
<1>7. Taken(t, s, f, k, k)
  <2>1. \A i \in 1..Len(t) : f[i] = IF i <= Len(a) THEN i ELSE i + 1
    BY <1>5
  <2>2. f \in [1..Len(t) -> 1..Len(s)]
    BY <1>5, <1>6
  <2>3. \A i \in k..Len(t) : i \in 1..Len(t)
    OBVIOUS
  <2>4. \A i, h \in 1..Len(t) : f[i] = f[h] => i = h
    BY <1>3, <2>1
  <2>5. \A i \in k..Len(t) : f[i] >= k
    BY <1>3, <2>1, <2>3
  <2>6. \A i, h \in k..Len(t) : i < h => f[i] < f[h]
    BY <1>3, <2>1, <2>3
  <2> QED BY <1>3, <1>4, <1>6, <2>2, <2>4, <2>5, <2>6 DEF Taken
<1>8. Arrives(t, k, n, FALSE)
  <2>1. Arrives(s, k, n, FALSE)
    BY <1>1 DEF Arrives
  <2>2. k \in Nat \ {0} /\ k \in Nat
    OBVIOUS
  <2> QED BY <1>7, <2>1, <2>2, TakenArrives
<1>9. ASSUME all PROVE Complete(t, n)
  <2> SUFFICES ASSUME NEW m \in 0..(n - 1) PROVE \E i \in 1..Len(t) : t[i] = Received(m)
    BY DEF Complete
  <2>1. PICK i \in 1..Len(s) : s[i] = Received(m)
    BY <1>1, <1>9 DEF Arrives, Complete
  <2>2. i # Len(a) + 1
    BY <1>3, <2>1 DEF Received
  <2>3. CASE i <= Len(a)
    <3>1. i \in 1..Len(t)
      BY <1>3, <1>4, <2>3
    <3>2. f[i] = i
      BY <1>5, <2>3, <3>1
    <3> QED BY <1>6, <2>1, <3>1, <3>2
  <2>4. CASE i > Len(a) + 1
    <3>1. i - 1 \in 1..Len(t)
      BY <1>3, <1>4, <2>4
    <3>2. f[i - 1] = i
      BY <1>3, <1>5, <2>4, <3>1
    <3> QED BY <1>6, <2>1, <3>1, <3>2
  <2> QED BY <1>3, <2>1, <2>2, <2>3, <2>4
<1> QED BY <1>2, <1>8, <1>9 DEF Arrives

(* A packet may be applied out of turn.                                    *)
LEMMA FrontArrives ==
    ASSUME NEW a \in Seq(Event), NEW e \in Event, NEW b \in Seq(Event), NEW all,
           NEW n \in Nat, Arrives(a \o <<e>> \o b, 1, n, all)
    PROVE  Arrives(<<e>> \o (a \o b), 2, n, all)
<1>1. PICK s : s = a \o <<e>> \o b
  OBVIOUS
<1>3. /\ s \in Seq(Event) /\ Len(a) \in Nat /\ Len(b) \in Nat
      /\ Len(s) = Len(a) + 1 + Len(b)
      /\ \A i \in 1..Len(s) : s[i] = IF i <= Len(a) THEN a[i]
                                     ELSE IF i = Len(a) + 1 THEN e ELSE b[i - Len(a) - 1]
  BY <1>1, Parts
<1>2. PICK r : r = a \o b
  OBVIOUS
<1>4. /\ r \in Seq(Event) /\ Len(r) = Len(a) + Len(b)
      /\ \A i \in 1..Len(r) : r[i] = IF i <= Len(a) THEN a[i] ELSE b[i - Len(a)]
  BY <1>2, Concat
<1>10. PICK o : o = <<e>>
  OBVIOUS
<1>11. o \in Seq(Event) /\ Len(o) = 1 /\ o[1] = e
  BY <1>10
<1>12. PICK t : t = o \o r
  OBVIOUS
<1>13. /\ t \in Seq(Event) /\ Len(t) = 1 + Len(r)
       /\ t[1] = e /\ \A i \in 2..Len(t) : t[i] = r[i - 1]
  <2>1. /\ o \o r \in Seq(Event) /\ Len(o \o r) = Len(o) + Len(r)
        /\ \A i \in 1..Len(o) + Len(r) :
              (o \o r)[i] = IF i <= Len(o) THEN o[i] ELSE r[i - Len(o)]
    BY <1>4, <1>11, Concat
  <2>2. /\ t \in Seq(Event) /\ Len(t) = 1 + Len(r)
        /\ \A i \in 1..1 + Len(r) : t[i] = IF i <= 1 THEN o[i] ELSE r[i - 1]
    BY <1>11, <1>12, <2>1
  <2>3. Len(r) \in Nat
    BY <1>3, <1>4
  <2>4. t[1] = e
    BY <1>11, <2>2, <2>3
  <2> QED BY <2>2, <2>3, <2>4
<1>5. PICK f : f = [i \in 1..Len(t) |-> IF i = 1 THEN Len(a) + 1
                                        ELSE IF i <= Len(a) + 1 THEN i - 1 ELSE i]
  OBVIOUS
<1>6. ASSUME NEW i \in 1..Len(t) PROVE f[i] \in 1..Len(s) /\ t[i] = s[f[i]]
  <2>1. CASE i = 1
    BY <1>3, <1>4, <1>5, <1>11, <1>13, <2>1
  <2>2. CASE i # 1 /\ i <= Len(a) + 1
    <3>1. i - 1 \in 1..Len(r) /\ i - 1 <= Len(a) /\ i \in 2..Len(t)
      BY <1>3, <1>4, <1>13, <2>2
    <3>2. t[i] = r[i - 1] /\ r[i - 1] = a[i - 1]
      BY <1>4, <1>13, <3>1
    <3>3. i - 1 \in 1..Len(s) /\ f[i] = i - 1
      BY <1>3, <1>4, <1>5, <2>2, <3>1
    <3>4. s[i - 1] = a[i - 1]
      BY <1>3, <3>1, <3>3
    <3> QED BY <3>2, <3>3, <3>4
  <2>3. CASE i > Len(a) + 1
    <3>1. i - 1 \in 1..Len(r) /\ ~(i - 1 <= Len(a)) /\ i \in 2..Len(t)
      BY <1>3, <1>4, <1>13, <2>3
    <3>2. t[i] = r[i - 1] /\ r[i - 1] = b[i - 1 - Len(a)]
      BY <1>4, <1>13, <3>1
    <3>3. i \in 1..Len(s) /\ f[i] = i
      BY <1>3, <1>4, <1>5, <1>13, <2>3, <3>1
    <3>4. s[i] = b[i - 1 - Len(a)]
      <4>1. ~(i <= Len(a)) /\ i # Len(a) + 1 /\ i - Len(a) - 1 = i - 1 - Len(a)
        BY <1>3, <2>3
      <4> QED BY <1>3, <3>3, <4>1
    <3> QED BY <3>2, <3>3, <3>4
  <2> QED BY <1>3, <2>1, <2>2, <2>3
<1>7. Taken(t, s, f, 2, 1)
  <2>1. \A i \in 1..Len(t) : f[i] = IF i = 1 THEN Len(a) + 1
                                    ELSE IF i <= Len(a) + 1 THEN i - 1 ELSE i
    BY <1>5
  <2>2. f \in [1..Len(t) -> 1..Len(s)]
    BY <1>5, <1>6
  <2>3. \A i \in 2..Len(t) : i \in 1..Len(t) /\ i # 1
    OBVIOUS
  <2>4. \A i, h \in 1..Len(t) : f[i] = f[h] => i = h
    BY <1>3, <2>1
  <2>5. \A i \in 2..Len(t) : f[i] >= 1
    BY <1>3, <2>1, <2>3
  <2>6. \A i, h \in 2..Len(t) : i < h => f[i] < f[h]
    BY <1>3, <2>1, <2>3
  <2> QED BY <1>3, <1>6, <1>13, <2>2, <2>4, <2>5, <2>6 DEF Taken
<1>8. Arrives(t, 2, n, FALSE)
  <2>1. Arrives(s, 1, n, FALSE)
    BY <1>1 DEF Arrives
  <2>2. 2 \in Nat \ {0} /\ 1 \in Nat
    OBVIOUS
  <2> QED BY <1>7, <2>1, <2>2, TakenArrives
<1>9. ASSUME all PROVE Complete(t, n)
  <2> SUFFICES ASSUME NEW m \in 0..(n - 1) PROVE \E i \in 1..Len(t) : t[i] = Received(m)
    BY DEF Complete
  <2>1. PICK i \in 1..Len(s) : s[i] = Received(m)
    BY <1>1, <1>9 DEF Arrives, Complete
  <2>2. PICK h \in 1..Len(t) : f[h] = i
    <3>1. CASE i = Len(a) + 1
      BY <1>4, <1>3, <1>5, <1>13, <3>1
    <3>2. CASE i <= Len(a)
      <4>1. i + 1 \in 1..Len(t) /\ f[i + 1] = i
        BY <1>4, <1>3, <1>5, <1>13, <3>2
      <4> QED BY <4>1
    <3>3. CASE i > Len(a) + 1
      BY <1>4, <1>3, <1>5, <1>13, <3>3
    <3> QED BY <1>3, <3>1, <3>2, <3>3
  <2> QED BY <1>6, <2>1, <2>2
<1> QED BY <1>2, <1>8, <1>9, <1>10, <1>12 DEF Arrives

(* The last events may be lost.                                            *)
LEMMA CutArrives ==
    ASSUME NEW a \in Seq(Event), NEW b \in Seq(Event), NEW k \in Nat \ {0}, NEW n \in Nat, NEW all,
           Arrives(a \o b, k, n, all)
    PROVE  Arrives(a, k, n, FALSE)
<1>1. PICK s : s = a \o b
  OBVIOUS
<1>2. /\ s \in Seq(Event) /\ Len(s) = Len(a) + Len(b) /\ Len(a) \in Nat /\ Len(b) \in Nat
      /\ \A i \in 1..Len(s) : s[i] = IF i <= Len(a) THEN a[i] ELSE b[i - Len(a)]
  BY <1>1, Concat, LenProperties
<1>3. PICK f : f = [i \in 1..Len(a) |-> i]
  OBVIOUS
<1>4. Taken(a, s, f, k, k)
  BY <1>2, <1>3 DEF Taken
<1> QED BY <1>1, <1>4, TakenArrives DEF Arrives

(* The next packet comes last.                                             *)
LEMMA AppendArrives ==
    ASSUME NEW s, NEW k \in Nat \ {0}, NEW n \in Nat, NEW all, Arrives(s, k, n, all)
    PROVE  /\ Arrives(Append(s, Received(n)), k, n + 1, all)
           /\ \A e \in Event : e.type # "RECEIVE" => Arrives(Append(s, e), k, n, all)
<1>0. s \in Seq(Event) /\ Received(n) \in Event /\ Received(n).type = "RECEIVE"
      /\ Received(n).packet = n
  BY DEF Arrives, Received, Event
<1>1. ASSUME NEW e \in Event
      PROVE  LET t == Append(s, e)
             IN  /\ t \in Seq(Event) /\ Len(t) = Len(s) + 1 /\ Len(s) \in Nat
                 /\ t[Len(s) + 1] = e
                 /\ \A i \in 1..Len(s) : t[i] = s[i]
  BY <1>0, AppendProperties, LenProperties
<1>2. Arrives(Append(s, Received(n)), k, n + 1, all)
  <2>1. PICK t : t = Append(s, Received(n))
    OBVIOUS
  <2>2. /\ t \in Seq(Event) /\ Len(t) = Len(s) + 1 /\ Len(s) \in Nat
        /\ t[Len(s) + 1] = Received(n)
        /\ \A i \in 1..Len(s) : t[i] = s[i]
    BY <1>0, <1>1, <2>1
  <2>3. \A i \in 1..Len(t) : i \in 1..Len(s) \/ i = Len(s) + 1
    BY <2>2
  <2>7. \A i \in 1..Len(s) : s[i] \in Event /\ (IsPacket(s, i) => s[i].packet < n)
    BY <1>0, <2>2 DEF Arrives, Older
  <2>8. \A i \in 1..Len(s) : s[i].packet \in Nat
    BY <2>7 DEF Event
  <2>4. Older(t, n + 1)
    BY <1>0, <2>2, <2>3, <2>7, <2>8 DEF Older, IsPacket
  <2>5. Ordered(t, k)
    <3> SUFFICES ASSUME NEW i \in k..Len(t), NEW h \in k..Len(t),
                        IsPacket(t, i), IsPacket(t, h), i < h
                 PROVE  t[i].packet < t[h].packet
      BY DEF Ordered
    <3>1. i \in k..Len(s) /\ i \in 1..Len(s) /\ ((h \in k..Len(s) /\ h \in 1..Len(s)) \/ h = Len(s) + 1)
      BY <2>2
    <3>2. CASE h = Len(s) + 1
      BY <1>0, <2>2, <2>7, <3>1, <3>2 DEF IsPacket
    <3>3. CASE h \in k..Len(s) /\ h \in 1..Len(s)
      <4>1. t[i] = s[i] /\ t[h] = s[h]
        BY <2>2, <3>1, <3>3
      <4> QED BY <3>1, <3>3, <4>1 DEF Arrives, Ordered, IsPacket
    <3> QED BY <3>1, <3>2, <3>3
  <2>6. Once(t)
    <3> SUFFICES ASSUME NEW i \in 1..Len(t), NEW h \in 1..Len(t), IsPacket(t, i), t[i] = t[h]
                 PROVE  i = h
      BY DEF Once
    <3>1. CASE i \in 1..Len(s) /\ h \in 1..Len(s)
      BY <2>2, <3>1 DEF Once, IsPacket, Arrives
    <3>2. CASE i \in 1..Len(s) /\ h = Len(s) + 1
      BY <1>0, <2>2, <2>7, <2>8, <3>2 DEF IsPacket
    <3>3. CASE h \in 1..Len(s) /\ i = Len(s) + 1
      BY <1>0, <2>2, <2>7, <2>8, <3>3 DEF IsPacket
    <3> QED BY <2>3, <3>1, <3>2, <3>3
  <2>9. ASSUME all PROVE Complete(t, n + 1)
    <3> SUFFICES ASSUME NEW m \in 0..n PROVE \E i \in 1..Len(t) : t[i] = Received(m)
      BY DEF Complete
    <3>1. CASE m = n
      BY <2>2, <3>1
    <3>2. CASE m \in 0..(n - 1)
      <4>1. PICK i \in 1..Len(s) : s[i] = Received(m)
        BY <2>9, <3>2 DEF Arrives, Complete
      <4> QED BY <2>2, <4>1
    <3> QED BY <3>1, <3>2
  <2> QED BY <2>1, <2>2, <2>4, <2>5, <2>6, <2>9 DEF Arrives
<1>3. ASSUME NEW e \in Event, e.type # "RECEIVE"
      PROVE  Arrives(Append(s, e), k, n, all)
  <2>1. PICK t : t = Append(s, e)
    OBVIOUS
  <2>2. /\ t \in Seq(Event) /\ Len(t) = Len(s) + 1 /\ Len(s) \in Nat
        /\ t[Len(s) + 1] = e
        /\ \A i \in 1..Len(s) : t[i] = s[i]
    BY <1>1, <2>1
  <2>3. \A i \in 1..Len(t) : IsPacket(t, i) => i \in 1..Len(s) /\ IsPacket(s, i)
    BY <1>3, <2>2 DEF IsPacket
  <2>4. Older(t, n)
    BY <2>2, <2>3 DEF Older, Arrives
  <2>5. Ordered(t, k)
    <3> SUFFICES ASSUME NEW i \in k..Len(t), NEW h \in k..Len(t),
                        IsPacket(t, i), IsPacket(t, h), i < h
                 PROVE  t[i].packet < t[h].packet
      BY DEF Ordered
    <3>1. i \in k..Len(s) /\ h \in k..Len(s) /\ IsPacket(s, i) /\ IsPacket(s, h)
          /\ t[i] = s[i] /\ t[h] = s[h]
      BY <2>2, <2>3
    <3> QED BY <3>1 DEF Arrives, Ordered
  <2>6. Once(t)
    <3> SUFFICES ASSUME NEW i \in 1..Len(t), NEW h \in 1..Len(t), IsPacket(t, i), t[i] = t[h]
                 PROVE  i = h
      BY DEF Once
    <3>1. IsPacket(t, h)
      BY DEF IsPacket
    <3> QED BY <2>2, <2>3, <3>1 DEF Once, Arrives
  <2>7. ASSUME all PROVE Complete(t, n)
    <3> SUFFICES ASSUME NEW m \in 0..(n - 1) PROVE \E i \in 1..Len(t) : t[i] = Received(m)
      BY DEF Complete
    <3>1. PICK i \in 1..Len(s) : s[i] = Received(m)
      BY <2>7 DEF Arrives, Complete
    <3> QED BY <2>2, <3>1
  <2> QED BY <2>1, <2>2, <2>4, <2>5, <2>6, <2>7 DEF Arrives
<1> QED BY <1>2, <1>3

-----------------------------------------------------------------------------
(* The whole way from ENet to the registry.                                 *)
Seen(a) == [i \in 1..Len(a) |-> Received(a[i])]
Whole(a, q, h, c) == ((Seen(a) \o q) \o h) \o c

LEMMA StreamIsWhole == stream = Whole(handled, messageQueue, hand, incoming)
BY DEF stream, Whole, Seen

LEMMA SeenFacts ==
    ASSUME NEW a \in Seq(Nat)
    PROVE  Seen(a) \in Seq(Event) /\ Len(Seen(a)) = Len(a)
<1>1. PICK seen : seen = [i \in 1..Len(a) |-> Received(a[i])]
  OBVIOUS
<1>2. Len(a) \in Nat /\ \A i \in 1..Len(a) : Received(a[i]) \in Event
  <2>1. \A i \in 1..Len(a) : a[i] \in Nat
    BY ElementOfSeq
  <2> QED BY <2>1, LenProperties DEF Received, Event
<1>3. seen \in Seq(Event) /\ Len(seen) = Len(a)
  BY <1>1, <1>2
<1> QED BY <1>1, <1>3 DEF Seen

LEMMA WholeParts ==
    ASSUME NEW a \in Seq(Nat), NEW q \in Seq(Event), NEW h \in Seq(Event), NEW c \in Seq(Event)
    PROVE  /\ Whole(a, q, h, c) = Seen(a) \o (q \o (h \o c))
           /\ Whole(a, q, h, c) = (Seen(a) \o (q \o h)) \o c
<1>1. PICK s : s = Seen(a)
  OBVIOUS
<1>2. s \in Seq(Event)
  BY <1>1, SeenFacts
<1>3. PICK sq, hc : sq = s \o q /\ hc = h \o c
  OBVIOUS
<1>4. sq \in Seq(Event) /\ hc \in Seq(Event)
  BY <1>2, <1>3, Concat
<1>5. (sq \o h) \o c = sq \o (h \o c)
  BY <1>4, Assoc
<1>6. (s \o q) \o hc = s \o (q \o hc)
  BY <1>2, <1>4, Assoc
<1>7. (s \o q) \o h = s \o (q \o h)
  BY <1>2, Assoc
<1> QED BY <1>1, <1>3, <1>5, <1>6, <1>7 DEF Whole

(* One more has been handled.                                              *)
LEMMA SeenAppend ==
    ASSUME NEW a \in Seq(Nat), NEW n \in Nat
    PROVE  Seen(Append(a, n)) = Seen(a) \o <<Received(n)>>
<1>1. PICK s : s = [i \in 1..Len(a) |-> Received(a[i])]
  OBVIOUS
<1>2. PICK b : b = Append(a, n)
  OBVIOUS
<1>3. /\ b \in Seq(Nat) /\ Len(b) = Len(a) + 1 /\ Len(a) \in Nat /\ b[Len(a) + 1] = n
      /\ \A i \in 1..Len(a) : b[i] = a[i] /\ a[i] \in Nat
  BY <1>2, AppendProperties, LenProperties, ElementOfSeq
<1>4. PICK t : t = [i \in 1..Len(b) |-> Received(b[i])]
  OBVIOUS
<1>5. /\ \A i \in 1..Len(a) : Received(a[i]) \in Event
      /\ \A i \in 1..Len(b) : Received(b[i]) \in Event
  <2>1. \A i \in 1..Len(b) : b[i] \in Nat
    BY <1>3, ElementOfSeq
  <2> QED BY <1>3, <2>1 DEF Received, Event
<1>6. s \in Seq(Event) /\ t \in Seq(Event) /\ Len(s) = Len(a) /\ Len(t) = Len(a) + 1
  BY <1>1, <1>3, <1>4, <1>5
<1>7. Received(n) \in Event
  BY DEF Received, Event
<1>8. PICK r : r = Append(s, Received(n))
  OBVIOUS
<1>9. /\ r \in Seq(Event) /\ Len(r) = Len(a) + 1 /\ r[Len(a) + 1] = Received(n)
      /\ \A i \in 1..Len(a) : r[i] = s[i]
  BY <1>6, <1>7, <1>8, AppendProperties
<1>10. ASSUME NEW i \in 1..Len(t) PROVE t[i] = r[i]
  <2>1. CASE i = Len(a) + 1
    BY <1>3, <1>4, <1>6, <1>9, <2>1
  <2>2. CASE i \in 1..Len(a)
    BY <1>1, <1>3, <1>4, <1>6, <1>9, <2>2
  <2> QED BY <1>3, <1>6, <2>1, <2>2
<1>11. t = r
  BY <1>6, <1>9, <1>10, SeqEqual
<1>12. r = s \o <<Received(n)>>
  BY <1>6, <1>7, <1>8, AppendIsConcat
<1> QED BY <1>1, <1>2, <1>4, <1>11, <1>12 DEF Seen

-----------------------------------------------------------------------------
(* As long as connect() may still succeed or has succeeded, and the window *)
(* is open: the first packet that is handled may be out of turn.           *)
Live == main \in {"start", "awaitConnect", "awaitWelcome", "running", "updating"}
Fresh == /\ net # "pushing" => hand = << >>
         /\ main = "start" => peer = "none" /\ sent = 0
         /\ peer = "connecting" => sent = 0
         /\ ~playing => handled = << >>
First == IF playing THEN 2 ELSE 1
ClientInv == Live => Typed /\ Fresh /\ Arrives(stream, First, sent, peer = "connected")

(* The events in order, at a state and at the next.                        *)
LEMMA StreamNow ==
    ASSUME Typed
    PROVE  /\ stream = Seen(handled) \o (messageQueue \o (hand \o incoming))
           /\ stream = (Seen(handled) \o (messageQueue \o hand)) \o incoming
<1>1. PICK a, q, b, d : a = handled /\ q = messageQueue /\ b = hand /\ d = incoming
  OBVIOUS
<1>2. a \in Seq(Nat) /\ q \in Seq(Event) /\ b \in Seq(Event) /\ d \in Seq(Event)
  BY <1>1 DEF Typed
<1>3. Whole(a, q, b, d) = Seen(a) \o (q \o (b \o d)) /\ Whole(a, q, b, d) = (Seen(a) \o (q \o b)) \o d
  BY <1>2, WholeParts, Zenon
<1> QED BY <1>1, <1>3, StreamIsWhole, Zenon

LEMMA StreamNext ==
    ASSUME Typed'
    PROVE  /\ stream' = Seen(handled') \o (messageQueue' \o (hand' \o incoming'))
           /\ stream' = (Seen(handled') \o (messageQueue' \o hand')) \o incoming'
<1>1. stream' = Whole(handled', messageQueue', hand', incoming')
  BY DEF stream, Whole, Seen
<1>2. PICK a, q, b, d : a = handled' /\ q = messageQueue' /\ b = hand' /\ d = incoming'
  OBVIOUS
<1>3. a \in Seq(Nat) /\ q \in Seq(Event) /\ b \in Seq(Event) /\ d \in Seq(Event)
  BY <1>2 DEF Typed
<1>4. Whole(a, q, b, d) = Seen(a) \o (q \o (b \o d)) /\ Whole(a, q, b, d) = (Seen(a) \o (q \o b)) \o d
  BY <1>3, WholeParts, Zenon
<1> QED BY <1>1, <1>2, <1>4, Zenon

(* An event, first of those of a place.                                    *)
LEMMA HeadTailParts ==
    ASSUME NEW s \in Seq(Event), s # << >>
    PROVE  /\ Head(s) \in Event /\ Tail(s) \in Seq(Event) /\ <<Head(s)>> \in Seq(Event)
           /\ s = <<Head(s)>> \o Tail(s)
<1>1. PICK h, t, o : h = Head(s) /\ t = Tail(s) /\ o = <<h>>
  OBVIOUS
<1>2. /\ h \in Event /\ t \in Seq(Event) /\ Len(t) = Len(s) - 1
      /\ \A i \in 1..Len(t) : t[i] = s[i + 1]
  BY <1>1, HeadTailProperties
<1>3. o \in Seq(Event) /\ Len(o) = 1 /\ o[1] = h
  BY <1>1, <1>2
<1>4. Len(s) \in Nat \ {0} /\ s[1] = h
  BY <1>1, EmptySeq
<1>5. /\ o \o t \in Seq(Event) /\ Len(o \o t) = 1 + Len(t)
      /\ \A i \in 1..1 + Len(t) : (o \o t)[i] = IF i <= 1 THEN o[i] ELSE t[i - 1]
  <2>1. Len(o) + Len(t) = 1 + Len(t)
    BY <1>3
  <2>2. /\ o \o t \in Seq(Event) /\ Len(o \o t) = Len(o) + Len(t)
        /\ \A i \in 1..Len(o) + Len(t) :
              (o \o t)[i] = IF i <= Len(o) THEN o[i] ELSE t[i - Len(o)]
    BY <1>2, <1>3, Concat
  <2> QED BY <1>3, <2>1, <2>2
<1>6. PICK r : r = o \o t
  OBVIOUS
<1>7. ASSUME NEW i \in 1..Len(s) PROVE s[i] = r[i]
  <2>1. CASE i = 1
    BY <1>2, <1>3, <1>4, <1>5, <1>6, <2>1
  <2>2. CASE i > 1
    <3>1. i - 1 \in 1..Len(t) /\ i \in 1..1 + Len(t) /\ ~(i <= 1)
      BY <1>2, <1>4, <2>2
    <3>2. t[i - 1] = s[i - 1 + 1] /\ i - 1 + 1 = i
      BY <1>2, <3>1
    <3> QED BY <1>5, <1>6, <3>1, <3>2
  <2> QED BY <1>4, <2>1, <2>2
<1>8. s = r
  BY <1>2, <1>4, <1>5, <1>6, <1>7, SeqEqual
<1> QED BY <1>1, <1>2, <1>3, <1>6, <1>8

(* An event comes in.                                                      *)
LEMMA DeliverAppends ==
    ASSUME Typed, Typed', NEW e \in Event, Deliver(e), UNCHANGED <<handled, messageQueue, hand>>
    PROVE  stream' = Append(stream, e)
<1>1. PICK s, t, u : s = Seen(handled) /\ t = s \o (messageQueue \o hand) /\ u = <<e>>
  OBVIOUS
<1>2. s \in Seq(Event) /\ stream = t \o incoming /\ stream' = t \o incoming'
  BY <1>1, StreamNow, StreamNext, SeenFacts DEF Typed
<1>3. u \in Seq(Event) /\ incoming' = incoming \o u
  BY <1>1, AppendIsConcat DEF Deliver, Typed
<1>4. t \in Seq(Event)
  <2>1. messageQueue \o hand \in Seq(Event)
    BY Concat DEF Typed
  <2> QED BY <1>1, <1>2, <2>1, Concat
<1>5. (t \o incoming) \o u = t \o (incoming \o u) /\ t \o incoming \in Seq(Event)
  <2>1. incoming \in Seq(Event)
    BY DEF Typed
  <2>2. (t \o incoming) \o u = t \o (incoming \o u)
    BY <1>3, <1>4, <2>1, Assoc
  <2>3. t \o incoming \in Seq(Event)
    BY <1>4, <2>1, Concat
  <2> QED BY <2>2, <2>3
<1>6. Append(stream, e) = stream \o u
  BY <1>1, <1>2, <1>5, AppendIsConcat
<1> QED BY <1>2, <1>3, <1>5, <1>6

(* The network thread takes an event, or pushes what it has: the way from  *)
(* ENet to the registry is the same.                                       *)
LEMMA TakeKeeps ==
    ASSUME Typed, Typed', hand = << >>, incoming # << >>, incoming' = Tail(incoming),
           hand' = <<Head(incoming)>>, UNCHANGED <<handled, messageQueue>>
    PROVE  stream' = stream
<1>1. incoming = hand' \o incoming'
  BY HeadTailParts DEF Typed
<1>2. hand \o incoming = incoming
  BY ConcatEmptySeq DEF Typed
<1> QED BY <1>1, <1>2, StreamNow, StreamNext

(* The mutex is free.                                                      *)
LEMMA PushKeeps ==
    ASSUME Typed, Typed', messageQueue' = messageQueue \o hand, hand' = << >>,
           UNCHANGED <<handled, incoming>>
    PROVE  stream' = stream
<1>1. hand' \o incoming = incoming
  BY ConcatEmptySeq DEF Typed
<1>2. (messageQueue \o hand) \o incoming = messageQueue \o (hand \o incoming)
  <2>1. PICK q, b, d : q = messageQueue /\ b = hand /\ d = incoming
    OBVIOUS
  <2>2. q \in Seq(Event) /\ b \in Seq(Event) /\ d \in Seq(Event)
    BY <2>1 DEF Typed
  <2>3. (q \o b) \o d = q \o (b \o d)
    BY <2>2, Assoc
  <2> QED BY <2>1, <2>3
<1> QED BY <1>1, <1>2, StreamNow, StreamNext

(* What says nothing new may be dropped.                                   *)
LEMMA PushDrops ==
    ASSUME Typed, Typed', hand = << Repeated >>, hand' = << >>,
           UNCHANGED <<handled, messageQueue, incoming>>,
           NEW k \in Nat \ {0}, NEW n \in Nat, NEW all, Arrives(stream, k, n, all)
    PROVE  Arrives(stream', k, n, all)
<1>1. PICK s, q, u : s = Seen(handled) /\ q = messageQueue /\ u = << Repeated >>
  OBVIOUS
<1>2. s \in Seq(Event) /\ q \in Seq(Event) /\ u \in Seq(Event)
  BY <1>1, SeenFacts DEF Typed
<1>3. PICK a, t : a = s \o q /\ t = incoming
  OBVIOUS
<1>4. a \in Seq(Event)
  BY <1>2, <1>3, Concat
<1>5. t \in Seq(Event)
  BY <1>3 DEF Typed
<1>6. (s \o q) \o u = s \o (q \o u)
  BY <1>2, Assoc
<1>7. stream = a \o << Repeated >> \o t
  BY <1>1, <1>3, <1>6, StreamNow
<1>8. q \o << >> = q
  BY <1>2, ConcatEmptySeq
<1>9. stream' = a \o t
  BY <1>1, <1>3, <1>8, StreamNext
<1>10. Repeated \in Event /\ Repeated.type # "RECEIVE"
  BY DEF Repeated, Event
<1>11. Arrives(a \o t, k, n, all)
  BY <1>4, <1>5, <1>7, <1>10, DropArrives
<1> QED BY <1>9, <1>11

(* The oldest event of the queue is handled: a packet goes to the registry. *)
LEMMA HandledKeeps ==
    ASSUME Typed, Typed', messageQueue # << >>, messageQueue' = Tail(messageQueue),
           Head(messageQueue).type = "RECEIVE",
           handled' = Append(handled, Head(messageQueue).packet), UNCHANGED <<hand, incoming>>
    PROVE  stream' = stream
<1>1. PICK s, h, t, r : /\ s = Seen(handled) /\ h = Head(messageQueue)
                        /\ t = Tail(messageQueue) /\ r = hand \o incoming
  OBVIOUS
<1>2. /\ s \in Seq(Event) /\ h \in Event /\ t \in Seq(Event) /\ <<h>> \in Seq(Event)
      /\ messageQueue = <<h>> \o t /\ r \in Seq(Event)
  BY <1>1, SeenFacts, HeadTailParts, Concat DEF Typed
<1>3. h = Received(h.packet) /\ h.packet \in Nat
  BY <1>1, <1>2 DEF Received, Event
<1>4. Seen(handled') = s \o <<h>>
  BY <1>1, <1>3, SeenAppend DEF Typed
<1>5. stream = s \o ((<<h>> \o t) \o r) /\ stream' = (s \o <<h>>) \o (t \o r)
  BY <1>1, <1>2, <1>4, StreamNow, StreamNext
<1>6. PICK o, tr : o = <<h>> /\ tr = t \o r
  OBVIOUS
<1>7. o \in Seq(Event) /\ tr \in Seq(Event)
  BY <1>2, <1>6, Concat
<1>8. (o \o t) \o r = o \o tr
  BY <1>2, <1>6, <1>7, Assoc
<1>9. (s \o o) \o tr = s \o (o \o tr)
  BY <1>2, <1>7, Assoc
<1> QED BY <1>5, <1>6, <1>8, <1>9

(* An event that is no packet is gone.                                     *)
LEMMA HandledDrops ==
    ASSUME Typed, Typed', messageQueue # << >>, messageQueue' = Tail(messageQueue),
           Head(messageQueue).type # "RECEIVE", UNCHANGED <<handled, hand, incoming>>,
           NEW n \in Nat, NEW all, Arrives(stream, 2, n, all)
    PROVE  Arrives(stream', 2, n, all)
<1>1. PICK s, h, t, r : /\ s = Seen(handled) /\ h = Head(messageQueue)
                        /\ t = Tail(messageQueue) /\ r = hand \o incoming
  OBVIOUS
<1>2. /\ s \in Seq(Event) /\ h \in Event /\ t \in Seq(Event) /\ <<h>> \in Seq(Event)
      /\ messageQueue = <<h>> \o t /\ r \in Seq(Event)
  BY <1>1, SeenFacts, HeadTailParts, Concat DEF Typed
<1>3. stream = s \o ((<<h>> \o t) \o r) /\ stream' = s \o (t \o r)
  BY <1>1, <1>2, StreamNow, StreamNext
<1>4. PICK o, tr : o = <<h>> /\ tr = t \o r
  OBVIOUS
<1>5. o \in Seq(Event) /\ tr \in Seq(Event)
  BY <1>2, <1>4, Concat
<1>6. (o \o t) \o r = o \o tr
  BY <1>2, <1>4, <1>5, Assoc
<1>7. (s \o o) \o tr = s \o (o \o tr)
  BY <1>2, <1>5, Assoc
<1>8. Arrives((s \o <<h>>) \o tr, 2, n, all)
  BY <1>3, <1>4, <1>6, <1>7
<1>9. h.type # "RECEIVE" /\ 2 \in Nat \ {0}
  BY <1>1
<1>10. Arrives(s \o tr, 2, n, all)
  BY <1>2, <1>5, <1>8, <1>9, DropArrives
<1> QED BY <1>3, <1>4, <1>10

(* connect() takes the oldest event of ENet from behind those of the       *)
(* network thread.                                                         *)
LEMMA ConnectDrops ==
    ASSUME Typed, Typed', incoming # << >>, incoming' = Tail(incoming),
           Head(incoming).type # "RECEIVE", UNCHANGED <<handled, messageQueue, hand>>,
           NEW n \in Nat, NEW all, Arrives(stream, 1, n, all)
    PROVE  Arrives(stream', 1, n, all)
<1>1. PICK s, h, t : /\ s = Seen(handled) \o (messageQueue \o hand) /\ h = Head(incoming)
                     /\ t = Tail(incoming)
  OBVIOUS
<1>2. /\ h \in Event /\ t \in Seq(Event) /\ <<h>> \in Seq(Event)
      /\ incoming = <<h>> \o t
  BY <1>1, HeadTailParts DEF Typed
<1>3. s \in Seq(Event)
  <2>1. messageQueue \o hand \in Seq(Event) /\ Seen(handled) \in Seq(Event)
    BY SeenFacts, Concat DEF Typed
  <2> QED BY <1>1, <2>1, Concat
<1>4. stream = s \o (<<h>> \o t) /\ stream' = s \o t
  BY <1>1, <1>2, StreamNow, StreamNext
<1>5. (s \o <<h>>) \o t = s \o (<<h>> \o t)
  BY <1>2, <1>3, Assoc
<1>6. Arrives((s \o <<h>>) \o t, 1, n, all)
  BY <1>4, <1>5
<1>7. h.type # "RECEIVE" /\ 1 \in Nat \ {0}
  BY <1>1
<1>8. Arrives(s \o t, 1, n, all)
  BY <1>2, <1>3, <1>6, <1>7, DropArrives
<1> QED BY <1>4, <1>8

(* The packet that it takes for the welcome is applied at once.            *)
LEMMA ConnectTakes ==
    ASSUME Typed, Typed', incoming # << >>, incoming' = Tail(incoming),
           Head(incoming).type = "RECEIVE", handled = << >>,
           handled' = Append(handled, Head(incoming).packet), UNCHANGED <<messageQueue, hand>>,
           NEW n \in Nat, NEW all, Arrives(stream, 1, n, all)
    PROVE  Arrives(stream', 2, n, all)
<1>1. PICK s, h, t : s = messageQueue \o hand /\ h = Head(incoming) /\ t = Tail(incoming)
  OBVIOUS
<1>2. /\ h \in Event /\ t \in Seq(Event) /\ <<h>> \in Seq(Event)
      /\ incoming = <<h>> \o t /\ s \in Seq(Event)
  BY <1>1, HeadTailParts, Concat DEF Typed
<1>3. Seen(handled) = << >>
  <2>1. Seen(handled) \in Seq(Event) /\ Len(Seen(handled)) = 0
    BY SeenFacts DEF Typed
  <2> QED BY <2>1, EmptySeq
<1>4. h = Received(h.packet) /\ h.packet \in Nat
  BY <1>1, <1>2 DEF Received, Event
<1>5. Seen(handled') = << >> \o <<h>>
  BY <1>1, <1>3, <1>4, SeenAppend DEF Typed
<1>6. << >> \o <<h>> = <<h>> /\ << >> \o s = s
  BY <1>2, ConcatEmptySeq
<1>7. stream = s \o (<<h>> \o t)
  BY <1>1, <1>2, <1>3, <1>6, StreamNow
<1>8. stream' = (<<h>> \o s) \o t
  BY <1>1, <1>5, <1>6, StreamNext
<1>9. (s \o <<h>>) \o t = s \o (<<h>> \o t) /\ (<<h>> \o s) \o t = <<h>> \o (s \o t)
  BY <1>2, Assoc
<1>10. Arrives((s \o <<h>>) \o t, 1, n, all)
  BY <1>7, <1>9
<1>11. Arrives(<<h>> \o (s \o t), 2, n, all)
  BY <1>2, <1>10, FrontArrives
<1> QED BY <1>8, <1>9, <1>11

(* The connection is lost, and with it the newest events.                  *)
LEMMA LostArrives ==
    ASSUME Typed, Typed', NEW m \in 0..Len(incoming),
           incoming' = Append(SubSeq(incoming, 1, m), Disconnected),
           UNCHANGED <<handled, messageQueue, hand>>,
           NEW k \in Nat \ {0}, NEW n \in Nat, NEW all, Arrives(stream, k, n, all)
    PROVE  Arrives(stream', k, n, FALSE)
<1>1. PICK s, b, r, u : /\ s = Seen(handled) \o (messageQueue \o hand)
                        /\ b = SubSeq(incoming, 1, m)
                        /\ r = SubSeq(incoming, m + 1, Len(incoming)) /\ u = <<Disconnected>>
  OBVIOUS
<1>2. s \in Seq(Event)
  <2>1. messageQueue \o hand \in Seq(Event) /\ Seen(handled) \in Seq(Event)
    BY SeenFacts, Concat DEF Typed
  <2> QED BY <1>1, <2>1, Concat
<1>3. Disconnected \in Event /\ Disconnected.type # "RECEIVE" /\ u \in Seq(Event)
  <2>1. Disconnected \in Event /\ Disconnected.type # "RECEIVE"
    BY DEF Disconnected, Event
  <2> QED BY <1>1, <2>1
<1>4. Len(incoming) \in Nat /\ \A i \in 1..Len(incoming) : incoming[i] \in Event
  BY LenProperties, ElementOfSeq DEF Typed
<1>5. /\ b \in Seq(Event) /\ Len(b) = m /\ \A i \in 1..m : b[i] = incoming[i]
  <2>1. \A i \in 1..m : incoming[i] \in Event
    BY <1>4
  <2>2. /\ SubSeq(incoming, 1, m) \in Seq(Event)
        /\ Len(SubSeq(incoming, 1, m)) = IF 1 <= m THEN m - 1 + 1 ELSE 0
        /\ \A i \in 1..m - 1 + 1 : SubSeq(incoming, 1, m)[i] = incoming[1 + i - 1]
    BY <2>1, SubSeqProperties
  <2> QED BY <1>1, <1>4, <2>2
<1>6. /\ r \in Seq(Event) /\ Len(r) = Len(incoming) - m
      /\ \A i \in 1..Len(incoming) - m : r[i] = incoming[m + i]
  <2>1. \A i \in m + 1..Len(incoming) : incoming[i] \in Event
    BY <1>4
  <2>2. /\ SubSeq(incoming, m + 1, Len(incoming)) \in Seq(Event)
        /\ Len(SubSeq(incoming, m + 1, Len(incoming)))
              = IF m + 1 <= Len(incoming) THEN Len(incoming) - (m + 1) + 1 ELSE 0
        /\ \A i \in 1..Len(incoming) - (m + 1) + 1 :
              SubSeq(incoming, m + 1, Len(incoming))[i] = incoming[m + 1 + i - 1]
    BY <1>4, <2>1, SubSeqProperties
  <2> QED BY <1>1, <1>4, <2>2
<1>7. incoming = b \o r
  <2>1. PICK c : c = b \o r
    OBVIOUS
  <2>2. /\ c \in Seq(Event) /\ Len(c) = Len(b) + Len(r)
        /\ \A i \in 1..Len(b) + Len(r) : c[i] = IF i <= Len(b) THEN b[i] ELSE r[i - Len(b)]
    BY <1>5, <1>6, <2>1, Concat
  <2>3. Len(c) = Len(incoming)
    BY <1>4, <1>5, <1>6, <2>2
  <2>4. ASSUME NEW i \in 1..Len(c) PROVE c[i] = incoming[i]
    <3>1. CASE i <= m
      BY <1>4, <1>5, <1>6, <2>2, <3>1
    <3>2. CASE i > m
      <4>1. i - m \in 1..Len(incoming) - m /\ m + (i - m) = i /\ ~(i <= Len(b))
        BY <1>4, <1>5, <2>3, <3>2
      <4> QED BY <1>5, <1>6, <2>2, <4>1
    <3> QED BY <1>4, <2>3, <3>1, <3>2
  <2> QED BY <2>1, <2>2, <2>3, <2>4, SeqEqual DEF Typed
<1>8. Arrives((s \o b) \o r, k, n, all)
  <2>1. (s \o b) \o r = s \o (b \o r)
    BY <1>2, <1>5, <1>6, Assoc
  <2>2. stream = s \o incoming
    BY <1>1, StreamNow
  <2> QED BY <1>7, <2>1, <2>2
<1>9. s \o b \in Seq(Event)
  BY <1>2, <1>5, Concat
<1>10. Arrives(s \o b, k, n, FALSE)
  BY <1>6, <1>8, <1>9, CutArrives
<1>11. Arrives(Append(s \o b, Disconnected), k, n, FALSE)
  BY <1>3, <1>10, AppendArrives
<1>12. stream' = Append(s \o b, Disconnected)
  <2>1. stream' = s \o incoming'
    BY <1>1, StreamNext
  <2>2. incoming' = b \o u
    BY <1>1, <1>3, <1>5, AppendIsConcat
  <2>3. Append(s \o b, Disconnected) = (s \o b) \o u
    BY <1>1, <1>3, <1>9, AppendIsConcat
  <2>4. (s \o b) \o u = s \o (b \o u)
    BY <1>2, <1>3, <1>5, Assoc
  <2> QED BY <2>1, <2>2, <2>3, <2>4
<1> QED BY <1>11, <1>12

-----------------------------------------------------------------------------
LEMMA ClientInit == Init => ClientInv
<1> SUFFICES ASSUME Init PROVE ClientInv
  OBVIOUS
<1>1. Typed /\ Fresh
  BY EmptySeq DEF Init, Typed, Fresh, playing
<1>2. stream = << >>
  <2>1. Seen(handled) = << >>
    <3>1. Seen(handled) \in Seq(Event) /\ Len(Seen(handled)) = 0
      BY <1>1, SeenFacts, EmptySeq DEF Typed, Init
    <3> QED BY <3>1, EmptySeq
  <2>2. << >> \o << >> = << >>
    <3>1. << >> \in Seq(Event)
      OBVIOUS
    <3> QED BY <3>1, ConcatEmptySeq
  <2> QED BY <1>1, <2>1, <2>2, StreamNow DEF Init
<1>3. Arrives(stream, First, sent, peer = "connected")
  <2>1. << >> \in Seq(Event) /\ Len(<< >>) = 0 /\ First = 1 /\ peer # "connected"
    BY DEF Init, First, playing
  <2> QED BY <1>2, <2>1 DEF Arrives, Older, Ordered, Once
<1> QED BY <1>1, <1>3 DEF ClientInv

(* A step after which connect() has not failed and the window is open.     *)
LEMMA ClientStep == ClientInv /\ [Next]_vars => ClientInv'
<1> SUFFICES ASSUME ClientInv, [Next]_vars, Live' PROVE Typed' /\ Fresh' /\ Arrives(stream, First, sent, peer = "connected")'
  BY DEF ClientInv
<1>0. First \in Nat \ {0} /\ First' \in Nat \ {0}
  BY DEF First
<1>1. Live => Typed /\ Fresh /\ Arrives(stream, First, sent, peer = "connected")
  BY DEF ClientInv
<1>2. CASE Connect
  <2>1. Typed /\ Fresh /\ Arrives(stream, First, sent, peer = "connected")
    BY <1>1, <1>2 DEF Connect, Live
  <2>2. Typed' /\ Fresh'
    BY <1>2, <2>1 DEF Connect, Typed, Fresh, playing, netVars
  <2>3. stream' = stream /\ First' = First /\ peer # "connected" /\ peer' # "connected" /\ sent' = sent
    BY <1>2, <2>1 DEF Connect, stream, Fresh, First, playing, netVars
  <2> QED BY <2>1, <2>2, <2>3 DEF Arrives
<1>3. CASE AwaitConnect
  <2>1. /\ Typed /\ Fresh /\ Arrives(stream, First, sent, peer = "connected")
        /\ main = "awaitConnect" /\ main' = "awaitWelcome"
        /\ Service /\ Head(incoming).type = "CONNECT"
        /\ UNCHANGED <<netVars, messageQueue, peer, handled>>
    BY <1>1, <1>3 DEF AwaitConnect, FailConnect, Live
  <2>2. Typed'
    BY <2>1, HeadTailParts DEF Typed, Service, netVars
  <2>3. Fresh'
    BY <2>1 DEF Fresh, Service, netVars, playing
  <2>4. First = 1 /\ First' = 1 /\ sent' = sent /\ sent \in Nat
    BY <2>1 DEF First, playing, Service, Typed
  <2>5. Arrives(stream', 1, sent, peer = "connected")
    BY <2>1, <2>2, <2>4, ConnectDrops DEF Service, netVars
  <2> QED BY <2>1, <2>2, <2>3, <2>4, <2>5
<1>4. CASE AwaitWelcome
  <2>1. /\ Typed /\ Fresh /\ Arrives(stream, First, sent, peer = "connected")
        /\ main = "awaitWelcome" /\ main' = "running" /\ Service
        /\ \/ /\ Head(incoming).type = "RECEIVE"
              /\ handled' = Append(handled, Head(incoming).packet)
           \/ Head(incoming) = Repeated /\ handled' = handled
        /\ UNCHANGED <<netVars, messageQueue, peer>>
    BY <1>1, <1>4 DEF AwaitWelcome, FailConnect, Live, handleServerMessage, nothingNew
  <2>2. Typed'
    <3>1. Head(incoming) \in Event /\ Tail(incoming) \in Seq(Event)
      BY <2>1, HeadTailParts DEF Typed, Service
    <3>2. Head(incoming).packet \in Nat
      BY <3>1 DEF Event
    <3> QED BY <2>1, <3>1, <3>2, AppendProperties DEF Typed, Service, netVars
  <2>3. Fresh'
    BY <2>1 DEF Fresh, Service, netVars, playing
  <2>4. First = 1 /\ First' = 2 /\ sent' = sent /\ sent \in Nat /\ handled = << >>
    BY <2>1 DEF First, playing, Service, Typed, Fresh
  <2>5. CASE Head(incoming).type = "RECEIVE"
    <3>1. handled' = Append(handled, Head(incoming).packet)
      BY <2>1, <2>5 DEF Repeated
    <3>2. Arrives(stream', 2, sent, peer = "connected")
      BY <2>1, <2>2, <2>4, <2>5, <3>1, ConnectTakes DEF Service, netVars
    <3> QED BY <2>1, <2>2, <2>3, <2>4, <3>2
  <2>6. CASE Head(incoming) = Repeated /\ handled' = handled
    <3>1. Head(incoming).type # "RECEIVE"
      BY <2>6 DEF Repeated
    <3>2. Arrives(stream', 1, sent, peer = "connected")
      BY <2>1, <2>2, <2>4, <2>6, <3>1, ConnectDrops DEF Service, netVars
    <3>3. Arrives(stream', 2, sent, peer = "connected")
      BY <3>2 DEF Arrives, Ordered
    <3> QED BY <2>1, <2>2, <2>3, <2>4, <3>3
  <2> QED BY <2>1, <2>5, <2>6
<1>5. CASE HandleQueued
  <2>1. /\ Typed /\ Fresh /\ Arrives(stream, 2, sent, peer = "connected")
        /\ First = 2 /\ First' = 2
    BY <1>1, <1>5 DEF HandleQueued, Live, First, playing, Fresh
  <2>2. /\ messageQueue # << >> /\ messageQueue' = Tail(messageQueue)
        /\ UNCHANGED <<main, hand, net, incoming, peer, sent>>
    BY <1>5 DEF HandleQueued, notUpdate, netVars
  <2>3. Head(messageQueue) \in Event /\ Tail(messageQueue) \in Seq(Event)
    BY <2>1, <2>2, HeadTailParts DEF Typed
  <2>4. Head(messageQueue).type \in {"CONNECT", "DISCONNECT", "RECEIVE", "REPEAT"}
        /\ Head(messageQueue).packet \in Nat
    BY <2>3 DEF Event
  <2>5. CASE Head(messageQueue).type = "RECEIVE"
    <3>1. handled' = Append(handled, Head(messageQueue).packet)
      BY <1>5, <2>5 DEF HandleQueued, handleServerMessage
    <3>2. Typed'
      BY <2>1, <2>2, <2>3, <2>4, <3>1, AppendProperties DEF Typed
    <3>3. stream' = stream
      BY <2>1, <2>2, <2>5, <3>1, <3>2, HandledKeeps
    <3>4. Fresh'
      BY <1>5, <2>1, <2>2 DEF Fresh, playing, HandleQueued
    <3> QED BY <2>1, <2>2, <3>2, <3>3, <3>4
  <2>6. CASE Head(messageQueue).type # "RECEIVE"
    <3>1. handled' = handled
      BY <1>5, <2>4, <2>6 DEF HandleQueued, HandleDisconnect, nothingNew
    <3>2. Typed' /\ Fresh'
      BY <2>1, <2>2, <2>3, <3>1 DEF Typed, Fresh, playing
    <3>3. Arrives(stream', 2, sent, peer = "connected")
      <4>1. sent \in Nat
        BY <2>1 DEF Typed
      <4> QED BY <2>1, <2>2, <2>6, <3>1, <3>2, <4>1, HandledDrops
    <3> QED BY <2>1, <2>2, <3>2, <3>3
  <2> QED BY <2>5, <2>6
<1>6. CASE NetTake
  <2>1. /\ Typed /\ Fresh /\ Arrives(stream, First, sent, peer = "connected")
        /\ incoming # << >> /\ incoming' = Tail(incoming)
        /\ hand = << >> /\ hand' = <<Head(incoming)>> /\ net' = "pushing"
        /\ UNCHANGED <<main, handled, messageQueue, peer, sent>>
    BY <1>1, <1>6 DEF NetTake, Service, netOnly, mainVars, Fresh, Live
  <2>2. Typed'
    BY <2>1, HeadTailParts DEF Typed
  <2>3. Fresh' /\ First' = First
    BY <2>1 DEF Fresh, First, playing
  <2>4. stream' = stream
    BY <2>1, <2>2, TakeKeeps
  <2> QED BY <2>1, <2>2, <2>3, <2>4
<1>7. CASE NetPush
  <2>1. /\ Typed /\ Fresh /\ Arrives(stream, First, sent, peer = "connected")
        /\ messageQueue' = messageQueue \o news /\ hand' = << >> /\ net' = "polling"
        /\ UNCHANGED <<main, handled, incoming, peer, sent>>
    BY <1>1, <1>7 DEF NetPush, netOnly, mainVars, Live
  <2>2. << >> \in Seq(Event) /\ messageQueue \o << >> = messageQueue
    BY <2>1, ConcatEmptySeq DEF Typed
  <2>3. Typed'
    <3>1. messageQueue' \in {messageQueue, messageQueue \o hand}
      BY <2>1, <2>2 DEF news
    <3>2. messageQueue \o hand \in Seq(Event)
      BY <2>1, Concat DEF Typed
    <3> QED BY <2>1, <2>2, <3>1, <3>2 DEF Typed
  <2>4. Fresh' /\ First' = First
    BY <2>1 DEF Fresh, First, playing
  <2>5. CASE hand = << Repeated >> /\ queued(Repeated)
    <3>1. messageQueue' = messageQueue
      BY <2>1, <2>2, <2>5 DEF news
    <3>2. sent \in Nat
      BY <2>1 DEF Typed
    <3>3. Arrives(stream', First, sent, peer = "connected")
      BY <1>0, <2>1, <2>3, <2>5, <3>1, <3>2, PushDrops
    <3> QED BY <2>1, <2>3, <2>4, <3>3
  <2>6. CASE ~(hand = << Repeated >> /\ queued(Repeated))
    <3>1. messageQueue' = messageQueue \o hand
      BY <2>1, <2>6 DEF news
    <3>2. stream' = stream
      BY <2>1, <2>3, <3>1, PushKeeps
    <3> QED BY <2>1, <2>3, <2>4, <3>2
  <2> QED BY <2>5, <2>6
<1>8. CASE Accepted \/ DisconnectAcknowledged
  <2>1. /\ Typed /\ Fresh /\ Arrives(stream, First, sent, peer = "connected")
        /\ UNCHANGED <<main, net, handled, messageQueue, hand, sent>>
    BY <1>1, <1>8 DEF Accepted, DisconnectAcknowledged, envOnly, mainVars, netVars, Live
  <2>2. PICK e \in {Connected, Disconnected} :
           /\ Deliver(e)
           /\ (e = Connected /\ peer = "connecting") \/ peer' = "none"
    BY <1>8 DEF Accepted, DisconnectAcknowledged
  <2>3. e \in Event /\ e.type # "RECEIVE"
    BY <2>2 DEF Event, Connected, Disconnected
  <2>4. Typed' /\ First' = First
    BY <2>1, <2>2, <2>3, AppendProperties DEF Typed, Deliver, First, playing
  <2>5. Fresh'
    BY <1>8, <2>1 DEF Fresh, playing, Accepted, DisconnectAcknowledged
  <2>6. stream' = Append(stream, e)
    BY <2>1, <2>2, <2>3, <2>4, DeliverAppends
  <2>7. Arrives(stream', First, sent, FALSE)
    <3>1. Arrives(stream, First, sent, FALSE) /\ sent \in Nat
      BY <2>1 DEF Arrives, Typed
    <3> QED BY <1>0, <2>3, <2>6, <3>1, AppendArrives
  <2>8. peer' = "connected" => Complete(stream', sent)
    <3> SUFFICES ASSUME peer' = "connected" PROVE sent = 0
      BY DEF Complete
    <3> QED BY <2>1, <2>2 DEF Fresh
  <2> QED BY <2>1, <2>4, <2>5, <2>7, <2>8 DEF Arrives
<1>9. CASE ServerSends
  <2>1. /\ Typed /\ Fresh /\ Arrives(stream, First, sent, peer = "connected")
        /\ peer = "connected" /\ peer' = "connected"
        /\ Deliver(Received(sent)) /\ sent' = sent + 1 /\ sent \in Nat
        /\ UNCHANGED <<main, net, handled, messageQueue, hand>>
    BY <1>1, <1>9 DEF ServerSends, envOnly, mainVars, netVars, Live, Typed
  <2>2. Received(sent) \in Event
    BY <2>1 DEF Event, Received
  <2>3. Typed' /\ First' = First
    BY <2>1, <2>2, AppendProperties DEF Typed, Deliver, First, playing
  <2>4. Fresh'
    BY <2>1 DEF Fresh, playing
  <2>5. stream' = Append(stream, Received(sent))
    BY <2>1, <2>2, <2>3, DeliverAppends
  <2>6. Arrives(stream', First, sent + 1, peer = "connected")
    BY <1>0, <2>1, <2>5, AppendArrives
  <2> QED BY <2>1, <2>3, <2>4, <2>6
<1>10. CASE ServerRepeats
  <2>1. /\ Typed /\ Fresh /\ Arrives(stream, First, sent, peer = "connected")
        /\ Deliver(Repeated) /\ sent \in Nat
        /\ UNCHANGED <<main, net, handled, messageQueue, hand, peer, sent>>
    BY <1>1, <1>10 DEF ServerRepeats, envOnly, mainVars, netVars, Live, Typed
  <2>2. Repeated \in Event /\ Repeated.type # "RECEIVE"
    BY DEF Event, Repeated
  <2>3. Typed' /\ First' = First
    BY <2>1, <2>2, AppendProperties DEF Typed, Deliver, First, playing
  <2>4. Fresh'
    BY <2>1 DEF Fresh, playing
  <2>5. stream' = Append(stream, Repeated)
    BY <2>1, <2>2, <2>3, DeliverAppends
  <2>6. Arrives(stream', First, sent, peer = "connected")
    BY <1>0, <2>1, <2>2, <2>5, AppendArrives
  <2> QED BY <2>1, <2>3, <2>4, <2>6
<1>11. CASE ConnectionLost
  <2>1. /\ Typed /\ Fresh /\ Arrives(stream, First, sent, peer = "connected")
        /\ peer' = "none" /\ sent \in Nat
        /\ UNCHANGED <<main, net, handled, messageQueue, hand, sent>>
    BY <1>1, <1>11 DEF ConnectionLost, envOnly, mainVars, netVars, Live, Typed
  <2>2. PICK m \in 0..Len(incoming) :
           incoming' = Append(SubSeq(incoming, 1, m), Disconnected)
    BY <1>11 DEF ConnectionLost
  <2>3. Typed' /\ First' = First
    <3>1. SubSeq(incoming, 1, m) \in Seq(Event)
      <4>1. Len(incoming) \in Nat /\ \A i \in 1..Len(incoming) : incoming[i] \in Event
        BY <2>1, LenProperties, ElementOfSeq DEF Typed
      <4>2. \A i \in 1..m : incoming[i] \in Event
        BY <4>1
      <4> QED BY <4>1, <4>2, SubSeqProperties
    <3>2. Disconnected \in Event
      BY DEF Disconnected, Event
    <3> QED BY <2>1, <2>2, <3>1, <3>2, AppendProperties DEF Typed, First, playing
  <2>4. Fresh'
    BY <2>1 DEF Fresh, playing
  <2>5. Arrives(stream', First, sent, FALSE)
    BY <1>0, <2>1, <2>2, <2>3, LostArrives
  <2> QED BY <2>1, <2>3, <2>4, <2>5 DEF Arrives
<1>12. CASE BeginUpdate \/ EndUpdate \/ NetSleep \/ NetWake \/ UNCHANGED vars
  <2>1. /\ Live
        /\ UNCHANGED <<handled, messageQueue, hand, incoming, sent, peer>>
        /\ playing' = playing
        /\ main' = "start" => main = "start"
        /\ (net # "pushing" /\ net' # "pushing") \/ net' = net
    BY <1>12 DEF BeginUpdate, EndUpdate, NetSleep, NetWake, vars, notUpdate, netOnly,
                 mainVars, netVars, Live, playing
  <2>2. stream' = stream /\ First' = First
    BY <2>1 DEF stream, First
  <2>3. Typed' /\ Fresh'
    BY <1>1, <2>1 DEF Typed, Fresh
  <2> QED BY <1>1, <2>1, <2>2, <2>3
<1>13. CASE CloseWindow \/ Join \/ AwaitDisconnect
  BY <1>13 DEF CloseWindow, Join, AwaitDisconnect, Live
<1> QED BY <1>2, <1>3, <1>4, <1>5, <1>6, <1>7, <1>8, <1>9, <1>10, <1>11, <1>12, <1>13
        DEF Next, MainStep, NetStep

(* With any number of updates, packets reach the registry in the order they *)
(* were sent, each once, and all of them while the connection stands.      *)
THEOREM ClientUpdatesArrive == Spec => []UpdatesArrive
<1>1. ClientInv => UpdatesArrive
  <2> SUFFICES ASSUME ClientInv, playing PROVE UpdatesArrive
    BY DEF UpdatesArrive
  <2>1. Arrives(stream, 2, sent, peer = "connected")
    BY DEF ClientInv, Live, playing, First
  <2> QED BY <2>1 DEF UpdatesArrive, Arrives, InOrder, Ordered, Older, Once, Complete, packet, IsPacket
<1> QED BY <1>1, ClientInit, ClientStep, PTL DEF Spec

-----------------------------------------------------------------------------
(* The screens.                                                             *)

(* The button that is selected while a key is awaited is the one that asked, *)
(* since nothing moves; the texts are functions.                           *)
TextsInv ==
    /\ TextsTrue
    /\ _awaitingRemap \in 1..NumActions \cup {None}
    /\ _awaitingRemap # None => _selectedButton = ActionButton(_awaitingRemap)
    /\ DOMAIN keyText = 1..NumActions /\ DOMAIN keyMappings = 1..NumActions
    /\ DOMAIN padText = {"Shoot", "Force"} /\ DOMAIN controllerButton = {"Shoot", "Force"}

LEMMA TextsInit == ScreensInit => TextsInv
BY ScreensAssumption DEF ScreensInit, TextsInv, TextsTrue, NumActions

LEMMA TextsStep == TextsInv /\ [ScreensNext]_screensVars => TextsInv'
<1> SUFFICES ASSUME TextsInv, [ScreensNext]_screensVars PROVE TextsInv'
  OBVIOUS
<1>1. ASSUME NEW event \in UserEvent, OptionsRemap(event) PROVE TextsInv'
  <2>1. /\ _awaitingRemap \in 1..NumActions
        /\ _selectedButton - 2 = _awaitingRemap
    BY <1>1 DEF OptionsRemap, TextsInv, ActionButton
  <2>2. /\ keyMappings' = [keyMappings EXCEPT ![_awaitingRemap] = event[2]]
        /\ keyText' = [keyText EXCEPT ![_awaitingRemap] = keyToString(event[2])]
        /\ _awaitingRemap' = None
        /\ UNCHANGED <<_selectedButton, _waitingForControllerInput, controllerButton, padText>>
    BY <1>1, <2>1 DEF OptionsRemap, KeyRemapped
  <2> QED BY <2>1, <2>2, ScreensAssumption DEF TextsInv, TextsTrue, NumActions
<1>2. ASSUME NEW event \in UserEvent, OptionsPad(event) PROVE TextsInv'
  <2>1. /\ _awaitingRemap = None /\ _waitingForControllerInput' = FALSE
        /\ UNCHANGED <<_selectedButton, _awaitingRemap, keyMappings, keyText>>
    BY <1>2 DEF OptionsPad, Navigating, PadRemapped
  <2>2. CASE PadAction = None
    <3>1. UNCHANGED <<controllerButton, padText>>
      BY <1>2, <2>2 DEF OptionsPad, PadRemapped
    <3> QED BY <2>1, <3>1 DEF TextsInv, TextsTrue, NumActions
  <2>3. CASE PadAction # None
    <3>1. PadAction \in {"Shoot", "Force"}
      BY <2>3 DEF PadAction
    <3>2. /\ controllerButton' = [controllerButton EXCEPT ![PadAction] = event[2]]
          /\ padText' = [padText EXCEPT ![PadAction] = controllerButtonToString(event[2])]
      BY <1>2, <2>3 DEF OptionsPad, PadRemapped
    <3> QED BY <2>1, <3>1, <3>2 DEF TextsInv, TextsTrue, NumActions
  <2> QED BY <2>2, <2>3
<1>3. ASSUME NEW event \in UserEvent, OptionsMove(event) PROVE TextsInv'
  BY <1>3 DEF OptionsMove, OptionsMoves, Navigating, remapVars, assignments, TextsInv,
              TextsTrue, NumActions
<1>4. ASSUME NEW event \in UserEvent, OptionsActivate(event) PROVE TextsInv'
  <2>1. /\ _awaitingRemap = None
        /\ UNCHANGED <<_selectedButton, keyMappings, controllerButton>>
    BY <1>4 DEF OptionsActivate, Navigating
  <2>2. CASE ActivateRemap
    <3>1. PICK i \in 1..NumActions :
             /\ _selectedButton = ActionButton(i)
             /\ keyText' = [keyText EXCEPT ![i] = Prompt] /\ _awaitingRemap' = i
             /\ UNCHANGED <<_waitingForControllerInput, padText>>
      BY <2>2 DEF ActivateRemap
    <3> QED BY <2>1, <3>1, ScreensAssumption DEF TextsInv, TextsTrue, NumActions
  <2>3. CASE ActivatePad
    <3>1. PICK a \in {"Shoot", "Force"} :
             /\ padText' = [padText EXCEPT ![a] = Prompt]
             /\ UNCHANGED <<_awaitingRemap, keyText>>
      BY <2>3 DEF ActivatePad
    <3> QED BY <2>1, <3>1 DEF TextsInv, TextsTrue, NumActions
  <2>4. CASE ActivateReturn
    BY <2>1, <2>4 DEF ActivateReturn, remapVars, TextsInv, TextsTrue, NumActions
  <2> QED BY <1>4, <2>2, <2>3, <2>4 DEF OptionsActivate
<1>5. CASE UNCHANGED <<_selectedButton, _awaitingRemap, _waitingForControllerInput, assignments>>
  BY <1>5 DEF assignments, TextsInv, TextsTrue, NumActions
<1>6. ASSUME NEW event \in UserEvent,
             MenuMove(event) \/ MenuActivate(event) \/ MenuClose(event) \/ OptionsLeave(event)
      PROVE  UNCHANGED <<_selectedButton, _awaitingRemap, _waitingForControllerInput, assignments>>
  BY <1>6 DEF MenuMove, MenuActivate, MenuClose, MenuEvent, OptionsLeave, optionsVars, remapVars
<1>7. OptionsClose \/ MenuRound \/ OptionsReturn \/ UNCHANGED screensVars
      => UNCHANGED <<_selectedButton, _awaitingRemap, _waitingForControllerInput, assignments>>
  BY DEF OptionsClose, MenuRound, OptionsReturn, screensVars, optionsVars, remapVars
<1> QED BY <1>1, <1>2, <1>3, <1>4, <1>5, <1>6, <1>7 DEF ScreensNext, User, Program

(* The texts on the options screen show what the game will use, with any   *)
(* actions, keys, buttons and names.                                       *)
THEOREM ScreensTextsTrue == ScreensSpec => []TextsTrue
<1>1. TextsInv => TextsTrue
  BY DEF TextsInv
<1> QED BY <1>1, TextsInit, TextsStep, PTL DEF ScreensSpec
=============================================================================
