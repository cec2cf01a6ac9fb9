------------------------ MODULE NetworkServerProofs ------------------------
(***************************************************************************)
(* Proofs about the sessions of the server: ServerInv is an invariant,     *)
(* whatever the order in which clients connect, leave and send, and        *)
(* although client ids do collide.  The argument: initPlayer maps a client *)
(* id to an id that was not live, so the mapping stays injective even when *)
(* it overwrites the entry of another client; a disconnection removes the  *)
(* entry in the step that kills the entity; nothing else kills a player.   *)
(*                                                                         *)
(* Then the two properties of sessions that end newest first.  They need   *)
(* what the queue means in the middle of an update: the events of a slot   *)
(* alternate and lead from its session to the state ENet has it in, and a  *)
(* client sends only once the queue holds no event of its slot.            *)
(***************************************************************************)
EXTENDS NetworkServer, RegistryLemmas, FiniteSetTheorems

LEMMA ComponentFacts ==
    /\ Player \in GameComponent /\ Missile \in GameComponent
    /\ Scene \in GameComponent
    /\ Player \in Component /\ Missile \in Component
    /\ Controllable \in Component /\ Controllable \notin GameComponent
    /\ GameComponent \subseteq Component
    /\ Player # Missile /\ Player # Scene /\ Missile # Scene
  BY ComponentAssumption DEF GameComponent

(* A live game entity, found by one of its components.                      *)
LEMMA SeenIsLive ==
    ASSUME ServerInv, NEW c \in GameComponent, NEW e, Has(registry, c, e)
    PROVE  e \in Nat /\ ValidIndex(registry, e) /\ e \notin FreeIds(registry)
<1>1. registry \in RegistryType /\ WellManaged(registry, GameComponent)
  BY DEF ServerInv, TypeOK, EntitiesWellManaged
<1> QED  BY <1>1, ComponentFacts DEF RegistryType, WellManaged, FreeBare, ArraysValid, Has

(* The parts of ServerInv that speak of the registry alone or of ids that   *)
(* clients may name survive when no id disappears.                          *)
LEMMA NamedIdsStay ==
    ASSUME ServerInv, registry' \in RegistryType,
           registry'.nextEntityId >= registry.nextEntityId,
           known' = known, messageQueue' = Tail(messageQueue), messageQueue # << >>
    PROVE  /\ \A c \in Client : known'[c] # None => ValidIndex(registry', known'[c])
           /\ \A i \in 1..Len(messageQueue') : messageQueue'[i].type = "RECEIVE" =>
                 ValidIndex(registry', messageQueue'[i].entity)
           /\ messageQueue' \in Seq(Event)
<1>1. /\ messageQueue \in Seq(Event)
      /\ known \in [Client -> Nat \cup {None}]
      /\ registry \in RegistryType
  BY DEF ServerInv, TypeOK
<1>2. registry.nextEntityId \in Nat /\ registry'.nextEntityId \in Nat
  BY <1>1 DEF RegistryType
<1>3. \A c \in Client : known'[c] # None => ValidIndex(registry', known'[c])
  BY <1>1, <1>2 DEF ServerInv, ValidIndex
<1>4. /\ Tail(messageQueue) \in Seq(Event)
      /\ Len(messageQueue) \in Nat
      /\ Len(Tail(messageQueue)) = Len(messageQueue) - 1
      /\ \A i \in 1..Len(Tail(messageQueue)) : Tail(messageQueue)[i] = messageQueue[i + 1]
  BY <1>1, HeadTailProperties, LenProperties
<1>5. ASSUME NEW i \in 1..Len(messageQueue'), messageQueue'[i].type = "RECEIVE"
      PROVE  ValidIndex(registry', messageQueue'[i].entity)
  <2>1. i + 1 \in 1..Len(messageQueue) /\ messageQueue'[i] = messageQueue[i + 1]
    BY <1>4
  <2>2. messageQueue[i + 1] \in Event  BY <1>1, <2>1, ElementOfSeq
  <2>3. messageQueue[i + 1].entity \in Nat  BY <1>5, <2>1, <2>2 DEF Event
  <2>4. messageQueue[i + 1].entity < registry.nextEntityId
    BY <1>5, <2>1 DEF ServerInv, ValidIndex
  <2> QED  BY <1>2, <2>1, <2>3, <2>4 DEF ValidIndex
<1> QED  BY <1>3, <1>4, <1>5

(* Polling an event changes nothing but the queue and what ENet knows.      *)
LEMMA PollStep ==
    ASSUME ServerInv, NEW event \in Event, Poll(event),
           event.type = "RECEIVE" => ValidIndex(registry, event.entity),
           link' \in [Peer -> Client \cup {None}],
           welcome' \in [Client -> [clientId : Nat, entityId : Nat] \cup {None}],
           known' \in [Client -> Nat \cup {None}],
           \A c \in Client : known'[c] \in {None, known[c]}
    PROVE  ServerInv'
<1>1. /\ messageQueue \in Seq(Event)
      /\ messageQueue' = Append(messageQueue, event)
      /\ phase' = phase /\ clientIds' = clientIds /\ clientToEntity' = clientToEntity
      /\ nextClientId' = nextClientId /\ registry' = registry /\ inOrder' = inOrder
  BY DEF ServerInv, TypeOK, Poll, sessionVars
<1>2. /\ messageQueue' \in Seq(Event)
      /\ Len(messageQueue') = Len(messageQueue) + 1 /\ Len(messageQueue) \in Nat
      /\ \A i \in 1..Len(messageQueue) : messageQueue'[i] = messageQueue[i]
      /\ messageQueue'[Len(messageQueue) + 1] = event
  BY <1>1, AppendProperties, LenProperties
<1>3. TypeOK'  BY <1>1, <1>2 DEF ServerInv, TypeOK
<1>4. \A i \in 1..Len(messageQueue') : messageQueue'[i].type = "RECEIVE" =>
          ValidIndex(registry', messageQueue'[i].entity)
  <2> SUFFICES ASSUME NEW i \in 1..Len(messageQueue'),
                      messageQueue'[i].type = "RECEIVE"
               PROVE  ValidIndex(registry, messageQueue'[i].entity)
    BY <1>1
  <2>1. CASE i \in 1..Len(messageQueue)  BY <1>2, <2>1 DEF ServerInv
  <2>2. CASE i = Len(messageQueue) + 1  BY <1>2, <2>2
  <2> QED  BY <1>2, <2>1, <2>2
<1>5. \A c \in Client : known'[c] # None => ValidIndex(registry', known'[c])
  BY <1>1 DEF ServerInv
<1> QED
  BY <1>1, <1>3, <1>4, <1>5
  DEF ServerInv, EntitiesWellManaged, MappedPlayersLive, CounterCoversSessions

LEMMA PollStepOfEach ==
    ASSUME ServerInv, NEW p \in Peer,
           (\E c \in Client : PollConnect(c, p)) \/ PollDisconnect(p) \/ PollReceive(p)
    PROVE  ServerInv'
<1>0. /\ link \in [Peer -> Client \cup {None}]
      /\ welcome \in [Client -> [clientId : Nat, entityId : Nat] \cup {None}]
      /\ known \in [Client -> Nat \cup {None}]
  BY DEF ServerInv, TypeOK
<1>1. CASE \E c \in Client : PollConnect(c, p)
  <2>1. PICK c \in Client : PollConnect(c, p)  BY <1>1
  <2>2. [type |-> "CONNECT", peer |-> p] \in Event  BY DEF Event
  <2>3. Poll([type |-> "CONNECT", peer |-> p])  BY <2>1 DEF PollConnect
  <2>4. /\ link' \in [Peer -> Client \cup {None}]
        /\ welcome' \in [Client -> [clientId : Nat, entityId : Nat] \cup {None}]
        /\ known' \in [Client -> Nat \cup {None}]
        /\ \A d \in Client : known'[d] \in {None, known[d]}
    BY <1>0, <2>1 DEF PollConnect
  <2> QED  BY <2>2, <2>3, <2>4, PollStep
<1>2. CASE PollDisconnect(p)
  <2>1. [type |-> "DISCONNECT", peer |-> p] \in Event  BY DEF Event
  <2>2. Poll([type |-> "DISCONNECT", peer |-> p])  BY <1>2 DEF PollDisconnect
  <2>3. /\ link' \in [Peer -> Client \cup {None}]
        /\ welcome' = welcome /\ known' = known
    BY <1>0, <1>2 DEF PollDisconnect
  <2> QED  BY <1>0, <2>1, <2>2, <2>3, PollStep
<1>3. CASE PollReceive(p)
  <2>1. link[p] \in Client /\ known[link[p]] \in Nat /\ known[link[p]] # None
    BY <1>0, <1>3 DEF PollReceive
  <2> DEFINE event == [type |-> "RECEIVE", peer |-> p, entity |-> known[link[p]]]
  <2>2. event \in Event  BY <2>1 DEF Event
  <2>3. Poll(event) /\ link' = link /\ welcome' = welcome /\ known' = known
    BY <1>3 DEF PollReceive
  <2>4. ValidIndex(registry, event.entity)  BY <2>1 DEF ServerInv
  <2> QED  BY <1>0, <2>2, <2>3, <2>4, PollStep
<1> QED  BY <1>1, <1>2, <1>3

-----------------------------------------------------------------------------
LEMMA HandleFacts ==
    ASSUME ServerInv, NEW type, Handle(type)
    PROVE  /\ phase' = phase /\ link' = link /\ known' = known
           /\ messageQueue # << >> /\ messageQueue' = Tail(messageQueue)
           /\ Head(messageQueue) \in Event /\ Head(messageQueue).type = type
           /\ Head(messageQueue).peer \in Peer
           /\ type = "RECEIVE" => /\ Head(messageQueue).entity \in Nat
                                  /\ ValidIndex(registry, Head(messageQueue).entity)
<1>1. messageQueue \in Seq(Event)  BY DEF ServerInv, TypeOK
<1>2. /\ Head(messageQueue) \in Event /\ Len(messageQueue) >= 1
      /\ Head(messageQueue) = messageQueue[1] /\ Len(messageQueue) \in Nat
  BY <1>1, HeadTailProperties, EmptySeq, LenProperties DEF Handle
<1>3. type = "RECEIVE" => ValidIndex(registry, Head(messageQueue).entity)
  BY <1>2 DEF Handle, ServerInv
<1>4. type = "RECEIVE" => Head(messageQueue).entity \in Nat
  BY <1>2 DEF Event, Handle
<1> QED  BY <1>2, <1>3, <1>4 DEF Handle, Event

LEMMA ConnectionStep ==
    ASSUME ServerInv, HandleClientConnection
    PROVE  ServerInv'
<1> DEFINE C == GameComponent
           r == Spawned(registry)
           e == playerEntityId
           n == nextClientId
           p == Head(messageQueue).peer
<1>1. /\ registry \in RegistryType /\ WellManaged(registry, C) /\ n \in Nat
      /\ C \in SUBSET Component
  BY ComponentFacts DEF ServerInv, TypeOK, EntitiesWellManaged
<1>2. /\ r \in RegistryType /\ e \in Nat /\ ValidIndex(r, e) /\ e \notin FreeIds(r)
      /\ WellManaged(r, C)
      /\ \A c \in C : ~Has(registry, c, e)
      /\ r.componentsArray = registry.componentsArray
      /\ r.nextEntityId >= registry.nextEntityId
  <2>1. registry.nextEntityId \in Nat  BY <1>1 DEF RegistryType
  <2> QED  BY <1>1, <2>1, SpawnedFields DEF playerEntityId
<1>3. registry' = Added(r, e, {Player, Controllable})
  BY DEF HandleClientConnection, WithPlayer, playerEntityId
<1>4. /\ registry' \in RegistryType
      /\ registry'.nextEntityId >= registry.nextEntityId
      /\ registry'.componentsArray[Player] = registry.componentsArray[Player] \cup {e}
      /\ registry'.componentsArray[Missile] = registry.componentsArray[Missile]
  BY <1>2, <1>3, AddedFields, ComponentFacts, ComponentAssumption
<1>5. EntitiesWellManaged'
  BY <1>1, <1>2, <1>3, AddedWellManaged DEF EntitiesWellManaged, GameComponent
<1>6. Handle("CONNECT")  BY DEF HandleClientConnection
<1>7. /\ p \in Peer /\ messageQueue # << >> /\ messageQueue' = Tail(messageQueue)
      /\ phase' = phase /\ link' = link /\ known' = known
  BY <1>6, HandleFacts
<1>8. /\ clientIds' = [q \in DOMAIN clientIds \cup {p} |->
                          IF q = p THEN n ELSE clientIds[q]]
      /\ clientToEntity' = [i \in DOMAIN clientToEntity \cup {n} |->
                               IF i = n THEN e ELSE clientToEntity[i]]
      /\ nextClientId' = n + 1 /\ inOrder' = inOrder
      /\ welcome' = IF link[p] = None THEN welcome
                    ELSE [welcome EXCEPT ![link[p]] =
                            [clientId |-> n, entityId |-> e]]
  BY DEF HandleClientConnection, SendWelcome
<1>9. /\ messageQueue' \in Seq(Event)
      /\ \A c \in Client : known'[c] # None => ValidIndex(registry', known'[c])
      /\ \A i \in 1..Len(messageQueue') : messageQueue'[i].type = "RECEIVE" =>
            ValidIndex(registry', messageQueue'[i].entity)
  BY <1>4, <1>7, NamedIdsStay
<1>10. TypeOK'
  <2>1. /\ DOMAIN clientIds' \subseteq Peer
        /\ clientIds' \in [DOMAIN clientIds' -> Nat]
    BY <1>1, <1>7, <1>8 DEF ServerInv, TypeOK
  <2>2. /\ DOMAIN clientToEntity' \subseteq Nat
        /\ clientToEntity' \in [DOMAIN clientToEntity' -> Nat]
    BY <1>1, <1>2, <1>8 DEF ServerInv, TypeOK
  <2>3. welcome' \in [Client -> [clientId : Nat, entityId : Nat] \cup {None}]
    BY <1>1, <1>2, <1>8 DEF ServerInv, TypeOK
  <2> QED
    BY <1>1, <1>4, <1>7, <1>8, <1>9, <2>1, <2>2, <2>3 DEF ServerInv, TypeOK
<1>11. MappedPlayersLive'
  <2>1. \A i \in DOMAIN clientToEntity :
           /\ clientToEntity[i] \in registry.componentsArray[Player]
           /\ clientToEntity[i] # e
    BY <1>2, ComponentFacts DEF ServerInv, MappedPlayersLive, Has
  <2>2. \A i, j \in DOMAIN clientToEntity : clientToEntity[i] = clientToEntity[j] => i = j
    BY DEF ServerInv, MappedPlayersLive
  <2>3. /\ DOMAIN clientToEntity' = DOMAIN clientToEntity \cup {n}
        /\ clientToEntity'[n] = e
        /\ \A i \in DOMAIN clientToEntity \ {n} : clientToEntity'[i] = clientToEntity[i]
    BY <1>8
  <2>4. \A i \in DOMAIN clientToEntity' : Has(registry', Player, clientToEntity'[i])
    BY <1>4, <2>1, <2>3 DEF Has
  <2>5. \A i, j \in DOMAIN clientToEntity' : clientToEntity'[i] = clientToEntity'[j] => i = j
    BY <2>1, <2>2, <2>3
  <2> QED  BY <2>4, <2>5 DEF MappedPlayersLive
<1>12. IsFiniteSet(DOMAIN clientToEntity)' /\ CounterCoversSessions'
  <2>1. IsFiniteSet(DOMAIN clientToEntity)  BY DEF ServerInv
  <2>2. Cardinality(DOMAIN clientToEntity) \in Nat
    BY <2>1, FS_CardinalityType
  <2>3. Cardinality(DOMAIN clientToEntity) <= n
    BY DEF ServerInv, CounterCoversSessions
  <2>4. DOMAIN clientToEntity' = DOMAIN clientToEntity \cup {n}  BY <1>8
  <2>5. /\ IsFiniteSet(DOMAIN clientToEntity')
        /\ Cardinality(DOMAIN clientToEntity') \in
              {Cardinality(DOMAIN clientToEntity), Cardinality(DOMAIN clientToEntity) + 1}
    BY <2>1, <2>4, FS_AddElement
  <2> QED  BY <1>1, <1>8, <2>2, <2>3, <2>5 DEF CounterCoversSessions
<1>13. registry'.componentsArray[Player] \cap registry'.componentsArray[Missile] = {}
  BY <1>2, <1>4, ComponentFacts DEF ServerInv, Has
<1> QED  BY <1>5, <1>9, <1>10, <1>11, <1>12, <1>13 DEF ServerInv

LEMMA DisconnectionStep ==
    ASSUME ServerInv, HandleClientDisconnection
    PROVE  ServerInv'
<1> DEFINE p == Head(messageQueue).peer
           id == ClientIdOf(p)
           e == clientToEntity[id]
           C == GameComponent
<1>1. Handle("DISCONNECT")  BY DEF HandleClientDisconnection
<1>2. /\ messageQueue # << >> /\ messageQueue' = Tail(messageQueue)
      /\ phase' = phase /\ link' = link /\ known' = known
      /\ welcome' = welcome
  BY <1>1, HandleFacts DEF HandleClientDisconnection
<1>3. /\ registry \in RegistryType /\ WellManaged(registry, C)
      /\ nextClientId \in Nat /\ C \in SUBSET Component
  BY ComponentFacts DEF ServerInv, TypeOK, EntitiesWellManaged
<1>4. /\ DOMAIN clientIds' \subseteq Peer
      /\ clientIds' \in [DOMAIN clientIds' -> Nat]
      /\ inOrder' \in BOOLEAN
  <2>1. clientIds' = [q \in DOMAIN clientIds \ {p} |-> clientIds[q]]
    BY DEF HandleClientDisconnection, EraseSession
  <2>2. inOrder' = (inOrder /\ id = nextClientId - 1)
    BY DEF HandleClientDisconnection
  <2> QED  BY <2>1, <2>2 DEF ServerInv, TypeOK
<1>5. CASE id \notin DOMAIN clientToEntity
  <2>1. /\ nextClientId' = nextClientId /\ registry' = registry
        /\ clientToEntity' = clientToEntity
    BY <1>5 DEF HandleClientDisconnection, RemovePlayer
  <2>2. registry.nextEntityId \in Nat  BY <1>3 DEF RegistryType
  <2>3. /\ messageQueue' \in Seq(Event)
        /\ \A c \in Client : known'[c] # None => ValidIndex(registry', known'[c])
        /\ \A i \in 1..Len(messageQueue') : messageQueue'[i].type = "RECEIVE" =>
              ValidIndex(registry', messageQueue'[i].entity)
    BY <1>2, <1>3, <2>1, <2>2, NamedIdsStay
  <2>4. TypeOK'  BY <1>2, <1>4, <2>1, <2>3 DEF ServerInv, TypeOK
  <2> QED
    BY <1>2, <2>1, <2>3, <2>4
    DEF ServerInv, EntitiesWellManaged, MappedPlayersLive, CounterCoversSessions
<1>6. CASE id \in DOMAIN clientToEntity
  <2>1. /\ nextClientId' = nextClientId - 1
        /\ registry' = Killed(registry, e)
        /\ clientToEntity' = [i \in DOMAIN clientToEntity \ {id} |-> clientToEntity[i]]
    BY <1>6 DEF HandleClientDisconnection, RemovePlayer, MappingWithout
  <2>2. Has(registry, Player, e)  BY <1>6 DEF ServerInv, MappedPlayersLive
  <2>3. e \in Nat /\ ValidIndex(registry, e) /\ e \notin FreeIds(registry)
    BY <2>2, SeenIsLive, ComponentFacts
  <2>4. /\ registry' \in RegistryType
        /\ registry'.nextEntityId = registry.nextEntityId
        /\ \A c \in Component :
              registry'.componentsArray[c] = registry.componentsArray[c] \ {e}
        /\ WellManaged(registry', C)
    BY <1>3, <2>1, <2>3, KilledFields
  <2>5. registry.nextEntityId \in Nat  BY <1>3 DEF RegistryType
  <2>6. /\ messageQueue' \in Seq(Event)
        /\ \A c \in Client : known'[c] # None => ValidIndex(registry', known'[c])
        /\ \A i \in 1..Len(messageQueue') : messageQueue'[i].type = "RECEIVE" =>
              ValidIndex(registry', messageQueue'[i].entity)
    BY <1>2, <2>4, <2>5, NamedIdsStay
  <2>7. /\ IsFiniteSet(DOMAIN clientToEntity')
        /\ Cardinality(DOMAIN clientToEntity') <= nextClientId'
        /\ nextClientId' \in Nat
    <3>1. IsFiniteSet(DOMAIN clientToEntity)  BY DEF ServerInv
    <3>2. Cardinality(DOMAIN clientToEntity) \in Nat
      BY <3>1, FS_CardinalityType
    <3>3. Cardinality(DOMAIN clientToEntity) <= nextClientId
      BY DEF ServerInv, CounterCoversSessions
    <3>4. DOMAIN clientToEntity' = DOMAIN clientToEntity \ {id}  BY <2>1
    <3>5. /\ IsFiniteSet(DOMAIN clientToEntity')
          /\ Cardinality(DOMAIN clientToEntity') = Cardinality(DOMAIN clientToEntity) - 1
      BY <1>6, <3>1, <3>4, FS_RemoveElement
    <3>6. Cardinality(DOMAIN clientToEntity') \in Nat
      BY <3>5, FS_CardinalityType
    <3> QED  BY <1>3, <2>1, <3>2, <3>3, <3>5, <3>6
  <2>8. TypeOK'
    <3>1. /\ DOMAIN clientToEntity' \subseteq Nat
          /\ clientToEntity' \in [DOMAIN clientToEntity' -> Nat]
      BY <2>1 DEF ServerInv, TypeOK
    <3> QED  BY <1>2, <1>4, <2>4, <2>6, <2>7, <3>1 DEF ServerInv, TypeOK
  <2>9. MappedPlayersLive'
    <3>1. \A i, j \in DOMAIN clientToEntity :
             clientToEntity[i] = clientToEntity[j] => i = j
      BY DEF ServerInv, MappedPlayersLive
    <3>2. \A i \in DOMAIN clientToEntity' :
             /\ i \in DOMAIN clientToEntity /\ i # id
             /\ clientToEntity'[i] = clientToEntity[i]
      BY <2>1
    <3>3. \A i \in DOMAIN clientToEntity' : Has(registry', Player, clientToEntity'[i])
      BY <1>6, <2>4, <3>1, <3>2, ComponentFacts DEF ServerInv, MappedPlayersLive, Has
    <3>4. \A i, j \in DOMAIN clientToEntity' :
             clientToEntity'[i] = clientToEntity'[j] => i = j
      BY <3>1, <3>2
    <3> QED  BY <3>3, <3>4 DEF MappedPlayersLive
  <2>10. registry'.componentsArray[Player] \cap registry'.componentsArray[Missile] = {}
    BY <2>4, ComponentFacts DEF ServerInv
  <2>11. EntitiesWellManaged'  BY <2>4 DEF EntitiesWellManaged, GameComponent
  <2> QED
    BY <2>6, <2>7, <2>8, <2>9, <2>10, <2>11 DEF ServerInv, CounterCoversSessions
<1> QED  BY <1>5, <1>6

(* A late CON message finds its entity's id handed out, so it makes no      *)
(* entity; it may write a Controllable on a dead one, which is why          *)
(* GameComponent leaves Controllable out.                                   *)
LEMMA MessageStep ==
    ASSUME ServerInv, handleClientMessage
    PROVE  ServerInv'
<1> DEFINE m == Head(messageQueue)
           C == GameComponent
<1>1. /\ messageQueue # << >> /\ messageQueue' = Tail(messageQueue)
      /\ phase' = phase /\ link' = link /\ known' = known
      /\ m.peer \in Peer /\ m.entity \in Nat /\ ValidIndex(registry, m.entity)
  BY HandleFacts DEF handleClientMessage
<1>2. /\ registry \in RegistryType /\ WellManaged(registry, C)
      /\ C \in SUBSET Component /\ {Controllable} \cap C = {}
  BY ComponentFacts DEF ServerInv, TypeOK, EntitiesWellManaged
<1>3. registry' = Added(registry, m.entity, {Controllable})
  BY <1>1 DEF handleClientMessage, Updated, SpawnedUpTo, ValidIndex
<1>4. /\ registry' \in RegistryType
      /\ registry'.nextEntityId = registry.nextEntityId
      /\ registry'.componentsArray[Player] = registry.componentsArray[Player]
      /\ registry'.componentsArray[Missile] = registry.componentsArray[Missile]
  BY <1>1, <1>2, <1>3, AddedFields, ComponentFacts
<1>5. WellManaged(registry', C)  BY <1>1, <1>2, <1>3, AddedWellManaged
<1>6. registry.nextEntityId \in Nat  BY <1>2 DEF RegistryType
<1>7. /\ messageQueue' \in Seq(Event)
      /\ \A c \in Client : known'[c] # None => ValidIndex(registry', known'[c])
      /\ \A i \in 1..Len(messageQueue') : messageQueue'[i].type = "RECEIVE" =>
            ValidIndex(registry', messageQueue'[i].entity)
  BY <1>1, <1>4, <1>6, NamedIdsStay
<1>8. /\ clientToEntity' = clientToEntity /\ nextClientId' = nextClientId
      /\ welcome' = welcome /\ inOrder' = inOrder
      /\ clientIds' = [q \in DOMAIN clientIds \cup {m.peer} |-> ClientIdOf(q)]
  BY DEF handleClientMessage
<1>9. TypeOK'
  <2>1. \A q : ClientIdOf(q) \in Nat  BY DEF ClientIdOf, ServerInv, TypeOK
  <2>2. /\ DOMAIN clientIds' \subseteq Peer
        /\ clientIds' \in [DOMAIN clientIds' -> Nat]
    BY <1>1, <1>8, <2>1 DEF ServerInv, TypeOK
  <2> QED  BY <1>1, <1>4, <1>7, <1>8, <2>2 DEF ServerInv, TypeOK
<1> QED
  BY <1>4, <1>5, <1>7, <1>8, <1>9
  DEF ServerInv, EntitiesWellManaged, MappedPlayersLive, CounterCoversSessions, Has

-----------------------------------------------------------------------------
LEMMA LoopStep ==
    ASSUME ServerInv, PollEnd \/ DrainEnd
    PROVE  ServerInv'
<1>1. /\ phase' \in {"drain", "systems"}
      /\ UNCHANGED <<link, messageQueue, welcome, known, clientIds,
                     clientToEntity, nextClientId, registry, inOrder>>
  BY DEF PollEnd, DrainEnd, sessionVars
<1> QED
  BY <1>1
  DEF ServerInv, TypeOK, EntitiesWellManaged, MappedPlayersLive, CounterCoversSessions

(* What the systems must leave of the registry for ServerInv to survive     *)
(* them: its type, its discipline, its ids and its players.                 *)
LEMMA SystemsStep ==
    ASSUME ServerInv, Systems, registry' \in RegistryType,
           WellManaged(registry', GameComponent),
           registry'.nextEntityId >= registry.nextEntityId,
           registry'.componentsArray[Player] = registry.componentsArray[Player],
           registry'.componentsArray[Player] \cap registry'.componentsArray[Missile] = {}
    PROVE  ServerInv'
<1>1. /\ registry \in RegistryType /\ registry.nextEntityId \in Nat
      /\ registry'.nextEntityId \in Nat
      /\ welcome \in [Client -> [clientId : Nat, entityId : Nat] \cup {None}]
      /\ known \in [Client -> Nat \cup {None}]
      /\ messageQueue \in Seq(Event)
  BY DEF ServerInv, TypeOK, RegistryType
<1>2. /\ phase' = "poll" /\ known' = NowKnown
      /\ UNCHANGED <<link, messageQueue, clientIds, clientToEntity, nextClientId,
                     welcome, inOrder>>
  BY DEF Systems
<1>3. ASSUME NEW c \in Client
      PROVE  /\ known'[c] \in Nat \cup {None}
             /\ known'[c] # None => ValidIndex(registry', known'[c])
  <2>1. CASE known'[c] = known[c]
    BY <1>1, <2>1 DEF ServerInv, ValidIndex
  <2>2. CASE known'[c] # known[c]
    <3>1. /\ welcome[c] # None /\ known'[c] = welcome[c].entityId
          /\ Has(registry, Player, welcome[c].entityId)
      BY <1>2, <2>2 DEF NowKnown
    <3>2. welcome[c].entityId \in Nat  BY <1>1, <3>1
    <3>3. ValidIndex(registry, welcome[c].entityId)
      BY <3>1, SeenIsLive, ComponentFacts
    <3> QED  BY <1>1, <3>1, <3>2, <3>3 DEF ValidIndex
  <2> QED  BY <2>1, <2>2
<1>4. known' \in [Client -> Nat \cup {None}]
  BY <1>2, <1>3 DEF NowKnown
<1>5. TypeOK'  BY <1>2, <1>4 DEF ServerInv, TypeOK
<1>6. ASSUME NEW i \in 1..Len(messageQueue), messageQueue[i].type = "RECEIVE"
      PROVE  ValidIndex(registry', messageQueue[i].entity)
  <2>1. messageQueue[i] \in Event  BY <1>1, ElementOfSeq
  <2>2. messageQueue[i].entity \in Nat  BY <1>6, <2>1 DEF Event
  <2>3. messageQueue[i].entity < registry.nextEntityId
    BY <1>6 DEF ServerInv, ValidIndex
  <2> QED  BY <1>1, <2>2, <2>3 DEF ValidIndex
<1> QED
  BY <1>2, <1>3, <1>5, <1>6
  DEF ServerInv, EntitiesWellManaged, MappedPlayersLive, CounterCoversSessions,
      GameComponent, Has

LEMMA SystemsStepOfEach ==
    ASSUME ServerInv, RunSystems \/ SpawnMissile \/ KillMissile
    PROVE  ServerInv'
<1> DEFINE C == GameComponent
<1>1. /\ registry \in RegistryType /\ WellManaged(registry, C)
      /\ C \in SUBSET Component /\ registry.nextEntityId \in Nat
      /\ registry.componentsArray[Player] \cap registry.componentsArray[Missile] = {}
  BY ComponentFacts DEF ServerInv, TypeOK, EntitiesWellManaged, RegistryType
<1>2. CASE RunSystems
  BY <1>1, <1>2, SystemsStep DEF RunSystems
<1>3. CASE SpawnMissile
  <2> DEFINE e == SpawnedId(registry)
             r == Spawned(registry)
  <2>1. registry' = Added(r, e, {Missile}) /\ Systems  BY <1>3 DEF SpawnMissile
  <2>2. /\ r \in RegistryType /\ e \in Nat /\ ValidIndex(r, e) /\ e \notin FreeIds(r)
        /\ WellManaged(r, C)
        /\ \A c \in C : ~Has(registry, c, e)
        /\ r.componentsArray = registry.componentsArray
        /\ r.nextEntityId >= registry.nextEntityId
    BY <1>1, SpawnedFields
  <2>3. /\ registry' \in RegistryType
        /\ registry'.nextEntityId >= registry.nextEntityId
        /\ registry'.componentsArray[Player] = registry.componentsArray[Player]
        /\ registry'.componentsArray[Missile] = registry.componentsArray[Missile] \cup {e}
    BY <2>1, <2>2, AddedFields, ComponentFacts
  <2>4. WellManaged(registry', C)  BY <1>1, <2>1, <2>2, AddedWellManaged
  <2>5. e \notin registry.componentsArray[Player]
    BY <2>2, ComponentFacts DEF Has
  <2> QED  BY <1>1, <2>1, <2>3, <2>4, <2>5, SystemsStep
<1>4. CASE KillMissile
  <2>1. PICK e \in registry.componentsArray[Missile] : registry' = Killed(registry, e)
    BY <1>4 DEF KillMissile
  <2>2. e \in Nat /\ ValidIndex(registry, e) /\ e \notin FreeIds(registry)
    BY <2>1, SeenIsLive, ComponentFacts DEF Has
  <2>3. /\ registry' \in RegistryType
        /\ registry'.nextEntityId = registry.nextEntityId
        /\ \A c \in Component :
              registry'.componentsArray[c] = registry.componentsArray[c] \ {e}
        /\ WellManaged(registry', C)
    BY <1>1, <2>1, <2>2, KilledFields
  <2>4. /\ registry'.componentsArray[Player] = registry.componentsArray[Player]
        /\ registry'.componentsArray[Player] \cap registry'.componentsArray[Missile] = {}
    <3>1. e \notin registry.componentsArray[Player]  BY <1>1, <2>1
    <3>2. /\ registry'.componentsArray[Player] = registry.componentsArray[Player] \ {e}
          /\ registry'.componentsArray[Missile] \subseteq registry.componentsArray[Missile]
      BY <2>3, ComponentFacts
    <3> QED  BY <1>1, <3>1, <3>2
  <2>5. Systems  BY <1>4 DEF KillMissile
  <2> QED  BY <1>1, <2>3, <2>4, <2>5, SystemsStep
<1> QED  BY <1>2, <1>3, <1>4

-----------------------------------------------------------------------------
LEMMA ServerInvInit == Init => ServerInv
<1> SUFFICES ASSUME Init PROVE ServerInv  OBVIOUS
<1> DEFINE C == Component
           r == Spawned(EmptyRegistry)
           s == [r EXCEPT !.registered = Component]
           e == SpawnedId(EmptyRegistry)
<1>1. EmptyRegistry \in RegistryType  BY EmptySeq DEF EmptyRegistry, RegistryType
<1>2. WellManaged(EmptyRegistry, C)
  <2>1. FreeIds(EmptyRegistry) = {}  BY DEF EmptyRegistry, FreeIds
  <2>2. FreeDistinct(EmptyRegistry)  BY EmptySeq DEF EmptyRegistry, FreeDistinct
  <2>3. ArraysValid(EmptyRegistry, C)  BY DEF EmptyRegistry, ArraysValid
  <2> QED  BY <2>1, <2>2, <2>3 DEF WellManaged, FreeValid, FreeBare
<1>3. /\ r \in RegistryType /\ e \in Nat /\ ValidIndex(r, e) /\ e \notin FreeIds(r)
      /\ WellManaged(r, C) /\ r.componentsArray = EmptyRegistry.componentsArray
  BY <1>1, <1>2, SpawnedFields
<1>4. /\ s \in RegistryType /\ s.nextEntityId = r.nextEntityId
      /\ s.availableEntityIds = r.availableEntityIds
      /\ s.componentsArray = r.componentsArray
  BY <1>3 DEF RegistryType
<1>5. /\ FreeIds(s) = FreeIds(r) /\ ValidIndex(s, e) /\ WellManaged(s, C)
  BY <1>3, <1>4
  DEF FreeIds, ValidIndex, WellManaged, FreeDistinct, FreeValid, FreeBare, ArraysValid, Has
<1>6. registry = Added(s, e, {Scene})  BY DEF Init
<1>7. registry \in RegistryType /\ WellManaged(registry, C)
  BY <1>3, <1>4, <1>5, <1>6, AddedFields, AddedWellManaged
<1>8. registry.componentsArray[Player] = {} /\ registry.componentsArray[Missile] = {}
  <2>1. /\ EmptyRegistry.componentsArray[Player] = {}
        /\ EmptyRegistry.componentsArray[Missile] = {}
    BY ComponentFacts DEF EmptyRegistry
  <2>2. Player \in Component \ {Scene} /\ Missile \in Component \ {Scene}
    BY ComponentFacts
  <2>3. /\ registry.componentsArray[Player] = s.componentsArray[Player]
        /\ registry.componentsArray[Missile] = s.componentsArray[Missile]
    <3> HIDE DEF s, e
    <3> QED  BY <1>3, <1>4, <1>6, <2>2, AddedFields
  <2> HIDE DEF s
  <2> QED  BY <1>3, <1>4, <2>1, <2>3
<1>9. EntitiesWellManaged
  BY <1>7, ComponentFacts
  DEF EntitiesWellManaged, WellManaged, FreeBare, ArraysValid
<1>10. clientIds = << >> /\ clientToEntity = << >> /\ messageQueue = << >>
  BY DEF Init
<1>11. TypeOK
  BY <1>7, <1>10, EmptySeq DEF Init, TypeOK
<1>12. IsFiniteSet(DOMAIN clientToEntity) /\ CounterCoversSessions
  BY <1>10, FS_EmptySet DEF Init, CounterCoversSessions
<1>13. MappedPlayersLive  BY <1>10 DEF MappedPlayersLive
<1>14. \A c \in Client : known[c] = None  BY DEF Init
<1>15. 1..Len(messageQueue) = {}  BY <1>10, EmptySeq
<1> QED  BY <1>8, <1>9, <1>11, <1>12, <1>13, <1>14, <1>15 DEF ServerInv

LEMMA ServerInvStep == ServerInv /\ [Next]_vars => ServerInv'
<1> SUFFICES ASSUME ServerInv, [Next]_vars PROVE ServerInv'  OBVIOUS
<1>1. CASE UNCHANGED vars
  BY <1>1
  DEF vars, ServerInv, TypeOK, EntitiesWellManaged, MappedPlayersLive, CounterCoversSessions
<1>2. ASSUME NEW p \in Peer,
             (\E c \in Client : PollConnect(c, p)) \/ PollDisconnect(p) \/ PollReceive(p)
      PROVE  ServerInv'
  BY <1>2, PollStepOfEach
<1>3. CASE HandleClientConnection  BY <1>3, ConnectionStep
<1>4. CASE HandleClientDisconnection  BY <1>4, DisconnectionStep
<1>5. CASE handleClientMessage  BY <1>5, MessageStep
<1>6. CASE PollEnd \/ DrainEnd  BY <1>6, LoopStep
<1>7. CASE RunSystems \/ SpawnMissile \/ KillMissile  BY <1>7, SystemsStepOfEach
<1> QED  BY <1>1, <1>2, <1>3, <1>4, <1>5, <1>6, <1>7 DEF Next

(* For any number of clients, slots, ids and entities, and with no limit to *)
(* a batch of events: the inductive invariant of the server.                *)
THEOREM ServerInvHolds == Spec => []ServerInv
  BY ServerInvInit, ServerInvStep, PTL DEF Spec

(* The state of the server keeps its type: nextClientId in particular never *)
(* wraps below zero.                                                        *)
THEOREM ServerTypeCorrect == Spec => []TypeOK
<1>1. ServerInv => TypeOK  BY DEF ServerInv
<1> QED  BY <1>1, ServerInvHolds, PTL

(* Disconnections, missiles and late messages keep the entity ids of the    *)
(* game well managed.                                                       *)
THEOREM ServerEntitiesWellManaged == Spec => []EntitiesWellManaged
<1>1. ServerInv => EntitiesWellManaged  BY DEF ServerInv
<1> QED  BY <1>1, ServerInvHolds, PTL

(* The entity a disconnection kills is a live player, and no other client   *)
(* id maps to it, even when client ids have collided.                       *)
THEOREM ServerMapsLivePlayers == Spec => []MappedPlayersLive
<1>1. ServerInv => MappedPlayersLive  BY DEF ServerInv
<1> QED  BY <1>1, ServerInvHolds, PTL

(* The counter never falls below the number of clients with an entity.      *)
THEOREM ServerCounterCovers == Spec => []CounterCoversSessions
<1>1. ServerInv => CounterCoversSessions  BY DEF ServerInv
<1> QED  BY <1>1, ServerInvHolds, PTL

-----------------------------------------------------------------------------
(***************************************************************************)
(* Sessions in order.  Between the poll of an event and its turn the slots *)
(* of ENet are ahead of the sessions; the events in the queue are what     *)
(* they differ by.                                                         *)
(***************************************************************************)

(* The turns of a slot in the queue, where 0 is the present, and whether    *)
(* the slot has a session after each.                                       *)
Marks(p) == {0} \cup {i \in 1..Len(messageQueue) :
                        messageQueue[i].type # "RECEIVE" /\ messageQueue[i].peer = p}

OpenAt(p, i) == IF i = 0 THEN p \in DOMAIN clientIds ELSE messageQueue[i].type = "CONNECT"

(* The turns of a slot alternate and lead from its session to ENet's state. *)
QueueLeadsToLink ==
    \A p \in Peer :
        /\ \A i, j \in Marks(p) :
              i < j /\ (\A k \in Marks(p) : ~(i < k /\ k < j)) => (OpenAt(p, j) <=> ~OpenAt(p, i))
        /\ \A i \in Marks(p) :
              (\A k \in Marks(p) : k <= i) => (OpenAt(p, i) <=> link[p] # None)

(* A message is handled in the session it was sent in: a client sends only  *)
(* once the queue holds no turn of its slot.                                *)
MessagesInSession ==
    /\ \A p \in Peer, i \in 1..Len(messageQueue) :
          messageQueue[i].type = "RECEIVE" /\ messageQueue[i].peer = p =>
              p \in DOMAIN clientIds /\ \A k \in Marks(p) : k = 0 \/ k > i
    /\ \A p \in Peer : link[p] # None /\ known[link[p]] # None => Marks(p) = {0}
    /\ \A p, q \in Peer : link[p] = link[q] /\ link[p] # None => p = q
    /\ phase = "systems" => messageQueue = << >>

ShipOf(p) == clientToEntity[clientIds[p]]

(* What clients and messages in the queue say of ships is true.             *)
ShipsNamed ==
    inOrder =>
        /\ \A p \in Peer : link[p] # None /\ known[link[p]] # None =>
              known[link[p]] = ShipOf(p)
        /\ \A i \in 1..Len(messageQueue) : messageQueue[i].type = "RECEIVE" =>
              messageQueue[i].entity = ShipOf(messageQueue[i].peer)
        /\ \A p \in DOMAIN clientIds : Marks(p) = {0} =>
              welcome[link[p]] = [clientId |-> clientIds[p], entityId |-> ShipOf(p)]

QueueInv == QueueLeadsToLink /\ MessagesInSession
OrderInv == ServerInv /\ QueueInv /\ OrderlySessions /\ ShipsNamed

IsTurn(event, p) == event.type # "RECEIVE" /\ event.peer = p

(* What is polled for a slot is one event of that slot.                     *)
LEMMA PolledEvent ==
    ASSUME ServerInv, NEW p \in Peer,
           (\E c \in Client : PollConnect(c, p)) \/ PollDisconnect(p) \/ PollReceive(p)
    PROVE  \E event \in Event :
              /\ Poll(event) /\ event.peer = p
              /\ \/ \E c \in Client : PollConnect(c, p) /\ event.type = "CONNECT"
                 \/ PollDisconnect(p) /\ event.type = "DISCONNECT"
                 \/ /\ PollReceive(p) /\ event.type = "RECEIVE"
                    /\ event.entity = known[link[p]]
<1>1. CASE \E c \in Client : PollConnect(c, p)
  <2>1. [type |-> "CONNECT", peer |-> p] \in Event
    BY DEF Event
  <2> QED BY <1>1, <2>1 DEF PollConnect
<1>2. CASE PollDisconnect(p)
  <2>1. [type |-> "DISCONNECT", peer |-> p] \in Event
    BY DEF Event
  <2> QED BY <1>2, <2>1 DEF PollDisconnect
<1>3. CASE PollReceive(p)
  <2>1. known[link[p]] \in Nat
    BY <1>3, ClientAssumption DEF PollReceive, ServerInv, TypeOK
  <2>2. [type |-> "RECEIVE", peer |-> p, entity |-> known[link[p]]] \in Event
    BY <2>1 DEF Event
  <2> QED BY <1>3, <2>2 DEF PollReceive
<1> QED BY <1>1, <1>2, <1>3

LEMMA PolledMarks ==
    ASSUME ServerInv, NEW event \in Event, Poll(event)
    PROVE  LET n == Len(messageQueue)
           IN  /\ n \in Nat /\ Len(messageQueue') = n + 1 /\ phase' = phase
               /\ \A i \in 1..n : messageQueue'[i] = messageQueue[i]
               /\ messageQueue'[n + 1] = event
               /\ \A p : Marks(p) \subseteq 0..n
               /\ \A p : IsTurn(event, p) => Marks(p)' = Marks(p) \cup {n + 1}
               /\ \A p : ~IsTurn(event, p) => Marks(p)' = Marks(p)
               /\ \A p : \A i \in Marks(p) : OpenAt(p, i)' <=> OpenAt(p, i)
               /\ \A p, k : k = n + 1 => (OpenAt(p, k)' <=> event.type = "CONNECT")
<1> DEFINE n == Len(messageQueue)
<1>1. messageQueue \in Seq(Event) /\ messageQueue' = Append(messageQueue, event)
  BY DEF ServerInv, TypeOK, Poll
<1>2. /\ n \in Nat /\ Len(messageQueue') = n + 1
      /\ \A i \in 1..n : messageQueue'[i] = messageQueue[i]
      /\ messageQueue'[n + 1] = event
  BY <1>1, AppendProperties, LenProperties
<1>3. clientIds' = clientIds /\ phase' = phase
  BY DEF Poll, sessionVars
<1> HIDE DEF n
<1>4. ASSUME NEW p
      PROVE  /\ Marks(p) \subseteq 0..n
             /\ IsTurn(event, p) => Marks(p)' = Marks(p) \cup {n + 1}
             /\ ~IsTurn(event, p) => Marks(p)' = Marks(p)
  <2>1. Marks(p) = {0} \cup {i \in 1..n : IsTurn(messageQueue[i], p)}
    BY DEF Marks, IsTurn, n
  <2>2. Marks(p)' = {0} \cup {i \in 1..(n + 1) : IsTurn(messageQueue'[i], p)}
    BY <1>2 DEF Marks, IsTurn
  <2>3. \A i : i \in 1..(n + 1) <=> i \in 1..n \/ i = n + 1
    BY <1>2
  <2> QED BY <1>2, <2>1, <2>2, <2>3
<1>5. \A p : \A i \in Marks(p) : OpenAt(p, i)' <=> OpenAt(p, i)
  BY <1>2, <1>3 DEF OpenAt, Marks, n
<1>6. \A p, k : k = n + 1 => (OpenAt(p, k)' <=> event.type = "CONNECT")
  BY <1>2 DEF OpenAt
<1> QED BY <1>2, <1>3, <1>4, <1>5, <1>6 DEF n

LEMMA PoppedMarks ==
    ASSUME ServerInv, NEW type, Handle(type)
    PROVE  LET n == Len(messageQueue)
               head == Head(messageQueue)
           IN  /\ n \in Nat /\ n >= 1 /\ Len(messageQueue') = n - 1
               /\ messageQueue[1] = head /\ head.type = type /\ head.peer \in Peer
               /\ \A i \in 1..(n - 1) : messageQueue'[i] = messageQueue[i + 1]
               /\ \A p : Marks(p) \subseteq 0..n /\ 0 \in Marks(p)
               /\ \A p : 1 \in Marks(p) <=> IsTurn(head, p)
               /\ \A p : OpenAt(p, 1) <=> type = "CONNECT"
               /\ \A p : Marks(p)' = {0} \cup {i \in 1..(n - 1) : i + 1 \in Marks(p)}
               /\ \A p : \A i \in 1..(n - 1) : OpenAt(p, i)' <=> OpenAt(p, i + 1)
<1> DEFINE n == Len(messageQueue)
           head == Head(messageQueue)
<1>1. messageQueue \in Seq(Event)
  BY DEF ServerInv, TypeOK
<1>2. /\ messageQueue # << >> /\ messageQueue' = Tail(messageQueue)
      /\ head.type = type /\ head.peer \in Peer
  BY HandleFacts
<1>3. /\ n \in Nat /\ n >= 1 /\ Len(messageQueue') = n - 1
      /\ messageQueue[1] = head
      /\ \A i \in 1..(n - 1) : messageQueue'[i] = messageQueue[i + 1]
  BY <1>1, <1>2, HeadTailProperties, EmptySeq, LenProperties
<1> HIDE DEF n, head
<1>4. \A p : Marks(p) = {0} \cup {i \in 1..n : IsTurn(messageQueue[i], p)}
  BY DEF Marks, IsTurn, n
<1>5. \A p : Marks(p)' = {0} \cup {i \in 1..(n - 1) : IsTurn(messageQueue'[i], p)}
  BY <1>3 DEF Marks, IsTurn
<1>6. ASSUME NEW p
      PROVE  Marks(p)' = {0} \cup {i \in 1..(n - 1) : i + 1 \in Marks(p)}
  <2>1. \A i \in 1..(n - 1) : i + 1 \in 1..n /\ i + 1 # 0
    BY <1>3
  <2>2. \A i \in 1..(n - 1) : IsTurn(messageQueue'[i], p) <=> i + 1 \in Marks(p)
    BY <1>3, <1>4, <2>1
  <2> QED BY <1>5, <2>2
<1>7. \A p : 1 \in Marks(p) <=> IsTurn(head, p)
  BY <1>3, <1>4
<1>8. \A p : OpenAt(p, 1) <=> type = "CONNECT"
  BY <1>2, <1>3 DEF OpenAt
<1>9. \A p : \A i \in 1..(n - 1) : OpenAt(p, i)' <=> OpenAt(p, i + 1)
  BY <1>3 DEF OpenAt
<1>10. \A p : Marks(p) \subseteq 0..n /\ 0 \in Marks(p)
  BY <1>3, <1>4
<1> QED BY <1>2, <1>3, <1>6, <1>7, <1>8, <1>9, <1>10 DEF n, head

(* An event handled turns the session of its slot as it says.               *)
LEMMA PopKeepsQueue ==
    ASSUME ServerInv, QueueInv, NEW type, Handle(type),
           \A p \in Peer : p \in DOMAIN clientIds' <=>
               IF IsTurn(Head(messageQueue), p) THEN type = "CONNECT"
                                                ELSE p \in DOMAIN clientIds
    PROVE  QueueInv'
<1> DEFINE n == Len(messageQueue)
           head == Head(messageQueue)
<1>1. /\ n \in Nat /\ n >= 1 /\ Len(messageQueue') = n - 1
      /\ messageQueue[1] = head /\ head.type = type /\ head.peer \in Peer
      /\ \A i \in 1..(n - 1) : messageQueue'[i] = messageQueue[i + 1]
      /\ \A p : Marks(p) \subseteq 0..n /\ 0 \in Marks(p)
      /\ \A p : 1 \in Marks(p) <=> IsTurn(head, p)
      /\ \A p : OpenAt(p, 1) <=> type = "CONNECT"
      /\ \A p : Marks(p)' = {0} \cup {i \in 1..(n - 1) : i + 1 \in Marks(p)}
      /\ \A p : \A i \in 1..(n - 1) : OpenAt(p, i)' <=> OpenAt(p, i + 1)
  BY PoppedMarks
<1>2. phase' = phase /\ link' = link /\ known' = known /\ messageQueue # << >>
      /\ phase = "drain"
  BY DEF Handle
<1> HIDE DEF n, head
<1>3. QueueLeadsToLink'
  <2> SUFFICES ASSUME NEW p \in Peer
               PROVE  /\ \A i, j \in Marks(p)' :
                            i < j /\ (\A k \in Marks(p)' : ~(i < k /\ k < j)) =>
                                (OpenAt(p, j)' <=> ~OpenAt(p, i)')
                      /\ \A i \in Marks(p)' :
                            (\A k \in Marks(p)' : k <= i) =>
                                (OpenAt(p, i)' <=> link[p] # None)
    BY <1>2 DEF QueueLeadsToLink
  <2> DEFINE old(i) == IF i = 0 THEN IF IsTurn(head, p) THEN 1 ELSE 0 ELSE i + 1
  <2>1. /\ \A i, j \in Marks(p) :
              i < j /\ (\A k \in Marks(p) : ~(i < k /\ k < j)) =>
                  (OpenAt(p, j) <=> ~OpenAt(p, i))
        /\ \A i \in Marks(p) :
              (\A k \in Marks(p) : k <= i) => (OpenAt(p, i) <=> link[p] # None)
    BY DEF QueueInv, QueueLeadsToLink
  <2>2. Marks(p) \subseteq 0..n /\ Marks(p)' \subseteq 0..(n - 1)
    BY <1>1
  <2>3. \A i \in Marks(p)' : old(i) \in Marks(p)
    BY <1>1
  <2>4. \A i \in Marks(p)' : OpenAt(p, i)' <=> OpenAt(p, old(i))
    <3>1. OpenAt(p, 0)' <=> p \in DOMAIN clientIds'
      BY DEF OpenAt
    <3>2. OpenAt(p, 0) <=> p \in DOMAIN clientIds
      BY DEF OpenAt
    <3>3. OpenAt(p, 0)' <=> OpenAt(p, old(0))
      BY <1>1, <3>1, <3>2 DEF head
    <3>4. \A i \in Marks(p)' : i # 0 => i \in 1..(n - 1)
      BY <1>1
    <3> QED BY <1>1, <3>3, <3>4
  <2>5. \A k \in Marks(p) : (k = 0 /\ IsTurn(head, p)) \/ \E i \in Marks(p)' : old(i) = k
    <3> SUFFICES ASSUME NEW k \in Marks(p), ~(k = 0 /\ IsTurn(head, p))
                 PROVE  \E i \in Marks(p)' : old(i) = k
      OBVIOUS
    <3>1. CASE k = 0 \/ k = 1
      <4>1. 0 \in Marks(p)' /\ old(0) = k
        BY <1>1, <3>1
      <4> QED BY <4>1
    <3>2. CASE k > 1
      <4>1. k - 1 \in 1..(n - 1) /\ (k - 1) + 1 = k
        BY <1>1, <2>2, <3>2
      <4>2. k - 1 \in Marks(p)'
        BY <1>1, <4>1
      <4>3. old(k - 1) = k
        BY <4>1
      <4> QED BY <4>2, <4>3
    <3> QED BY <2>2, <3>1, <3>2
  <2>6. \A i, j \in Marks(p)' : (i < j <=> old(i) < old(j)) /\ old(i) \in Nat
    BY <1>1, <2>2
  <2>7. \A i \in Marks(p)' : IsTurn(head, p) => old(i) > 0
    BY <2>2
  <2> HIDE DEF old
  <2>8. ASSUME NEW i \in Marks(p)', NEW j \in Marks(p)', i < j,
               \A k \in Marks(p)' : ~(i < k /\ k < j)
        PROVE  OpenAt(p, j)' <=> ~OpenAt(p, i)'
    <3>1. \A k \in Marks(p) : ~(old(i) < k /\ k < old(j))
      <4> SUFFICES ASSUME NEW k \in Marks(p), old(i) < k, k < old(j)
                   PROVE  FALSE
        OBVIOUS
      <4>1. k # 0
        BY <2>6
      <4>2. PICK m \in Marks(p)' : old(m) = k
        BY <2>5, <4>1
      <4> QED BY <2>6, <2>8, <4>2
    <3>2. old(i) < old(j) /\ old(i) \in Marks(p) /\ old(j) \in Marks(p)
      BY <2>3, <2>6, <2>8
    <3>3. OpenAt(p, old(j)) <=> ~OpenAt(p, old(i))
      BY <2>1, <3>1, <3>2
    <3> QED BY <2>4, <3>3
  <2>9. ASSUME NEW i \in Marks(p)', \A k \in Marks(p)' : k <= i
        PROVE  OpenAt(p, i)' <=> link[p] # None
    <3>1. \A k \in Marks(p) : k <= old(i)
      <4> SUFFICES ASSUME NEW k \in Marks(p), ~(k <= old(i)) PROVE FALSE
        OBVIOUS
      <4>1. k # 0 /\ k \in Nat /\ old(i) < k
        BY <2>2, <2>6
      <4>2. PICK m \in Marks(p)' : old(m) = k
        BY <2>5, <4>1
      <4>3. i < m
        BY <2>6, <4>1, <4>2
      <4> QED BY <2>2, <2>9, <4>3
    <3>2. OpenAt(p, old(i)) <=> link[p] # None
      BY <2>1, <2>3, <3>1
    <3> QED BY <2>4, <3>2
  <2> QED BY <2>8, <2>9
<1>4. MessagesInSession'
  <2>1. ASSUME NEW p \in Peer, NEW i \in 1..(n - 1),
               messageQueue'[i].type = "RECEIVE", messageQueue'[i].peer = p
        PROVE  p \in DOMAIN clientIds' /\ \A k \in Marks(p)' : k = 0 \/ k > i
    <3>1. i + 1 \in 1..n /\ messageQueue'[i] = messageQueue[i + 1]
      BY <1>1
    <3>2. /\ p \in DOMAIN clientIds
          /\ \A k \in Marks(p) : k = 0 \/ k > i + 1
      BY <2>1, <3>1 DEF QueueInv, MessagesInSession, n
    <3>3. ~IsTurn(head, p)
      BY <1>1, <3>1, <3>2
    <3>4. p \in DOMAIN clientIds'
      BY <3>2, <3>3 DEF head
    <3>5. ASSUME NEW k \in Marks(p)', k # 0 PROVE k > i
      <4>1. k \in 1..(n - 1) /\ k + 1 \in Marks(p)
        BY <1>1, <3>5
      <4> QED BY <3>1, <3>2, <4>1
    <3> QED BY <3>4, <3>5
  <2>2. ASSUME NEW p \in Peer, link[p] # None, known[link[p]] # None
        PROVE  Marks(p)' = {0}
    <3>1. Marks(p) = {0}
      BY <2>2 DEF QueueInv, MessagesInSession
    <3>2. \A i \in 1..(n - 1) : i + 1 \notin Marks(p)
      BY <1>1, <3>1
    <3> QED BY <1>1, <3>2
  <2>3. \A p, q \in Peer : link[p] = link[q] /\ link[p] # None => p = q
    BY DEF QueueInv, MessagesInSession
  <2> QED BY <1>1, <1>2, <2>1, <2>2, <2>3 DEF MessagesInSession
<1> QED BY <1>3, <1>4 DEF QueueInv

(* A turn ENet reports changes the slot from what the last one left.        *)
LEMMA PollKeepsLeads ==
    ASSUME ServerInv, QueueLeadsToLink, NEW event \in Event, Poll(event),
           \A p \in Peer : ~IsTurn(event, p) => (link'[p] # None <=> link[p] # None),
           \A p \in Peer : IsTurn(event, p) =>
               /\ link[p] # None <=> event.type # "CONNECT"
               /\ link'[p] # None <=> event.type = "CONNECT"
    PROVE  QueueLeadsToLink'
<1> DEFINE n == Len(messageQueue)
<1>1. /\ n \in Nat
      /\ \A p : Marks(p) \subseteq 0..n
      /\ \A p : IsTurn(event, p) => Marks(p)' = Marks(p) \cup {n + 1}
      /\ \A p : ~IsTurn(event, p) => Marks(p)' = Marks(p)
      /\ \A p : \A i \in Marks(p) : OpenAt(p, i)' <=> OpenAt(p, i)
      /\ \A p, k : k = n + 1 => (OpenAt(p, k)' <=> event.type = "CONNECT")
  BY PolledMarks
<1> HIDE DEF n
<1> SUFFICES ASSUME NEW p \in Peer
             PROVE  /\ \A i, j \in Marks(p)' :
                          i < j /\ (\A k \in Marks(p)' : ~(i < k /\ k < j)) =>
                              (OpenAt(p, j)' <=> ~OpenAt(p, i)')
                    /\ \A i \in Marks(p)' :
                          (\A k \in Marks(p)' : k <= i) =>
                              (OpenAt(p, i)' <=> link'[p] # None)
  BY DEF QueueLeadsToLink
<1>2. /\ \A i, j \in Marks(p) :
            i < j /\ (\A k \in Marks(p) : ~(i < k /\ k < j)) =>
                (OpenAt(p, j) <=> ~OpenAt(p, i))
      /\ \A i \in Marks(p) :
            (\A k \in Marks(p) : k <= i) => (OpenAt(p, i) <=> link[p] # None)
  BY DEF QueueLeadsToLink
<1>3. CASE ~IsTurn(event, p)
  <2>1. /\ Marks(p)' = Marks(p) /\ (link'[p] # None <=> link[p] # None)
        /\ \A i \in Marks(p) : OpenAt(p, i)' <=> OpenAt(p, i)
    BY <1>1, <1>3
  <2> QED BY <1>2, <2>1
<1>4. CASE IsTurn(event, p)
  <2>1. /\ Marks(p)' = Marks(p) \cup {n + 1} /\ Marks(p) \subseteq 0..n /\ n \in Nat
        /\ \A i \in Marks(p) : OpenAt(p, i)' <=> OpenAt(p, i)
        /\ \A k : k = n + 1 => (OpenAt(p, k)' <=> event.type = "CONNECT")
        /\ link[p] # None <=> event.type # "CONNECT"
        /\ link'[p] # None <=> event.type = "CONNECT"
    BY <1>1, <1>4
  <2>2. ASSUME NEW i \in Marks(p)', NEW j \in Marks(p)', i < j,
               \A k \in Marks(p)' : ~(i < k /\ k < j)
        PROVE  OpenAt(p, j)' <=> ~OpenAt(p, i)'
    <3>1. i \in Marks(p)
      BY <2>1, <2>2
    <3>2. CASE j \in Marks(p)
      <4>1. OpenAt(p, j) <=> ~OpenAt(p, i)
        BY <1>2, <2>1, <2>2, <3>1, <3>2
      <4> QED BY <2>1, <3>1, <3>2, <4>1
    <3>3. CASE j = n + 1
      <4>1. \A k \in Marks(p) : k <= i
        BY <2>1, <2>2, <3>1, <3>3
      <4>2. OpenAt(p, i) <=> event.type # "CONNECT"
        BY <1>2, <2>1, <3>1, <4>1
      <4> QED BY <2>1, <3>1, <3>3, <4>2
    <3> QED BY <2>1, <3>2, <3>3
  <2>3. ASSUME NEW i \in Marks(p)', \A k \in Marks(p)' : k <= i
        PROVE  OpenAt(p, i)' <=> link'[p] # None
    <3>1. i = n + 1
      BY <2>1, <2>3
    <3> QED BY <2>1, <3>1
  <2> QED BY <2>2, <2>3
<1> QED BY <1>3, <1>4

(* A slot without a turn in the queue is as ENet has it.                    *)
LEMMA NoTurns ==
    ASSUME QueueInv, NEW p \in Peer, Marks(p) = {0}
    PROVE  p \in DOMAIN clientIds <=> link[p] # None
BY DEF QueueInv, QueueLeadsToLink, OpenAt

LEMMA PollKeepsQueue ==
    ASSUME ServerInv, QueueInv, NEW p \in Peer,
           (\E c \in Client : PollConnect(c, p)) \/ PollDisconnect(p) \/ PollReceive(p)
    PROVE  QueueInv'
<1> DEFINE n == Len(messageQueue)
<1>0. /\ link \in [Peer -> Client \cup {None}] /\ None \notin Client
      /\ known \in [Client -> Nat \cup {None}] /\ messageQueue \in Seq(Event)
  BY ClientAssumption DEF ServerInv, TypeOK
<1>1. /\ \A q \in Peer, i \in 1..n :
            messageQueue[i].type = "RECEIVE" /\ messageQueue[i].peer = q =>
                q \in DOMAIN clientIds /\ \A k \in Marks(q) : k = 0 \/ k > i
      /\ \A q \in Peer : link[q] # None /\ known[link[q]] # None => Marks(q) = {0}
      /\ \A q, r \in Peer : link[q] = link[r] /\ link[q] # None => q = r
      /\ QueueLeadsToLink
  BY DEF QueueInv, MessagesInSession
<1>2. PICK event \in Event :
        /\ Poll(event) /\ event.peer = p
        /\ \/ \E c \in Client : PollConnect(c, p) /\ event.type = "CONNECT"
           \/ PollDisconnect(p) /\ event.type = "DISCONNECT"
           \/ PollReceive(p) /\ event.type = "RECEIVE"
  BY PolledEvent
<1>3. /\ n \in Nat /\ Len(messageQueue') = n + 1 /\ phase' = "poll"
      /\ \A i \in 1..n : messageQueue'[i] = messageQueue[i]
      /\ messageQueue'[n + 1] = event
      /\ \A q : Marks(q) \subseteq 0..n
      /\ \A q : IsTurn(event, q) => Marks(q)' = Marks(q) \cup {n + 1}
      /\ \A q : ~IsTurn(event, q) => Marks(q)' = Marks(q)
      /\ clientIds' = clientIds
  BY <1>2, PolledMarks DEF Poll, sessionVars
<1> HIDE DEF n
<1>4. \A q \in Peer : IsTurn(event, q) <=> event.type # "RECEIVE" /\ q = p
  BY <1>2 DEF IsTurn
<1>5. /\ \A q \in Peer : q # p => link'[q] = link[q]
      /\ \A q \in Peer : link'[q] # None /\ known'[link'[q]] # None =>
            link[q] # None /\ known[link[q]] # None /\ (q = p => event.type = "RECEIVE")
      /\ \A q, r \in Peer : link'[q] = link'[r] /\ link'[q] # None => q = r
      /\ event.type # "RECEIVE" => /\ link[p] # None <=> event.type # "CONNECT"
                                   /\ link'[p] # None <=> event.type = "CONNECT"
      /\ event.type = "RECEIVE" => /\ link' = link
                                   /\ link[p] # None /\ known[link[p]] # None
  <2>1. CASE \E c \in Client : PollConnect(c, p) /\ event.type = "CONNECT"
    <3>1. PICK c \in Client : PollConnect(c, p)
      BY <2>1
    <3>2. /\ link[p] = None /\ \A q \in Peer : link[q] # c
          /\ link' = [link EXCEPT ![p] = c] /\ known' = [known EXCEPT ![c] = None]
      BY <3>1 DEF PollConnect
    <3> QED BY <1>0, <1>1, <2>1, <3>2
  <2>2. CASE PollDisconnect(p) /\ event.type = "DISCONNECT"
    <3>1. /\ link[p] # None /\ link' = [link EXCEPT ![p] = None] /\ known' = known
      BY <2>2 DEF PollDisconnect
    <3> QED BY <1>0, <1>1, <2>2, <3>1
  <2>3. CASE PollReceive(p) /\ event.type = "RECEIVE"
    <3>1. link[p] # None /\ link' = link /\ known' = known /\ known[link[p]] # None
      BY <2>3 DEF PollReceive
    <3> QED BY <1>0, <1>1, <2>3, <3>1
  <2> QED BY <1>2, <2>1, <2>2, <2>3
<1>6. QueueLeadsToLink'
  <2>1. \A q \in Peer : ~IsTurn(event, q) => (link'[q] # None <=> link[q] # None)
    BY <1>4, <1>5
  <2>2. \A q \in Peer : IsTurn(event, q) =>
               /\ link[q] # None <=> event.type # "CONNECT"
               /\ link'[q] # None <=> event.type = "CONNECT"
    BY <1>4, <1>5
  <2> QED BY <1>1, <1>2, <2>1, <2>2, PollKeepsLeads
<1>7. MessagesInSession'
  <2>1. ASSUME NEW q \in Peer, NEW i \in 1..(n + 1),
               messageQueue'[i].type = "RECEIVE", messageQueue'[i].peer = q
        PROVE  q \in DOMAIN clientIds' /\ \A k \in Marks(q)' : k = 0 \/ k > i
    <3>1. CASE i \in 1..n
      <4>1. q \in DOMAIN clientIds /\ \A k \in Marks(q) : k = 0 \/ k > i
        BY <1>1, <1>3, <2>1, <3>1
      <4>2. \A k \in Marks(q)' : k \in Marks(q) \/ k = n + 1
        BY <1>3
      <4> QED BY <1>3, <3>1, <4>1, <4>2
    <3>2. CASE i = n + 1
      <4>1. event.type = "RECEIVE" /\ q = p
        BY <1>2, <1>3, <2>1, <3>2
      <4>2. Marks(q) = {0} /\ link[q] # None
        BY <1>1, <1>5, <4>1
      <4>3. q \in DOMAIN clientIds /\ Marks(q)' = {0}
        BY <1>3, <1>4, <4>1, <4>2, NoTurns
      <4> QED BY <1>3, <4>3
    <3> QED BY <1>3, <3>1, <3>2
  <2>2. ASSUME NEW q \in Peer, link'[q] # None, known'[link'[q]] # None
        PROVE  Marks(q)' = {0}
    <3>1. Marks(q) = {0} /\ ~IsTurn(event, q)
      BY <1>1, <1>4, <1>5, <2>2
    <3> QED BY <1>3, <3>1
  <2>3. phase' # "systems"
    BY <1>3
  <2> QED BY <1>3, <1>5, <2>1, <2>2, <2>3 DEF MessagesInSession
<1> QED BY <1>6, <1>7 DEF QueueInv

(* The first turn of a slot changes its session; a message changes none.    *)
LEMMA FirstTurn ==
    ASSUME ServerInv, QueueInv, NEW type, Handle(type)
    PROVE  LET p == Head(messageQueue).peer
           IN  /\ p \in Peer
               /\ type = "CONNECT" => p \notin DOMAIN clientIds
               /\ type = "DISCONNECT" => p \in DOMAIN clientIds
               /\ type = "RECEIVE" => p \in DOMAIN clientIds
               /\ type # "RECEIVE" => 1 \in Marks(p)
<1> DEFINE p == Head(messageQueue).peer
           n == Len(messageQueue)
<1>1. /\ n \in Nat /\ n >= 1 /\ p \in Peer /\ Head(messageQueue).type = type
      /\ messageQueue[1] = Head(messageQueue)
      /\ Marks(p) \subseteq 0..n /\ 0 \in Marks(p)
      /\ 1 \in Marks(p) <=> IsTurn(Head(messageQueue), p)
      /\ OpenAt(p, 1) <=> type = "CONNECT"
      /\ OpenAt(p, 0) <=> p \in DOMAIN clientIds
  BY PoppedMarks DEF OpenAt
<1>2. type # "RECEIVE" => 1 \in Marks(p)
  BY <1>1 DEF IsTurn
<1>3. CASE type = "RECEIVE"
  <2>1. 1 \in 1..n
    BY <1>1
  <2> HIDE DEF p, n
  <2>2. p \in DOMAIN clientIds
    BY <1>1, <1>3, <2>1 DEF QueueInv, MessagesInSession, n, p
  <2> QED BY <1>1, <1>3, <2>2 DEF p
<1>4. CASE type # "RECEIVE"
  <2>1. \A k \in Marks(p) : ~(0 < k /\ k < 1)
    BY <1>1
  <2>2. OpenAt(p, 1) <=> ~OpenAt(p, 0)
    BY <1>1, <1>2, <1>4, <2>1 DEF QueueInv, QueueLeadsToLink
  <2> QED BY <1>1, <1>2, <1>4, <2>2
<1> QED BY <1>3, <1>4

LEMMA HandleKeepsQueue ==
    ASSUME ServerInv, QueueInv,
           HandleClientConnection \/ HandleClientDisconnection \/ handleClientMessage
    PROVE  QueueInv'
<1> DEFINE p == Head(messageQueue).peer
<1>1. CASE HandleClientConnection
  <2>1. Handle("CONNECT") /\ DOMAIN clientIds' = DOMAIN clientIds \cup {p}
    BY <1>1 DEF HandleClientConnection
  <2>2. \A q \in Peer : IsTurn(Head(messageQueue), q) <=> q = p
    BY <2>1 DEF Handle, IsTurn
  <2> QED BY <2>1, <2>2, PopKeepsQueue
<1>2. CASE HandleClientDisconnection
  <2>1. Handle("DISCONNECT") /\ DOMAIN clientIds' = DOMAIN clientIds \ {p}
    BY <1>2 DEF HandleClientDisconnection, EraseSession
  <2>2. \A q \in Peer : IsTurn(Head(messageQueue), q) <=> q = p
    BY <2>1 DEF Handle, IsTurn
  <2> QED BY <2>1, <2>2, PopKeepsQueue
<1>3. CASE handleClientMessage
  <2>1. Handle("RECEIVE") /\ DOMAIN clientIds' = DOMAIN clientIds \cup {p}
    BY <1>3 DEF handleClientMessage
  <2>2. p \in DOMAIN clientIds
    BY <2>1, FirstTurn
  <2>3. \A q \in Peer : ~IsTurn(Head(messageQueue), q)
    BY <2>1 DEF Handle, IsTurn
  <2> QED BY <2>1, <2>2, <2>3, PopKeepsQueue
<1> QED BY <1>1, <1>2, <1>3

(* The systems run with an empty queue: the sessions are ENet's slots.      *)
LEMMA EmptyMarks ==
    ASSUME messageQueue = << >>
    PROVE  \A p : Marks(p) = {0}
BY EmptySeq DEF Marks

LEMMA SystemsKeepQueue ==
    ASSUME ServerInv, QueueInv, Systems
    PROVE  QueueInv'
<1>1. /\ messageQueue = << >> /\ messageQueue' = messageQueue /\ phase' = "poll"
      /\ link' = link /\ clientIds' = clientIds
  BY DEF Systems, QueueInv, MessagesInSession
<1>2. QueueLeadsToLink'
  BY <1>1 DEF QueueInv, QueueLeadsToLink, Marks, OpenAt
<1>3. 1..Len(messageQueue') = {}
  BY <1>1, EmptySeq
<1>4. \A p : Marks(p)' = {0}
  BY <1>1, EmptyMarks DEF Marks
<1> QED BY <1>1, <1>2, <1>3, <1>4 DEF QueueInv, MessagesInSession

LEMMA QueueStep == ServerInv /\ QueueInv /\ [Next]_vars => QueueInv'
<1> SUFFICES ASSUME ServerInv, QueueInv, [Next]_vars PROVE QueueInv'
  OBVIOUS
<1>1. ASSUME NEW p \in Peer,
             (\E c \in Client : PollConnect(c, p)) \/ PollDisconnect(p) \/ PollReceive(p)
      PROVE  QueueInv'
  BY <1>1, PollKeepsQueue
<1>2. CASE HandleClientConnection \/ HandleClientDisconnection \/ handleClientMessage
  BY <1>2, HandleKeepsQueue
<1>3. CASE PollEnd \/ DrainEnd \/ UNCHANGED vars
  <2>1. /\ UNCHANGED <<link, messageQueue, clientIds, known>>
        /\ phase' = "systems" => messageQueue = << >>
    BY <1>3 DEF PollEnd, DrainEnd, sessionVars, vars, QueueInv, MessagesInSession
  <2> QED
    BY <2>1 DEF QueueInv, QueueLeadsToLink, MessagesInSession, Marks, OpenAt
<1>4. CASE RunSystems \/ SpawnMissile \/ KillMissile
  BY <1>4, SystemsKeepQueue DEF RunSystems, SpawnMissile, KillMissile
<1> QED BY <1>1, <1>2, <1>3, <1>4 DEF Next

-----------------------------------------------------------------------------
(* Ships in order.                                                          *)

(* OrderlySessions, for a registry and sessions that may be the next ones.  *)
LEMMA OrderlyFacts ==
    ASSUME OrderInv, inOrder
    PROVE  /\ \A p, q \in DOMAIN clientIds : clientIds[p] = clientIds[q] => p = q
           /\ \A p \in DOMAIN clientIds : clientIds[p] \in 0 .. nextClientId - 1
           /\ \A i \in 0 .. nextClientId - 1 : \E p \in DOMAIN clientIds : clientIds[p] = i
           /\ DOMAIN clientToEntity = 0 .. nextClientId - 1 /\ nextClientId \in Nat
           /\ registry.componentsArray[Player]
                  = {clientToEntity[i] : i \in DOMAIN clientToEntity}
           /\ registry.componentsArray[Controllable] = registry.componentsArray[Player]
           /\ \A p \in Peer : link[p] # None /\ known[link[p]] # None =>
                 known[link[p]] = ShipOf(p)
           /\ \A i \in 1..Len(messageQueue) : messageQueue[i].type = "RECEIVE" =>
                 messageQueue[i].entity = ShipOf(messageQueue[i].peer)
           /\ \A p \in DOMAIN clientIds : Marks(p) = {0} =>
                 welcome[link[p]] = [clientId |-> clientIds[p], entityId |-> ShipOf(p)]
<1>1. {clientIds[p] : p \in DOMAIN clientIds} = 0 .. nextClientId - 1
  BY DEF OrderInv, OrderlySessions
<1> QED BY <1>1 DEF OrderInv, OrderlySessions, ShipsNamed, ServerInv, TypeOK

LEMMA PollKeepsShips ==
    ASSUME OrderInv, NEW p \in Peer,
           (\E c \in Client : PollConnect(c, p)) \/ PollDisconnect(p) \/ PollReceive(p)
    PROVE  (OrderlySessions /\ ShipsNamed)'
<1> DEFINE n == Len(messageQueue)
<1> USE DEF OrderInv
<1>0. /\ link \in [Peer -> Client \cup {None}] /\ None \notin Client
      /\ known \in [Client -> Nat \cup {None}] /\ messageQueue \in Seq(Event)
      /\ welcome \in [Client -> [clientId : Nat, entityId : Nat] \cup {None}]
      /\ DOMAIN clientIds \subseteq Peer
  BY ClientAssumption DEF ServerInv, TypeOK
<1>1. PICK event \in Event :
        /\ Poll(event) /\ event.peer = p
        /\ \/ \E c \in Client : PollConnect(c, p) /\ event.type = "CONNECT"
           \/ PollDisconnect(p) /\ event.type = "DISCONNECT"
           \/ /\ PollReceive(p) /\ event.type = "RECEIVE"
              /\ event.entity = known[link[p]]
  BY PolledEvent
<1>2. /\ n \in Nat /\ Len(messageQueue') = n + 1
      /\ \A i \in 1..n : messageQueue'[i] = messageQueue[i]
      /\ messageQueue'[n + 1] = event
      /\ \A q : Marks(q) \subseteq 0..n
      /\ \A q : IsTurn(event, q) => Marks(q)' = Marks(q) \cup {n + 1}
      /\ \A q : ~IsTurn(event, q) => Marks(q)' = Marks(q)
  BY <1>1, PolledMarks
<1>3. UNCHANGED <<clientIds, clientToEntity, nextClientId, registry, inOrder>>
  BY <1>1 DEF Poll, sessionVars
<1> HIDE DEF n
<1>4. OrderlySessions'
  BY <1>3 DEF OrderlySessions
<1> SUFFICES ASSUME inOrder PROVE ShipsNamed'
  BY <1>3, <1>4 DEF ShipsNamed
<1>5. \A q : ShipOf(q)' = ShipOf(q)
  BY <1>3 DEF ShipOf
<1>6. /\ \A q \in Peer : link[q] # None /\ known[link[q]] # None => known[link[q]] = ShipOf(q)
      /\ \A i \in 1..n : messageQueue[i].type = "RECEIVE" =>
            messageQueue[i].entity = ShipOf(messageQueue[i].peer)
      /\ \A q \in DOMAIN clientIds : Marks(q) = {0} =>
            welcome[link[q]] = [clientId |-> clientIds[q], entityId |-> ShipOf(q)]
  BY OrderlyFacts DEF n
<1>7. /\ \A q \in Peer : link'[q] # None /\ known'[link'[q]] # None =>
            /\ link[q] # None /\ known[link[q]] # None /\ known'[link'[q]] = known[link[q]]
      /\ \A q \in Peer : link[q] # None /\ (event.type = "RECEIVE" \/ q # p) =>
            link'[q] = link[q] /\ welcome'[link'[q]] = welcome[link[q]]
      /\ event.type = "RECEIVE" => link[p] # None /\ known[link[p]] # None
  <2>1. CASE \E c \in Client : PollConnect(c, p) /\ event.type = "CONNECT"
    <3>1. PICK c \in Client : PollConnect(c, p)
      BY <2>1
    <3>2. /\ link[p] = None /\ \A q \in Peer : link[q] # c
          /\ link' = [link EXCEPT ![p] = c] /\ known' = [known EXCEPT ![c] = None]
          /\ welcome' = [welcome EXCEPT ![c] = None]
      BY <3>1 DEF PollConnect
    <3> QED BY <1>0, <2>1, <3>2
  <2>2. CASE PollDisconnect(p) /\ event.type = "DISCONNECT"
    <3>1. link' = [link EXCEPT ![p] = None] /\ known' = known /\ welcome' = welcome
      BY <2>2 DEF PollDisconnect
    <3> QED BY <1>0, <2>2, <3>1
  <2>3. CASE PollReceive(p) /\ event.type = "RECEIVE"
    <3>1. /\ link[p] # None /\ link' = link /\ known' = known /\ known[link[p]] # None
          /\ welcome' = welcome
      BY <2>3 DEF PollReceive
    <3> QED BY <1>0, <2>3, <3>1
  <2> QED BY <1>1, <2>1, <2>2, <2>3
<1>8. \A q \in Peer : link'[q] # None /\ known'[link'[q]] # None =>
          known'[link'[q]] = ShipOf(q)'
  BY <1>5, <1>6, <1>7
<1>9. ASSUME NEW i \in 1..Len(messageQueue'), messageQueue'[i].type = "RECEIVE"
      PROVE  messageQueue'[i].entity = ShipOf(messageQueue[i].peer)'
  <2>1. CASE i \in 1..n
    <3>1. messageQueue'[i].entity = ShipOf(messageQueue[i].peer)
      BY <1>2, <1>6, <1>9, <2>1
    <3> QED BY <1>2, <1>3, <2>1, <3>1 DEF ShipOf
  <2>2. CASE i = n + 1
    <3>1. messageQueue'[i].entity = ShipOf(p) /\ messageQueue'[i].peer = p
      BY <1>1, <1>2, <1>6, <1>7, <1>9, <2>2
    <3> QED BY <1>3, <3>1 DEF ShipOf
  <2> QED BY <1>2, <2>1, <2>2
<1>10. ASSUME NEW q \in DOMAIN clientIds, Marks(q)' = {0}
       PROVE  welcome'[link'[q]] = [clientId |-> clientIds[q], entityId |-> ShipOf(q)]
  <2>1. ~IsTurn(event, q) /\ Marks(q) = {0} /\ q \in Peer
    <3>1. n + 1 # 0
      BY <1>2
    <3>2. IsTurn(event, q) => n + 1 \in Marks(q)'
      BY <1>2
    <3>3. ~IsTurn(event, q)
      BY <1>10, <3>1, <3>2
    <3> QED BY <1>0, <1>2, <1>10, <3>3
  <2>2. link[q] # None
    BY <2>1, NoTurns
  <2>3. event.type = "RECEIVE" \/ q # p
    BY <1>1, <2>1 DEF IsTurn
  <2> QED BY <1>6, <1>7, <2>1, <2>2, <2>3
<1> QED BY <1>3, <1>5, <1>8, <1>9, <1>10 DEF ShipsNamed, ShipOf

(* What a handled event must leave alone for the others' ships to be named  *)
(* as before: the session and the ship of every slot but its own.           *)
LEMMA PopKeepsShips ==
    ASSUME OrderInv, inOrder, NEW type, Handle(type), NEW p \in Peer,
           p = Head(messageQueue).peer,
           \A q \in DOMAIN clientIds : q # p \/ type = "RECEIVE" =>
               /\ q \in DOMAIN clientIds' /\ clientIds'[q] = clientIds[q]
               /\ ShipOf(q)' = ShipOf(q)
               /\ link[q] # None => welcome'[link[q]] = welcome[link[q]],
           \A q \in DOMAIN clientIds' : q # p \/ type = "RECEIVE" => q \in DOMAIN clientIds,
           type = "DISCONNECT" => p \notin DOMAIN clientIds',
           type = "CONNECT" /\ link[p] # None =>
               welcome'[link[p]] = [clientId |-> clientIds'[p], entityId |-> ShipOf(p)']
    PROVE  ShipsNamed'
<1> USE DEF OrderInv
<1> DEFINE n == Len(messageQueue)
           head == Head(messageQueue)
<1>1. /\ n \in Nat /\ n >= 1 /\ Len(messageQueue') = n - 1
      /\ messageQueue[1] = head /\ head.type = type
      /\ \A i \in 1..(n - 1) : messageQueue'[i] = messageQueue[i + 1]
      /\ \A q : Marks(q) \subseteq 0..n /\ 0 \in Marks(q)
      /\ \A q : 1 \in Marks(q) <=> IsTurn(head, q)
      /\ \A q : OpenAt(q, 1) <=> type = "CONNECT"
      /\ \A q : Marks(q)' = {0} \cup {i \in 1..(n - 1) : i + 1 \in Marks(q)}
  BY PoppedMarks
<1>2. phase' = phase /\ link' = link /\ known' = known
  BY DEF Handle
<1>3. messageQueue \in Seq(Event)
  BY DEF ServerInv, TypeOK
<1> HIDE DEF n, head
<1>4. \A q \in Peer : IsTurn(head, q) <=> q = p /\ type # "RECEIVE"
  BY <1>1 DEF IsTurn, head
<1>5. /\ \A q \in Peer : link[q] # None /\ known[link[q]] # None => known[link[q]] = ShipOf(q)
      /\ \A i \in 1..n : messageQueue[i].type = "RECEIVE" =>
            messageQueue[i].entity = ShipOf(messageQueue[i].peer)
      /\ \A q \in DOMAIN clientIds : Marks(q) = {0} =>
            welcome[link[q]] = [clientId |-> clientIds[q], entityId |-> ShipOf(q)]
  BY OrderlyFacts DEF n
<1>6. ASSUME NEW q \in Peer, link[q] # None, known[link[q]] # None
      PROVE  known[link[q]] = ShipOf(q)'
  <2>1. Marks(q) = {0}
    BY <1>6 DEF QueueInv, MessagesInSession
  <2>2. ~IsTurn(head, q) /\ q \in DOMAIN clientIds
    BY <1>1, <1>6, <2>1, NoTurns
  <2> QED BY <1>4, <1>5, <1>6, <2>2
<1>7. ASSUME NEW i \in 1..(n - 1), messageQueue'[i].type = "RECEIVE",
             NEW q, q = messageQueue'[i].peer
      PROVE  messageQueue'[i].entity = ShipOf(q)'
  <2>1. i + 1 \in 1..n /\ messageQueue'[i] = messageQueue[i + 1] /\ i + 1 > 1
    BY <1>1
  <2>2. q \in Peer
    <3>1. messageQueue[i + 1] \in Event
      BY <1>3, <2>1, ElementOfSeq DEF n
    <3> QED BY <1>7, <2>1, <3>1 DEF Event
  <2>3. q \in DOMAIN clientIds /\ \A k \in Marks(q) : k = 0 \/ k > i + 1
    BY <1>7, <2>1, <2>2 DEF QueueInv, MessagesInSession, n
  <2>4. ~IsTurn(head, q)
    BY <1>1, <2>1, <2>3
  <2> QED BY <1>4, <1>5, <1>7, <2>1, <2>2, <2>3, <2>4
<1>8. ASSUME NEW q \in DOMAIN clientIds', Marks(q)' = {0}, q \in Peer
      PROVE  welcome'[link[q]] = [clientId |-> clientIds'[q], entityId |-> ShipOf(q)']
  <2>1. \A k \in Marks(q) : k = 0 \/ k = 1
    <3> SUFFICES ASSUME NEW k \in Marks(q), k # 0, k # 1 PROVE FALSE
      OBVIOUS
    <3>1. k \in 0..n
      BY <1>1
    <3>2. k - 1 \in 1..(n - 1) /\ (k - 1) + 1 = k /\ k - 1 # 0
      BY <1>1, <3>1
    <3>3. k - 1 \in Marks(q)'
      BY <1>1, <3>2
    <3> QED BY <1>8, <3>2, <3>3
  <2>2. CASE q # p \/ type = "RECEIVE"
    <3>1. Marks(q) = {0} /\ q \in DOMAIN clientIds
      BY <1>1, <1>4, <1>8, <2>1, <2>2
    <3>2. link[q] # None
      BY <1>8, <3>1, NoTurns
    <3> QED BY <1>5, <2>2, <3>1, <3>2
  <2>3. CASE q = p /\ type # "RECEIVE"
    <3>1. head.type = "CONNECT" /\ type = "CONNECT"
      <4>1. head \in Event
        BY <1>1, <1>3, ElementOfSeq DEF n
      <4> QED BY <1>1, <1>8, <2>3, <4>1 DEF Event
    <3>2. 1 \in Marks(q) /\ \A k \in Marks(q) : k <= 1
      BY <1>1, <1>4, <2>1, <2>3
    <3>3. link[q] # None
      BY <1>1, <1>8, <3>1, <3>2 DEF QueueInv, QueueLeadsToLink
    <3> QED BY <2>3, <3>1, <3>3
  <2> QED BY <2>2, <2>3
<1>9. DOMAIN clientIds' \subseteq Peer
  <2>1. DOMAIN clientIds \subseteq Peer
    BY DEF ServerInv, TypeOK
  <2> QED BY <2>1
<1>10. \A q \in DOMAIN clientIds' : Marks(q)' = {0} =>
          welcome'[link'[q]] = [clientId |-> clientIds'[q], entityId |-> ShipOf(q)']
  BY <1>2, <1>8, <1>9
<1>11. \A i \in 1..Len(messageQueue') : messageQueue'[i].type = "RECEIVE" =>
          messageQueue'[i].entity = ShipOf(messageQueue[i].peer)'
  BY <1>1, <1>7 DEF ShipOf
<1> QED BY <1>2, <1>6, <1>10, <1>11 DEF ShipsNamed

LEMMA ConnectionKeepsShips ==
    ASSUME OrderInv, HandleClientConnection
    PROVE  (OrderlySessions /\ ShipsNamed)'
<1> USE DEF OrderInv
<1> DEFINE e == playerEntityId
           n == nextClientId
<1>0. PICK p \in Peer : p = Head(messageQueue).peer
  BY HandleFacts DEF HandleClientConnection
<1>1. /\ Handle("CONNECT") /\ inOrder' = inOrder
      /\ clientIds' = [q \in DOMAIN clientIds \cup {p} |->
                          IF q = p THEN n ELSE clientIds[q]]
      /\ clientToEntity' = [i \in DOMAIN clientToEntity \cup {n} |->
                               IF i = n THEN e ELSE clientToEntity[i]]
      /\ nextClientId' = n + 1
      /\ welcome' = IF link[p] = None THEN welcome
                    ELSE [welcome EXCEPT ![link[p]] = [clientId |-> n, entityId |-> e]]
      /\ registry' = Added(Spawned(registry), e, {Player, Controllable})
  BY <1>0 DEF HandleClientConnection, SendWelcome, WithPlayer, playerEntityId
<1>2. p \in Peer /\ p \notin DOMAIN clientIds
  BY <1>0, <1>1, FirstTurn
<1> SUFFICES ASSUME inOrder PROVE (OrderlySessions /\ ShipsNamed)'
  BY <1>1 DEF OrderlySessions, ShipsNamed
<1>3. /\ \A q, r \in DOMAIN clientIds : clientIds[q] = clientIds[r] => q = r
      /\ \A q \in DOMAIN clientIds : clientIds[q] \in 0 .. n - 1
      /\ \A i \in 0 .. n - 1 : \E q \in DOMAIN clientIds : clientIds[q] = i
      /\ DOMAIN clientToEntity = 0 .. n - 1 /\ n \in Nat
      /\ registry.componentsArray[Player]
             = {clientToEntity[i] : i \in DOMAIN clientToEntity}
      /\ registry.componentsArray[Controllable] = registry.componentsArray[Player]
  BY OrderlyFacts
<1>4. /\ registry'.componentsArray[Player] = registry.componentsArray[Player] \cup {e}
      /\ registry'.componentsArray[Controllable]
             = registry.componentsArray[Controllable] \cup {e}
  <2>1. /\ registry \in RegistryType /\ WellManaged(registry, GameComponent)
        /\ GameComponent \in SUBSET Component
    BY ComponentFacts DEF ServerInv, TypeOK, EntitiesWellManaged
  <2>2. /\ Spawned(registry) \in RegistryType /\ e \in Nat
        /\ Spawned(registry).componentsArray = registry.componentsArray
    BY <2>1, SpawnedFields DEF playerEntityId
  <2> HIDE DEF e
  <2> QED BY <1>1, <2>2, AddedFields, ComponentFacts
<1> HIDE DEF e, n
<1>5. OrderlySessions'
  <2>1. 0 .. (n + 1) - 1 = (0 .. n - 1) \cup {n} /\ n \notin 0 .. n - 1
    BY <1>3
  <2>2. DOMAIN clientToEntity' = 0 .. nextClientId' - 1
    BY <1>1, <1>3, <2>1
  <2>3. \A q, r \in DOMAIN clientIds' : clientIds'[q] = clientIds'[r] => q = r
    BY <1>1, <1>3, <2>1
  <2>4. {clientIds'[q] : q \in DOMAIN clientIds'} = 0 .. nextClientId' - 1
    <3>1. \A q \in DOMAIN clientIds' : clientIds'[q] \in 0 .. nextClientId' - 1
      BY <1>1, <1>3, <2>1
    <3>2. \A i \in 0 .. n - 1 : \E q \in DOMAIN clientIds' : clientIds'[q] = i
      BY <1>1, <1>2, <1>3
    <3>3. p \in DOMAIN clientIds' /\ clientIds'[p] = n
      BY <1>1
    <3>4. nextClientId' - 1 = n /\ 0 .. n = (0 .. n - 1) \cup {n}
      BY <1>1, <1>3
    <3>5. \A i \in 0 .. n : \E q \in DOMAIN clientIds' : clientIds'[q] = i
      BY <3>2, <3>3, <3>4
    <3> QED BY <3>1, <3>4, <3>5
  <2>5. {clientToEntity'[i] : i \in DOMAIN clientToEntity'}
           = {clientToEntity[i] : i \in DOMAIN clientToEntity} \cup {e}
    <3>1. /\ DOMAIN clientToEntity' = DOMAIN clientToEntity \cup {n}
          /\ clientToEntity'[n] = e
          /\ \A i \in DOMAIN clientToEntity : clientToEntity'[i] = clientToEntity[i]
      BY <1>1, <1>3, <2>1
    <3> QED BY <3>1
  <2> QED BY <1>3, <1>4, <2>2, <2>3, <2>4, <2>5 DEF OrderlySessions
<1>6. ShipsNamed'
  <2>1. ASSUME NEW q \in DOMAIN clientIds
        PROVE  /\ q \in DOMAIN clientIds' /\ clientIds'[q] = clientIds[q] /\ q # p
               /\ ShipOf(q)' = ShipOf(q)
               /\ link[q] # None => welcome'[link[q]] = welcome[link[q]]
    <3>1. q \in DOMAIN clientIds' /\ clientIds'[q] = clientIds[q] /\ q # p /\ q \in Peer
      BY <1>1, <1>2 DEF ServerInv, TypeOK
    <3>2. ShipOf(q)' = ShipOf(q)
      BY <1>1, <1>3, <3>1 DEF ShipOf
    <3>3. link[q] # None => link[q] # link[p] \/ link[p] = None
      BY <1>2, <3>1 DEF QueueInv, MessagesInSession
    <3>4. link[q] \in Client \cup {None}
      BY <3>1 DEF ServerInv, TypeOK
    <3>5. link[q] # None => welcome'[link[q]] = welcome[link[q]]
      BY <1>1, <3>3, <3>4 DEF ServerInv, TypeOK
    <3> QED BY <3>1, <3>2, <3>5
  <2>2. link[p] # None =>
            welcome'[link[p]] = [clientId |-> clientIds'[p], entityId |-> ShipOf(p)']
    <3>1. clientIds'[p] = n /\ clientToEntity'[clientIds'[p]] = e
      BY <1>1
    <3>2. link[p] # None => link[p] \in Client
      BY <1>2 DEF ServerInv, TypeOK
    <3>3. link[p] # None => welcome'[link[p]] = [clientId |-> n, entityId |-> e]
      BY <1>1, <3>2 DEF ServerInv, TypeOK
    <3> QED BY <3>1, <3>3 DEF ShipOf
  <2>3. DOMAIN clientIds' = DOMAIN clientIds \cup {p}
    BY <1>1
  <2> QED BY <1>0, <1>1, <1>2, <2>1, <2>2, <2>3, PopKeepsShips
<1> QED BY <1>5, <1>6

LEMMA DisconnectionKeepsShips ==
    ASSUME OrderInv, HandleClientDisconnection
    PROVE  (OrderlySessions /\ ShipsNamed)'
<1> USE DEF OrderInv
<1>0. PICK p \in Peer : p = Head(messageQueue).peer
  BY HandleFacts DEF HandleClientDisconnection
<1>1. Handle("DISCONNECT") /\ p \in DOMAIN clientIds
  <2>1. Handle("DISCONNECT")
    BY DEF HandleClientDisconnection
  <2> QED BY <1>0, <2>1, FirstTurn
<1>2. PICK id : id = clientIds[p]
  OBVIOUS
<1>3. /\ clientIds' = [q \in DOMAIN clientIds \ {p} |-> clientIds[q]]
      /\ inOrder' = (inOrder /\ id = nextClientId - 1)
      /\ welcome' = welcome
      /\ RemovePlayer(id)
  BY <1>0, <1>1, <1>2 DEF HandleClientDisconnection, EraseSession, ClientIdOf
<1> SUFFICES ASSUME inOrder, id = nextClientId - 1 PROVE (OrderlySessions /\ ShipsNamed)'
  <2>1. inOrder' => inOrder /\ id = nextClientId - 1
    BY <1>3
  <2> QED BY <2>1 DEF OrderlySessions, ShipsNamed
<1>4. /\ \A q, r \in DOMAIN clientIds : clientIds[q] = clientIds[r] => q = r
      /\ \A q \in DOMAIN clientIds : clientIds[q] \in 0 .. nextClientId - 1
      /\ \A i \in 0 .. nextClientId - 1 : \E q \in DOMAIN clientIds : clientIds[q] = i
      /\ DOMAIN clientToEntity = 0 .. nextClientId - 1 /\ nextClientId \in Nat
      /\ registry.componentsArray[Player]
             = {clientToEntity[i] : i \in DOMAIN clientToEntity}
      /\ registry.componentsArray[Controllable] = registry.componentsArray[Player]
  BY OrderlyFacts
<1>5. id \in 0 .. nextClientId - 1 /\ id \in DOMAIN clientToEntity /\ id \in Nat
  BY <1>1, <1>2, <1>4
<1>6. /\ nextClientId' = id /\ registry' = Killed(registry, clientToEntity[id])
      /\ clientToEntity' = [i \in DOMAIN clientToEntity \ {id} |-> clientToEntity[i]]
  BY <1>3, <1>5 DEF RemovePlayer, MappingWithout
<1>7. 0 .. nextClientId - 1 = (0 .. id - 1) \cup {id} /\ id \notin 0 .. id - 1
  BY <1>4, <1>5
<1>8. \A i, j \in DOMAIN clientToEntity : clientToEntity[i] = clientToEntity[j] => i = j
  BY DEF ServerInv, MappedPlayersLive
<1>9. /\ registry'.componentsArray[Player]
             = registry.componentsArray[Player] \ {clientToEntity[id]}
      /\ registry'.componentsArray[Controllable]
             = registry.componentsArray[Controllable] \ {clientToEntity[id]}
  <2>1. Has(registry, Player, clientToEntity[id])
    BY <1>5 DEF ServerInv, MappedPlayersLive
  <2>2. /\ clientToEntity[id] \in Nat /\ ValidIndex(registry, clientToEntity[id])
        /\ clientToEntity[id] \notin FreeIds(registry)
    BY <2>1, SeenIsLive, ComponentFacts
  <2>3. /\ registry \in RegistryType /\ WellManaged(registry, GameComponent)
        /\ GameComponent \in SUBSET Component
    BY ComponentFacts DEF ServerInv, TypeOK, EntitiesWellManaged
  <2> QED BY <1>6, <2>2, <2>3, KilledFields, ComponentFacts
<1>10. OrderlySessions'
  <2>1. DOMAIN clientToEntity' = 0 .. nextClientId' - 1
    BY <1>4, <1>6, <1>7
  <2>2. \A q, r \in DOMAIN clientIds' : clientIds'[q] = clientIds'[r] => q = r
    BY <1>3, <1>4
  <2>3. {clientIds'[q] : q \in DOMAIN clientIds'} = 0 .. nextClientId' - 1
    <3>1. \A q \in DOMAIN clientIds' : clientIds'[q] \in 0 .. id - 1
      BY <1>1, <1>2, <1>3, <1>4, <1>7
    <3>2. ASSUME NEW i \in 0 .. id - 1
          PROVE  \E q \in DOMAIN clientIds' : clientIds'[q] = i
      <4>1. PICK q \in DOMAIN clientIds : clientIds[q] = i
        BY <1>4, <1>7
      <4>2. q # p
        BY <1>2, <1>7, <4>1
      <4> QED BY <1>3, <4>1, <4>2
    <3> QED BY <1>6, <3>1, <3>2
  <2>4. registry'.componentsArray[Player]
           = {clientToEntity'[i] : i \in DOMAIN clientToEntity'}
    <3>1. /\ DOMAIN clientToEntity' = DOMAIN clientToEntity \ {id}
          /\ \A i \in DOMAIN clientToEntity' : clientToEntity'[i] = clientToEntity[i]
      BY <1>6
    <3>2. {clientToEntity'[i] : i \in DOMAIN clientToEntity'}
             = {clientToEntity[i] : i \in DOMAIN clientToEntity} \ {clientToEntity[id]}
      BY <1>5, <1>8, <3>1
    <3> QED BY <1>4, <1>9, <3>2
  <2>5. registry'.componentsArray[Controllable] = registry'.componentsArray[Player]
    BY <1>4, <1>9
  <2> QED BY <2>1, <2>2, <2>3, <2>4, <2>5 DEF OrderlySessions
<1>11. ShipsNamed'
  <2>1. ASSUME NEW q \in DOMAIN clientIds, q # p
        PROVE  /\ q \in DOMAIN clientIds' /\ clientIds'[q] = clientIds[q]
               /\ ShipOf(q)' = ShipOf(q)
               /\ link[q] # None => welcome'[link[q]] = welcome[link[q]]
    <3>1. q \in DOMAIN clientIds' /\ clientIds'[q] = clientIds[q]
      BY <1>3, <2>1
    <3>2. clientIds[q] \in DOMAIN clientToEntity \ {id}
      BY <1>1, <1>2, <1>4, <2>1
    <3>3. ShipOf(q)' = ShipOf(q)
      BY <1>6, <3>1, <3>2 DEF ShipOf
    <3> QED BY <1>3, <3>1, <3>3
  <2>2. DOMAIN clientIds' = DOMAIN clientIds \ {p}
    BY <1>3
  <2>0. PICK type : type = "DISCONNECT"
    OBVIOUS
  <2>3. /\ \A q \in DOMAIN clientIds : q # p \/ type = "RECEIVE" =>
              /\ q \in DOMAIN clientIds' /\ clientIds'[q] = clientIds[q]
              /\ ShipOf(q)' = ShipOf(q)
              /\ link[q] # None => welcome'[link[q]] = welcome[link[q]]
        /\ \A q \in DOMAIN clientIds' : q # p \/ type = "RECEIVE" => q \in DOMAIN clientIds
        /\ type = "DISCONNECT" => p \notin DOMAIN clientIds'
        /\ type = "CONNECT" /\ link[p] # None =>
              welcome'[link[p]] = [clientId |-> clientIds'[p], entityId |-> ShipOf(p)']
        /\ Handle(type)
    BY <1>1, <2>0, <2>1, <2>2
  <2> QED BY <1>0, <2>3, PopKeepsShips
<1> QED BY <1>10, <1>11

(* A key message of a session in order names the sender's own ship, which   *)
(* has a Controllable already.                                              *)
LEMMA MessageKeepsShips ==
    ASSUME OrderInv, handleClientMessage
    PROVE  (OrderlySessions /\ ShipsNamed)'
<1> USE DEF OrderInv
<1> DEFINE m == Head(messageQueue)
<1>0. PICK p \in Peer : p = m.peer
  BY HandleFacts DEF handleClientMessage
<1>1. Handle("RECEIVE") /\ UNCHANGED <<clientToEntity, nextClientId, welcome, inOrder>>
  BY DEF handleClientMessage
<1>2. p \in DOMAIN clientIds
  BY <1>0, <1>1, FirstTurn
<1> SUFFICES ASSUME inOrder PROVE (OrderlySessions /\ ShipsNamed)'
  BY <1>1 DEF OrderlySessions, ShipsNamed
<1>3. /\ DOMAIN clientIds' = DOMAIN clientIds
      /\ \A q \in DOMAIN clientIds : clientIds'[q] = clientIds[q]
  <2>1. clientIds' = [q \in DOMAIN clientIds \cup {p} |-> ClientIdOf(q)]
    BY <1>0 DEF handleClientMessage
  <2> QED BY <1>2, <2>1 DEF ClientIdOf
<1>4. m.type = "RECEIVE" /\ m.entity \in Nat /\ ValidIndex(registry, m.entity)
  BY <1>1, HandleFacts
<1>5. /\ Len(messageQueue) \in Nat /\ Len(messageQueue) >= 1 /\ messageQueue[1] = m
  BY <1>1, PoppedMarks
<1> HIDE DEF m
<1>6. m.entity = clientToEntity[clientIds[p]]
  <2>1. 1 \in 1..Len(messageQueue)
    BY <1>5
  <2> QED BY <1>0, <1>4, <1>5, <2>1, OrderlyFacts DEF ShipOf
<1>7. m.entity \in registry.componentsArray[Controllable]
  <2>1. clientIds[p] \in DOMAIN clientToEntity
    BY <1>2, OrderlyFacts
  <2> QED BY <1>6, <2>1, OrderlyFacts
<1>8. /\ registry'.componentsArray[Player] = registry.componentsArray[Player]
      /\ registry'.componentsArray[Controllable] = registry.componentsArray[Controllable]
  <2>1. registry' = Added(registry, m.entity, {Controllable})
    BY <1>4 DEF handleClientMessage, Updated, SpawnedUpTo, ValidIndex, m
  <2>2. registry \in RegistryType
    BY DEF ServerInv, TypeOK
  <2>3. Player \in Component \ {Controllable} /\ Controllable \in Component
    BY ComponentFacts
  <2>4. /\ registry'.componentsArray[Player] = registry.componentsArray[Player]
        /\ registry'.componentsArray[Controllable]
               = registry.componentsArray[Controllable] \cup {m.entity}
    BY <1>4, <2>1, <2>2, <2>3, AddedFields
  <2> QED BY <1>7, <2>4
<1>9. OrderlySessions'
  <2>1. {clientIds'[q] : q \in DOMAIN clientIds'} = {clientIds[q] : q \in DOMAIN clientIds}
    BY <1>3
  <2> QED BY <1>1, <1>3, <1>8, <2>1 DEF OrderlySessions
<1>10. \A q \in DOMAIN clientIds : ShipOf(q)' = ShipOf(q)
  BY <1>1, <1>3 DEF ShipOf
<1>11. ShipsNamed'
  <2>0. PICK type : type = "RECEIVE"
    OBVIOUS
  <2>1. /\ \A q \in DOMAIN clientIds : q # p \/ type = "RECEIVE" =>
              /\ q \in DOMAIN clientIds' /\ clientIds'[q] = clientIds[q]
              /\ ShipOf(q)' = ShipOf(q)
              /\ link[q] # None => welcome'[link[q]] = welcome[link[q]]
        /\ \A q \in DOMAIN clientIds' : q # p \/ type = "RECEIVE" => q \in DOMAIN clientIds
        /\ type = "DISCONNECT" => p \notin DOMAIN clientIds'
        /\ type = "CONNECT" /\ link[p] # None =>
              welcome'[link[p]] = [clientId |-> clientIds'[p], entityId |-> ShipOf(p)']
        /\ Handle(type)
    BY <1>1, <1>3, <1>10, <2>0
  <2> QED BY <1>0, <2>1, PopKeepsShips DEF m
<1> QED BY <1>9, <1>11

(* What the systems spawn and kill is nobody's ship, and a client that sees *)
(* a Player with the number it was welcomed with steers its own.            *)
LEMMA SystemsKeepShips ==
    ASSUME OrderInv, RunSystems \/ SpawnMissile \/ KillMissile
    PROVE  (OrderlySessions /\ ShipsNamed)'
<1> USE DEF OrderInv
<1>1. Systems
  BY DEF RunSystems, SpawnMissile, KillMissile
<1>2. /\ messageQueue = << >> /\ messageQueue' = messageQueue /\ known' = NowKnown
      /\ UNCHANGED <<link, clientIds, clientToEntity, nextClientId, welcome, inOrder>>
  BY <1>1 DEF Systems, QueueInv, MessagesInSession
<1> SUFFICES ASSUME inOrder PROVE (OrderlySessions /\ ShipsNamed)'
  BY <1>2 DEF OrderlySessions, ShipsNamed
<1>3. /\ registry \in RegistryType /\ WellManaged(registry, GameComponent)
      /\ GameComponent \in SUBSET Component
      /\ registry.componentsArray[Player] \cap registry.componentsArray[Missile] = {}
  BY ComponentFacts DEF ServerInv, TypeOK, EntitiesWellManaged
<1>4. registry.componentsArray[Controllable] = registry.componentsArray[Player]
  BY OrderlyFacts
<1>5. /\ registry'.componentsArray[Player] = registry.componentsArray[Player]
      /\ registry'.componentsArray[Controllable] = registry.componentsArray[Controllable]
  <2>1. CASE RunSystems
    BY <2>1 DEF RunSystems
  <2>2. CASE SpawnMissile
    <3> DEFINE e == SpawnedId(registry)
               r == Spawned(registry)
    <3>1. registry' = Added(r, e, {Missile})
      BY <2>2 DEF SpawnMissile
    <3>2. r \in RegistryType /\ e \in Nat /\ r.componentsArray = registry.componentsArray
      BY <1>3, SpawnedFields
    <3>3. Player \in Component \ {Missile} /\ Controllable \in Component \ {Missile}
      BY ComponentFacts, ComponentAssumption
    <3> HIDE DEF e, r
    <3> QED BY <3>1, <3>2, <3>3, AddedFields
  <2>3. CASE KillMissile
    <3>1. PICK e \in registry.componentsArray[Missile] : registry' = Killed(registry, e)
      BY <2>3 DEF KillMissile
    <3>2. e \in Nat /\ ValidIndex(registry, e) /\ e \notin FreeIds(registry)
      BY <3>1, SeenIsLive, ComponentFacts DEF Has
    <3>3. \A c \in Component :
              registry'.componentsArray[c] = registry.componentsArray[c] \ {e}
      BY <1>3, <3>1, <3>2, KilledFields
    <3>4. e \notin registry.componentsArray[Player]
      BY <1>3, <3>1
    <3> QED BY <1>4, <3>3, <3>4, ComponentFacts
  <2> QED BY <2>1, <2>2, <2>3
<1>6. OrderlySessions'
  BY <1>2, <1>5 DEF OrderlySessions
<1>7. \A p : Marks(p) = {0} /\ Marks(p)' = {0}
  <2>1. \A p : Marks(p) = {0}
    BY <1>2, EmptyMarks
  <2> QED BY <1>2, <2>1 DEF Marks
<1>8. ASSUME NEW p \in Peer, link[p] # None, known'[link[p]] # None
      PROVE  known'[link[p]] = ShipOf(p)
  <2>1. p \in DOMAIN clientIds
    BY <1>7, <1>8, NoTurns
  <2>2. welcome[link[p]].entityId = ShipOf(p)
    <3>1. welcome[link[p]] = [clientId |-> clientIds[p], entityId |-> ShipOf(p)]
      BY <1>7, <2>1, OrderlyFacts
    <3> QED BY <3>1
  <2>3. link[p] \in Client
    BY <1>8 DEF ServerInv, TypeOK
  <2>4. known'[link[p]] = welcome[link[p]].entityId \/ known'[link[p]] = known[link[p]]
    BY <1>2, <2>3 DEF NowKnown
  <2>5. known[link[p]] # None => known[link[p]] = ShipOf(p)
    BY <1>8, OrderlyFacts
  <2> QED BY <1>8, <2>2, <2>4, <2>5
<1>9. \A p : ShipOf(p)' = ShipOf(p)
  BY <1>2 DEF ShipOf
<1>10. 1..Len(messageQueue') = {}
  BY <1>2, EmptySeq
<1>11. \A p \in DOMAIN clientIds :
          welcome[link[p]] = [clientId |-> clientIds[p], entityId |-> ShipOf(p)]
  BY <1>7, OrderlyFacts
<1>12. ShipsNamed'
  BY <1>2, <1>8, <1>9, <1>10, <1>11 DEF ShipsNamed
<1> QED BY <1>6, <1>12

LEMMA OrderInit == Init => OrderInv
<1> SUFFICES ASSUME Init PROVE OrderInv
  OBVIOUS
<1>1. ServerInv
  BY ServerInvInit
<1>2. /\ messageQueue = << >> /\ clientIds = << >> /\ clientToEntity = << >>
      /\ nextClientId = 0 /\ link = [p \in Peer |-> None] /\ phase = "poll"
      /\ registry = Added([Spawned(EmptyRegistry) EXCEPT !.registered = Component],
                          SpawnedId(EmptyRegistry), {Scene})
  BY DEF Init
<1>3. 1..Len(messageQueue) = {} /\ DOMAIN clientIds = {} /\ DOMAIN clientToEntity = {}
  BY <1>2, EmptySeq
<1>4. \A p : Marks(p) = {0}
  BY <1>2, EmptyMarks
<1>5. QueueInv
  <2>1. \A p \in Peer : OpenAt(p, 0) <=> link[p] # None
    BY <1>2, <1>3 DEF OpenAt
  <2>2. QueueLeadsToLink
    BY <1>4, <2>1 DEF QueueLeadsToLink
  <2> QED BY <1>2, <1>3, <1>4, <2>2 DEF QueueInv, MessagesInSession
<1>6. /\ registry.componentsArray[Player] = {}
      /\ registry.componentsArray[Controllable] = {}
  <2>1. Player # Scene /\ Controllable # Scene /\ Player \in Component
        /\ Controllable \in Component
    BY ComponentFacts, ComponentAssumption
  <2> QED BY <1>2, <2>1 DEF Added, Spawned, SpawnedId, EmptyRegistry
<1>7. OrderlySessions
  <2>1. 0 .. nextClientId - 1 = {}
    BY <1>2
  <2> QED BY <1>3, <1>6, <2>1 DEF OrderlySessions
<1>8. ShipsNamed
  BY <1>2, <1>3 DEF ShipsNamed
<1> QED BY <1>1, <1>5, <1>7, <1>8 DEF OrderInv

LEMMA OrderStep == OrderInv /\ [Next]_vars => OrderInv'
<1> SUFFICES ASSUME OrderInv, [Next]_vars PROVE OrderInv'
  OBVIOUS
<1>1. ServerInv' /\ QueueInv'
  BY ServerInvStep, QueueStep DEF OrderInv
<1>2. (OrderlySessions /\ ShipsNamed)'
  <2>1. ASSUME NEW p \in Peer,
               (\E c \in Client : PollConnect(c, p)) \/ PollDisconnect(p) \/ PollReceive(p)
        PROVE  (OrderlySessions /\ ShipsNamed)'
    BY <2>1, PollKeepsShips
  <2>2. CASE HandleClientConnection
    BY <2>2, ConnectionKeepsShips
  <2>3. CASE HandleClientDisconnection
    BY <2>3, DisconnectionKeepsShips
  <2>4. CASE handleClientMessage
    BY <2>4, MessageKeepsShips
  <2>5. CASE PollEnd \/ DrainEnd \/ UNCHANGED vars
    <3>1. UNCHANGED <<link, messageQueue, welcome, known, clientIds, clientToEntity,
                      nextClientId, registry, inOrder>>
      BY <2>5 DEF PollEnd, DrainEnd, vars, sessionVars
    <3> QED BY <3>1 DEF OrderInv, OrderlySessions, ShipsNamed, ShipOf, Marks
  <2>6. CASE RunSystems \/ SpawnMissile \/ KillMissile
    BY <2>6, SystemsKeepShips
  <2> QED BY <2>1, <2>2, <2>3, <2>4, <2>5, <2>6 DEF Next
<1> QED BY <1>1, <1>2 DEF OrderInv

(* The events in the queue are exactly what the sessions and ENet's slots   *)
(* differ by, and a message is handled in the session it was sent in.       *)
THEOREM ServerQueueLeadsToLink == Spec => []QueueInv
<1>1. OrderInv => QueueInv
  BY DEF OrderInv
<1> QED BY <1>1, OrderInit, OrderStep, PTL DEF Spec

(* As long as only the newest client leaves, client ids are distinct and    *)
(* dense, and the ships are exactly those of the clients with a session.    *)
THEOREM ServerSessionsOrderly == Spec => []OrderlySessions
<1>1. OrderInv => OrderlySessions
  BY DEF OrderInv
<1> QED BY <1>1, OrderInit, OrderStep, PTL DEF Spec

(* Then a drained queue leaves every connected client with a session and    *)
(* told its own id and ship.                                                *)
THEOREM ServerWelcomesOrderly == Spec => []OrderlyWelcome
<1>1. OrderInv => OrderlyWelcome
  <2> SUFFICES ASSUME OrderInv, inOrder, messageQueue = << >>
               PROVE  /\ DOMAIN clientIds = {p \in Peer : link[p] # None}
                      /\ \A p \in DOMAIN clientIds :
                            welcome[link[p]] = [clientId |-> clientIds[p],
                                                entityId |-> ShipOf(p)]
    BY DEF OrderlyWelcome, ShipOf
  <2>1. \A p : Marks(p) = {0}
    BY EmptyMarks
  <2>2. DOMAIN clientIds \subseteq Peer
    BY DEF OrderInv, ServerInv, TypeOK
  <2>3. DOMAIN clientIds = {p \in Peer : link[p] # None}
    BY <2>1, <2>2, NoTurns DEF OrderInv
  <2> QED BY <2>1, <2>3, OrderlyFacts
<1> QED BY <1>1, OrderInit, OrderStep, PTL DEF Spec
=============================================================================
