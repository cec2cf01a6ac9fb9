---------------------------- MODULE NetworkServer ----------------------------
(***************************************************************************)
(* The sessions of the ENet server (server-enet/src/NetworkServer.cpp) and *)
(* the player entities it keeps in the registry.                           *)
(*                                                                         *)
(* One thread runs the whole server: main() calls update() and then        *)
(* runSystems() for ever.  update() first polls every event ENet has into  *)
(* messageQueue and only then drains the queue, so that an event is        *)
(* handled in a state of ENet that may be newer than the event: the peer   *)
(* slot of a connection may already be free, or belong to the next client. *)
(*                                                                         *)
(* Between two updates the systems of the game spawn and kill entities of  *)
(* their own (missiles stand for all of them) and broadcast the players,   *)
(* after which a client sends the state of its keys (a Controllable) for   *)
(* the entity its welcome message named.                                   *)
(***************************************************************************)
EXTENDS RegistryOps, Integers, FiniteSets

CONSTANTS
    Client,        \* client processes
    Peer,          \* ENet peer slots
    None,          \* no client, no welcome, no entity
    Scene, Player, Controllable, Missile,   \* component types
    MaxBatch,      \* bound: events polled in one update
    MaxClientIds,  \* bound: client ids in use
    MaxEntities    \* bound: entity ids in use

ASSUME ComponentAssumption ==
    /\ Component = {Scene, Player, Controllable, Missile}
    /\ Scene \notin {Player, Controllable, Missile}
    /\ Player \notin {Controllable, Missile}
    /\ Controllable # Missile

ASSUME ClientAssumption == None \notin Client \cup Nat

VARIABLES
    phase,          \* where the main loop is
    link,           \* ENet: the client connected through each peer slot
    messageQueue,   \* events polled and not yet handled
    clientIds,      \* peer -> client id, for the peers with a session
    clientToEntity, \* client id -> player entity
    nextClientId,
    registry,
    welcome,        \* last 0xFF message sent to each client on its connection
    known,          \* the entity each client steers
    inOrder         \* history: only the newest id was ever given back

vars == <<phase, link, messageQueue, clientIds, clientToEntity, nextClientId,
          registry, welcome, known, inOrder>>

Event == [type : {"CONNECT", "DISCONNECT"}, peer : Peer]
            \cup [type : {"RECEIVE"}, peer : Peer, entity : Nat]

Pending(type) == {i \in 1..Len(messageQueue) : messageQueue[i].type = type}

\* main() has made the scene entity and the first level has registered the
\* component types; nobody is connected.
Init ==
    /\ phase = "poll"
    /\ link = [p \in Peer |-> None]
    /\ messageQueue = << >>
    /\ clientIds = << >>
    /\ clientToEntity = << >>
    /\ nextClientId = 0
    /\ registry = Added([Spawned(EmptyRegistry) EXCEPT !.registered = Component],
                        SpawnedId(EmptyRegistry), {Scene})
    /\ welcome = [c \in Client |-> None]
    /\ known = [c \in Client |-> None]
    /\ inOrder = TRUE

sessionVars == <<clientIds, clientToEntity, nextClientId, registry, inOrder>>

-----------------------------------------------------------------------------
(* The first loop of update(): enet_host_service changes the state of the   *)
(* peer slot at the moment it returns the event.                            *)

Poll(event) ==
    /\ phase = "poll"
    /\ Len(messageQueue) < MaxBatch
    /\ messageQueue' = Append(messageQueue, event)
    /\ UNCHANGED <<phase, sessionVars>>

PollConnect(c, p) ==
    /\ link[p] = None
    /\ \A q \in Peer : link[q] # c
    /\ nextClientId + Cardinality(Pending("CONNECT")) < MaxClientIds
    /\ registry.nextEntityId + Cardinality(Pending("CONNECT")) < MaxEntities
    /\ Poll([type |-> "CONNECT", peer |-> p])
    /\ link' = [link EXCEPT ![p] = c]
    /\ welcome' = [welcome EXCEPT ![c] = None]
    /\ known' = [known EXCEPT ![c] = None]

PollDisconnect(p) ==
    /\ link[p] # None
    /\ Poll([type |-> "DISCONNECT", peer |-> p])
    /\ link' = [link EXCEPT ![p] = None]
    /\ UNCHANGED <<welcome, known>>

PollReceive(p) ==
    /\ link[p] # None
    /\ known[link[p]] # None
    /\ Poll([type |-> "RECEIVE", peer |-> p, entity |-> known[link[p]]])
    /\ UNCHANGED <<link, welcome, known>>

PollEnd ==
    /\ phase = "poll"
    /\ phase' = "drain"
    /\ UNCHANGED <<link, messageQueue, welcome, known, sessionVars>>

-----------------------------------------------------------------------------
(* The second loop of update(): handle the oldest event.                    *)

Handle(type) ==
    /\ phase = "drain"
    /\ messageQueue # << >>
    /\ Head(messageQueue).type = type
    /\ messageQueue' = Tail(messageQueue)
    /\ UNCHANGED <<phase, link, known>>

\* initPlayer: spawn an entity and give it the player's components.
playerEntityId == SpawnedId(registry)
WithPlayer == Added(Spawned(registry), playerEntityId, {Player, Controllable})

\* The welcome goes to whoever holds the peer slot by now; to nobody if the
\* slot is free again.
Bug_WelcomeAfterIncrement(p) ==
    welcome' = IF link[p] = None THEN welcome
               ELSE [welcome EXCEPT ![link[p]] =
                       [clientId |-> nextClientId + 1, entityId |-> playerEntityId]]
Bug_NoWelcome(p) == UNCHANGED welcome
SendWelcome(p) ==
    welcome' = IF link[p] = None THEN welcome
               ELSE [welcome EXCEPT ![link[p]] =
                       [clientId |-> nextClientId, entityId |-> playerEntityId]]

HandleClientConnection ==
    /\ Handle("CONNECT")
    /\ LET p == Head(messageQueue).peer
       IN  /\ clientIds' = [q \in DOMAIN clientIds \cup {p} |->
                              IF q = p THEN nextClientId ELSE clientIds[q]]
           /\ clientToEntity' =
                [i \in DOMAIN clientToEntity \cup {nextClientId} |->
                   IF i = nextClientId THEN playerEntityId ELSE clientToEntity[i]]
           /\ SendWelcome(p)
    /\ nextClientId' = nextClientId + 1
    /\ registry' = WithPlayer
    /\ UNCHANGED inOrder

\* clientIds[peer] makes an entry 0 for a peer that has none.
ClientIdOf(p) == IF p \in DOMAIN clientIds THEN clientIds[p] ELSE 0

MappingWithout(id) == [i \in DOMAIN clientToEntity \ {id} |-> clientToEntity[i]]

\* If the client id has an entity: give the id back, kill the entity.
Bug_MappingKept(id) ==
    IF id \in DOMAIN clientToEntity
    THEN /\ nextClientId' = nextClientId - 1
         /\ registry' = Killed(registry, clientToEntity[id])
         /\ UNCHANGED clientToEntity
    ELSE UNCHANGED <<nextClientId, registry, clientToEntity>>
Bug_ShipKept(id) ==
    IF id \in DOMAIN clientToEntity
    THEN /\ nextClientId' = nextClientId - 1
         /\ clientToEntity' = MappingWithout(id)
         /\ UNCHANGED registry
    ELSE UNCHANGED <<nextClientId, registry, clientToEntity>>
RemovePlayer(id) ==
    IF id \in DOMAIN clientToEntity
    THEN /\ nextClientId' = nextClientId - 1
         /\ registry' = Killed(registry, clientToEntity[id])
         /\ clientToEntity' = MappingWithout(id)
    ELSE UNCHANGED <<nextClientId, registry, clientToEntity>>

EraseSession(p) == clientIds' = [q \in DOMAIN clientIds \ {p} |-> clientIds[q]]

HandleClientDisconnection ==
    /\ Handle("DISCONNECT")
    /\ LET p == Head(messageQueue).peer
           id == ClientIdOf(p)
       IN  /\ RemovePlayer(id)
           /\ EraseSession(p)
           /\ inOrder' = (inOrder /\ id = nextClientId - 1)
    /\ UNCHANGED welcome

\* Protocol::handleMessage of a CON message.
handleClientMessage ==
    /\ Handle("RECEIVE")
    /\ LET e == Head(messageQueue)
       IN  /\ clientIds' = [q \in DOMAIN clientIds \cup {e.peer} |-> ClientIdOf(q)]
           /\ registry' = Updated(registry, e.entity, Controllable)
    /\ UNCHANGED <<clientToEntity, nextClientId, welcome, inOrder>>

\* The queue is empty; update() sends the scene to everybody and returns.
DrainEnd ==
    /\ phase = "drain"
    /\ messageQueue = << >>
    /\ phase' = "systems"
    /\ UNCHANGED <<link, messageQueue, welcome, known, sessionVars>>

-----------------------------------------------------------------------------
(* runSystems(): the game spawns or kills entities, then the server network *)
(* system broadcasts.  A client steers the entity its welcome named once it *)
(* has seen a Player with that number.                                      *)

NowKnown ==
    [c \in Client |->
        IF /\ \E p \in Peer : link[p] = c
           /\ welcome[c] # None
           /\ Has(registry, Player, welcome[c].entityId)
        THEN welcome[c].entityId
        ELSE known[c]]

Systems ==
    /\ phase = "systems"
    /\ phase' = "poll"
    /\ known' = NowKnown
    /\ UNCHANGED <<link, messageQueue, clientIds, clientToEntity, nextClientId,
                   welcome, inOrder>>

RunSystems == Systems /\ UNCHANGED registry

SpawnMissile ==
    /\ Systems
    /\ SpawnedId(registry) < MaxEntities
    /\ registry' = Added(Spawned(registry), SpawnedId(registry), {Missile})

KillMissile ==
    /\ Systems
    /\ \E e \in registry.componentsArray[Missile] : registry' = Killed(registry, e)

Next ==
    \/ \E p \in Peer :
          \/ \E c \in Client : PollConnect(c, p)
          \/ PollDisconnect(p)
          \/ PollReceive(p)
    \/ PollEnd
    \/ HandleClientConnection
    \/ HandleClientDisconnection
    \/ handleClientMessage
    \/ DrainEnd
    \/ RunSystems
    \/ SpawnMissile
    \/ KillMissile

Spec == Init /\ [][Next]_vars

\* The server thread never stops, and enet_host_service returns 0 in the end:
\* events do not arrive for ever faster than they are polled.
ServerStep ==
    \/ PollEnd
    \/ HandleClientConnection
    \/ HandleClientDisconnection
    \/ handleClientMessage
    \/ DrainEnd
    \/ RunSystems

FairSpec == Spec /\ WF_vars(ServerStep)

-----------------------------------------------------------------------------
TypeOK ==
    /\ phase \in {"poll", "drain", "systems"}
    /\ link \in [Peer -> Client \cup {None}]
    /\ messageQueue \in Seq(Event)
    /\ DOMAIN clientIds \subseteq Peer
    /\ clientIds \in [DOMAIN clientIds -> Nat]
    /\ DOMAIN clientToEntity \subseteq Nat
    /\ clientToEntity \in [DOMAIN clientToEntity -> Nat]
    /\ nextClientId \in Nat
    /\ registry \in RegistryType
    /\ welcome \in [Client -> [clientId : Nat, entityId : Nat] \cup {None}]
    /\ known \in [Client -> Nat \cup {None}]
    /\ inOrder \in BOOLEAN

-----------------------------------------------------------------------------
(* The component types only the server itself writes.                       *)
GameComponent == Component \ {Controllable}

(* HandleClientDisconnection kills the entity _clientToEntity names without *)
(* looking at it.  Even so no entity is ever killed twice, and none that    *)
(* waits for reuse has a component of the game, whatever the order in which *)
(* clients come and go.                                                     *)
EntitiesWellManaged == WellManaged(registry, GameComponent)

(* _clientToEntity names live players, each under one client id only: a     *)
(* recycled client id or a missile never stands in for somebody's ship.     *)
MappedPlayersLive ==
    /\ \A i \in DOMAIN clientToEntity : Has(registry, Player, clientToEntity[i])
    /\ \A i, j \in DOMAIN clientToEntity :
          clientToEntity[i] = clientToEntity[j] => i = j

(* nextClientId-- never wraps below zero: the counter is at least the       *)
(* number of clients that still have an entity.                             *)
CounterCoversSessions == Cardinality(DOMAIN clientToEntity) <= nextClientId

(* The inductive invariant behind the properties above.  No missile is a    *)
(* player, so that the game never kills a mapped entity, and every entity a *)
(* client may name exists, so that a late message never makes one.          *)
ServerInv ==
    /\ TypeOK
    /\ EntitiesWellManaged
    /\ MappedPlayersLive
    /\ IsFiniteSet(DOMAIN clientToEntity)
    /\ CounterCoversSessions
    /\ registry.componentsArray[Player] \cap registry.componentsArray[Missile] = {}
    /\ \A c \in Client : known[c] # None => ValidIndex(registry, known[c])
    /\ \A i \in 1..Len(messageQueue) : messageQueue[i].type = "RECEIVE" =>
          ValidIndex(registry, messageQueue[i].entity)

(* As long as only the newest client ever leaves, everything is exact: the  *)
(* client ids of the sessions are distinct and dense and are those with an  *)
(* entity, no ship is left behind by a client that went away, and no key    *)
(* message of such a client turns a recycled entity into a second ship.     *)
OrderlySessions ==
    inOrder =>
        /\ \A p, q \in DOMAIN clientIds : clientIds[p] = clientIds[q] => p = q
        /\ {clientIds[p] : p \in DOMAIN clientIds} = 0 .. nextClientId - 1
        /\ DOMAIN clientToEntity = 0 .. nextClientId - 1
        /\ registry.componentsArray[Player]
               = {clientToEntity[i] : i \in DOMAIN clientToEntity}
        /\ registry.componentsArray[Controllable] = registry.componentsArray[Player]

(* Then every connected client was also last told its own id and its own    *)
(* ship, and the sessions are those of the peers ENet has connected: no     *)
(* event of a batch is lost or applied to a later connection of its slot.   *)
OrderlyWelcome ==
    inOrder /\ messageQueue = << >> =>
        /\ DOMAIN clientIds = {p \in Peer : link[p] # None}
        /\ \A p \in DOMAIN clientIds :
              welcome[link[p]] = [clientId |-> clientIds[p],
                                  entityId |-> clientToEntity[clientIds[p]]]

(* A client ENet has connected is welcomed, unless it leaves first.         *)
Linked(c) == \E p \in Peer : link[p] = c

ConnectionWelcomed ==
    \A c \in Client : Linked(c) ~> (welcome[c] # None \/ ~Linked(c))

(* The comment of HandleClientConnection: "assigning a unique ID" (line 97).*)
UniqueClientIds ==
    \A p, q \in DOMAIN clientIds : clientIds[p] = clientIds[q] => p = q
=============================================================================
