----------------------------- MODULE Replication -----------------------------
(***************************************************************************)
(* The game as it is seen by the clients and steered by them.              *)
(*                                                                         *)
(* At the end of each of its frames the server broadcasts every component  *)
(* of every entity (ServerNetworkSystem); a client writes them into its    *)
(* own registry as they come (NetworkClient::handleServerMessage).  In     *)
(* return, at each of its frames, a client sends the controls of its ship  *)
(* (ClientNetworkSystem), which the server writes into its registry.       *)
(* Channels keep their order and lose nothing.  The broadcast says what    *)
(* exists and never what is gone: the game hides an entity in one frame    *)
(* and kills it in the next.  Two things are killed as they are: the ship  *)
(* of a player who leaves, and the layers of the background when a level   *)
(* brings its own (ParallaxSystem hides and kills them in one go).         *)
(*                                                                         *)
(* A world holds, for each component type, a function from the ids that    *)
(* have such a component to their values.  How a client connects and when  *)
(* events are polled is the business of NetworkClient and NetworkServer.   *)
(***************************************************************************)
EXTENDS Integers, Sequences, SequencesExt, Functions

CONSTANTS
    Client,
    Keys,          \* states of a client's keys
    Initial,       \* the controls a ship is made with
    None,          \* no ship
    Byte,          \* the values a byte has: 256
    MaxEntities,   \* bound: entity ids on the server
    MaxBehind,     \* bound: messages a client may be behind when a frame starts
    MaxSent,       \* bound: messages on the way to the server, of one client
    Polled         \* bound: how many messages a frame handles, if not all

ASSUME ReplicationAssumption ==
    /\ Byte \in Nat \ {0} /\ MaxEntities \in Nat
    /\ MaxBehind \in Nat /\ MaxSent \in Nat /\ Polled \subseteq Nat
    /\ None \notin Nat /\ Initial \notin Client \X Keys

VARIABLES
    nextEntityId, availableEntityIds,   \* the server's registry
    world,        \* the server's components
    ship,         \* the entity of each connected client
    keys,         \* what each player holds
    channel,      \* messages to each client
    upstream,     \* messages from each client
    view,         \* the components of each client's registry
    PlayerEntityId, \* what each client takes for its ship
    told,         \* history: the world each client was last sent
    left,         \* history: ids of ships that left, until they are used again
    replaced      \* history: ids of layers of earlier backgrounds, until there
                  \* is a layer again

serverVars == <<nextEntityId, availableEntityIds, world, ship>>
clientVars == <<keys, view, PlayerEntityId>>
histories == <<told, left, replaced>>
vars == <<serverVars, clientVars, channel, upstream, histories>>

Types == {"Renderable", "Player", "Controllable", "Velocity", "ParallaxScroller"}
Drawn == {"Renderable", "ParallaxScroller"}

Nothing == [type \in Types |-> << >>]

Put(w, type, e, value) ==
    [w EXCEPT ![type] = [i \in DOMAIN @ \cup {e} |-> IF i = e THEN value ELSE @[i]]]

Init ==
    /\ nextEntityId = 0 /\ availableEntityIds = << >>
    /\ world = Nothing
    /\ ship = [c \in Client |-> None]
    /\ keys \in [Client -> Keys]
    /\ channel = [c \in Client |-> << >>]
    /\ upstream = [c \in Client |-> << >>]
    /\ view = [c \in Client |-> Nothing]
    /\ PlayerEntityId = [c \in Client |-> None]
    /\ told = [c \in Client |-> Nothing]
    /\ left = {} /\ replaced = {}

-----------------------------------------------------------------------------
(* The server.                                                              *)

SpawnedId == IF availableEntityIds # << >> THEN Head(availableEntityIds) ELSE nextEntityId
CanSpawn == SpawnedId < MaxEntities

\* HandleClientConnection with initPlayer.  The client's connect() ends with
\* the welcome.
Connect(c) ==
    /\ ship[c] = None /\ CanSpawn
    /\ LET e == SpawnedId
       IN  /\ world' = Put(Put(Put(Put(world, "Renderable", e, TRUE), "Player", e, e),
                               "Controllable", e, Initial), "Velocity", e, 0)
           /\ ship' = [ship EXCEPT ![c] = e]
           /\ PlayerEntityId' = [PlayerEntityId EXCEPT ![c] = e]
    /\ IF availableEntityIds # << >>
       THEN availableEntityIds' = Tail(availableEntityIds) /\ UNCHANGED nextEntityId
       ELSE nextEntityId' = nextEntityId + 1 /\ UNCHANGED availableEntityIds
    /\ UNCHANGED <<keys, view, channel, upstream, histories>>

KilledIn(w, dead) == [type \in DOMAIN w |-> Restrict(w[type], DOMAIN w[type] \ dead)]

\* HandleClientDisconnection: the ship is killed as it is.  The client is gone;
\* the next one starts from nothing.
Disconnect(c) ==
    /\ ship[c] # None
    /\ world' = KilledIn(world, {ship[c]})
    /\ availableEntityIds' = Append(availableEntityIds, ship[c])
    /\ left' = left \cup {ship[c]}
    /\ ship' = [ship EXCEPT ![c] = None]
    /\ PlayerEntityId' = [PlayerEntityId EXCEPT ![c] = None]
    /\ channel' = [channel EXCEPT ![c] = << >>]
    /\ upstream' = [upstream EXCEPT ![c] = << >>]
    /\ view' = [view EXCEPT ![c] = Nothing]
    /\ told' = [told EXCEPT ![c] = Nothing]
    /\ UNCHANGED <<nextEntityId, keys, replaced>>

\* handleClientMessage: the entity is the one the message names.
ReceiveControls(c) ==
    /\ upstream[c] # << >>
    /\ LET m == Head(upstream[c])
       IN  world' = Put(world, "Controllable", m.entity, m.value)
    /\ upstream' = [upstream EXCEPT ![c] = Tail(@)]
    /\ UNCHANGED <<nextEntityId, availableEntityIds, ship, clientVars, channel, histories>>

\* A set of ids in order.
Ascending(ids) ==
    LET below[n \in 0..MaxEntities] ==
            IF n = 0 THEN << >>
            ELSE IF n - 1 \in ids THEN Append(below[n - 1], n - 1)
                                  ELSE below[n - 1]
    IN  below[MaxEntities]

\* sendComponentData: entities in order, the id cut to a byte.
Messages(w, type) ==
    LET ids == Ascending(DOMAIN w[type])
    IN  [i \in 1..Len(ids) |-> [entity |-> ids[i] % Byte, type |-> type,
                                value |-> w[type][ids[i]]]]

\* In the order in which update() sends them.
Broadcast(w) ==
    Messages(w, "Renderable") \o Messages(w, "Player")
        \o Messages(w, "Controllable") \o Messages(w, "Velocity")
        \o Messages(w, "ParallaxScroller")

\* What the systems of a frame work on: a world, the free ids, the next id.
Kill(g, dead) ==
    [world |-> KilledIn(g.world, dead), free |-> g.free \o Ascending(dead), next |-> g.next]

Spawn(g, type) ==
    LET e == IF g.free # << >> THEN Head(g.free) ELSE g.next
    IN  [world |-> Put(g.world, type, e, TRUE),
         free |-> IF g.free # << >> THEN Tail(g.free) ELSE g.free,
         next |-> IF g.free # << >> THEN g.next ELSE g.next + 1]

\* The systems of the game kill what was hidden the frame before, hide what has
\* had its time, spawn new things; a ship is only ever hidden.
Props(w) == DOMAIN w["Renderable"] \ {ship[c] : c \in Client}
Bug_Hidden(w) == {e \in Props(w) : w["Renderable"][e]}
Hidden(w) == {e \in Props(w) : ~w["Renderable"][e]}

Shown(w) == {e \in DOMAIN w["Renderable"] : w["Renderable"][e]}

HiddenIn(w, gone) ==
    [w EXCEPT !["Renderable"] = [e \in DOMAIN @ |-> @[e] /\ e \notin gone]]

Played(g, gone, spawn) ==
    LET rest == Kill(g, Hidden(g.world))
        seen == [rest EXCEPT !.world = HiddenIn(@, gone)]
    IN  IF spawn THEN Spawn(seen, "Renderable") ELSE seen

\* setLevel, where the scene has a background of its own: the layers there are
\* lose their visibility and their lives in one pass; new ones are spawned (one
\* stands for the six or nine).
Layers(w) == DOMAIN w["ParallaxScroller"]
setLevel(g) == Spawn(Kill(g, Layers(g.world)), "ParallaxScroller")

\* A frame of runSystems; ServerNetworkSystem is the last of the systems.
Frame(gone, spawn, switch) ==
    /\ \A c \in Client : Len(channel[c]) <= MaxBehind
    /\ UNCHANGED <<ship, clientVars, upstream>>
    /\ LET played == Played([world |-> world, free |-> availableEntityIds,
                             next |-> nextEntityId], gone, spawn)
           after == IF switch THEN setLevel(played) ELSE played
           messages == Broadcast(world')
       IN  /\ after.next <= MaxEntities
           /\ world' = after.world
           /\ availableEntityIds' = after.free
           /\ nextEntityId' = after.next
           /\ channel' = [c \in Client |-> IF ship[c] = None THEN channel[c]
                                           ELSE channel[c] \o messages]
    /\ told' = [c \in Client |-> IF ship[c] = None THEN told[c] ELSE world']
    /\ left' = left \ DOMAIN world'["Renderable"]
    /\ replaced' = (replaced \cup Layers(world)) \ Layers(world')

-----------------------------------------------------------------------------
(* A client.                                                                *)

\* handleServerMessage takes a message about the entity whose id is 0xFF for a
\* welcome; handleMessage has a case for all the others, and updateRegistry
\* makes the component or overwrites it.
WelcomeTag == Byte - 1
Bug_Written(w, m) ==
    IF m.entity = WelcomeTag \/ m.entity \in DOMAIN w[m.type] THEN w
    ELSE Put(w, m.type, m.entity, m.value)
Written(w, m) ==
    IF m.entity = WelcomeTag THEN w ELSE Put(w, m.type, m.entity, m.value)

WrittenAll(w, messages) ==
    LET after[i \in 0..Len(messages)] ==
            IF i = 0 THEN w ELSE Written(after[i - 1], messages[i])
    IN  after[Len(messages)]

\* Such a message also overwrites PlayerEntityId with whatever it carries, if
\* it is long enough.
NumberRead(number, messages) ==
    IF \E i \in 1..Len(messages) :
          messages[i].entity = WelcomeTag /\ messages[i].type # "Player"
    THEN None ELSE number

\* InputSystem: where a player with the client's number has controls and a
\* velocity, the keys go into the controls.
Mine(w, number) == {e \in DOMAIN w["Player"] : w["Player"][e] = number}
Typed(c, w, number) ==
    [w EXCEPT !["Controllable"] =
        [e \in DOMAIN @ |-> IF e \in Mine(w, number) /\ e \in DOMAIN w["Velocity"]
                            THEN <<c, keys[c]>> ELSE @[e]]]

\* sendControllable: the controls of every player with the client's number.
Bug_Controls(c) ==
    LET ids == Ascending(DOMAIN view[c]["Controllable"])
    IN  [i \in 1..Len(ids) |-> [entity |-> ids[i] % Byte,
                                value |-> view[c]["Controllable"][ids[i]]]]
Controls(c) ==
    LET ids == Ascending(Mine(view[c], PlayerEntityId[c])
                           \cap DOMAIN view[c]["Controllable"])
    IN  [i \in 1..Len(ids) |-> [entity |-> ids[i] % Byte,
                                value |-> view[c]["Controllable"][ids[i]]]]

\* A frame: ClientNetworkSystem sends, then handles the n messages that have
\* arrived, then InputSystem runs.  The number it uses was taken at the start.
Bug_ClientFrame(c, n) ==
    /\ ship[c] # None
    /\ n <= Len(channel[c])
    /\ UNCHANGED <<serverVars, keys, histories>>
    /\ Len(upstream[c]) + Len(Controls(c)) <= MaxSent
    /\ upstream' = [upstream EXCEPT ![c] = @ \o Controls(c)]
    /\ view' = [view EXCEPT ![c] =
                  WrittenAll(Typed(c, @, ship[c]), SubSeq(channel[c], 1, n))]
    /\ PlayerEntityId' = [PlayerEntityId EXCEPT ![c] =
                            NumberRead(@, SubSeq(channel[c], 1, n))]
    /\ channel' = [channel EXCEPT ![c] = SubSeq(@, n + 1, Len(@))]
ClientFrame(c, n) ==
    /\ ship[c] # None
    /\ n <= Len(channel[c])
    /\ UNCHANGED <<serverVars, keys, histories>>
    /\ Len(upstream[c]) + Len(Controls(c)) <= MaxSent
    /\ upstream' = [upstream EXCEPT ![c] = @ \o Controls(c)]
    /\ view' = [view EXCEPT ![c] =
                  Typed(c, WrittenAll(@, SubSeq(channel[c], 1, n)), ship[c])]
    /\ PlayerEntityId' = [PlayerEntityId EXCEPT ![c] =
                            NumberRead(@, SubSeq(channel[c], 1, n))]
    /\ channel' = [channel EXCEPT ![c] = SubSeq(@, n + 1, Len(@))]

PressKeys(c, k) ==
    /\ ship[c] # None
    /\ keys' = [keys EXCEPT ![c] = k]
    /\ UNCHANGED <<serverVars, view, PlayerEntityId, channel, upstream, histories>>

-----------------------------------------------------------------------------
Next ==
    \/ \E c \in Client :
          \/ Connect(c) \/ Disconnect(c) \/ ReceiveControls(c)
          \/ \E n \in Polled \cup {Len(channel[c])} : ClientFrame(c, n)
          \/ \E k \in Keys : PressKeys(c, k)
    \/ \E gone \in SUBSET Shown(world), spawn, switch \in BOOLEAN :
          Frame(gone, spawn, switch)

Spec == Init /\ [][Next]_vars

-----------------------------------------------------------------------------
\* A client that has handled all its messages agrees with the server's last
\* frame about every component of every entity (below the id that is taken for
\* a welcome), except the controls of its own ship.
CaughtUp ==
    \A c \in Client : channel[c] = << >> =>
        \A type \in Types : \A e \in DOMAIN told[c][type] :
            e < WelcomeTag /\ <<type, e>> # <<"Controllable", ship[c]>> =>
                /\ e \in DOMAIN view[c][type]
                /\ view[c][type][e] = told[c][type][e]

\* Though removals are not sent, what a client that has handled all its messages
\* shows and is gone is the ship of a player who left or a layer of an earlier
\* background, the two that are killed unhidden: all else was hidden first.
NoGhosts ==
    \A c \in Client : channel[c] = << >> =>
        \A type \in Drawn : \A e \in DOMAIN view[c][type] :
            view[c][type][e] =>
                \/ e \in DOMAIN told[c][type]
                \/ e \in (IF type = "Renderable" THEN left ELSE replaced)

\* Whatever is recycled in between, a ship is only ever steered by its own
\* player, and nothing else has controls.
OwnControls ==
    /\ \A c \in Client : ship[c] # None =>
          world["Controllable"][ship[c]] \in {Initial} \cup ({c} \X Keys)
    /\ DOMAIN world["Controllable"] = {ship[c] : c \in Client} \ {None}

\* What the server says about the controls of a ship never comes back as the
\* keys of its player, once the client has its velocity.
NoEcho ==
    [][\A c \in Client :
          Len(upstream'[c]) > Len(upstream[c]) /\ ship[c] \in DOMAIN view[c]["Velocity"] =>
             Last(upstream'[c]).value # Initial]_vars
=============================================================================
