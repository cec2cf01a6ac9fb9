# R-Type engine: TLA+ specifications and proofs

The repository is a networked R-Type: an entity-component registry (`ecs/`), an
ENet server that runs the game (`server-enet/`, `gamefield/`, `ecs/systems/`),
and an ENet client that displays it (`client-enet/`). The top `CMakeLists.txt`
builds only `client-enet` and `server-enet`; `server/` and `client/` are an
older asio implementation that is not part of the build, and
`ecs/src/Main.cpp` is a demo of the registry.

## 1. The system and its parts

| Part | State | Operations | Correct if |
|---|---|---|---|
| Registry (`ecs/include/Registry.hpp`, `SparseArray.hpp`) | `nextEntityId`, the queue `_availableEntityIds`, one sparse array per component type | register, spawn, add, remove, kill | an id names one live entity, starts blank, and ids stay dense: they are sent in one byte |
| Zipper iterators (`IndexedZipper.hpp`, `ZipperIterator.hpp`) | an index and an end, fixed when a loop begins | begin, `operator++` | no complete entity is missed and every loop ends, though bodies spawn and kill |
| Protocol (`ecs/include/ProtocolSerialization.hpp`) | none | write a component, read it back, apply it to a registry | what arrives is what was sent |
| Server sessions (`server-enet/src/NetworkServer.cpp`) | `messageQueue`, `clientIds`, `_clientToEntity`, `nextClientId` | `update`: poll, then drain: connect, disconnect, message | a leaving client takes its own ship with it, nobody else's |
| Client connection (`client-enet/src/NetworkClient.cpp`) | `isConnected`, `serverPeer`, `messageQueue`, two threads | connect, loop, update, disconnect | updates reach the registry in order and once, the program ends when nothing keeps the network thread busy |
| Replication (`NetworkSystem.hpp`, `InputSystem`) | the client's copy of the registry | broadcast every component every frame; send the ship's controls | clients show what the server has, and steer only their own ship |
| Scene flow (`SceneManagerSystem`, `SceneManager`, `FadeTransitionSystem`, `RTypeScenes`) | the `Scene` component, fade timers, level counter | push a scene, fade in and out, change level | levels in order, each left by its boss's fall, no transition for ever |
| Bosses and waves (`GorgiaAI`, `ShrimpBoss`, `CovidBoss`, `BydosAI`, `RobotAI`) | timers, health, flags, orbs | spawn, move, take hits, die | the boss comes, after the waves; the shield holds |
| Combat (`CollisionSystem`, `DamageSystem`, `HealingSystem`, `ShieldSystem`, missiles, `MissileCleanupSystem`) | collision flags, health, invincibility timer | one pass a frame in the order of `LevelOne::initSystems` | shields end, wrecks stay dead, what dies was seen to vanish |
| Force (`ForceSystem`) | attachment, owner, shots | toggle, follow, drift, shoot | shoots for who asked, once for a held attack, stays on its side |
| Movement, animation, clocks (`TransformSystem`, `AnimationSystem`, ...) | floats in components | integrate | - |
| Screens and menus (`Screens/Menu.cpp`, `Options.cpp`) | selected buttons, awaited keys | move, activate, remap, leave | texts show the keys in use; a closed window ends them |
| Renderer and audio | SFML objects | draw, play | - |
| Legacy asio server and client (`server/`, `client/`), demo | - | - | not built |

How they interact: the server's `main` alternates `update()` (sessions, key
messages) and `runSystems()`, in which scene manager, fade, bosses, waves,
combat, force and the broadcast run one after another over one registry. They
speak to each other only through components: `Scene` (`currentScene`,
`isResetting`), `isColliding`, visibility. The client's `main` calls `update()`
(packets into its registry) and runs input, network and render systems over it;
a second thread feeds its queue.

What makes it hard: the server polls all events before it handles any; client
ids and entity ids are recycled by different rules; messages carry entity
numbers that may have been recycled since, cut to a byte; removal is never
replicated; loops spawn and kill under their own iterators; the systems of a
frame communicate through flags whose meaning depends on their order; the
client has two threads on one ENet host. `PROJECT.json` lists the hazards with
the line where each bites and the properties that cover it.

## 2. Modules

| Module | Models | Kind |
|---|---|---|
| `RegistryOps` | the registry's operations as operators on a record | operators |
| `EntityPool` | what the registry promises about ids | abstract specification |
| `Registry` | a registry driven by disciplined callers; implements `EntityPool` | specification |
| `Zipper` | the same registry under a loop over its arrays; implements `Registry`'s specification | composition |
| `NetworkServer` | sessions, player entities, poll and drain, key messages, over `RegistryOps` | specification |
| `NetworkClient` | the client's two threads on one ENet host, from `connect` to the destructor | specification |
| `Replication` | server frames, channels, the clients' registries and controls | composition |
| `Serialization` | bytes of the components that are sent, and their reader | algorithm |
| `LevelProgress` | what the game promises: three levels in order, then the credits | abstract specification |
| `SceneFlow` | scene manager, fade, bosses, waves, credits, background in frame order; implements `LevelProgress` | specification |
| `CovidBoss` | the last boss, its orbs and its shield | specification |
| `Combat` | what spawns, hits, heals, hides and kills in a level, in frame order | specification |
| `Force` | the force and the key messages that steer it | specification |
| `Screens` | menu and options with every event they handle | specification |
| `RegistryLemmas`, `RegistryProofs`, `NetworkServerProofs`, `SceneFlowProofs`, `CombatProofs`, `CompanionProofs`, `ReplicationProofs`, `ClientProofs` | theorems about these | proofs |
| `MC*` | instances for TLC | |

Operators named `Bug_*` are not part of the models: they are wrong versions of
the definition they stand in front of, used to see that each property would
notice such a bug.

### Registry and Zipper
A registry is a record: the counter, the queue of free ids, the registered
types, and for each type the set of ids that have the component (values are
left to the modules that need them). `RegistryOps` translates each method;
`Registry` calls them the way the systems do: spawn and add in one go, and kill
only an entity found by one of its components, a test every call of
`killEntity` in `ecs/systems` is under. That discipline is an assumption about
the callers, and `RecycledIdsClean` rests on it, because `killEntity` checks
nothing. `EntityPool` is the promise: live ids are distinct and dense (a new id
is made only while all older ones are live).

`Zipper` adds the sizes of the arrays and one loop: `Begin` is `begin()` and
`end()`, `Advance` is `operator++`, and every operation of the registry may
happen in a body. `operator[]`, `insertAt` and `emplaceAt` make an array longer,
nothing makes one shorter. `visited`, `complete`, `erased` and `atStart` are
history variables.

### NetworkServer
`phase` is the place in the main loop: polling ENet, draining `messageQueue`,
running the systems. `link` is ENet's side of a peer slot and changes when the
event is polled; `clientIds`, `_clientToEntity` and `nextClientId` change when
it is handled. `Poll*` model ENet (external), `HandleClientConnection`,
`HandleClientDisconnection` and `handleClientMessage` the handlers with every
change they make. Missiles stand for the entities the game spawns and kills
between two updates. `welcome` is the last 0xFF message sent to a client and
`known` the entity it steers. `inOrder` is a history variable: it stays true
while every client that left held the newest id. `initPlayer`'s other
components and the bytes of messages are left to `Replication`, `Force` and
`Serialization`.

### NetworkClient
`main` is the place of the main thread: `connect()` (two waits on the host),
the frames (`running`, or `updating` while `update()` holds `queueMutex`), the
destructor and `disconnect()`. `net` is the place of the thread that the
constructor starts (`networkLoop`): it services the same host, takes an event
(`hand`), waits for the mutex and pushes, or sleeps. Both threads call
`enet_host_service` without a lock; the model gives each event to the thread
that asks first and does not model damage inside ENet. ENet and the server
(`Accepted`, `ServerSends`, `ServerRepeats`, `ConnectionLost`,
`DisconnectAcknowledged`, `Service`) are external. Packet 0 is the server's
welcome, packets 1, 2, ... are component updates, whose way is followed. Since the
server broadcasts in every frame and never pauses, there are also updates without
a number, as many as the server likes (`Repeated`): they say nothing new, and keep
whoever takes them busy. The model holds one of them in ENet and one in the queue
at a time.

### Replication
A world maps, for each component type, ids to values. `Frame` is one
`runSystems` of the server, with `ServerNetworkSystem` last. The systems of the game
kill what was hidden, hide more, and may spawn something on a recycled id
(`Played`); then `ParallaxSystem` may change the background, which hides and kills
the old layers and spawns new ones in one go (`setLevel`); and every component is
queued for every client, ids cut to a byte. `ClientFrame` is a
frame of a client: send the ship's controls, handle some or all messages, type
the keys. A message about the id 0xFF is taken for a welcome. Ids come from the
queue in `RegistryOps`' order. Delays inside the client are the matter of
`NetworkClient`: here a channel keeps its order and loses nothing, as ENet's
reliable packets do. `told`, `left` and `replaced` are history variables.

### Serialization
For each component type that is broadcast: the tag of `DataType`, the members in
the order of `as_tuple`, and the arguments of the constructor. Strings carry
their length in one byte; nothing tells the reader where the message ends
(what it reads there is `Garbage`). Numbers are the bytes of memory, on both
sides alike. A value of a number is four bytes, a bool one.

### SceneFlow
All systems of a frame run one after another in the order in which `main.cpp`
and `LevelOne::initSystems` register them; `pc` is the one that is next, and
each is an action (or one per branch of its code). They share the `Scene`
component: a boss that falls sets `SceneTransition`, the fade sets the next
level, the scene manager pushes the scene it sees next frame and raises
`isResetting`, the waves reset their clocks, the background and the credits
follow. Clocks stop at `TimeCap`, above everything they are compared with; the
hits of a frame are one choice made in `CollisionSystem`. In the first frame the
systems that `pushScene` registers do not run: the loop in `runSystems` iterates
over a vector that grows under it (undefined behaviour; the model has the
outcome of the built program, the loop ends).

The refinement maps the scene to a level number (in a transition, the counter of
the fade) and to a phase: waves, boss (it was spawned), transition, end.

### Combat
`pc` is the system that is next; `DamageSystem` visits the players one by one
(`visited`). The systems speak to each other through flags that live for a frame
(`colliding` and, per player, `boxes`) and through visibility: who removes an
entity hides it, and its cleanup kills it a frame later. Positions are left out:
any missile, heal or bonus may touch any player in any frame, any missile of a
player any enemy, hidden ones too, since the collision pass does not look at
visibility; and anything that moves may leave the screen (`out`). `Pass` is what
one system does to entities. A new entity takes any dead id, as `EntityPool`
allows; when none is left it is not spawned, a bound. `shown` is the visibility
in the copy the clients hold. After a ship explodes, `ren` may dangle, and the
aura is shown or not. `strikes` is a history variable. How often a bydos shoots
is left out: any may shoot in any frame.

### CovidBoss
The passes of `CovShieldedBossSystem::update` in order: the boss, the launch of
the next orb, then `updateOrb` for one orb after another; `RestOfFrame` is the
collision pass, `TransformSystem` and the broadcast. An orb is on a line to its
goal and `away` is what is left of it; ships and boss are nowhere, so a new goal
is at any distance. An orb moves twice in a frame, by its own code and by
`TransformSystem`.

### Force
`controls` holds each ship's `Controllable`. Between frames, ships join with the
controls `initPlayer` gives them, leave, and get new controls from their
clients; then `toggleForceAttachment`, `updateForceMovement`, `forceShooting`
and `TransformSystem` run. Positions are on a line. `carrier`, `fired`, `spent`,
`relieved` and `pressed` are history variables: `spent` is the set of players who
have held attack ever since their last missile, `relieved` those of them since when
the force was with somebody else who did not attack.

### Screens
An event is a key, a controller button, a closed window or anything else; the
menu and the options screen handle it as their code does, one action per kind of
effect, and `MenuRound` is the test of the flags after each round. An event that
`pollEvent` did not fill in is uninitialised: it counts as one more event of any
kind.

## 3. Runs

| Run | Question | Bounds |
|---|---|---|
| `registry` | ids recycled clean, `EntityPool` implemented, no loop misses or runs on | 2 component types, one of which may be registered late; 3 ids: two in the queue while one is live |
| `server` | sessions, ids, players, welcomes and inputs consistent; every connection is welcomed or gone | 3 clients (the shortest id collision needs three), 2 slots (one is reused), batches of 3 events (a slot is freed and refilled in one batch), 4 entity ids: the scene's, two ships' and one for a missile or a third ship |
| `server_ids` | "assigning a unique ID" is refuted | 5 entity ids |
| `client` | updates in order and once; stolen ids arrive, a loss is noticed, the program ends once the network thread is idle or the connection gone, and halts nowhere else | a welcome and 3 updates with a number: one that `connect()` may take for the welcome, one to be overtaken, one to be cut off; updates without a number for ever |
| `client_result` | the documented result of `connect()` is refuted | a welcome and 1 update |
| `scenes` | levels in order, followers agree, waves over before the boss, transitions end, bosses come | the timings of the code in whole seconds, frames of 1 and 2 s, fades of 5 s (a frame must be shorter than half a fade), bosses with one or two hits instead of 12 to 500 |
| `combat` | shields end with the timer, wrecks stay dead, two strikes at most, nothing is killed unseen | 2 ships with 2 points of health (one to lose, one to be healed), 2 ids: a missile and its enemy, or a pickup and an aura; a timer of 3 frames, odd since each frame takes 2; one heal, one bonus |
| `force` | shoots for who asked, once for a held attack unless it was with another meanwhile, keeps its side, settles | 2 ships, a screen of 5 units, an offset of 2, a reach of 4: a force on either side of a ship or out of reach |
| `covid` | the shield holds, orbs vanish before they are killed, attacks arrive | 2 orbs (one on its way while the other dies) of two hits, a boss of two, distances to 5, a flight of 2 units a frame: some end, some go to and fro |
| `screens` | texts show the keys in use, a closed window ends both screens | 2 of the 6 actions (one awaited while the other is selected), 5 keys, 4 controller buttons, one key without a name |
| `serialization` | what is built from the bytes is what was sent; nothing is read past the end | all 12 types, lengths 0, 1, 255, 256 and 300, three fillings |
| `replication` | clients agree with the server, show no ghosts, steer their own ship | 2 clients, 3 ids of which the last is the welcome's tag (`Byte` is 3), frames of a client that see 0, 3 or all messages, a background of one layer |

Deadlock is checked in all runs but `client_result` (the program ends) and
`screens` (a menu whose window is closed leads to the game or the exit, where
the model ends). `client` has a step for the end of `main`, so that it is the
only place where the model may stop. Symmetry is used in runs of safety
properties only (`server_ids`, `combat`, `replication`).

*Where the bounds do not reach.* In `combat` an enemy's explosion appears when
an id is free, so that with two ids an enemy, its missile and its explosion are
never there together; the theorems of section 4 hold for any number of ids.
With two ids and the liveness of shields the state space was out of reach, so
`combat` and `replication` check safety alone.

### What they show

*Ids.* No discipline but "kill what you have found" is needed for ids to be
recycled clean and densely, and a loop whose body spawns, kills and respawns
neither misses a complete entity nor follows its own offspring.

*Sessions.* Client ids are not unique: after connect, connect, disconnect of
client 0, connect, two clients hold id 1 (`server_ids`). The mapping survives
this in a weaker form, which `server` checks for every order of events: every
mapped entity is a live player and mapped once, no id is freed twice, and the
counter never wraps. As long as only the newest client leaves, ids are distinct
and dense, no ship is left behind, welcomes are right and no stale key message
writes to a recycled entity (`OrderlySessions`, `OrderlyWelcome`).

*Connection.* `connect()` may fail although the server has accepted and
answered: the network thread, which runs since the constructor, took the CONNECT
event or the welcome (`client_result`). If `connect()` took an update for the
welcome, the welcome is still handled later, but the `InputState` keeps the
player id 0 it was given, so that run sends no keys (`IdsArrive` says that this
needs a stolen event). Whichever thread took them, packets are applied in order
and once. A closed window does not always end the program: the network thread's
inner loop goes on for as long as ENet has an event and does not look at
`isRunning`, so that a server which sends faster than it takes keeps the destructor
waiting in `join()` for ever. `Terminates` therefore asks that the thread finds ENet
empty once, or that the connection goes; without this, TLC shows a run in which the
server sends, the thread takes and pushes, and `main` waits. Given it, neither the
mutex nor the queue nor a server that does not acknowledge keeps the program.

*Scenes.* With the timings of the code no level is skipped or left without its
boss's fall, the scene manager sees every scene once, each wave ends before the
boss of its level comes and restarts with the next level. This rests on
`FramesAssumption`: the fade's clock counts the very frame that prepares it, so
that a frame of about four seconds could pass a transition before the scene
manager has seen it.

*Combat.* A missile, heal or bonus is hidden in the frame of its hit and killed
in the next, after one more collision pass: one missile may take two points and
one heal give two, never three. The hidden frame is what the clients need,
because a kill is never sent (`NoGhosts`, here and in `Replication`). The
invincibility timer is one for all players and runs at double speed; still no
ship is invincible and no aura is shown on a timer that has run out. A ship
without health still takes heals in the frame it explodes, but never comes back.

*Last boss.* The shield counts orbs as the last frame left them; still the boss
loses nothing while an orb has health, and none is left behind when its system
stops. An orb that flies more than a pixel a frame may pass its target to and
fro for ever: `AttacksArrive` promises only that it comes within a frame's way.

*Force.* A ship joins with F down and client id 0 (the entity number is the
sixth argument of a constructor whose sixth member is `fKey`): it toggles the
force in every frame until its client's first message, in nobody's name. The
force never shoots for that number. A held attack does not always give one missile:
A fires and goes on holding attack, B takes the force with F without attacking, A
takes it back and it fires again, because the shot state is the force's and B put it
back. A ship that joins does the same in nobody's name. `OneMissilePerPress` says
that this is the only way: no other coming and going of owners gives a second one.

*Screens.* Whatever comes between question and answer, an action's button shows
its key or, exactly while it is awaited, the prompt. A controller's prompt may
stay after the answer went to the other button. The flag of the options screen
is never reset and is tested before Quit: after a visit to the options, Quit
goes on to the game. `ClosedMeansOver` therefore promises the game or the exit.

*Bytes.* Components arrive as sent up to the first string of 256 characters or
more, which spoils itself and what follows; even then nothing is read past the
end. `lastAttack` of `Controllable` is not sent. Two components whose
constructor has another order than `as_tuple` (`ProtectiveOrbState`,
`Animatable`) are never sent; scores and clocks are, and the client has no case
for them.

*Replication.* A client that has handled its messages agrees with the server's
last frame, below the id that looks like a welcome and but for the controls of
its own ship, which it types itself. Two things are killed without having been
broadcast as hidden, and stay on the clients' screens: the ship of a player who
left, and the layers of an earlier background, which `ParallaxSystem` hides and
kills in the frame that makes the new ones. They stay until something of the
same kind takes their id (`PAR` for a layer, `REN` for a ship). `NoGhosts` says
that there are no other ghosts. No ship is ever steered by another's keys and a
ship's echo is never sent back as keys.

### Fairness

`registry`: a body ends and its loop goes on (`Advance`); nothing is assumed of
what bodies do. `server`: the server's own steps; the main loop never waits, and
`enet_host_service(.., 0)` returns 0 as soon as ENet has no event, so the poll
ends (events do not arrive for ever faster than they are polled, which is asked
of the server's poll here and not of the client's). `client`: each thread's
steps, and strong fairness of the push, because the mutex is free for the rest
of every frame; nothing of the server, which may send for ever, the network or
the player. `scenes`, `covid`: the main loop never waits. `LevelProgress` asks
fairness of `NextLevel` only, which `scenes` shows to follow. `force`: the
systems run for ever; players do as they like. `screens`: the screens' own
rounds, since `pollEvent` returns without an event, too; nothing of the user.

## 4. Theorems

TLC checks the instances above; these hold for every value of the constants
within the named assumptions. Each module states one inductive invariant, its
initial and its step lemma, and derives the properties from it.

`RegistryProofs` (`IdInv`, `ZipperInv`). `RecycledIdsClean` is not inductive,
because a kill of a free id would break it; `WellManaged` adds that free ids have
no component and were handed out, and that only ids handed out have components.
From it follow the types, clean recycling and the refinement of `EntityPool`. Of
the loops: `LoopSpec => Spec` of `Registry`, loops are disciplined callers. What
was complete at the start and was not erased is either visited or still complete
and ahead of the iterator; arrays never shrink. Nothing is assumed but that the
bound is a number.

`NetworkServerProofs` (`ServerInv`, `QueueInv`, `OrderInv`). To show that the
entity a disconnection kills is live, one needs that every mapped entity is a
live player, that no other client id maps to it, that missiles are not players,
and that the entities named by queued messages exist (so that a late message
does not create one through the pop of the free queue). `EntitiesWellManaged`
leaves out `Controllable`, the one component a late message may put on a dead
entity. `QueueInv` follows each peer slot from the session through the queue to
ENet's side: connections and disconnections alternate on this way, and a key
message waits only within a session. `OrderInv` adds, for as long as only newest
clients leave, that the ids of sessions are the numbers below `nextClientId` and
that whatever a client or a queued message says of its ship is true: from it
follow `OrderlySessions` and `OrderlyWelcome`. Assumed: the four component types
are different, `None` is no client or number; nothing about numbers of clients,
slots or events in a batch.

`SceneFlowProofs` (`FlowInv`, `FollowInv`). A boss which falls is the one of the
current level, and the next level's boss was not spawned before: the fade's
counter agrees with the scene, bosses of earlier levels have fallen, the present
one is visible or to come, later ones were never spawned; a visible Gorgia or
Covid has hits left, and the shrimp is hit only in its place. From it every step
of every system is a step of `LevelProgress` or leaves level and phase alone.
`FollowInv` says for each place in the frame how far the scene manager, the
background, the credits and the clocks of the waves may lag behind the scene;
`FollowersAgree`, `WavesRestart` and `BossFightsAlone` are what it comes to where
the frame ends and where a boss comes. Assumed: `TimingAssumption`, and frames
shorter than half a fade (`FramesAssumption`).

`CombatProofs` (`CombatInv`). The order of the systems is in `ToCome`: whether
the cleanup of a kind is still to come in this frame. What is hidden and to be
killed in this frame was broadcast hidden; what struck once waits for its
cleanup, what struck twice is hidden and will not see a third pass; who is
invincible has a running timer once `DamageSystem` has come by. Assumed: ids are
finite and not players, healths and timer are positive.

`CompanionProofs` (`ForceInv`, `CovidInv`). *The force:* a number comes with F
only in a message, so the owner is nobody, number 0, or one who pressed; number
0 never attacks; whoever is in `spent` still attacks, and the shot state stands
as long as one of them was not relieved; a carrier has moved by less than the
offset since the force was snapped. Assumed: a ship moves less in a frame than
the offset (`Speed < Offset`: frames below 0.11 s).

*The orbs:* an orb is seen exactly as long as it has health;
around a hurt boss there are only hidden orbs that the present pass will kill;
what the pass kills was broadcast hidden. Assumed: the boss takes at least two
hits, so that it outlives the frame that hides its last orb.

`ReplicationProofs` (`IInv`). A client lags behind by all the messages on their
way to it, so the invariant is not about what its registry holds but about what
these messages will make of it (`WrittenAll` of the view over the channel). A
frame of the client moves messages from one side to the other and changes
nothing of the outcome but the controls of its own ship; a frame of the server
makes the outcome agree with its world. Since a kill is never sent, a ghost has
to be traced to the frame that hid it, to the player who left or to the background
that went; for this the invariant says that layers have no other component and that
only ships have controls (`Manned`). `Ascending` and
`WrittenAll` are recursive functions: what they compute for every set and every
channel is proved by induction over sets of numbers (`LeastNumber`,
`Induction`). From `IInv` follow `CaughtUp`, `NoGhosts`, `OwnControls` and
`NoEcho`, for any number of clients, any length of channels and any share of the
messages that a frame handles. Assumed: `MaxEntities <= Byte`, ids are numbered
so that none needs more than a byte. The assumption is needed: with one id more
(`Byte` 3, `MaxEntities` 4) TLC finds each of the first three violated, because
the wire cuts ids and two entities share one. No code keeps the number of
entities below it, so the theorems speak of the game as long as they are few.

`ClientProofs` (`ClientInv`, `TextsInv`). *The connection:* what the registry
has seen, the queue, the hand of the network thread and what ENet still holds
are one sequence of events. Whatever a thread does to it is to add one at the
end, to drop one that has no number, to lose the last ones, or, once, in
`connect`, to move one to the front. So its packets were sent, none is there
twice, from the second event on they are in order, and none is missing while the
connection stands: `UpdatesArrive`. Assumed is only that the number of updates
has a bound. *The screens:* while a key is awaited nothing moves, so the
selected button is the one that asked, and the answer changes the text of this
button and the assignment behind it together: `TextsTrue`. Assumed:
`ScreensAssumption`.

*The bytes* (`ReplicationProofs`, `WireInv`). `FlattenSeq` and the reader's
`FieldsRead` are recursive functions, too; the same induction says where each field
lies in the message and where the reader is when it takes it. As long as strings
are short these places are the same, and a member of every type arrives as it was
written (`RoundTrip`; the tags differ, and the constructor has the order of
`as_tuple`). After a string of 256 characters or more the reader is at least 256
bytes behind. It then takes characters for the lengths of strings and makes up for
128 bytes with each at most. No type has more than three strings and they come
first, so the reader is never ahead of the writer and `NothingOverread` holds for
any lengths. The two facts it rests on are those a new component could break: one
more string, or characters beyond ASCII. Assumed: `SerializationAssumption`.

*Only model-checked:* all liveness (`Ends`, `ConnectionWelcomed`, `IdsArrive`,
`LossNoticed`, `Terminates`, `ImplementsFairProgress`, `BossComes`, `Settles`,
`AttacksArrive`, `ClosedMeansOver`), since fairness and ENABLED are out of the
prover's reach. The library's induction theorems have an operator as parameter,
which the provers cannot instantiate; `ReplicationProofs` therefore does its
inductions over sets. Every invariant and every property of steps that a passing run
checks is a theorem; of `IdsArrive` the first half is about states, too, and is left
to TLC with the second.

## 5. How it grew, and what is next

Built in this order: registry and pool; sessions; connection; scenes and the
level promise; combat; loops; force; last boss; screens; bytes; replication; the
proofs of each in between. Next would be:

1. the volleys of Gorgia and the shrimp, with their angles as directions;
2. the score, life and boss texts, as followers of the values they show;
3. `Replication` over `NetworkClient`'s queue instead of a plain channel.

## 6. Not modelled

- Renderer, audio, input capture, asset loading: input and output through SFML
  without a decision worth checking (what the screens decide is in `Screens`).
- Movement and animation: arithmetic on floats; `Combat` knows whether an entity
  has left the screen, `Force` and `CovidBoss` have distances.
- The volleys of Gorgia and the shrimp: angle arithmetic; their missiles are
  those of `Combat`.
- Score and life texts and the damage flash: they follow values that are
  modelled and nothing reads them.
- `Serialization` leaves out the branches for vectors and maps: no component
  that is sent has such a member.
- The asio server and client: the build leaves them out.
- `ServerGameState.*` (commented out), `GameField.hpp` (superseded by
  `RTypeScenes.hpp`), the demo in `ecs/src/Main.cpp` and the Flappy-bird
  systems: not part of the game. `NetworkServer::networkLoop` only sleeps and
  `registerHandler` is never called.
- Two undefined behaviours have no model beyond their outcome: ENet under two
  threads without a lock, and the vector of systems that grows under its
  iterator.
