\* Three clients for two slots: the shortest collision of client ids needs three
\* clients, and a batch of three events can free a slot and fill it again.  Four ids
\* are the scene's, two ships' and one for a missile or a third ship.  No symmetry,
\* since one property is a liveness one.
SPECIFICATION FairSpec
CONSTANTS
    None = None
    Scene = Scene
    Player = Player
    Controllable = Controllable
    Missile = Missile
    Component = {Scene, Player, Controllable, Missile}
    Client = {a, b, c}
    Peer = {p1, p2}
    MaxBatch = 3
    MaxClientIds = 3
    MaxEntities = 4
INVARIANTS
    EntitiesWellManaged
    MappedPlayersLive
    CounterCoversSessions
    OrderlySessions
    OrderlyWelcome
PROPERTY
    ConnectionWelcomed
