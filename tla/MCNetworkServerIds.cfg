\* The same instance, for the claim that client ids are unique.
SPECIFICATION Spec
CONSTANTS
    None = None
    Scene = Scene
    Player = Player
    Controllable = Controllable
    Missile = Missile
    Component = {Scene, Player, Controllable, Missile}
    Client = {a, b, c}
    Peer = {p1, p2}
    MaxBatch = 3
    MaxClientIds = 3
    MaxEntities = 5
SYMMETRY Symmetry
INVARIANT
    UniqueClientIds
