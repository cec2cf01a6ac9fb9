\* Two clients, three ids of which the last is taken for a welcome, and frames that see
\* nothing, a part or all of what the server has sent.
SPECIFICATION Spec
CONSTANTS
    c1 = c1
    c2 = c2
    Client = {c1, c2}
    Keys = {0}
    Initial = Initial
    None = None
    Byte = 3
    MaxEntities = 3
    MaxBehind = 0
    MaxSent = 1
    Polled = {0, 3}
SYMMETRY Clients
INVARIANTS
    CaughtUp
    NoGhosts
    OwnControls
PROPERTIES
    NoEcho
