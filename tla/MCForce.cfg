\* Two ships that may stand on either side of the force, or out of its reach, and
\* that may run away from it.
SPECIFICATION FairForceSpec
CONSTANTS
    NumPlayers = 2
    Width = 5
    Offset = 2
    Reach = 4
    Speed = 1
    None = None
INVARIANT
    ShootsForPresser
PROPERTIES
    OneMissilePerPress
    SideKept
    Settles
