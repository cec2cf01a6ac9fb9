\* Two orbs: one may be on its way while the other dies.  Distances from which a
\* flight ends, and from which it goes to and fro for ever.
SPECIFICATION FairSpec
CONSTANTS
    NumOrbs = 2
    BossHealth = 2
    OrbHealth = 2
    AttackInterval = 2
    Step = 1
    Near = 0
    MaxDistance = 5
PROPERTIES
    ShieldHolds
    NoOrbGhosts
    AttacksArrive
