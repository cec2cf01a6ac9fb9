\* Two players share the timer and the bonus; two ids: a missile and an enemy it hits,
\* whose explosion takes an id that became free, or a pickup and an aura.
SPECIFICATION Spec
CONSTANTS
    Entity = {e1, e2}
    NumPlayers = 2
    MaxHealth = 2
    EnemyHealth = 1
    InvicibilityTime = 3
    MaxHeal = 1
    MaxShield = 1
INVARIANTS
    ShieldsRunOut
    NoGhosts
    StrikesTwiceAtMost
PROPERTIES
    WrecksStayDead
SYMMETRY Perms
