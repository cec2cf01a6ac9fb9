\* Two component types, one of which may be registered late, and three ids: the queue
\* holds two of them while the third is live, and a loop goes on over an index that was
\* spawned, freed or spawned again behind it or ahead of it.  No symmetry, since one of
\* the properties is a liveness one.
SPECIFICATION FairLoopSpec
CONSTANTS
    Component = {c1, c2}
    MaxEntities = 3
INVARIANTS
    RecycledIdsClean
    NoneMissed
    EndStays
PROPERTIES
    ImplementsPool
    Ends
