\* Three updates with a number after the welcome: one that connect() may take for it,
\* one to be overtaken, one to be cut off by a disconnection.
SPECIFICATION FairSpecUntilDone
CONSTANT
    MaxUpdates = 3
INVARIANTS
    UpdatesArrive
PROPERTIES
    IdsArrive
    LossNoticed
    Terminates
