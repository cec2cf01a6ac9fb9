\* Two actions, one of which may be awaited while the other is selected.
SPECIFICATION FairScreensSpec
CONSTANTS
    Action <- MCAction
    Key <- MCKey
    Pad <- MCPad
    Nameless <- MCNameless
    DefaultKey <- MCDefaultKey
    DefaultPad <- MCDefaultPad
    Prompt = "["
    None = None
CHECK_DEADLOCK FALSE
INVARIANT
    TextsTrue
PROPERTY
    ClosedMeansOver
