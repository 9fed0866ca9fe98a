SPECIFICATION Spec
CONSTANTS
    Handles = {h1, h2, h3}
    \* documents that describe nothing, everything, or only what the destructors delete
    Documents = { {}, {"query", "body"}, {"query", "path", "header", "body"} }
    MaxImps = 4
    Copying = TRUE
CHECK_DEADLOCK FALSE
INVARIANTS
    TriesAreOwned
    FaultsNeedTwoOwners
    OnlyKnownLeaks
