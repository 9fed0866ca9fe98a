SPECIFICATION Spec
CONSTANTS
    Documents <- MCDocuments
    MaxDepth = 6
CHECK_DEADLOCK FALSE
INVARIANTS
    ResolvedIsExpansion
PROPERTIES
    SoundIsResolvedInTheEnd
