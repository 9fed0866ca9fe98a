SPECIFICATION Spec
CONSTANTS
    Width <- MCWidth
    CodePoints <- MCCodePoints
    Matches <- MCMatches
    Quoted <- MCQuoted
    Schemas <- MCSchemas
    Documents <- MCDocuments
INVARIANTS
    VerdictIsValidity
    ErrorsPointAtFaults
    
