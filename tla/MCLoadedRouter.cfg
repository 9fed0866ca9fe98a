SPECIFICATION HSpec
CONSTANTS
    Literals <- MCLiterals
    Params <- MCParams
    Methods = {"GET", "PUT"}
    MethodOf <- MCMethodOf
    Paths <- MCPaths
    MaxPaths = 3
    Documents <- MCDocuments
CHECK_DEADLOCK FALSE
INVARIANTS
    RefsNameTheirPlace
    DocumentIsServed
    
PROPERTIES
    ImplementsLoading
