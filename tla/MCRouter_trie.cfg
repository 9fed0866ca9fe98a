SPECIFICATION Spec
CONSTANTS
    Literals <- MCLiterals
    Params <- MCParams
    Methods = {"GET"}
    BadMethod = "none"
    MethodMap <- OneMethodMap
    Paths <- TriePaths
    Requests <- TrieRequests
    MaxPaths = 3
INVARIANTS
    TrieAgreesWithRoutes
PROPERTIES
    RefinesRouteSpec
