SPECIFICATION Spec
CONSTANTS
    Literals <- MCLiterals
    Params <- MCParams
    Methods = {"GET", "PUT", "HEAD"}
    BadMethod = "none"
    MethodMap <- GetPutHeadMap
    Paths <- MethodPaths
    Requests <- MethodRequests
    MaxPaths = 2
INVARIANTS
    RouteSound
    ParamIdxSound
PROPERTIES
    RefinesRouteSpec
