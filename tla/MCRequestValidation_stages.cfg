SPECIFICATION Spec
CONSTANTS
    Stores <- AllStores
    Requests <- AllRequests
INVARIANTS
    ReportsFirstError
    ContentIsLazy

    
