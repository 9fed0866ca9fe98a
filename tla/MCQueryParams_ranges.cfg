SPECIFICATION Spec
CONSTANTS
    Stores <- AllStores
    Queries <- AllQueries
INVARIANTS
    RangesApart
    RegularQueriesAreSplit
