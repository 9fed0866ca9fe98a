SPECIFICATION Spec
CONSTANTS
    Threads = {t1, t2, t3}
    Documents <- AllDocuments
    NoDoc = NoDoc
    NoThread = NoThread
INVARIANTS
    AnswersOwnDocument
    FreeValidatorIsClean
PROPERTIES
    RefinesAtomic
    WaitsOnlyForOthers
