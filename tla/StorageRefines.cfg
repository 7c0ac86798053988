SPECIFICATION StorageSpec
CONSTANTS
    None = None
    Owner = {o1, o2}
    Key = {k1, k2}
    Index = {email, name}
    IndexKey = {a, b, c}
    Body = {p}
    Value <- MCRow
    field <- MCField
    Singleton = {}
    SinVal = {}
    DebugAssertions = TRUE
    UniqueFields = TRUE
    DirectIndexAccess = FALSE
    CatchUnwind = FALSE
    StaleKeyIntact = TRUE
INVARIANTS
    IndexComplete
    IndexedLenAgrees
    IndexedGetSearchesByField
PROPERTIES
    ImplementsFieldTable
    IndexedOpsSearchByField
