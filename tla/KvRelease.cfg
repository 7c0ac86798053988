SPECIFICATION Spec
CONSTANTS
    None = None
    Owner = {o1, o2}
    Key = {k1}
    Index = {}
    IndexKey = {}
    Body = {p}
    Value <- MCRow
    field <- MCField
    Singleton = {s1}
    SinVal = {n1}
    DebugAssertions = FALSE
    UniqueFields = FALSE
    DirectIndexAccess = FALSE
    CatchUnwind = FALSE
    StaleKeyIntact = TRUE
    Thread = {t1, t2}
    WritersFirst = TRUE
    MaxCalls = 2
SYMMETRY Symmetry
PROPERTIES
    OnlyOwnersMutate
