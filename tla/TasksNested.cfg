SPECIFICATION FairTaskSpec
CONSTANTS
    None = None
    Owner = {o1}
    Key = {k1}
    Index = {}
    IndexKey = {}
    Value = {v1}
    field <- MCField
    Singleton = {}
    SinVal = {}
    DebugAssertions = TRUE
    UniqueFields = FALSE
    DirectIndexAccess = FALSE
    CatchUnwind = FALSE
    StaleKeyIntact = TRUE
    Thread = {t1, t2}
    WritersFirst = TRUE
    MaxCalls = 1
    Worker = {w1, w2}
    LocalTask = {}
    LocalWorker = w1
    home <- MCHome
    AwaitOver = {}
    NestUnder = {"read"}
PROPERTIES
    SecondReadsReturn
CHECK_DEADLOCK FALSE
