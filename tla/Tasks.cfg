SPECIFICATION FairTaskSpec
CONSTANTS
    None = None
    Owner = {o1}
    Key = {k1}
    Index = {email}
    IndexKey = {v1, v2}
    Value = {v1, v2}
    field <- MCField
    Singleton = {}
    SinVal = {}
    DebugAssertions = TRUE
    UniqueFields = TRUE
    DirectIndexAccess = FALSE
    CatchUnwind = FALSE
    StaleKeyIntact = TRUE
    Thread = {t1, t2, t3}
    WritersFirst = TRUE
    MaxCalls = 1
    Worker = {w1, w2}
    LocalTask = {t1, t2}
    LocalWorker = w1
    home <- MCHome
    AwaitOver = {"read", "ro", "txn"}
    NestUnder = {"read", "write", "ro", "txn"}
INVARIANTS
    LockIsNeverLost
    HoldersSeeExactIndexes
    LockMovesOn
PROPERTIES
    CallsEndOrStuck
    StuckForGood
CHECK_DEADLOCK FALSE
