SPECIFICATION FairSpec
CONSTANTS
    q1 = q1
    q2 = q2
    Key <- MCKey
    Query <- MCQuery
    Value = {v1}
    Cap = 2
    N = 3
    Workers = 2
    Texts = {a1, a2}
    MaxAttempts = 2
    Cancels = TRUE
    Panics = TRUE
INVARIANTS
    CacheIsLRU
    VerdictsAreGenuine
    SuccessScoresAll
    ErrorsAreFinal
PROPERTIES
    TasksFollowScatter
    BenchmarkReturns
