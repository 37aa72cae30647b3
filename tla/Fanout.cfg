SPECIFICATION FairSpec
CONSTANTS
    N = 4
    MaxConcurrency = 2
    FailFast = TRUE
    Waiters = {2}
    Cancels = TRUE
PROPERTIES
    RunKeepsItsPromise
    RunReturns
