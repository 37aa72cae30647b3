SPECIFICATION FairSpec
CONSTANTS
    h1 = h1
    h2 = h2
    k1 = k1
    k2 = k2
    n1 = n1
    n2 = n2
    n3 = n3
    n4 = n4
    Requests <- MCRequests
    Costs = {1}
    Chunk = {h1, h2}
    TopK = 2
    MaxRounds = 3
    MinHits = 1
    Rewrites = {"question", "rewrite"}
    PerRound = 2
    PerAsk = 3
    PlannerMax = 3
    Communities <- MCCommunities
    Scores = {0, 1}
    Nodes = {n1, n2, n3, n4}
    MembersOf <- MCMembers
    DefaultRounds = 2
    MaxDriftRounds = 3
INVARIANTS
    RoundsFollowDecisions
    AdoptedIsBest
    BudgetsAreKept
    SeedsNeverRevisited
    PartialsAreComplete
PROPERTY
    QuestionsEnd
CHECK_DEADLOCK FALSE
