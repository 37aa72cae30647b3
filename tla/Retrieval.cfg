SPECIFICATION FairSpec
CONSTANTS
    ChunkCount = 3
    SectionOf <- MCSectionOf
    Title = "T"
    Query = {"q", "r"}
    Matches <- MCMatches
    Terms <- MCTerms
    Similarity <- MCSimilarity
    Hops <- MCHops
    Requests <- MCRequests
    RRFConstant = 1
    Unit = 12
    Faults = TRUE
    MaxChanges = 1
INVARIANTS
    EverySignalIsHeard
    FusionRespectsRanks
    HitsStayOnRoute
    BestScoresWin
PROPERTIES
    RetrievalReturns
CHECK_DEADLOCK FALSE
