SPECIFICATION FairSpec
CONSTANTS
    Detectors = {"louvain", "labels"}
    DetectInputs <- MCDetectInputs
    CommonPrefix <- MCCommonPrefix
    ResolutionNum = 1
    ResolutionDen = 1
    MaxSweeps = 6
    MaxLevels = 10
    SplitInputs <- MCSplitInputs
    PackInputs <- MCPackInputs
    ModelScores = {3, 7}
    MaxSentences = 2
    DefaultBudget = 16
    ResolveInputs <- MCResolveInputs
    NameLength <- MCNameLength
    NormalName <- MCNormalName
    PathInputs <- MCPathInputs
    MaxPathLen = 2
INVARIANTS
    HierarchyIsNested
    ChunksKeepTheDocument
    ContextAddsUp
    ResolutionIsFaithful
    PathsAreComplete
PROPERTIES
    QualityNeverFalls
    EveryComputationEnds
CHECK_DEADLOCK FALSE
