SPECIFICATION CallsSpec
CONSTANTS
    d1 = d1
    s1 = s1
    c10 = c10
    a = a
    b = b
    ab = ab
    v1 = v1
    v2 = v2
    v3 = v3
    Chunk = {c10}
    Entity = {a, b}
    Relation = {ab}
    Ends <- MCEnds
    Doc = {d1}
    Source = {s1}
    SourceOf <- MCSourceOf
    DocOf <- MCDocOf
    Position <- MCPosition
    Revision = {v1, v2, v3}
    Split <- MCSplit
    Extracted <- MCExtracted
    NoRev = NoRev
    NoReport = NoReport
    Importer = {i1}
    ReplaceModes = {TRUE}
    Removals = FALSE
    MaxLevel = 1
    Detect <- MCDetectFlat
    Caller = {q1, q2}
    Kinds = {"ask", "prewarm"}
    MaxCommunities = 1
    Faults = TRUE
    MaxImports = 2
    MaxCalls = 3
SYMMETRY Callers
INVARIANTS
    AnsweredForMembership
    UndisturbedReportsAreExact
CHECK_DEADLOCK FALSE
