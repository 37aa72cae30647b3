SPECIFICATION IngestSpec
CONSTANTS
    d1 = d1
    d2 = d2
    s1 = s1
    s2 = s2
    c10 = c10
    c11 = c11
    c20 = c20
    a = a
    b = b
    ab = ab
    v1 = v1
    v2 = v2
    Chunk = {c10, c11, c20}
    Entity = {a, b}
    Relation = {ab}
    Ends <- MCEnds
    Doc = {d1, d2}
    Source = {s1, s2}
    DocOf <- MCDocOf
    Position <- MCPosition
    Revision = {v1, v2}
    Split <- MCSplit
    NoRev = NoRev
    SourceOf <- OwnSource
    Extracted <- Dictionary
    Importer = {i1}
    ReplaceModes = {TRUE}
    Faults = TRUE
    Removals = FALSE
    MaxImports = 3
INVARIANT
    ReingestReconciles
CHECK_DEADLOCK FALSE
