SPECIFICATION IngestSpec
CONSTANTS
    d1 = d1
    d2 = d2
    s1 = s1
    s2 = s2
    c10 = c10
    c11 = c11
    c20 = c20
    a = a
    b = b
    ab = ab
    v1 = v1
    v2 = v2
    Chunk = {c10, c11, c20}
    Entity = {a, b}
    Relation = {ab}
    Ends <- MCEnds
    Doc = {d1, d2}
    Source = {s1, s2}
    DocOf <- MCDocOf
    Position <- MCPosition
    Revision = {v1, v2}
    Split <- MCSplit
    NoRev = NoRev
    SourceOf <- SharedSource
    Extracted <- LanguageModel
    Importer = {i1, i2}
    ReplaceModes = {TRUE, FALSE}
    Faults = TRUE
    Removals = TRUE
    MaxImports = 2
SYMMETRY Importers
INVARIANT
    EvidenceIsWeighed
CHECK_DEADLOCK FALSE
