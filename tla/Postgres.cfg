SPECIFICATION FairSpec
CONSTANTS
    c1 = c1
    c2 = c2
    a = a
    b = b
    ab = ab
    k1 = k1
    k2 = k2
    s1 = s1
    s2 = s2
    Chunk = {c1, c2}
    Entity = {a, b}
    Relation = {ab}
    Ends <- MCEnds
    Client = {p1, p2}
    Calls <- MCCalls
    CommunityId = {k1, k2}
    NoCall = NoCall
    Absent = Absent
    Faults = TRUE
    MaxCalls = 3
INVARIANTS
    NoCommittedRelationDangles
    ReadsErrForward
PROPERTIES
    StoreKeepsContract
    CallsEnd
CHECK_DEADLOCK FALSE
