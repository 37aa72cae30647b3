------------------------------ MODULE Detection ------------------------------
(***************************************************************************)
(* package graph: the two community detectors, one entity visited per      *)
(* step.                                                                   *)
(*                                                                         *)
(* IDs are numbers in their order.  Weights are naturals and the           *)
(* resolution is ResolutionNum / ResolutionDen, so that gains are compared *)
(* exactly, multiplied by twoM * twoM * ResolutionDen.                     *)
(***************************************************************************)
EXTENDS Integers, Sequences, FiniteSets, FiniteSetsExt, Functions

CONSTANTS
    Detectors,      \* what runs: "louvain", "labels"
    DetectInputs,   \* graphs: [entities, relations], see DetectAssumption
    CommonPrefix,   \* CommonPrefix[i][j]: leading bytes that two IDs share
    ResolutionNum,
    ResolutionDen,
    MaxSweeps,      \* louvainMaxPassIters, labelPropagationMaxIters
    MaxLevels       \* louvainMaxLevels

\* A relation has two ends, which need not be entities of the graph (a snapshot
\* may be torn), and a weight, which need not be positive.
ASSUME DetectAssumption ==
    /\ Detectors \subseteq {"louvain", "labels"}
    /\ \A g \in DetectInputs :
          /\ g.entities \subseteq Nat /\ IsFiniteSet(g.entities)
          /\ IsFiniteSet(g.relations) /\ \A r \in g.relations : r.weight \in Int
    /\ ResolutionNum \in Nat \ {0} /\ ResolutionDen \in Nat \ {0}

VARIABLES
    input,      \* the graph
    detector,
    at,         \* "idle", "visit", "emit", "done"
    nodes,      \* members[n]: the entities that super-node n stands for, and
    members,    \* n is the lowest of them
    adjacency,  \* adjacency[n][m]: weight between super-nodes, once from each end
    degree,     \* degree[n]: the summed weight at n
    label,      \* label[n]: the community of n
    rest,       \* nodes still to visit in this sweep
    moved,      \* a node moved in this sweep
    sweeps,     \* sweeps begun at this level
    levels,     \* the communities of each level, the finest first
    capped      \* observes: a sweep was the last one allowed, and still moved nodes

detectVars == <<input, detector, at, nodes, members, adjacency, degree, label, rest, moved,
                sweeps, levels, capped>>

NoGraph == [entities |-> {}, relations |-> {}]

DetectInit ==
    /\ input = NoGraph
    /\ detector = "labels"
    /\ at = "idle"
    /\ nodes = {} /\ members = <<>> /\ adjacency = <<>> /\ degree = <<>> /\ label = <<>>
    /\ rest = {} /\ moved = FALSE /\ sweeps = 0
    /\ levels = <<>>
    /\ capped = FALSE

EdgeWeight(r) == IF r.weight > 0 THEN r.weight ELSE 1

\* Parallel relations sum; self-loops and relations with an unknown end do not
\* count.
BuildAdjacency(g) ==
    [n \in g.entities |-> [m \in g.entities |->
        IF n = m THEN 0
        ELSE SumFunctionOnSet([r \in g.relations |-> EdgeWeight(r)],
                              {r \in g.relations : {r.from, r.to} = {n, m}})]]

TwoM == SumFunctionOnSet(degree, nodes)

\* The visits of one level.  Without an edge Louvain visits nobody.
StartLevel(d, ns, adj) ==
    /\ nodes' = ns
    /\ adjacency' = adj
    /\ degree' = [n \in ns |-> SumFunctionOnSet(adj[n], ns)]
    /\ label' = [n \in ns |-> n]
    /\ moved' = FALSE
    /\ sweeps' = 1
    /\ rest' = ns
    /\ at' = IF d = "louvain" /\ \A n, m \in ns : adj[n][m] = 0 THEN "emit" ELSE "visit"

Detect ==
    /\ at = "idle"
    /\ \E g \in DetectInputs, d \in Detectors :
          /\ input' = g
          /\ detector' = d
          /\ members' = [n \in g.entities |-> {n}]
          /\ IF g.entities = {}
             THEN at' = "done" /\ UNCHANGED <<nodes, adjacency, degree, label, rest, moved, sweeps>>
             ELSE \E adj \in {BuildAdjacency(g)} : StartLevel(d, g.entities, adj)
    /\ UNCHANGED <<levels, capped>>

-----------------------------------------------------------------------------
Neighbors(n) == {m \in nodes \ {n} : adjacency[n][m] > 0}
Pull(n, l)   == SumFunctionOnSet(adjacency[n], {m \in Neighbors(n) : label[m] = l})

\* Mutation of DominantLabel: the own label is no candidate.
DominantOther(n) ==
    LET labels  == {label[m] : m \in Neighbors(n)} \ {label[n]}
        maximal == {l \in labels : \A k \in labels : Pull(n, k) <= Pull(n, l)}
    IN  IF labels = {} THEN label[n] ELSE Min(maximal)

\* dominantNeighborLabel: the label with the greatest weight among the
\* neighbors, the own label if it is one of several; else the one most like it.
DominantLabel(n) ==
    LET labels  == {label[m] : m \in Neighbors(n)}
        maximal == {l \in labels : \A k \in labels : Pull(n, k) <= Pull(n, l)}
        closest == {l \in maximal : \A k \in maximal :
                       CommonPrefix[k][label[n]] <= CommonPrefix[l][label[n]]}
    IN  IF labels = {} \/ label[n] \in maximal THEN label[n] ELSE Min(closest)

\* Mutation of DegreeOf: the node is not taken out of its community first.
DegreeOfAll(n, l) == SumFunctionOnSet(degree, {m \in nodes : label[m] = l})

\* The degrees of the others that carry a label.
DegreeOf(n, l) == SumFunctionOnSet(degree, {m \in nodes \ {n} : label[m] = l})

\* Louvain: the move of the greatest gain, the lowest community on a tie; the
\* node stays unless the gain is as good as none at all.
BestCommunity(n) ==
    LET candidates == {label[n]} \cup {label[m] : m \in Neighbors(n)}
        twoM == TwoM
        gain == [c \in candidates |-> Pull(n, c) * twoM * ResolutionDen
                                      - ResolutionNum * degree[n] * DegreeOf(n, c)]
        best == Max({gain[c] : c \in candidates})
    IN  IF best > 0 THEN Min({c \in candidates : gain[c] = best})
        ELSE Min({label[n]} \cup {c \in candidates : gain[c] = 0})

Choice(n) == IF detector = "louvain" THEN BestCommunity(n) ELSE DominantLabel(n)

\* One node.  Sweeps repeat until one moves nobody, or the cap.
Visit ==
    /\ at = "visit"
    /\ LET n == Min(rest)
       IN  \E to \in {Choice(n)} :
              /\ label' = [label EXCEPT ![n] = to]
              /\ LET swept  == rest = {n}
                     active == moved \/ to # label[n]
                     again  == swept /\ active /\ sweeps < MaxSweeps
                 IN  /\ rest'   = IF again THEN nodes ELSE rest \ {n}
                     /\ moved'  = IF again THEN FALSE ELSE active
                     /\ sweeps' = IF again THEN sweeps + 1 ELSE sweeps
                     /\ at'     = IF swept /\ ~again THEN "emit" ELSE "visit"
                     /\ capped' = (capped \/ (swept /\ active /\ ~again))
    /\ UNCHANGED <<input, detector, nodes, members, adjacency, degree, levels>>

-----------------------------------------------------------------------------
\* communitiesFromLabels: the super-nodes of one label, as entities.  Their
\* relations, those with both ends in it, are listed at level 0 only.
Group(l) == UNION {members[n] : n \in {m \in nodes : label[m] = l}}
Groups   == {Group(label[n]) : n \in nodes}

\* A community is known by its level and its lowest member.
Community(S, level) ==
    [level |-> level, lowest |-> Min(S), parent |-> 0, entities |-> S,
     relations |-> IF level > 0 THEN {}
                   ELSE {r \in input.relations : r.from \in S /\ r.to \in S}]

\* coarsen: a community becomes a super-node, its inner edges a self-loop.
Coarsened(n, m) ==
    SumFunctionOnSet([e \in nodes \X nodes |-> adjacency[e[1]][e[2]]],
                     {e \in nodes \X nodes : label[e[1]] = n /\ label[e[2]] = m})

\* assignParents
\* Mutation of ParentOf: the community above with the same lowest member.
ParentOfSameLowest(c, above) ==
    IF \E p \in above : p.lowest = c.lowest THEN c.lowest ELSE 0

ParentOf(c, above) ==
    IF \E p \in above : Min(c.entities) \in p.entities
    THEN (CHOOSE p \in above : Min(c.entities) \in p.entities).lowest
    ELSE 0

Linked(all) ==
    [i \in DOMAIN all |->
        {[c EXCEPT !.parent = IF i = Len(all) THEN 0 ELSE ParentOf(c, all[i + 1])] : c \in all[i]}]

\* A level is complete.  Label propagation has one, Louvain goes on with the
\* coarsened graph while a level merges something.
Emit ==
    /\ at = "emit"
    /\ \E found \in {{Community(S, Len(levels)) : S \in Groups}} :
       \E all \in {Append(levels, found)} :
          IF \/ detector = "labels"
             \/ Cardinality(found) >= Cardinality(nodes)
             \/ Len(all) = MaxLevels
          THEN /\ at' = "done"
               /\ levels' = Linked(all)
               /\ UNCHANGED <<nodes, members, adjacency, degree, label, rest, moved, sweeps>>
          ELSE \E lowest \in {[n \in nodes |-> Min(Group(label[n]))]} :
               LET new == Range(lowest)
                   Old(n) == CHOOSE m \in nodes : lowest[m] = n
               IN  /\ levels' = all
                   /\ members' = [n \in new |-> Group(label[Old(n)])]
                   /\ \E adj \in {[n \in new |-> [m \in new |->
                                       Coarsened(label[Old(n)], label[Old(m)])]]} :
                         StartLevel(detector, new, adj)
    /\ UNCHANGED <<input, detector, capped>>

DetectStep == Visit \/ Emit
DetectNext == Detect \/ DetectStep

-----------------------------------------------------------------------------
(***************************************************************************)
(* What is expected.                                                       *)
(***************************************************************************)
\* Both detectors, on whole and torn graphs: every level partitions the
\* entities; level 0 lists a relation exactly where both ends are; each
\* community below the top lies in its parent, one level up; level upon level
\* the partition gets no finer.
HierarchyIsNested ==
    (at = "done" /\ input.entities # {}) =>
        \A i \in DOMAIN levels :
            /\ UNION {c.entities : c \in levels[i]} = input.entities
            /\ \A c, d \in levels[i] : c # d => c.entities \cap d.entities = {}
            /\ \A c \in levels[i] :
                  /\ c.relations = {r \in input.relations : i = 1 /\ {r.from, r.to} \subseteq c.entities}
                  /\ IF i = Len(levels) THEN c.parent = 0
                     ELSE \E p \in levels[i + 1] : p.lowest = c.parent /\ c.entities \subseteq p.entities

\* The modularity of the communities of the entities, times twoM squared and
\* ResolutionDen.  Coarsening keeps every sum.
Modularity ==
    LET twoM   == TwoM
        labels == {label[n] : n \in nodes}
        Of(l)  == LET inside == {n \in nodes : label[n] = l}
                      sigma  == SumFunctionOnSet(degree, inside)
                  IN  twoM * ResolutionDen
                        * SumFunctionOnSet([e \in inside \X inside |-> adjacency[e[1]][e[2]]], inside \X inside)
                      - ResolutionNum * sigma * sigma
    IN  SumFunctionOnSet([l \in labels |-> Of(l)], labels)

\* Louvain is greedy: whatever ties are broken and whatever is coarsened, no
\* step makes the partition worse.
QualityNeverFalls ==
    [][(at # "idle" /\ detector = "louvain") => Modularity' >= Modularity]_detectVars

\* Detection ends by itself, not at a cap.
DetectionSettled == at = "done" /\ ~capped
=============================================================================
