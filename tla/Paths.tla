-------------------------------- MODULE Paths --------------------------------
(***************************************************************************)
(* WeightedPathRanker (graph/path.go), which the graph retriever asks for  *)
(* the paths between its seeds: a depth-first search with backtracking,    *)
(* one edge per step.                                                      *)
(*                                                                         *)
(* Entities are numbers in the order of their IDs, relations are known by  *)
(* their place.  Scores are exact: with the default decay of a half and a  *)
(* bonus of a tenth they are whole multiples of 1/20 per edge after the    *)
(* first.                                                                  *)
(***************************************************************************)
EXTENDS Integers, Sequences, SequencesExt, Functions, Sorting

CONSTANTS
    PathInputs,     \* [entities, relations, seeds], see PathAssumption
    MaxPathLen      \* maxPathLen: edges of a path at most

ASSUME PathAssumption ==
    /\ MaxPathLen \in Nat \ {0}
    /\ \A s \in PathInputs :
          /\ s.entities \subseteq Nat
          /\ s.seeds \subseteq Nat /\ IsFiniteSet(s.seeds)
          /\ s.relations \in Seq(Range(s.relations))
          /\ \A r \in DOMAIN s.relations :
                /\ {s.relations[r].source, s.relations[r].target} \subseteq Nat
                /\ s.relations[r].weight \in Nat
                /\ IsFiniteSet(s.relations[r].chunks)

VARIABLES
    subgraph,   \* the neighborhood, and the seeds it was taken around
    ranker,     \* "idle", "search", "ranked"
    pairs,      \* pairs of seeds still to connect
    stack,      \* the calls of enumPaths, the innermost last: [path, edges]
    visited,    \* entities on the way
    found       \* paths found: [entities, relations]

pathVars == <<subgraph, ranker, pairs, stack, visited, found>>

PathInit ==
    /\ subgraph = [entities |-> {}, relations |-> <<>>, seeds |-> {}]
    /\ ranker = "idle"
    /\ pairs = <<>>
    /\ stack = <<>>
    /\ visited = {}
    /\ found = <<>>

PairBefore(p, q) == p[1] < q[1] \/ (p[1] = q[1] /\ p[2] < q[2])

\* seedPairs: every two seeds, in order.
SeedPairs(seeds) == InOrder({p \in seeds \X seeds : p[1] < p[2]}, PairBefore)

RankPaths ==
    /\ ranker = "idle"
    /\ \E s \in PathInputs : subgraph' = s /\ pairs' = SeedPairs(s.seeds)
    /\ ranker' = "search"
    /\ UNCHANGED <<stack, visited, found>>

\* Relations that count: no loops, and with known ends.
Edge(r) ==
    LET rel == subgraph.relations[r]
    IN  rel.source # rel.target /\ {rel.source, rel.target} \subseteq subgraph.entities

Ends(r) == {subgraph.relations[r].source, subgraph.relations[r].target}

\* The edges at an entity, by the entity they lead to and then by relation.
EdgesAt(e) ==
    {x \in subgraph.entities \X DOMAIN subgraph.relations : Edge(x[2]) /\ Ends(x[2]) = {e, x[1]}}

Adjacent(e) == InOrder(EdgesAt(e), PairBefore)

\* A call of enumPaths: it does nothing where the path is as long as it may be.
Call(path) ==
    [path  |-> path,
     edges |-> IF Len(path.relations) >= MaxPathLen THEN <<>> ELSE Adjacent(Last(path.entities))]

StartPair ==
    /\ ranker = "search" /\ stack = <<>> /\ pairs # <<>>
    /\ LET from == pairs[1][1]
           to   == pairs[1][2]
       IN  IF {from, to} \subseteq subgraph.entities
           THEN /\ stack' = <<Call([entities |-> <<from>>, relations |-> <<>>])>>
                /\ visited' = {from}
                /\ UNCHANGED pairs
           ELSE pairs' = Tail(pairs) /\ UNCHANGED <<stack, visited>>
    /\ UNCHANGED <<subgraph, ranker, found>>

\* A path that arrives is found, and not continued.
FollowEdge ==
    /\ stack # <<>> /\ Last(stack).edges # <<>>
    /\ LET call == Last(stack)
           to   == Head(call.edges)[1]
           path == [entities  |-> Append(call.path.entities, to),
                    relations |-> Append(call.path.relations, Head(call.edges)[2])]
           back == [stack EXCEPT ![Len(stack)].edges = Tail(@)]
       IN  CASE to \in visited -> stack' = back /\ UNCHANGED <<visited, found>>
             [] to \notin visited /\ to = pairs[1][2] ->
                    stack' = back /\ found' = Append(found, path) /\ UNCHANGED visited
             [] OTHER ->
                    /\ stack' = Append(back, Call(path))
                    /\ visited' = visited \cup {to}
                    /\ UNCHANGED found
    /\ UNCHANGED <<subgraph, ranker, pairs>>

\* Mutation of Left: an entity once visited stays so.
LeftVisited(e) == visited

\* What is on the way after the search has left an entity.
Left(e) == visited \ {e}

Backtrack ==
    /\ stack # <<>> /\ Last(stack).edges = <<>>
    /\ stack' = Front(stack)
    /\ visited' = Left(Last(Last(stack).path.entities))
    /\ pairs' = IF Len(stack) = 1 THEN Tail(pairs) ELSE pairs
    /\ UNCHANGED <<subgraph, ranker, found>>

-----------------------------------------------------------------------------
Weight(r) == IF subgraph.relations[r].weight > 0 THEN subgraph.relations[r].weight ELSE 1

ShareChunk(r, q) == subgraph.relations[r].chunks \cap subgraph.relations[q].chunks # {}

\* scorePath, in twentieths per edge after the first: for every edge the weight
\* of its relation, after the first halved, a tenth more if it shares a chunk
\* with the one before.
Factor(rels, n) ==
    IF n > Len(rels) THEN 20
    ELSE IF n = 1 THEN Weight(rels[1])
    ELSE Weight(rels[n]) * (IF ShareChunk(rels[n - 1], rels[n]) THEN 11 ELSE 10)

Score(rels) ==
    LET product[n \in 0..MaxPathLen] == IF n = 0 THEN 1 ELSE product[n - 1] * Factor(rels, n)
    IN  product[MaxPathLen]

\* At the first place that differs, s ends or is less.
KeyBefore(s, t) ==
    \E k \in DOMAIN t :
        /\ \A i \in 1..(k - 1) : i \in DOMAIN s /\ s[i] = t[i]
        /\ k \in DOMAIN s => s[k] < t[k]

\* Better scores first, then by entities.
Before(p, q) ==
    \/ Score(p.relations) > Score(q.relations)
    \/ Score(p.relations) = Score(q.relations) /\ KeyBefore(p.entities, q.entities)

\* Paths of one score over the same entities stay as they were found: sort.Slice
\* promises no order for them, and keeps it for the few that there mostly are.
Rank ==
    /\ ranker = "search" /\ stack = <<>> /\ pairs = <<>>
    /\ LET order == InOrder(DOMAIN found,
                           LAMBDA i, j : \/ Before(found[i], found[j])
                                         \/ ~Before(found[j], found[i]) /\ i < j)
       IN  found' = [k \in DOMAIN found |-> found[order[k]]]
    /\ ranker' = "ranked"
    /\ UNCHANGED <<subgraph, pairs, stack, visited>>

PathStep == StartPair \/ FollowEdge \/ Backtrack \/ Rank

-----------------------------------------------------------------------------
(***************************************************************************)
(* Properties.                                                             *)
(***************************************************************************)
\* The simple paths from one entity to another.
SimplePaths(from, to) ==
    LET ofLength(n) ==
            {p \in [entities  : [1..(n + 1) -> subgraph.entities],
                    relations : [1..n -> DOMAIN subgraph.relations]] :
                /\ p.entities[1] = from /\ p.entities[n + 1] = to
                /\ IsInjective(p.entities)
                /\ \A i \in 1..n :
                      LET rel == subgraph.relations[p.relations[i]]
                      IN  {p.entities[i], p.entities[i + 1]} = {rel.source, rel.target}}
    IN  UNION {ofLength(n) : n \in 1..MaxPathLen}

\* The paths handed out are the simple paths of up to maxPathLen relations
\* between two seeds in the neighborhood, every one of them once, parallel
\* relations apart (graph/path.go:40): the search neither leaves an entity
\* marked after it backed out of it, nor comes upon a path twice.
PathsAreComplete ==
    ranker = "ranked" =>
        LET seeds == subgraph.seeds \cap subgraph.entities
        IN  /\ ToSet(found) = UNION {SimplePaths(p[1], p[2]) : p \in {q \in seeds \X seeds : q[1] < q[2]}}
            /\ IsInjective(found)
=============================================================================
