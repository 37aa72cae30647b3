------------------------------ MODULE Retrieval ------------------------------
(***************************************************************************)
(* package retrieve: one retrieval through the retrievers the SDK ships,   *)
(* beside a store that changes.                                            *)
(*                                                                         *)
(*   VariantRetriever or MultiHopRetriever   one query after the other     *)
(*     retrieveWithRoutePolicy               one section route, or a probe *)
(*                                           and then a fan-out of routes  *)
(*       HybridRetriever                     up to four signals, each in a *)
(*                                           goroutine, fused by rank      *)
(*                                                                         *)
(* Texts are given by what the retrievers compute from them: how many      *)
(* tokens of a query occur in a heading or a chunk, and how similar a      *)
(* chunk's vector is.  Scores are whole multiples of a unit named where    *)
(* they are computed.  A sort on equal scores may leave any order, because *)
(* the sorted lists are gathered from maps.                                *)
(***************************************************************************)
EXTENDS Naturals, Sequences, SequencesExt, FiniteSetsExt

CONSTANTS
    ChunkCount,     \* chunk IDs are 1..ChunkCount, in their order
    SectionOf,      \* SectionOf[c]: the heading path of a chunk
    Title,          \* the title of the document, a heading to the scores
    Query,
    Matches,        \* Matches[q][h]: tokens of q that heading h contains
    Terms,          \* Terms[q][c]: tokens of q that chunk c contains
    Similarity,     \* Similarity[q][c]: cosine similarity, as a natural
    Hops,           \* Hops[q]: the chunks of the entities q reaches, with their hops
    Requests,       \* the requests that are made
    RRFConstant,
    Unit,           \* fused scores are multiples of 1 / Unit
    Faults,         \* whether the store, the embedder or the linker may fail
    MaxChanges      \* bound: how often the stored chunks change

Chunk == 1..ChunkCount

ASSUME RetrievalAssumption ==
    /\ ChunkCount \in Nat
    /\ RRFConstant \in Nat
    /\ Unit \in Nat \ {0}
    /\ \A rank \in Chunk : Unit % (RRFConstant + rank) = 0
    /\ \A c \in Chunk : SectionOf[c] \in Seq(STRING)
    /\ \A q \in Query : DOMAIN Hops[q] \subseteq Chunk
    /\ \A r \in Requests :
         /\ r.queries \in Seq(Query) \ {<<>>}
         /\ r.topK \in Nat \ {0}
         /\ r.path \in Seq(STRING)
         /\ r.fanout \in Nat
         /\ r.autoRoute \in BOOLEAN /\ r.structure \in BOOLEAN /\ r.graph \in BOOLEAN
    /\ MaxChanges \in Nat

Signals == <<"dense", "lexical", "structure", "graph">>   \* in error precedence
Signal  == Range(Signals)

VARIABLES
    stored,     \* the chunks in the store
    request,    \* what is asked for
    stage,      \* "ask", "plan", "signals", "fused", "returned", "crashed"
    turn,       \* the query that is being searched
    phase,      \* "single", "probe" or "route": what its hits are for
    routes,     \* the candidates still to be searched, the current one first
    slot,       \* slot[s]: what the goroutine of signal s has
    fused,      \* the fused hits of the signals
    perRoute,   \* hits of the routes so far, in the order they were first seen
    perQuery,   \* hits of the queries so far, likewise
    answer,     \* the hits returned
    failure,    \* the signal whose error is returned, or "none"
    \* Variables that only observe:
    offered,    \* every hit that some query found
    binding,    \* the routes the hits must come from
    calm,       \* the chunks did not change, and every List of a routing worked
    changes

searchVars == <<stage, turn, phase, routes, slot, fused, perRoute, perQuery, answer, failure>>
vars == <<stored, request, searchVars, offered, binding, calm, changes>>

Off == [at |-> "off", route |-> <<>>, candidates |-> <<>>, hits |-> <<>>, left |-> {}]

NoSlots == [s \in Signal |-> Off]

\* Only a VariantRetriever asked to fan out over its own routes probes first.
FirstPhase(r) ==
    IF r.via = "variants" /\ r.path = <<>> /\ r.autoRoute /\ r.fanout > 1 THEN "probe" ELSE "single"

Init ==
    /\ stored \in {Chunk, Chunk \ {ChunkCount}}     \* the last chunk may be still to come
    /\ request \in Requests
    /\ stage = "ask"
    /\ turn = 1
    /\ phase = FirstPhase(request)
    /\ routes = <<>>
    /\ slot = NoSlots
    /\ fused = <<>>
    /\ perRoute = <<>>
    /\ perQuery = <<>>
    /\ answer = <<>>
    /\ failure = "none"
    /\ offered = {}
    /\ binding = {}
    /\ calm = TRUE
    /\ changes = 0

-----------------------------------------------------------------------------
(***************************************************************************)
(* Sorting and sections.                                                   *)
(***************************************************************************)
Cut(s, n) == SubSeq(s, 1, Min({n, Len(s)}))

Listings(S) == {s \in [1..Cardinality(S) -> S] : IsInjective(s)}

\* The lists of S in which each element may precede those after it.
Orders(S, before(_, _)) ==
    {s \in Listings(S) : \A j \in DOMAIN s : \A i \in 1..(j - 1) : before(s[i], s[j])}

\* The lists a sort of S by falling score may leave.
Sorted(S, score) == Orders(S, LAMBDA c, d : score[c] >= score[d])

InRoute(c, route) == IsPrefix(route, SectionOf[c])

\* The sections of the document: the nodes of its tree.
Sections == UNION {{SubSeq(SectionOf[c], 1, n) : n \in 0..Len(SectionOf[c])} : c \in Chunk}

\* How well a query matches a heading path: its headings, the last one once
\* more as the heading of its own section, and the title.
MatchCount ==
    [q \in Query |-> [path \in Sections |->
        MapThenSumSet(LAMBDA i : Matches[q][path[i]], DOMAIN path)
        + (IF path = <<>> THEN 0 ELSE Matches[q][Last(path)])
        + Matches[q][Title]]]

\* routeScore, in units of 0.2.
RouteScore ==
    [q \in Query |-> [path \in Sections |->
        IF MatchCount[q][path] = 0 THEN 0 ELSE 10 * MatchCount[q][path] + Len(path)]]

\* Sums over a heading path are natural numbers.
ASSUME RouteScoreAssumption == \A q \in Query : \A path \in Sections : RouteScore[q][path] \in Nat

\* Candidates are sorted by score, then the longer path first.
Precedes(x, y) == x.score > y.score \/ (x.score = y.score /\ Len(x.path) >= Len(y.path))

CandidateLists(S) == Orders(S, Precedes)

\* proposeRouteCandidates: the sections of the stored chunks that score.
Proposals(q) ==
    LET paths == {SectionOf[c] : c \in stored} \ {<<>>}
        all   == {[path |-> p, score |-> RouteScore[q][p]] : p \in paths}
    IN  {Cut(s, 3) : s \in CandidateLists({x \in all : x.score >= request.minScore /\ x.score > 0})}

\* mergeRouteCandidates: the scores of a path in both lists add up.
MergedCandidates(dst, src) ==
    LET Same(x, s)  == {y \in Range(s) : y.path = x.path}
        Added(x, s) == IF Same(x, s) = {} THEN x ELSE [x EXCEPT !.score = @ + (CHOOSE y \in Same(x, s) : TRUE).score]
    IN  CandidateLists({Added(x, src) : x \in Range(dst)} \cup {x \in Range(src) : Same(x, dst) = {}})

\* Which section two routings of one query pick may differ when two sections
\* are equally good.
Tied(q) == \E s, t \in Proposals(q) : Head(s) # Head(t)

-----------------------------------------------------------------------------
(***************************************************************************)
(* The signals.                                                            *)
(***************************************************************************)
Now == request.queries[turn]

\* The request of one base retrieval: with a path no routing takes place.
\* Mutation of SearchedPath: a fan-out searches the request's own path.
SearchedPathOfRequest == request.path

SearchedPath == IF phase = "route" THEN routes[1].path ELSE request.path
Routing == request.autoRoute /\ phase # "route" /\ SearchedPath = <<>>
TopK == IF phase = "probe" THEN Max({request.topK, 8}) ELSE request.topK

Enabled(s) ==
    CASE s = "structure" -> request.structure
      [] s = "graph"     -> request.graph
      [] OTHER           -> TRUE

Launch ==
    /\ stage = "ask"
    /\ stage' = "signals"
    /\ slot' = [s \in Signal |->
                   IF ~Enabled(s) THEN Off
                   ELSE [Off EXCEPT !.route = SearchedPath,
                                    !.at = CASE s = "graph" -> "link"
                                             [] OTHER       -> IF Routing THEN "route" ELSE "search"]]
    /\ UNCHANGED <<stored, request, turn, phase, routes, fused, perRoute, perQuery, answer,
                   failure, offered, binding, calm, changes>>

Step(s, new) ==
    /\ slot' = [slot EXCEPT ![s] = new]
    /\ UNCHANGED <<stored, request, stage, turn, phase, routes, fused, perRoute, perQuery,
                   answer, failure, offered, binding, changes>>

\* withAutoRoute: each signal lists the chunks and picks a route by itself.
Route(s) ==
    /\ stage = "signals" /\ slot[s].at = "route"
    /\ \E list \in Proposals(Now) :
          Step(s, [slot[s] EXCEPT !.at = "search", !.candidates = list,
                                  !.route = IF list = <<>> THEN <<>> ELSE list[1].path])
    /\ UNCHANGED calm

\* A List that fails there is taken for no candidates.
RouteUnlisted(s) ==
    /\ Faults
    /\ stage = "signals" /\ slot[s].at = "route"
    /\ Step(s, [slot[s] EXCEPT !.at = "search"])
    /\ calm' = FALSE

\* StructureRetriever, in units of 0.1: the leaves of every matching section,
\* each with the best score a section gives it; without any, the chunks by
\* their own headings and words.
SectionHits(q, S, depth) ==
    LET sections == {p \in Sections : p # <<>> /\ MatchCount[q][p] > 0}
        limit    == IF depth <= 0 THEN 8 ELSE depth
        Below(c, p) == Len(SectionOf[c]) - Len(p) + 1
        Leaf(c, p) == 20 * MatchCount[q][p] + 2 * Len(p) + 15 + (limit - Below(c, p)) + 5 + 5 * Terms[q][c]
        Holders(c) == {p \in sections : InRoute(c, p) /\ Below(c, p) <= limit}
    IN  [c \in {d \in S : Holders(d) # {}} |-> Max({Leaf(c, p) : p \in Holders(c)})]

OwnScore(q, c) ==
    LET path == SectionOf[c]
    IN  IF MatchCount[q][path] = 0 THEN 5 * Terms[q][c]
        ELSE 20 * MatchCount[q][path] + Len(path)
             + (IF path = <<>> THEN 0 ELSE 15 * Matches[q][Last(path)])

StructureHits(q, S, depth) ==
    LET leaves == SectionHits(q, S, depth)
        own    == [c \in {d \in S : OwnScore(q, d) > 0} |-> OwnScore(q, c)]
    IN  IF DOMAIN leaves = {} THEN own ELSE leaves

\* The lists a signal may return for the chunks of its route.  The corpus
\* decides how BM25 ranks the chunks that contain a term of the query.
Found(s) ==
    LET S     == {c \in stored : InRoute(c, slot[s].route)}
        score == CASE s = "dense"     -> [c \in S |-> Similarity[Now][c]]
                   [] s = "structure" -> StructureHits(Now, S, request.depth)
                   [] OTHER           -> [c \in {d \in S : Terms[Now][d] > 0} |-> 0]
    IN  {Cut(list, TopK) : list \in Sorted(DOMAIN score, score)}

Search(s) ==
    /\ stage = "signals" /\ slot[s].at = "search" /\ s # "graph"
    /\ \E list \in Found(s) : Step(s, [slot[s] EXCEPT !.at = "done", !.hits = list])
    /\ UNCHANGED calm

\* GraphRetriever: the entities and their chunks first, then each chunk by
\* itself; one that is gone is skipped.  Routes and filters do not apply.
Link ==
    /\ stage = "signals" /\ slot["graph"].at = "link"
    /\ Step("graph", [slot["graph"] EXCEPT !.at = "search", !.left = DOMAIN Hops[Now]])
    /\ UNCHANGED calm

\* Mutation of Fetch: a chunk that is not found is asked for again.
FetchAgain ==
    /\ stage = "signals" /\ slot["graph"].at = "search" /\ slot["graph"].left # {}
    /\ LET c == Min(slot["graph"].left)
       IN  /\ c \in stored
           /\ Step("graph", [slot["graph"] EXCEPT !.left = @ \ {c}, !.hits = Append(@, c)])
    /\ UNCHANGED calm

Fetch ==
    /\ stage = "signals" /\ slot["graph"].at = "search" /\ slot["graph"].left # {}
    /\ LET c == Min(slot["graph"].left)
       IN  Step("graph", [slot["graph"] EXCEPT !.left = @ \ {c},
                                               !.hits = IF c \in stored THEN Append(@, c) ELSE @])
    /\ UNCHANGED calm

\* The nearer chunk first, then by ID.
RankByHops ==
    /\ stage = "signals" /\ slot["graph"].at = "search" /\ slot["graph"].left = {}
    /\ LET nearer(c, d) == Hops[Now][c] < Hops[Now][d] \/ (Hops[Now][c] = Hops[Now][d] /\ c < d)
       IN  \E list \in Orders(Range(slot["graph"].hits), nearer) :
              Step("graph", [slot["graph"] EXCEPT !.at = "done", !.hits = Cut(list, TopK)])
    /\ UNCHANGED calm

SignalFails(s) ==
    /\ Faults
    /\ stage = "signals" /\ slot[s].at \in {"search", "link"}
    /\ Step(s, [slot[s] EXCEPT !.at = "failed", !.hits = <<>>])
    /\ UNCHANGED calm

\* A panic in one of the goroutines is recovered nowhere: the process ends.
Panic(s) ==
    /\ Faults
    /\ stage = "signals" /\ slot[s].at \in {"route", "search", "link"}
    /\ stage' = "crashed"
    /\ slot' = NoSlots
    /\ UNCHANGED <<stored, request, turn, phase, routes, fused, perRoute, perQuery, answer,
                   failure, offered, binding, calm, changes>>

-----------------------------------------------------------------------------
(***************************************************************************)
(* Fusion.  A hit is a chunk with its score num / (den * Unit).            *)
(***************************************************************************)
\* The place of a chunk among the hits of a signal, 0 when it is not there.
Rank(s, c) ==
    IF c \in Range(slot[s].hits) THEN CHOOSE i \in DOMAIN slot[s].hits : slot[s].hits[i] = c ELSE 0
Heard      == UNION {Range(slot[s].hits) : s \in Signal}
Worth(s, c) == IF Rank(s, c) = 0 THEN 0 ELSE Unit \div (RRFConstant + Rank(s, c))

\* Mutation of FusedScore: the last signal's share replaces the others'.
FusedScoreOfLast(c) == Worth(Signals[Max({i \in 1..4 : Rank(Signals[i], c) > 0})], c)

FusedScore(c) == Worth("dense", c) + Worth("lexical", c) + Worth("structure", c) + Worth("graph", c)

Fused == {[chunk |-> c, num |-> FusedScore(c), den |-> 1] : c \in Heard}

Ended(s)  == slot[s].at \in {"off", "done", "failed"}
Failed(s) == slot[s].at = "failed"
FirstFailed == Signals[Min({i \in 1..4 : Failed(Signals[i])})]

JoinWhen(ready) ==
    /\ stage = "signals" /\ ready
    /\ IF \E s \in Signal : Failed(s)
       THEN /\ stage' = "returned"
            /\ failure' = FirstFailed
            /\ UNCHANGED fused
       ELSE /\ stage' = "fused"
            /\ \E list \in Orders(Fused, LAMBDA x, y : x.num >= y.num) : fused' = Cut(list, TopK)
            /\ UNCHANGED failure
    /\ UNCHANGED <<stored, request, turn, phase, routes, slot, perRoute, perQuery, answer,
                   offered, binding, calm, changes>>

\* Mutation of Join: an error is returned as soon as one signal has it.
JoinEarly == JoinWhen((\A s \in Signal : Ended(s)) \/ \E s \in Signal : Failed(s))

Join == JoinWhen(\A s \in Signal : Ended(s))

-----------------------------------------------------------------------------
(***************************************************************************)
(* Routes and queries.                                                     *)
(***************************************************************************)
Above(x, y) == x.num * y.den > y.num * x.den

\* Mutation of MergeHit: the score a chunk was first seen with stays.
MergeHitKept(seen, hit) == seen

MergeHit(seen, hit) == IF Above(hit, seen) THEN hit ELSE seen

HitsOf(list, c) == {h \in Range(list) : h.chunk = c}

Better(seen, hits) ==
    IF HitsOf(hits, seen.chunk) = {} THEN seen
    ELSE MergeHit(seen, CHOOSE h \in HitsOf(hits, seen.chunk) : TRUE)

\* Hits of distinct chunks: a chunk keeps its place and takes the better score,
\* and the new chunks follow.
Merge(list, hits) ==
    LET new == {i \in DOMAIN hits : HitsOf(list, hits[i].chunk) = {}}
    IN  {[i \in DOMAIN list |-> Better(list[i], hits)] \o [n \in DOMAIN places |-> hits[places[n]]] :
            places \in Orders(new, <)}

\* By falling score, and as first seen when equal.
Ranked(list) ==
    LET before(i, j) == Above(list[i], list[j]) \/ (~Above(list[j], list[i]) /\ i < j)
    IN  {[n \in DOMAIN list |-> list[places[n]]] : places \in Orders(DOMAIN list, before)}

\* GapAwareSectionPlanner.Plan: confidences are shares of the best score,
\* thresholds and gaps percentages.  Scores fall: the first ones are kept.
Plan(candidates) ==
    LET best      == candidates[1].score
        threshold == IF request.threshold <= 0 THEN 60 ELSE request.threshold
        kept      == {i \in DOMAIN candidates : 100 * candidates[i].score >= threshold * best}
        filtered  == Cut(candidates, IF kept = {} THEN 1 ELSE Cardinality(kept))
        converges == /\ request.gap > 0 /\ Len(filtered) >= 2
                     /\ 100 * (filtered[1].score - filtered[2].score) >= request.gap * best
        selected  == Cut(filtered, IF converges THEN 1 ELSE request.fanout)
    IN  [i \in DOMAIN selected |->
            [path |-> selected[i].path, score |-> selected[i].score, best |-> best]]

\* The hits of one query are merged; the last query's merge is the answer.
EndQuery(hits, bound) ==
    /\ perQuery' \in Merge(perQuery, hits)
    /\ offered' = offered \cup Range(hits)
    /\ binding' = binding \cup bound
    /\ IF turn < Len(request.queries)
       THEN /\ stage' = "ask"
            /\ turn' = turn + 1
            /\ phase' = FirstPhase(request)
            /\ UNCHANGED answer
       ELSE /\ stage' = "returned"
            /\ \E list \in Ranked(perQuery') : answer' = Cut(list, request.topK)
            /\ UNCHANGED <<turn, phase>>

TakeHits ==
    /\ stage = "fused"
    /\ slot' = NoSlots
    /\ fused' = <<>>

\* Without a fan-out each signal routes by itself: they are bound to one route
\* only when they saw the same chunks and had no tie to break.
TakeSingle ==
    /\ TakeHits /\ phase = "single"
    /\ EndQuery(fused, IF Routing /\ (~calm \/ Tied(Now)) THEN {<<>>} ELSE {slot["dense"].route})
    /\ UNCHANGED <<stored, request, routes, perRoute, failure, calm, changes>>

\* The candidates of the dense and the structure signal are planned together.
TakeProbe ==
    /\ TakeHits /\ phase = "probe"
    /\ \E list \in MergedCandidates(slot["dense"].candidates, slot["structure"].candidates) :
         IF list = <<>>
         THEN /\ EndQuery(fused, {<<>>})
              /\ UNCHANGED <<routes, perRoute>>
         ELSE /\ routes' = Plan(list)
              /\ perRoute' = <<>>
              /\ phase' = "route"
              /\ stage' = "ask"
              /\ binding' = binding \cup {x.path : x \in Range(Plan(list))}
              /\ UNCHANGED <<turn, perQuery, answer, offered>>
    /\ UNCHANGED <<stored, request, failure, calm, changes>>

\* A hit of a route gains the route's confidence.
Boosted(hits) ==
    [i \in DOMAIN hits |->
        [hits[i] EXCEPT !.num = @ * routes[1].best + hits[i].den * Unit * routes[1].score,
                        !.den = @ * routes[1].best]]

TakeRoute ==
    /\ TakeHits /\ phase = "route"
    /\ perRoute' \in Merge(perRoute, Boosted(fused))
    /\ routes' = Tail(routes)
    /\ IF Len(routes) > 1
       THEN /\ stage' = "ask"
            /\ UNCHANGED <<turn, phase, perQuery, answer, offered, binding>>
       ELSE \E list \in Ranked(perRoute') : EndQuery(Cut(list, request.topK), {})
    /\ UNCHANGED <<stored, request, failure, calm, changes>>

-----------------------------------------------------------------------------
\* Another call adds or removes a chunk.
Change ==
    /\ changes < MaxChanges
    /\ stage \notin {"returned", "crashed"}
    /\ \E c \in Chunk : stored' = IF c \in stored THEN stored \ {c} ELSE stored \cup {c}
    /\ calm' = FALSE
    /\ changes' = changes + 1
    /\ UNCHANGED <<request, searchVars, offered, binding>>

Goroutine(s) ==
    \/ Route(s) \/ RouteUnlisted(s)
    \/ Search(s)
    \/ s = "graph" /\ (Link \/ Fetch \/ RankByHops)

Caller == Launch \/ Join \/ TakeSingle \/ TakeProbe \/ TakeRoute

Run == Caller \/ \E s \in Signal : Goroutine(s)

Next == Run \/ (\E s \in Signal : SignalFails(s) \/ Panic(s)) \/ Change

Spec == Init /\ [][Next]_vars

\* The process keeps running, and the calls it makes return.
FairSpec == Spec /\ WF_vars(Run)

-----------------------------------------------------------------------------
(***************************************************************************)
(* What is expected.                                                       *)
(***************************************************************************)
\* HybridRetriever.Retrieve: nothing is used or returned while a goroutine of
\* it still runs, no error is lost, and of several errors the one that
\* sequential calls would have met first is returned.
EverySignalIsHeard ==
    /\ stage \notin {"signals", "crashed"} => \A s \in Signal : Ended(s)
    /\ stage = "fused" => \A s \in Signal : ~Failed(s)
    /\ stage = "returned" =>
         \A i \in 1..4 : Failed(Signals[i]) =>
            \E j \in 1..i : failure = Signals[j] /\ Failed(Signals[j])

\* No signal ranks chunk c below d, and some signal ranks it above.
Place(s, c) == IF Rank(s, c) = 0 THEN ChunkCount + 1 ELSE Rank(s, c)
Leads(c, d) ==
    /\ \A s \in Signal : Place(s, c) <= Place(s, d)
    /\ \E s \in Signal : Place(s, c) < Place(s, d)

\* Fusion by rank: a chunk that no signal ranks below another one, and that
\* some signal ranks above it, is before it in the fused list.
FusionRespectsRanks ==
    stage = "fused" =>
        \A j \in DOMAIN fused : \A c \in Heard :
            Leads(c, fused[j].chunk) => \E i \in 1..(j - 1) : fused[i].chunk = c

\* Routing: with the routed signals only, every hit lies on a route that was
\* given or chosen, through probe, plan, fan-out and merge.
HitsStayOnRoute ==
    (stage = "returned" /\ ~request.graph) =>
        \A i \in DOMAIN answer : \E route \in binding : InRoute(answer[i].chunk, route)

\* The two merges: the answer holds each chunk once, with the best score any
\* query gave it, best first, and leaves out only what is no better.
BestScoresWin ==
    (stage = "returned" /\ failure = "none") =>
        /\ IsInjective([i \in DOMAIN answer |-> answer[i].chunk])
        /\ Range(answer) \subseteq offered
        /\ \A x \in offered : \E i \in DOMAIN answer :
              (~Above(x, answer[i])
               /\ (answer[i].chunk = x.chunk \/ (Len(answer) = request.topK /\ ~Above(answer[i], Last(answer)))))
        /\ \A i, j \in DOMAIN answer : i < j => ~Above(answer[j], answer[i])

\* A retrieval returns, whatever is removed or fails under it, unless a panic
\* ends the process.
RetrievalReturns == <>(stage \in {"returned", "crashed"})
=============================================================================
