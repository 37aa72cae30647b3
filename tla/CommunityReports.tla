--------------------------- MODULE CommunityReports ---------------------------
(***************************************************************************)
(* Community reports: AskGlobal's lazy path and PrewarmCommunityReports,   *)
(* run by concurrent callers beside the imports of Ingest.                 *)
(*                                                                         *)
(* A caller reads the communities once, then resolves one report after     *)
(* the other: it looks the report up, compares its ContentHash with the    *)
(* membership it read, and on a miss summarizes the community from a graph *)
(* snapshot it loads once, at its first miss, and stores the report.  Each *)
(* store call is atomic, the walk is not.                                  *)
(*                                                                         *)
(* A hash is represented by the membership it is computed from.  A report  *)
(* is that hash and what the summarizer's prompt named: the members it     *)
(* found in the snapshot.                                                  *)
(***************************************************************************)
EXTENDS Ingest

CONSTANTS
    Detect(_),      \* CommunityDetector: the communities of a graph
    Caller,         \* concurrent callers of AskGlobal and Prewarm
    Kinds,          \* the operations callers use: "ask", "prewarm"
    MaxCommunities, \* GlobalOptions.MaxCommunities
    NoReport,       \* the community has no report
    MaxLevel,       \* levels the detector produces: 0..MaxLevel
    MaxCalls        \* bound: how many calls are started

\* A community is known by its level and its lowest member.
Community == [level : Nat, lowest : Entity, members : SUBSET Element]
Report    == [hash : SUBSET Element, about : SUBSET Element]

\* The communities a detector may give.
Detectable == {c \in Community : c.level \in 0..MaxLevel}

ASSUME CallsAssumption ==
    /\ Kinds \subseteq {"ask", "prewarm"}
    /\ MaxCommunities \in Nat \ {0}
    /\ MaxLevel \in Nat
    /\ MaxCalls \in Nat
    /\ NoReport \notin Report

VARIABLES
    reports,    \* reports[l, e]: the report of the community at level l with lowest member e
    cpc,        \* where each caller is
    call,       \* the local variables of each caller
    \* Variables that only observe:
    calls,      \* how many calls were started
    warmed,     \* communities that a prewarm covered and that were detected ever since
    paid,       \* communities whose report was generated and put, and that were detected ever since
    disturbed,  \* callers whose communities and graph were not one state throughout
    suspect     \* report keys that a disturbed caller wrote

reportVars == <<reports, cpc, call, calls, warmed, paid, disturbed, suspect>>
vars == <<ingestVars, reportVars>>

Key    == (0..MaxLevel) \X Entity
KeyOf(c) == <<c.level, c.lowest>>
Fresh(c) == reports[KeyOf(c)] # NoReport /\ reports[KeyOf(c)].hash = c.members

\* What callers rely on in a detector, and both of the repository give (Detection
\* has them): communities of the levels there are, which list elements of the graph
\* they were detected in, and of which no two of a level share their lowest member.
TypedDetector == \A g \in NsGraph : Detect(g) \subseteq Detectable

SoundDetector ==
    /\ TypedDetector
    /\ \A g \in NsGraph :
          /\ \A c \in Detect(g) : \A x \in c.members : g.prov[x] # {}
          /\ \A c, d \in Detect(g) : KeyOf(c) = KeyOf(d) => c = d

\* What the prompt of a community names, given a snapshot.
Prompt(c, g) == {x \in c.members : g.prov[x] # {}}

Resting == [todo |-> {}, current |-> {}, snapshot |-> EmptyGraph, loaded |-> FALSE,
            report |-> {}, answered |-> {}, kind |-> "ask"]

CallsInit ==
    /\ Init
    /\ reports = [k \in Key |-> NoReport]
    /\ cpc = [q \in Caller |-> "idle"]
    /\ call = [q \in Caller |-> Resting]
    /\ calls = 0
    /\ warmed = {}
    /\ paid = {}
    /\ disturbed = {}
    /\ suspect = {}

-----------------------------------------------------------------------------
\* AskGlobal keeps the coarsest level, and of it at most MaxCommunities; which
\* ones depends on the question.
Selections(all) ==
    LET coarse == {c \in all : \A d \in all : d.level <= c.level}
    IN  IF Cardinality(coarse) <= MaxCommunities
        THEN {coarse}
        ELSE {S \in SUBSET coarse : Cardinality(S) = MaxCommunities}

\* The communities are read.  With none there is nothing to do.
Begin(q, kind, selected) ==
    /\ cpc[q] = "idle"
    /\ calls < MaxCalls
    /\ selected # {}
    /\ selected \in IF kind = "ask" THEN Selections(Detect(communities))
                                    ELSE {Detect(communities)}
    /\ cpc' = [cpc EXCEPT ![q] = "lookup"]
    /\ call' = [call EXCEPT ![q] = [Resting EXCEPT !.todo = selected, !.kind = kind]]
    /\ calls' = calls + 1
    /\ disturbed' = IF communities = graph THEN disturbed \ {q} ELSE disturbed \cup {q}
    /\ UNCHANGED <<ingestVars, reports, warmed, paid, suspect>>

\* Mutation of Hit: any stored report is reused.
HitAnyReport(q, c) ==
    /\ cpc[q] = "lookup"
    /\ c \in call[q].todo
    /\ reports[KeyOf(c)] # NoReport
    /\ call' = [call EXCEPT ![q].todo = @ \ {c},
                            ![q].answered = @ \cup {<<c, reports[KeyOf(c)]>>}]
    /\ UNCHANGED <<ingestVars, reports, cpc, calls, warmed, paid, disturbed, suspect>>

\* Mutation of Hit: the walk stays at the community.
HitStays(q, c) ==
    /\ cpc[q] = "lookup"
    /\ c \in call[q].todo
    /\ Fresh(c)
    /\ call' = [call EXCEPT ![q].answered = @ \cup {<<c, reports[KeyOf(c)]>>}]
    /\ UNCHANGED <<ingestVars, reports, cpc, calls, warmed, paid, disturbed, suspect>>

\* A stored report is reused if its hash is that of the community as read.
Hit(q, c) ==
    /\ cpc[q] = "lookup"
    /\ c \in call[q].todo
    /\ Fresh(c)
    /\ call' = [call EXCEPT ![q].todo = @ \ {c},
                            ![q].answered = @ \cup {<<c, reports[KeyOf(c)]>>}]
    /\ UNCHANGED <<ingestVars, reports, cpc, calls, warmed, paid, disturbed, suspect>>

\* Mutation of Miss: the snapshot counts as loaded.
MissWithoutSnapshot(q, c) ==
    /\ cpc[q] = "lookup"
    /\ c \in call[q].todo
    /\ ~Fresh(c)
    /\ cpc' = [cpc EXCEPT ![q] = "summarize"]
    /\ call' = [call EXCEPT ![q].current = {c}]
    /\ UNCHANGED <<ingestVars, reports, calls, warmed, paid, disturbed, suspect>>

\* Otherwise it is missing or stale, and has to be written.
Miss(q, c) ==
    /\ cpc[q] = "lookup"
    /\ c \in call[q].todo
    /\ ~Fresh(c)
    /\ cpc' = [cpc EXCEPT ![q] = IF call[q].loaded THEN "summarize" ELSE "load"]
    /\ call' = [call EXCEPT ![q].current = {c}]
    /\ UNCHANGED <<ingestVars, reports, calls, warmed, paid, disturbed, suspect>>

LoadSnapshot(q) ==
    /\ cpc[q] = "load"
    /\ cpc' = [cpc EXCEPT ![q] = "summarize"]
    /\ call' = [call EXCEPT ![q].snapshot = graph, ![q].loaded = TRUE]
    /\ UNCHANGED <<ingestVars, reports, calls, warmed, paid, disturbed, suspect>>

\* Mutation of Summarize: the report leaves without its hash.
SummarizeWithoutHash(q) ==
    /\ cpc[q] = "summarize"
    /\ cpc' = [cpc EXCEPT ![q] = "put"]
    /\ call' = [call EXCEPT ![q].report =
                   {[hash |-> {}, about |-> Prompt(c, call[q].snapshot)] : c \in call[q].current}]
    /\ UNCHANGED <<ingestVars, reports, calls, warmed, paid, disturbed, suspect>>

\* One generation.  The report carries the hash of the community as read.
Summarize(q) ==
    /\ cpc[q] = "summarize"
    /\ cpc' = [cpc EXCEPT ![q] = "put"]
    /\ call' = [call EXCEPT ![q].report =
                   {[hash |-> c.members, about |-> Prompt(c, call[q].snapshot)] : c \in call[q].current}]
    /\ UNCHANGED <<ingestVars, reports, calls, warmed, paid, disturbed, suspect>>

\* Mutation of PutReport: only a missing report is stored.
PutReportOnce(q) ==
    /\ cpc[q] = "put"
    /\ \E c \in call[q].current, r \in call[q].report :
          /\ reports' = IF reports[KeyOf(c)] = NoReport
                        THEN [reports EXCEPT ![KeyOf(c)] = r] ELSE reports
          /\ call' = [call EXCEPT ![q].todo = @ \ {c},
                                  ![q].answered = @ \cup {<<c, r>>},
                                  ![q].current = {},
                                  ![q].report = {}]
          /\ suspect' = IF q \in disturbed THEN suspect \cup {KeyOf(c)}
                                           ELSE suspect \ {KeyOf(c)}
          /\ paid' = paid \cup ({c} \cap Detect(communities))
    /\ cpc' = [cpc EXCEPT ![q] = "lookup"]
    /\ UNCHANGED <<ingestVars, calls, warmed, disturbed>>

PutReport(q) ==
    /\ cpc[q] = "put"
    /\ \E c \in call[q].current, r \in call[q].report :
          /\ reports' = [reports EXCEPT ![KeyOf(c)] = r]
          /\ call' = [call EXCEPT ![q].todo = @ \ {c},
                                  ![q].answered = @ \cup {<<c, r>>},
                                  ![q].current = {},
                                  ![q].report = {}]
          /\ suspect' = IF q \in disturbed THEN suspect \cup {KeyOf(c)}
                                           ELSE suspect \ {KeyOf(c)}
          /\ paid' = paid \cup ({c} \cap Detect(communities))
    /\ cpc' = [cpc EXCEPT ![q] = "lookup"]
    /\ UNCHANGED <<ingestVars, calls, warmed, disturbed>>

Return(q) ==
    /\ cpc[q] = "lookup"
    /\ call[q].todo = {}
    /\ cpc' = [cpc EXCEPT ![q] = "idle"]
    /\ call' = [call EXCEPT ![q] = Resting]
    /\ warmed' = IF call[q].kind = "ask" THEN warmed
                 ELSE {cr[1] : cr \in call[q].answered} \cap Detect(communities)
    /\ UNCHANGED <<ingestVars, reports, calls, paid, disturbed, suspect>>

\* A call returns an error: of the store or of the summarizer.  The
\* reports stored so far stay.
Break(q) ==
    /\ Faults
    /\ cpc[q] # "idle"
    /\ cpc' = [cpc EXCEPT ![q] = "idle"]
    /\ call' = [call EXCEPT ![q] = Resting]
    /\ UNCHANGED <<ingestVars, reports, calls, warmed, paid, disturbed, suspect>>

Walk(q) ==
    \/ \E c \in call[q].todo : Hit(q, c) \/ Miss(q, c)
    \/ LoadSnapshot(q)
    \/ Summarize(q)
    \/ PutReport(q)
    \/ Return(q)

\* A step of an import; callers on their way see the namespace change.
Import ==
    /\ IngestNext
    /\ disturbed' = IF <<graph', communities'>> = <<graph, communities>>
                    THEN disturbed
                    ELSE disturbed \cup {q \in Caller : cpc[q] # "idle"}
    /\ warmed' = warmed \cap Detect(communities')
    /\ paid' = paid \cap Detect(communities')
    /\ UNCHANGED <<reports, cpc, call, calls, suspect>>

CallsNext ==
    \/ Import
    \/ \E q \in Caller, kind \in Kinds, selected \in SUBSET Detect(communities) :
          Begin(q, kind, selected)
    \/ \E q \in Caller : Walk(q) \/ Break(q)

CallsSpec == CallsInit /\ [][CallsNext]_vars

\* A caller whose calls answer keeps going: it waits for nobody else.
FairCallsSpec == CallsSpec /\ \A q \in Caller : WF_vars(Walk(q))

-----------------------------------------------------------------------------
(***************************************************************************)
(* Properties.                                                             *)
(***************************************************************************)
\* Whatever is imported, prewarmed or failing meanwhile, a report that a caller
\* uses was written for the membership the caller read: an old report of a
\* community that kept its ID never slips through.
AnsweredForMembership ==
    \A q \in Caller : \A cr \in call[q].answered : cr[2].hash = cr[1].members

\* A report written by a caller that saw one state of the namespace names
\* exactly the members its hash vouches for.  (A disturbed caller may store a
\* report whose hash is that of the membership it read first and whose text is
\* about the graph it loaded later.)
UndisturbedReportsAreExact ==
    \A k \in Key : reports[k] # NoReport /\ k \notin suspect =>
        reports[k].about = reports[k].hash

\* "Never paid twice for a stable community": whatever calls and imports did in
\* between, nobody generates a report of a community for which one was generated
\* and put before, if the community was detected the same ever since.  So the
\* report must have been stored, with its hash, under the key it is looked up by,
\* and no later put may have taken its place.  It holds of callers one at a time:
\* of two that miss together both pay; and a generation that is not put, because
\* the call broke off, is paid again.
NeverPaidTwice ==
    \A q \in Caller : cpc[q] = "summarize" => call[q].current \cap paid = {}

\* Prewarming pays ahead of time: from its return until a community is
\* detected differently, its report is stored and fresh.  It holds of callers
\* one at a time.
PrewarmedStaysFresh == \A c \in warmed : Fresh(c)

\* Every caller returns, however often the namespace changes under it.
CallersReturn == \A q \in Caller : cpc[q] # "idle" ~> cpc[q] = "idle"
=============================================================================
