---------------------------- MODULE ReportsProofs ----------------------------
(***************************************************************************)
(* Theorems about CommunityReports, for any number of callers and imports, *)
(* any graph and any detector.  Where a detector has to be sound, or where *)
(* callers have to come one at a time, the theorem says so.                *)
(***************************************************************************)
EXTENDS CommunityReports, IngestProofs

CallLocals ==
    [todo : SUBSET Detectable, current : SUBSET Detectable, snapshot : NsGraph,
     loaded : BOOLEAN, report : SUBSET Report,
     answered : SUBSET (Detectable \X Report), kind : {"ask", "prewarm"}]

CallsTypeOK ==
    /\ reports \in [Key -> Report \cup {NoReport}]
    /\ cpc \in [Caller -> {"idle", "lookup", "load", "summarize", "put"}]
    /\ call \in [Caller -> CallLocals]
    /\ warmed \subseteq Detectable

\* A caller writes at most one report at a time, and it carries the membership of
\* the community the caller is at.
WritesWhatItRead ==
    \A q \in Caller :
        /\ call[q].report # {} => cpc[q] = "put"
        /\ \A c, d \in call[q].current : c = d
        /\ \A c \in call[q].current, r \in call[q].report : r.hash = c.members

\* A caller in a call, and not disturbed, has seen the one state that the
\* namespace still is in.
SeesOneState ==
    \A q \in Caller : cpc[q] # "idle" /\ q \notin disturbed =>
        /\ communities = graph
        /\ call[q].todo \cup call[q].current \subseteq Detect(graph)
        /\ call[q].loaded => call[q].snapshot = graph
        /\ cpc[q] \in {"summarize", "put"} => call[q].loaded
        /\ \A r \in call[q].report : r.about = r.hash

\* The communities a call has read.
ReadBy(q) == call[q].todo \cup call[q].current \cup {cr[1] : cr \in call[q].answered}

\* The communities of a call were detected in one graph.
ReadTogether ==
    \A q \in Caller : cpc[q] # "idle" => \E g \in NsGraph : ReadBy(q) \subseteq Detect(g)

\* On its way to a summary, a caller has found no fresh report.
PaysOnlyForStale ==
    \A q \in Caller : cpc[q] \in {"load", "summarize", "put"} =>
        \A c \in call[q].current : ~Fresh(c)

\* What has been paid for is stored, and fresh.
PaidStaysFresh == \A c \in paid : Fresh(c)

\* Communities that earlier calls, or earlier steps of a call, vouch for.
Settled == warmed \cup paid

\* What a call has answered is fresh; and a community of the call that has the
\* place of a settled one is that one.
AnswersAreFresh ==
    /\ Settled \subseteq Detect(communities)
    /\ \A q \in Caller : cpc[q] # "idle" =>
          /\ \A cr \in call[q].answered : Fresh(cr[1])
          /\ \A c \in ReadBy(q), w \in Settled : KeyOf(c) = KeyOf(w) => c = w

-----------------------------------------------------------------------------
\* Callers only read what imports write.
THEOREM CallersLeaveImportsAlone == CallsSpec => IngestSpec
<1>1. CallsInit => Init
  BY DEF CallsInit
<1>2. [CallsNext]_vars => [IngestNext]_ingestVars
  <2>1. ASSUME NEW q \in Caller, Walk(q) \/ Break(q)
        PROVE  UNCHANGED ingestVars
    BY <2>1 DEF Walk, Hit, Miss, LoadSnapshot, Summarize, PutReport, Return, Break
  <2> QED
    BY <2>1 DEF CallsNext, Import, Begin, vars
<1> QED
  BY <1>1, <1>2, PTL DEF CallsSpec, IngestSpec

\* A caller starts with communities of the detector's.
LEMMA SelectedAreDetected ==
    ASSUME NEW q \in Caller, NEW kind \in Kinds, NEW selected, Begin(q, kind, selected)
    PROVE  selected \subseteq Detect(communities)
<1>1. \A S \in Selections(Detect(communities)) : S \subseteq Detect(communities)
  BY DEF Selections
<1> QED
  BY <1>1 DEF Begin

LEMMA RestingType == Resting \in CallLocals
  BY EmptyGraphCovers DEF Resting, CallLocals

\* Where the report of a community is kept.
LEMMA KeyType == ASSUME NEW c \in Detectable PROVE KeyOf(c) \in Key
  BY DEF Detectable, Community, KeyOf, Key

\* A fresh report is a report.
LEMMA FreshType ==
    ASSUME CallsTypeOK, NEW c \in Detectable, Fresh(c)
    PROVE  reports[KeyOf(c)] \in Report
  BY KeyType DEF CallsTypeOK, Fresh

\* What a caller has resolved is no longer to do.
LEMMA ResolvedType ==
    ASSUME NEW l \in CallLocals, NEW c \in Detectable, NEW r \in Report
    PROVE  [l EXCEPT !.todo = @ \ {c}, !.answered = @ \cup {<<c, r>>}] \in CallLocals
<1>1. l.answered \cup {<<c, r>>} \in SUBSET (Detectable \X Report)
  BY DEF CallLocals
<1>2. l.todo \ {c} \in SUBSET Detectable
  BY DEF CallLocals
<1> QED
  BY <1>1, <1>2 DEF CallLocals

\* What a caller stores, and how it goes on.
LEMMA PutReportStores ==
    ASSUME NEW q \in Caller, PutReport(q)
    PROVE  \E c \in call[q].current, r \in call[q].report :
               /\ reports' = [reports EXCEPT ![KeyOf(c)] = r]
               /\ paid' = paid \cup ({c} \cap Detect(communities))
               /\ call' = [call EXCEPT ![q].todo = @ \ {c},
                                       ![q].answered = @ \cup {<<c, r>>},
                                       ![q].current = {},
                                       ![q].report = {}]
  BY DEF PutReport

\* Callers keep the types of their locals and of the stored reports.
LEMMA CallsTypeStep ==
    ASSUME TypedDetector, TypeOK, CallsTypeOK, [CallsNext]_vars
    PROVE  CallsTypeOK'
<1> USE DEF CallsTypeOK
<1>1. ASSUME Import
      PROVE  CallsTypeOK'
  BY <1>1 DEF Import
<1>2. ASSUME NEW q \in Caller, NEW kind \in Kinds, NEW selected \in SUBSET Detect(communities),
             Begin(q, kind, selected)
      PROVE  CallsTypeOK'
  <2>1. selected \in SUBSET Detectable
    BY DEF TypeOK, TypedDetector
  <2>2. [Resting EXCEPT !.todo = selected, !.kind = kind] \in CallLocals
    BY <2>1, RestingType, CallsAssumption DEF CallsAssumption, CallLocals
  <2>3. call' \in [Caller -> CallLocals]
    BY <1>2, <2>2 DEF Begin
  <2> QED
    BY <1>2, <2>3 DEF Begin
<1>3. ASSUME NEW q \in Caller, NEW c \in call[q].todo, Hit(q, c)
      PROVE  CallsTypeOK'
  <2>1. c \in Detectable
    BY DEF CallLocals
  <2>2. reports[KeyOf(c)] \in Report
    BY <1>3, <2>1, FreshType DEF Hit
  <2>3. [call[q] EXCEPT !.todo = @ \ {c}, !.answered = @ \cup {<<c, reports[KeyOf(c)]>>}]
            \in CallLocals
    BY <2>1, <2>2, ResolvedType
  <2> QED
    BY <1>3, <2>3 DEF Hit
<1>4. ASSUME NEW q \in Caller, NEW c \in call[q].todo, Miss(q, c)
      PROVE  CallsTypeOK'
  <2>1. [call[q] EXCEPT !.current = {c}] \in CallLocals
    BY DEF CallLocals
  <2> QED
    BY <1>4, <2>1 DEF Miss
<1>5. ASSUME NEW q \in Caller, LoadSnapshot(q)
      PROVE  CallsTypeOK'
  <2>1. [call[q] EXCEPT !.snapshot = graph, !.loaded = TRUE] \in CallLocals
    BY DEF CallLocals, TypeOK
  <2> QED
    BY <1>5, <2>1 DEF LoadSnapshot
<1>6. ASSUME NEW q \in Caller, Summarize(q)
      PROVE  CallsTypeOK'
  <2> DEFINE written == {[hash |-> c.members, about |-> Prompt(c, call[q].snapshot)] :
                            c \in call[q].current}
  <2>1. written \subseteq Report
    BY DEF CallLocals, Detectable, Community, Prompt, Report
  <2>2. [call[q] EXCEPT !.report = written] \in CallLocals
    BY <2>1 DEF CallLocals
  <2> QED
    BY <1>6, <2>2 DEF Summarize
<1>7. ASSUME NEW q \in Caller, PutReport(q)
      PROVE  CallsTypeOK'
  <2>1. PICK c \in call[q].current, r \in call[q].report :
            /\ reports' = [reports EXCEPT ![KeyOf(c)] = r]
            /\ paid' = paid \cup ({c} \cap Detect(communities))
            /\ call' = [call EXCEPT ![q].todo = @ \ {c},
                                    ![q].answered = @ \cup {<<c, r>>},
                                    ![q].current = {},
                                    ![q].report = {}]
    BY <1>7, PutReportStores
  <2>2. c \in Detectable /\ r \in Report
    BY DEF CallLocals
  <2>3. [call[q] EXCEPT !.todo = @ \ {c}, !.answered = @ \cup {<<c, r>>},
                        !.current = {}, !.report = {}] \in CallLocals
    <3> DEFINE l == [call[q] EXCEPT !.todo = @ \ {c}, !.answered = @ \cup {<<c, r>>}]
    <3>1. l \in CallLocals
      BY <2>2, ResolvedType
    <3>2. [l EXCEPT !.current = {}, !.report = {}] \in CallLocals
      BY <3>1 DEF CallLocals
    <3> QED
      BY <3>2
  <2>4. call' \in [Caller -> CallLocals]
    BY <2>1, <2>3
  <2>5. reports' \in [Key -> Report \cup {NoReport}]
    BY <2>1, <2>2, KeyType
  <2> QED
    BY <1>7, <2>4, <2>5 DEF PutReport
<1>8. ASSUME NEW q \in Caller, Return(q)
      PROVE  CallsTypeOK'
  <2>1. {cr[1] : cr \in call[q].answered} \subseteq Detectable
    BY DEF CallLocals
  <2> QED
    BY <1>8, <2>1, RestingType DEF Return
<1>9. ASSUME NEW q \in Caller, Break(q)
      PROVE  CallsTypeOK'
  BY <1>9, RestingType DEF Break
<1>10. CASE UNCHANGED vars
  BY <1>10 DEF vars, reportVars
<1> QED
  BY <1>1, <1>2, <1>3, <1>4, <1>5, <1>6, <1>7, <1>8, <1>9, <1>10 DEF CallsNext, Walk

\* With a detector that gives communities, the locals of callers and the stored
\* reports keep their types, beside everything the imports do.
THEOREM CallsTypeInvariant ==
    ASSUME TypedDetector
    PROVE  CallsSpec => [](TypeOK /\ CallsTypeOK)
<1>1. CallsInit => CallsTypeOK
  BY RestingType DEF CallsInit, CallsTypeOK
<1>2. TypeOK /\ CallsTypeOK /\ [CallsNext]_vars => CallsTypeOK'
  BY CallsTypeStep
<1>3. CallsSpec => []TypeOK
  BY CallersLeaveImportsAlone, TypeInvariant, PTL
<1> QED
  BY <1>1, <1>2, <1>3, PTL DEF CallsSpec

\* What a step leaves in the locals of the callers.
LEMMA HitLocals ==
    ASSUME CallsTypeOK, NEW q \in Caller, NEW c \in call[q].todo, Hit(q, c)
    PROVE  /\ cpc' = cpc
           /\ \A p \in Caller \ {q} : call'[p] = call[p]
           /\ call'[q].todo = call[q].todo \ {c}
           /\ call'[q].answered = call[q].answered \cup {<<c, reports[KeyOf(c)]>>}
           /\ call'[q].current = call[q].current
           /\ call'[q].report = call[q].report
           /\ call'[q].loaded = call[q].loaded
           /\ call'[q].snapshot = call[q].snapshot
  BY DEF Hit, CallsTypeOK, CallLocals

LEMMA MissLocals ==
    ASSUME CallsTypeOK, NEW q \in Caller, NEW c \in call[q].todo, Miss(q, c)
    PROVE  /\ \A p \in Caller \ {q} : call'[p] = call[p] /\ cpc'[p] = cpc[p]
           /\ cpc'[q] \in {"load", "summarize"}
           /\ cpc'[q] = "summarize" => call[q].loaded
           /\ call'[q].current = {c}
           /\ call'[q].todo = call[q].todo
           /\ call'[q].answered = call[q].answered
           /\ call'[q].report = call[q].report
           /\ call'[q].loaded = call[q].loaded
           /\ call'[q].snapshot = call[q].snapshot
  BY DEF Miss, CallsTypeOK, CallLocals

LEMMA SnapshotLocals ==
    ASSUME CallsTypeOK, NEW q \in Caller, LoadSnapshot(q)
    PROVE  /\ \A p \in Caller \ {q} : call'[p] = call[p] /\ cpc'[p] = cpc[p]
           /\ cpc'[q] = "summarize"
           /\ call'[q].loaded
           /\ call'[q].snapshot = graph
           /\ call'[q].todo = call[q].todo
           /\ call'[q].answered = call[q].answered
           /\ call'[q].current = call[q].current
           /\ call'[q].report = call[q].report
  BY DEF LoadSnapshot, CallsTypeOK, CallLocals

LEMMA SummarizeLocals ==
    ASSUME CallsTypeOK, NEW q \in Caller, Summarize(q)
    PROVE  /\ \A p \in Caller \ {q} : call'[p] = call[p] /\ cpc'[p] = cpc[p]
           /\ cpc'[q] = "put"
           /\ call'[q].report =
                  {[hash |-> c.members, about |-> Prompt(c, call[q].snapshot)] :
                      c \in call[q].current}
           /\ call'[q].todo = call[q].todo
           /\ call'[q].answered = call[q].answered
           /\ call'[q].current = call[q].current
           /\ call'[q].loaded = call[q].loaded
           /\ call'[q].snapshot = call[q].snapshot
  BY DEF Summarize, CallsTypeOK, CallLocals

LEMMA PutReportLocals ==
    ASSUME CallsTypeOK, NEW q \in Caller, PutReport(q)
    PROVE  \E c \in call[q].current, r \in call[q].report :
               /\ reports' = [reports EXCEPT ![KeyOf(c)] = r]
               /\ paid' = paid \cup ({c} \cap Detect(communities))
               /\ \A p \in Caller \ {q} : call'[p] = call[p] /\ cpc'[p] = cpc[p]
               /\ cpc'[q] = "lookup"
               /\ call'[q].todo = call[q].todo \ {c}
               /\ call'[q].answered = call[q].answered \cup {<<c, r>>}
               /\ call'[q].current = {}
               /\ call'[q].report = {}
               /\ call'[q].loaded = call[q].loaded
               /\ call'[q].snapshot = call[q].snapshot
<1>1. PICK c \in call[q].current, r \in call[q].report :
          /\ reports' = [reports EXCEPT ![KeyOf(c)] = r]
          /\ paid' = paid \cup ({c} \cap Detect(communities))
          /\ call' = [call EXCEPT ![q].todo = @ \ {c},
                                  ![q].answered = @ \cup {<<c, r>>},
                                  ![q].current = {},
                                  ![q].report = {}]
  BY PutReportStores
<1>2. /\ \A p \in Caller \ {q} : call'[p] = call[p]
      /\ call'[q].todo = call[q].todo \ {c}
      /\ call'[q].answered = call[q].answered \cup {<<c, r>>}
      /\ call'[q].current = {}
      /\ call'[q].report = {}
      /\ call'[q].loaded = call[q].loaded
      /\ call'[q].snapshot = call[q].snapshot
  BY <1>1 DEF CallsTypeOK, CallLocals
<1>3. cpc'[q] = "lookup" /\ \A p \in Caller \ {q} : cpc'[p] = cpc[p]
  BY DEF PutReport, CallsTypeOK
<1> QED
  BY <1>1, <1>2, <1>3

\* A call that starts, and one that ends.
LEMMA BeginLocals ==
    ASSUME CallsTypeOK, NEW q \in Caller, NEW kind, NEW selected, Begin(q, kind, selected)
    PROVE  /\ \A p \in Caller \ {q} : call'[p] = call[p] /\ cpc'[p] = cpc[p]
           /\ cpc[q] = "idle" /\ cpc'[q] = "lookup"
           /\ call'[q].todo = selected
           /\ call'[q].answered = {}
           /\ call'[q].current = {}
           /\ call'[q].report = {}
           /\ call'[q].loaded = FALSE
  BY DEF CallsTypeOK, Begin, Resting

LEMMA EndLocals ==
    ASSUME CallsTypeOK, NEW q \in Caller, Return(q) \/ Break(q)
    PROVE  /\ \A p \in Caller \ {q} : call'[p] = call[p] /\ cpc'[p] = cpc[p]
           /\ cpc'[q] = "idle"
           /\ call'[q].answered = {}
           /\ call'[q].current = {}
           /\ call'[q].report = {}
  BY DEF CallsTypeOK, Return, Break, Resting

-----------------------------------------------------------------------------
\* A report in the making carries the membership of its community from the
\* moment it is summarized to the moment it is stored, and an answered community
\* was looked up or summarized for the membership that was read.
LEMMA AnsweredStep ==
    ASSUME CallsTypeOK, WritesWhatItRead, AnsweredForMembership, [CallsNext]_vars
    PROVE  WritesWhatItRead' /\ AnsweredForMembership'
<1> USE DEF WritesWhatItRead, AnsweredForMembership
<1>1. ASSUME Import
      PROVE  WritesWhatItRead' /\ AnsweredForMembership'
  BY <1>1 DEF Import
<1>2. ASSUME NEW q \in Caller, NEW kind \in Kinds, NEW selected, Begin(q, kind, selected)
      PROVE  WritesWhatItRead' /\ AnsweredForMembership'
  <2>1. /\ \A p \in Caller \ {q} : call'[p] = call[p] /\ cpc'[p] = cpc[p]
        /\ call'[q].answered = {} /\ call'[q].current = {} /\ call'[q].report = {}
    BY <1>2, BeginLocals
  <2> QED
    BY <2>1
<1>3. ASSUME NEW q \in Caller, NEW c \in call[q].todo, Hit(q, c)
      PROVE  WritesWhatItRead' /\ AnsweredForMembership'
  <2>1. reports[KeyOf(c)].hash = c.members
    BY <1>3 DEF Hit, Fresh
  <2> QED
    BY <1>3, <2>1, HitLocals
<1>4. ASSUME NEW q \in Caller, NEW c \in call[q].todo, Miss(q, c)
      PROVE  WritesWhatItRead' /\ AnsweredForMembership'
  <2>1. call[q].report = {}
    BY <1>4 DEF Miss
  <2> QED
    BY <1>4, <2>1, MissLocals
<1>5. ASSUME NEW q \in Caller, LoadSnapshot(q)
      PROVE  WritesWhatItRead' /\ AnsweredForMembership'
  <2>1. call[q].report = {}
    BY <1>5 DEF LoadSnapshot
  <2> QED
    BY <1>5, <2>1, SnapshotLocals
<1>6. ASSUME NEW q \in Caller, Summarize(q)
      PROVE  WritesWhatItRead' /\ AnsweredForMembership'
  BY <1>6, SummarizeLocals
<1>7. ASSUME NEW q \in Caller, PutReport(q)
      PROVE  WritesWhatItRead' /\ AnsweredForMembership'
  <2>1. PICK c \in call[q].current, r \in call[q].report :
            /\ \A p \in Caller \ {q} : call'[p] = call[p] /\ cpc'[p] = cpc[p]
            /\ call'[q].answered = call[q].answered \cup {<<c, r>>}
            /\ call'[q].current = {}
            /\ call'[q].report = {}
    BY <1>7, PutReportLocals
  <2> QED
    BY <2>1
<1>8. ASSUME NEW q \in Caller, Return(q) \/ Break(q)
      PROVE  WritesWhatItRead' /\ AnsweredForMembership'
  BY <1>8, EndLocals
<1>9. CASE UNCHANGED vars
  BY <1>9 DEF vars, reportVars
<1> QED
  BY <1>1, <1>2, <1>3, <1>4, <1>5, <1>6, <1>7, <1>8, <1>9 DEF CallsNext, Walk

\* Whatever is imported, prewarmed or failing meanwhile, a report that a caller
\* uses was written for the membership the caller read (the hash check of
\* ensureReport, and the hash the stored report carries).
THEOREM AnswersCarryMembership ==
    ASSUME TypedDetector
    PROVE  CallsSpec => []AnsweredForMembership
<1>1. CallsInit => WritesWhatItRead /\ AnsweredForMembership
  BY DEF CallsInit, Resting, WritesWhatItRead, AnsweredForMembership
<1>2. /\ TypeOK /\ CallsTypeOK
      /\ WritesWhatItRead /\ AnsweredForMembership
      /\ [CallsNext]_vars
      => WritesWhatItRead' /\ AnsweredForMembership'
  BY AnsweredStep
<1> QED
  BY <1>1, <1>2, CallsTypeInvariant, PTL DEF CallsSpec

-----------------------------------------------------------------------------
\* A caller that starts while no import is between its merge and its detection
\* reads the communities of the graph, and as long as no import moves either, it
\* stays so.
LEMMA OneStateStep ==
    ASSUME SoundDetector, TypeOK, CallsTypeOK, SeesOneState, [CallsNext]_vars
    PROVE  SeesOneState'
<1> USE DEF SeesOneState
<1>1. ASSUME Import
      PROVE  SeesOneState'
  <2>1. CASE graph' = graph /\ communities' = communities
    BY <1>1, <2>1 DEF Import
  <2>2. CASE ~(graph' = graph /\ communities' = communities)
    BY <1>1, <2>2 DEF Import
  <2> QED
    BY <2>1, <2>2
<1>2. ASSUME NEW q \in Caller, NEW kind \in Kinds, NEW selected, Begin(q, kind, selected)
      PROVE  SeesOneState'
  <2>1. selected \subseteq Detect(communities)
    BY <1>2, SelectedAreDetected
  <2>2. graph' = graph /\ communities' = communities
    BY <1>2 DEF Begin, ingestVars, storeVars
  <2>3. /\ q \notin disturbed' => communities = graph
        /\ \A p \in Caller \ {q} : p \notin disturbed' => p \notin disturbed
    BY <1>2 DEF Begin
  <2>4. /\ \A p \in Caller \ {q} : call'[p] = call[p] /\ cpc'[p] = cpc[p]
        /\ call'[q].todo = selected /\ call'[q].current = {} /\ call'[q].report = {}
        /\ call'[q].loaded = FALSE /\ cpc'[q] = "lookup"
    BY <1>2, BeginLocals
  <2> QED
    BY <2>1, <2>2, <2>3, <2>4
<1>3. ASSUME NEW q \in Caller, NEW c \in call[q].todo, Hit(q, c)
      PROVE  SeesOneState'
  <2>1. graph' = graph /\ communities' = communities /\ disturbed' = disturbed
    BY <1>3 DEF Hit, ingestVars, storeVars
  <2> QED
    BY <1>3, <2>1, HitLocals
<1>4. ASSUME NEW q \in Caller, NEW c \in call[q].todo, Miss(q, c)
      PROVE  SeesOneState'
  <2>1. graph' = graph /\ communities' = communities /\ disturbed' = disturbed
        /\ cpc[q] = "lookup"
    BY <1>4 DEF Miss, ingestVars, storeVars
  <2> QED
    BY <1>4, <2>1, MissLocals
<1>5. ASSUME NEW q \in Caller, LoadSnapshot(q)
      PROVE  SeesOneState'
  <2>1. graph' = graph /\ communities' = communities /\ disturbed' = disturbed
        /\ cpc[q] = "load"
    BY <1>5 DEF LoadSnapshot, ingestVars, storeVars
  <2> QED
    BY <1>5, <2>1, SnapshotLocals
<1>6. ASSUME NEW q \in Caller, Summarize(q)
      PROVE  SeesOneState'
  <2>1. graph' = graph /\ communities' = communities /\ disturbed' = disturbed
        /\ cpc[q] = "summarize"
    BY <1>6 DEF Summarize, ingestVars, storeVars
  <2>2. graph \in NsGraph
    BY DEF TypeOK
  <2>3. \A c \in Detect(graph) : Prompt(c, graph) = c.members
    BY <2>2 DEF Prompt, SoundDetector
  <2>4. q \notin disturbed => \A r \in call'[q].report : r.about = r.hash
    BY <1>6, <2>1, <2>3, SummarizeLocals
  <2> QED
    BY <1>6, <2>1, <2>4, SummarizeLocals
<1>7. ASSUME NEW q \in Caller, PutReport(q)
      PROVE  SeesOneState'
  <2>1. graph' = graph /\ communities' = communities /\ disturbed' = disturbed
        /\ cpc[q] = "put"
    BY <1>7 DEF PutReport, ingestVars, storeVars
  <2> QED
    BY <1>7, <2>1, PutReportLocals
<1>8. ASSUME NEW q \in Caller, Return(q) \/ Break(q)
      PROVE  SeesOneState'
  <2>1. graph' = graph /\ communities' = communities /\ disturbed' = disturbed
    BY <1>8 DEF Return, Break, ingestVars, storeVars
  <2> QED
    BY <1>8, <2>1, EndLocals
<1>9. CASE UNCHANGED vars
  BY <1>9 DEF vars, reportVars, ingestVars, storeVars
<1> QED
  BY <1>1, <1>2, <1>3, <1>4, <1>5, <1>6, <1>7, <1>8, <1>9 DEF CallsNext, Walk

\* So what such a caller stores is exact, and only the key of another is suspect.
LEMMA ExactStep ==
    ASSUME TypedDetector, TypeOK, CallsTypeOK, SeesOneState, UndisturbedReportsAreExact,
           [CallsNext]_vars
    PROVE  UndisturbedReportsAreExact'
<1> USE DEF UndisturbedReportsAreExact
<1>1. ASSUME NEW q \in Caller, PutReport(q)
      PROVE  UndisturbedReportsAreExact'
  <2>1. PICK c \in call[q].current, r \in call[q].report :
            /\ reports' = [reports EXCEPT ![KeyOf(c)] = r]
            /\ suspect' = IF q \in disturbed THEN suspect \cup {KeyOf(c)}
                                             ELSE suspect \ {KeyOf(c)}
    BY <1>1 DEF PutReport
  <2>2. cpc[q] = "put" /\ disturbed' = disturbed
    BY <1>1 DEF PutReport
  <2>3. c \in Detectable
    BY DEF CallsTypeOK, CallLocals
  <2>4. KeyOf(c) \in Key
    BY <2>3, KeyType
  <2>5. q \notin disturbed => r.about = r.hash
    BY <2>2 DEF SeesOneState
  <2> QED
    BY <2>1, <2>4, <2>5 DEF CallsTypeOK
<1>2. ASSUME UNCHANGED <<reports, suspect>>
      PROVE  UndisturbedReportsAreExact'
  BY <1>2
<1> QED
  BY <1>1, <1>2
     DEF CallsNext, Import, Begin, Walk, Hit, Miss, LoadSnapshot, Summarize, Return, Break,
         vars, reportVars

\* With a sound detector, the report of a caller that saw one state of the
\* namespace names exactly the members its hash vouches for.
THEOREM UndisturbedCallersWriteTruth ==
    ASSUME SoundDetector
    PROVE  CallsSpec => []UndisturbedReportsAreExact
<1>1. CallsInit => SeesOneState /\ UndisturbedReportsAreExact
  BY DEF CallsInit, SeesOneState, UndisturbedReportsAreExact
<1>2. TypedDetector
  BY DEF SoundDetector
<1>3. CallsSpec => [](TypeOK /\ CallsTypeOK)
  BY <1>2, CallsTypeInvariant
<1>4. TypeOK /\ CallsTypeOK /\ SeesOneState /\ [CallsNext]_vars => SeesOneState'
  BY OneStateStep
<1>5. /\ TypeOK /\ CallsTypeOK
      /\ SeesOneState /\ UndisturbedReportsAreExact
      /\ [CallsNext]_vars
      => UndisturbedReportsAreExact'
  BY <1>2, ExactStep
<1> QED
  BY <1>1, <1>3, <1>4, <1>5, PTL DEF CallsSpec

-----------------------------------------------------------------------------
\* Callers one at a time.  Of two that miss together both pay, and one that read
\* the communities earlier may put an older report in place of a warmed one.
OneCaller == \A p, q \in Caller : p = q

\* A caller that is alone finds at its summary what it found at its lookup.
LEMMA PaysOnlyStep ==
    ASSUME OneCaller, CallsTypeOK, PaysOnlyForStale, [CallsNext]_vars
    PROVE  PaysOnlyForStale'
<1> USE DEF PaysOnlyForStale
<1>1. ASSUME Import
      PROVE  PaysOnlyForStale'
  BY <1>1 DEF Import, Fresh
<1>2. ASSUME NEW q \in Caller, NEW kind \in Kinds, NEW selected, Begin(q, kind, selected)
      PROVE  PaysOnlyForStale'
  BY <1>2, BeginLocals DEF OneCaller
<1>3. ASSUME NEW q \in Caller, NEW c \in call[q].todo, Hit(q, c)
      PROVE  PaysOnlyForStale'
  BY <1>3 DEF Hit, OneCaller
<1>4. ASSUME NEW q \in Caller, NEW c \in call[q].todo, Miss(q, c)
      PROVE  PaysOnlyForStale'
  <2>1. ~Fresh(c) /\ reports' = reports
    BY <1>4 DEF Miss
  <2> QED
    BY <1>4, <2>1, MissLocals DEF OneCaller, Fresh
<1>5. ASSUME NEW q \in Caller, LoadSnapshot(q)
      PROVE  PaysOnlyForStale'
  <2>1. cpc[q] = "load" /\ reports' = reports
    BY <1>5 DEF LoadSnapshot
  <2> QED
    BY <1>5, <2>1, SnapshotLocals DEF OneCaller, Fresh
<1>6. ASSUME NEW q \in Caller, Summarize(q)
      PROVE  PaysOnlyForStale'
  <2>1. cpc[q] = "summarize" /\ reports' = reports
    BY <1>6 DEF Summarize
  <2> QED
    BY <1>6, <2>1, SummarizeLocals DEF OneCaller, Fresh
<1>7. ASSUME NEW q \in Caller, PutReport(q)
      PROVE  PaysOnlyForStale'
  <2>1. cpc'[q] = "lookup"
    BY <1>7, PutReportLocals
  <2> QED
    BY <2>1 DEF OneCaller
<1>8. ASSUME NEW q \in Caller, Return(q) \/ Break(q)
      PROVE  PaysOnlyForStale'
  BY <1>8, EndLocals DEF OneCaller
<1>9. CASE UNCHANGED vars
  BY <1>9 DEF vars, reportVars, Fresh
<1> QED
  BY <1>1, <1>2, <1>3, <1>4, <1>5, <1>6, <1>7, <1>8, <1>9 DEF CallsNext, Walk

\* The communities one call reads do not take each other's place.
LEMMA ReadDistinct ==
    ASSUME SoundDetector, ReadTogether, NEW q \in Caller, cpc[q] # "idle",
           NEW c \in ReadBy(q), NEW d \in ReadBy(q), KeyOf(c) = KeyOf(d)
    PROVE  c = d
<1>1. PICK g \in NsGraph : ReadBy(q) \subseteq Detect(g)
  BY DEF ReadTogether
<1>2. c \in Detect(g) /\ d \in Detect(g)
  BY <1>1
<1> QED
  BY <1>2 DEF SoundDetector

\* Storing a report makes its community fresh, and no other community less so.
LEMMA StoringKeepsFresh ==
    ASSUME CallsTypeOK, NEW c \in Detectable, NEW r \in Report, r.hash = c.members,
           reports' = [reports EXCEPT ![KeyOf(c)] = r],
           NEW d, d = c \/ (Fresh(d) /\ KeyOf(d) # KeyOf(c))
    PROVE  Fresh(d)'
<1>1. KeyOf(c) \in Key
  BY KeyType
<1>2. r # NoReport
  BY CallsAssumption DEF CallsAssumption
<1>3. CASE d = c
  BY <1>1, <1>2, <1>3 DEF Fresh, CallsTypeOK, KeyOf
<1>4. CASE Fresh(d) /\ KeyOf(d) # KeyOf(c)
  <2>1. reports'[KeyOf(d)] = reports[KeyOf(d)]
    BY <1>1, <1>4 DEF CallsTypeOK
  <2> QED
    BY <1>4, <2>1 DEF Fresh, KeyOf
<1> QED
  BY <1>3, <1>4

\* The reports that are there for good while their communities last.
PaidInv == ReadTogether /\ AnswersAreFresh /\ PrewarmedStaysFresh /\ PaidStaysFresh

\* A step of a call that stores nothing leaves them there.
LEMMA ReadingKeeps ==
    ASSUME OneCaller, PaidInv, UNCHANGED <<reports, warmed, paid, communities>>,
           NEW q \in Caller, cpc[q] # "idle", ReadBy(q)' \subseteq ReadBy(q),
           \A cr \in call'[q].answered : cr \in call[q].answered \/ Fresh(cr[1])
    PROVE  PaidInv'
<1>1. \A p \in Caller : p = q
  BY DEF OneCaller
<1>2. ReadTogether'
  BY <1>1 DEF PaidInv, ReadTogether
<1>3. AnswersAreFresh'
  BY <1>1 DEF PaidInv, AnswersAreFresh, Settled, KeyOf, Fresh
<1>4. PrewarmedStaysFresh' /\ PaidStaysFresh'
  BY DEF PaidInv, PrewarmedStaysFresh, PaidStaysFresh, Fresh
<1> QED
  BY <1>2, <1>3, <1>4 DEF PaidInv

\* A put makes one community fresh, and takes the place of no settled one.
LEMMA PuttingKeeps ==
    ASSUME OneCaller, SoundDetector, CallsTypeOK, WritesWhatItRead, PaidInv,
           NEW q \in Caller, PutReport(q)
    PROVE  PaidInv'
<1>1. /\ cpc[q] # "idle" /\ warmed' = warmed /\ communities' = communities
      /\ \A p \in Caller : p = q
  BY DEF PutReport, ingestVars, storeVars, OneCaller
<1>2. PICK c \in call[q].current, r \in call[q].report :
          /\ reports' = [reports EXCEPT ![KeyOf(c)] = r]
          /\ call'[q].todo = call[q].todo \ {c}
          /\ call'[q].answered = call[q].answered \cup {<<c, r>>}
          /\ call'[q].current = {}
          /\ paid' = paid \cup ({c} \cap Detect(communities))
  BY PutReportLocals
<1>3. c \in Detectable /\ r \in Report /\ r.hash = c.members
  BY DEF CallsTypeOK, CallLocals, WritesWhatItRead
<1>4. c \in ReadBy(q) /\ ReadBy(q)' \subseteq ReadBy(q)
  BY <1>2 DEF ReadBy
<1>5. ReadTogether'
  BY <1>1, <1>4 DEF PaidInv, ReadTogether
<1>6. Fresh(c)'
  BY <1>2, <1>3, StoringKeepsFresh
<1>7. \A d : Fresh(d) /\ (KeyOf(d) = KeyOf(c) => d = c) => Fresh(d)'
  BY <1>2, <1>3, StoringKeepsFresh
<1>8. \A cr \in call'[q].answered : Fresh(cr[1])'
  <2>1. ASSUME NEW cr \in call[q].answered
        PROVE  Fresh(cr[1])'
    <3>1. Fresh(cr[1])
      BY <1>1 DEF PaidInv, AnswersAreFresh
    <3>2. cr[1] \in ReadBy(q)
      BY DEF ReadBy
    <3>3. KeyOf(cr[1]) = KeyOf(c) => cr[1] = c
      BY <1>1, <1>4, <3>2, ReadDistinct DEF PaidInv
    <3> QED
      BY <1>7, <3>1, <3>3
  <2> QED
    BY <1>2, <1>6, <2>1
<1>9. \A w \in Settled : KeyOf(w) = KeyOf(c) => w = c
  BY <1>1, <1>4 DEF PaidInv, AnswersAreFresh
<1>10. PrewarmedStaysFresh' /\ PaidStaysFresh'
  BY <1>1, <1>2, <1>6, <1>7, <1>9
     DEF PaidInv, PrewarmedStaysFresh, PaidStaysFresh, Settled
<1>11. Settled' \subseteq Settled \cup {c} /\ Settled' \subseteq Detect(communities)
  BY <1>1, <1>2 DEF PaidInv, AnswersAreFresh, Settled
<1>12. \A d \in ReadBy(q)', w \in Settled' : KeyOf(d) = KeyOf(w) => d = w
  <2>1. \A d \in ReadBy(q), w \in Settled : KeyOf(d) = KeyOf(w) => d = w
    BY <1>1 DEF PaidInv, AnswersAreFresh
  <2>2. \A d \in ReadBy(q) : KeyOf(d) = KeyOf(c) => d = c
    BY <1>1, <1>4, ReadDistinct DEF PaidInv
  <2> QED
    BY <1>4, <1>11, <2>1, <2>2
<1>13. AnswersAreFresh'
  BY <1>1, <1>8, <1>11, <1>12 DEF AnswersAreFresh, KeyOf
<1> QED
  BY <1>5, <1>10, <1>13 DEF PaidInv

\* Every step of a caller that is alone keeps what was warmed fresh, what was paid
\* for, and what it has answered.
LEMMA SettledStep ==
    ASSUME OneCaller, SoundDetector, TypeOK, CallsTypeOK, WritesWhatItRead,
           PaidInv, [CallsNext]_vars
    PROVE  PaidInv'
<1>1. ASSUME Import
      PROVE  PaidInv'
  <2>1. /\ reports' = reports /\ cpc' = cpc /\ call' = call
        /\ warmed' = warmed \cap Detect(communities')
        /\ paid' = paid \cap Detect(communities')
    BY <1>1 DEF Import
  <2> QED
    BY <2>1 DEF PaidInv, ReadTogether, AnswersAreFresh, PrewarmedStaysFresh,
                PaidStaysFresh, Settled, ReadBy, Fresh
<1>2. ASSUME NEW q \in Caller, NEW kind \in Kinds, NEW selected, Begin(q, kind, selected)
      PROVE  PaidInv'
  <2>1. /\ UNCHANGED <<reports, warmed, paid, communities>>
        /\ selected \subseteq Detect(communities) /\ communities \in NsGraph
    BY <1>2, SelectedAreDetected DEF Begin, ingestVars, storeVars, TypeOK
  <2>2. ReadBy(q)' = selected /\ call'[q].answered = {}
    <3>1. call'[q].todo = selected /\ call'[q].current = {} /\ call'[q].answered = {}
      BY <1>2, BeginLocals
    <3> QED
      BY <3>1 DEF ReadBy
  <2>3. \A p \in Caller : p = q
    BY DEF OneCaller
  <2>4. ReadTogether'
    BY <2>1, <2>2, <2>3 DEF ReadTogether
  <2>5. Settled' = Settled /\ Settled \subseteq Detect(communities)
    BY <2>1 DEF Settled, PaidInv, AnswersAreFresh
  <2>6. \A c \in ReadBy(q)', w \in Settled : KeyOf(c) = KeyOf(w) => c = w
    BY <2>1, <2>2, <2>5 DEF SoundDetector
  <2>7. AnswersAreFresh'
    BY <2>1, <2>2, <2>3, <2>5, <2>6 DEF AnswersAreFresh, KeyOf
  <2>8. PrewarmedStaysFresh' /\ PaidStaysFresh'
    BY <2>1 DEF PaidInv, PrewarmedStaysFresh, PaidStaysFresh, Fresh
  <2> QED
    BY <2>4, <2>7, <2>8 DEF PaidInv
<1>3. ASSUME NEW q \in Caller, NEW c \in call[q].todo, Hit(q, c)
      PROVE  PaidInv'
  <2>1. /\ cpc[q] # "idle" /\ Fresh(c)
        /\ UNCHANGED <<reports, warmed, paid, communities>>
    BY <1>3 DEF Hit, ingestVars, storeVars
  <2>2. ReadBy(q)' \subseteq ReadBy(q)
    BY <1>3, HitLocals DEF ReadBy
  <2>3. \A cr \in call'[q].answered : cr \in call[q].answered \/ Fresh(cr[1])
    BY <1>3, <2>1, HitLocals
  <2> QED
    BY <2>1, <2>2, <2>3, ReadingKeeps
<1>4. ASSUME NEW q \in Caller, NEW c \in call[q].todo, Miss(q, c)
      PROVE  PaidInv'
  <2>1. cpc[q] # "idle" /\ UNCHANGED <<reports, warmed, paid, communities>>
    BY <1>4 DEF Miss, ingestVars, storeVars
  <2>2. ReadBy(q)' \subseteq ReadBy(q) /\ call'[q].answered = call[q].answered
    BY <1>4, MissLocals DEF ReadBy
  <2> QED
    BY <2>1, <2>2, ReadingKeeps
<1>5. ASSUME NEW q \in Caller, LoadSnapshot(q)
      PROVE  PaidInv'
  <2>1. cpc[q] # "idle" /\ UNCHANGED <<reports, warmed, paid, communities>>
    BY <1>5 DEF LoadSnapshot, ingestVars, storeVars
  <2>2. ReadBy(q)' \subseteq ReadBy(q) /\ call'[q].answered = call[q].answered
    BY <1>5, SnapshotLocals DEF ReadBy
  <2> QED
    BY <2>1, <2>2, ReadingKeeps
<1>6. ASSUME NEW q \in Caller, Summarize(q)
      PROVE  PaidInv'
  <2>1. cpc[q] # "idle" /\ UNCHANGED <<reports, warmed, paid, communities>>
    BY <1>6 DEF Summarize, ingestVars, storeVars
  <2>2. ReadBy(q)' \subseteq ReadBy(q) /\ call'[q].answered = call[q].answered
    BY <1>6, SummarizeLocals DEF ReadBy
  <2> QED
    BY <2>1, <2>2, ReadingKeeps
<1>7. ASSUME NEW q \in Caller, PutReport(q)
      PROVE  PaidInv'
  BY <1>7, PuttingKeeps
<1>8. ASSUME NEW q \in Caller, Return(q) \/ Break(q)
      PROVE  PaidInv'
  <2>1. /\ cpc[q] # "idle" /\ \A p \in Caller : p = q
        /\ UNCHANGED <<reports, paid, communities>>
        /\ warmed' = warmed
           \/ warmed' = {cr[1] : cr \in call[q].answered} \cap Detect(communities)
    BY <1>8 DEF Return, Break, ingestVars, storeVars, OneCaller
  <2>2. \A p \in Caller : cpc'[p] = "idle"
    BY <1>8, <2>1, EndLocals
  <2>3. ReadTogether'
    BY <2>2 DEF ReadTogether
  <2>4. AnswersAreFresh'
    BY <2>1, <2>2 DEF PaidInv, AnswersAreFresh, Settled
  <2>5. \A c \in warmed' : Fresh(c)
    BY <2>1 DEF PaidInv, AnswersAreFresh, PrewarmedStaysFresh
  <2> QED
    BY <2>1, <2>3, <2>4, <2>5 DEF PaidInv, PrewarmedStaysFresh, PaidStaysFresh, Fresh
<1>9. CASE UNCHANGED vars
  BY <1>9 DEF vars, reportVars, ingestVars, storeVars, PaidInv, ReadTogether, ReadBy,
              AnswersAreFresh, Settled, PrewarmedStaysFresh, PaidStaysFresh, Fresh
<1> QED
  BY <1>1, <1>2, <1>3, <1>4, <1>5, <1>6, <1>7, <1>8, <1>9 DEF CallsNext, Walk

LEMMA LoneInvariant ==
    ASSUME OneCaller, SoundDetector
    PROVE  CallsSpec => []PaidInv
<1>1. CallsInit => WritesWhatItRead /\ AnsweredForMembership /\ PaidInv
  BY DEF CallsInit, Resting, WritesWhatItRead, AnsweredForMembership, PaidInv,
         ReadTogether, AnswersAreFresh, Settled, PrewarmedStaysFresh, PaidStaysFresh
<1>2. CallsSpec => [](TypeOK /\ CallsTypeOK)
  BY CallsTypeInvariant DEF SoundDetector
<1>3. /\ TypeOK /\ CallsTypeOK
      /\ WritesWhatItRead /\ AnsweredForMembership
      /\ [CallsNext]_vars
      => WritesWhatItRead' /\ AnsweredForMembership'
  BY AnsweredStep
<1>4. TypeOK /\ CallsTypeOK /\ WritesWhatItRead /\ PaidInv /\ [CallsNext]_vars => PaidInv'
  BY SettledStep
<1> QED
  BY <1>1, <1>2, <1>3, <1>4, PTL DEF CallsSpec

\* Prewarming pays ahead of time: with a sound detector and callers one at a
\* time, a community that a prewarm covered has a stored and fresh report until
\* it is detected differently.
THEOREM PrewarmingLasts ==
    ASSUME OneCaller, SoundDetector
    PROVE  CallsSpec => []PrewarmedStaysFresh
<1>1. PaidInv => PrewarmedStaysFresh
  BY DEF PaidInv
<1> QED
  BY <1>1, LoneInvariant, PTL

\* "Never paid twice for a stable community": with a sound detector and callers
\* one at a time, no report is generated of a community that was paid for before
\* and has been detected the same ever since, whatever was imported, prewarmed or
\* broken off meanwhile.
THEOREM LoneCallersNeverPayTwice ==
    ASSUME OneCaller, SoundDetector
    PROVE  CallsSpec => []NeverPaidTwice
<1>1. CallsInit => PaysOnlyForStale
  BY DEF CallsInit, PaysOnlyForStale
<1>2. CallsSpec => [](TypeOK /\ CallsTypeOK)
  BY CallsTypeInvariant DEF SoundDetector
<1>3. TypeOK /\ CallsTypeOK /\ PaysOnlyForStale /\ [CallsNext]_vars => PaysOnlyForStale'
  BY PaysOnlyStep
<1>4. PaysOnlyForStale /\ PaidInv => NeverPaidTwice
  BY DEF PaysOnlyForStale, PaidInv, PaidStaysFresh, NeverPaidTwice
<1> QED
  BY <1>1, <1>2, <1>3, <1>4, LoneInvariant, PTL DEF CallsSpec

==============================================================================
