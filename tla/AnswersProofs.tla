---------------------------- MODULE AnswersProofs ----------------------------
(***************************************************************************)
(* Theorems about the map step of AskGlobal and AskDrift, about the local  *)
(* loop of AskDrift, about the rounds of Ask and about the budgets of the  *)
(* three, for all communities, entities, caps, costs and requests.         *)
(***************************************************************************)
EXTENDS Answers, FiniteSetTheorems, SequenceTheorems, TLAPS

CommunityIDs == ToSet(Communities)

-----------------------------------------------------------------------------
\* The map step.

MapTyped ==
    /\ request \in Requests
    /\ selected \in Seq(CommunityIDs)
    /\ consulted \in Seq(CommunityIDs)
    /\ partials \in Seq(Scores)
    /\ reported \in Seq(CommunityIDs)

Unmapped == consulted = <<>> /\ partials = <<>> /\ reported = <<>>

\* Nothing is mapped before the map step and on other paths; during it every
\* consulted community has its partial; after it all of them are reported.
MapProgress ==
    /\ ~MapPath \/ pc \in {"start", "seed"} => Unmapped
    /\ MapPath /\ pc # "done" => outcome = "none"
    /\ MapPath /\ pc \in {"map", "local", "lookup", "synthesize"} =>
            Len(consulted) = Len(partials)
    /\ MapPath /\ pc \in {"local", "lookup", "synthesize"} => reported = consulted

MapInv == MapTyped /\ MapProgress /\ PartialsAreComplete

\* What is reported of the first n of a sequence of communities.
LEMMA CompletedProperties ==
    ASSUME NEW ids \in Seq(CommunityIDs), NEW n \in Nat, n <= Len(ids)
    PROVE  Completed(ids, n) \in Seq(CommunityIDs) /\ Len(Completed(ids, n)) = n
<1>1. \A i \in 1..n : ids[i] \in CommunityIDs
  BY ElementOfSeq
<1> QED
  BY <1>1, SubSeqProperties DEF Completed

\* A sequence is its own prefix of its own length.
LEMMA WholeIsCompleted ==
    ASSUME NEW ids \in Seq(CommunityIDs)
    PROVE  ids = SubSeq(ids, 1, Len(ids))
  BY SubSeqFull

\* Ask touches neither the request nor, as Answers composes it, the map step.
LEMMA AskKeepsRequest ==
    ASSUME AskNext
    PROVE  request.path = "ask" /\ request' = request
<1>1. CASE Retrieve \/ RetrieveFails \/ Draft \/ DraftFails
  BY <1>1 DEF Retrieve, RetrieveFails, Draft, DraftFails, AskAt
<1>2. CASE PreGrade \/ Plan \/ Union
  BY <1>2 DEF PreGrade, Plan, Union, AskAt
<1>3. ASSUME NEW i \in DOMAIN followups, StartFollowup(i) \/ EndFollowup(i)
      PROVE  request.path = "ask" /\ request' = request
  BY <1>3 DEF StartFollowup, EndFollowup, AskAt, answeringVars
<1>4. CASE DecideByRule \/ StopForUnchangedEvidence \/ DecideByModel \/ DecisionFails
  BY <1>4 DEF DecideByRule, StopForUnchangedEvidence, DecideByModel, DecisionFails,
              AskAt, DecidedVars
<1>5. CASE GradeHit \/ NextRound \/ Finish
  BY <1>5 DEF GradeHit, NextRound, Finish, AskAt, RecordVars
<1> QED
  BY <1>1, <1>2, <1>3, <1>4, <1>5 DEF AskNext

\* A path that maps nothing reports nothing.
LEMMA UnmappedIsComplete ==
    ASSUME Unmapped
    PROVE  PartialsAreComplete
<1>1. SubSeq(consulted, 1, Len(partials)) = <<>>
  BY SubSeqEmpty DEF Unmapped
<1> QED
  BY <1>1 DEF Unmapped, PartialsAreComplete

LEMMA MapInit == Init => MapInv
<1> SUFFICES ASSUME Init PROVE MapInv
  OBVIOUS
<1>1. MapTyped /\ MapProgress /\ Unmapped
  BY DEF Init, AnsweringInit, GlobalInit, MapTyped, MapProgress, Unmapped
<1> QED
  BY <1>1, UnmappedIsComplete DEF MapInv

LEMMA MapStep == MapInv /\ [Next]_vars => MapInv'
<1> SUFFICES ASSUME MapInv, [Next]_vars PROVE MapInv'
  OBVIOUS
<1> USE DEF MapInv
<1>1. CASE UNCHANGED vars
  BY <1>1 DEF vars, answeringVars, mapVars, MapTyped, MapProgress, Unmapped, MapPath,
              PartialsAreComplete
<1>2. CASE AskNext /\ UNCHANGED <<mapVars, driftVars>>
  <2>1. request.path = "ask" /\ request' = request
    BY <1>2, AskKeepsRequest
  <2>2. ~MapPath /\ Unmapped
    BY <2>1 DEF MapPath, MapProgress
  <2>3. MapTyped' /\ MapProgress' /\ Unmapped'
    BY <1>2, <2>1, <2>2 DEF mapVars, MapTyped, MapProgress, MapPath, Unmapped
  <2> QED
    BY <2>3, UnmappedIsComplete, PTL
<1>3. CASE GlobalNext /\ UNCHANGED <<askVars, driftVars>>
  <2>1. CASE SelectReports
    <3>1. selected' \in Seq(CommunityIDs)
      <4>1. CASE UNCHANGED selected
        BY <4>1 DEF MapTyped
      <4>2. ASSUME NEW n \in 1..Len(Communities), NEW at \in Picks(n)
            PROVE  [i \in 1..n |-> Communities[at[i]]] \in Seq(CommunityIDs)
        <5>1. \A i \in 1..n : Communities[at[i]] \in CommunityIDs
          BY GlobalAssumption, ElementOfSeq DEF Picks, CommunityIDs
        <5> QED
          BY <5>1, IsASeq, GlobalAssumption
      <4> QED
        BY <2>1, <4>1, <4>2 DEF SelectReports
    <3>2. MapPath /\ pc = "start" /\ Unmapped
      BY <2>1 DEF SelectReports, MapProgress
    <3>3. Unmapped' /\ request' = request /\ pc' \in {"map", "seed", "done"}
      BY <2>1, <3>2 DEF SelectReports, Unmapped, Goto, Return
    <3>4. pc' # "done" => outcome' = "none"
      BY <2>1, <3>2 DEF SelectReports, MapProgress, Goto, Return
    <3>5. MapTyped' /\ MapProgress'
      BY <2>1, <3>1, <3>2, <3>3, <3>4 DEF SelectReports, MapTyped, MapProgress, MapPath, Unmapped
    <3> QED
      BY <3>3, <3>5, UnmappedIsComplete, PTL
  <2>2. CASE ReportsFail
    <3>1. Unmapped' /\ MapTyped' /\ MapProgress'
      BY <2>2 DEF ReportsFail, Return, mapVars, MapTyped, MapProgress, MapPath, Unmapped
    <3> QED
      BY <3>1, UnmappedIsComplete, PTL
  <2>3. CASE MapReport
    <3>1. /\ Head(selected) \in CommunityIDs
          /\ Tail(selected) \in Seq(CommunityIDs)
      BY <2>3, HeadTailProperties DEF MapReport, MapTyped
    <3>2. /\ consulted' \in Seq(CommunityIDs)
          /\ Len(consulted') = Len(consulted) + 1
      BY <2>3, <3>1, AppendProperties DEF MapReport, MapTyped
    <3>3. /\ partials' \in Seq(Scores)
          /\ Len(partials') = Len(partials) + 1
      BY <2>3, AppendProperties DEF MapReport, MapTyped
    <3> QED
      BY <2>3, <3>1, <3>2, <3>3
         DEF MapReport, MapTyped, MapProgress, MapPath, PartialsAreComplete
  <2>4. CASE MapFails
    <3>1. Head(selected) \in CommunityIDs
      BY <2>4, HeadTailProperties DEF MapFails, MapTyped
    <3>2. /\ consulted' \in Seq(CommunityIDs)
          /\ Len(consulted') = Len(partials) + 1
      BY <2>4, <3>1, AppendProperties DEF MapFails, MapTyped, MapProgress
    <3>3. Len(partials) \in Nat
      BY LenProperties DEF MapTyped
    <3>4. /\ Completed(consulted', Len(partials)) \in Seq(CommunityIDs)
          /\ Len(Completed(consulted', Len(partials))) = Len(partials)
      BY <3>2, <3>3, CompletedProperties
    <3>5. /\ reported' = Completed(consulted', Len(partials))
          /\ reported' \in Seq(CommunityIDs)
          /\ Len(reported') = Len(partials)
      BY <2>4, <3>4 DEF MapFails
    <3>6. PartialsAreComplete'
      BY <2>4, <3>5 DEF MapFails, PartialsAreComplete, Completed
    <3> QED
      BY <2>4, <3>2, <3>5, <3>6 DEF MapFails, MapTyped, MapProgress, MapPath, Return
  <2>5. CASE Reduce
    <3>1. Len(consulted) = Len(partials) /\ pc' = "done" /\ request' = request
      BY <2>5 DEF Reduce, Return, MapProgress, MapPath
    <3>2. PartialsAreComplete'
      BY <2>5, <3>1, WholeIsCompleted DEF Reduce, MapTyped, PartialsAreComplete
    <3> QED
      BY <2>5, <3>1, <3>2 DEF Reduce, MapTyped, MapProgress, MapPath
  <2> QED
    BY <1>3, <2>1, <2>2, <2>3, <2>4, <2>5 DEF GlobalNext
<1>4. CASE DriftNext /\ UNCHANGED askVars
  <2>1. CASE Seed
    <3>1. Len(consulted) = Len(partials) /\ MapPath
      BY <2>1 DEF Seed, DriftAt, MapPath, MapProgress, Unmapped
    <3>2. pc' \in {"local", "synthesize"} /\ reported' = consulted /\ outcome' = "none"
      BY <2>1, <3>1 DEF Seed, DriftAt, Goto, MapProgress
    <3> QED
      BY <2>1, <3>1, <3>2 DEF Seed, MapTyped, MapProgress, MapPath, PartialsAreComplete
  <2>2. ASSUME request.path = "drift", pc \in {"local", "lookup", "synthesize"},
               request' = request, UNCHANGED mapVars,
               pc' \in {"local", "lookup", "synthesize", "done"},
               pc' # "done" => outcome' = outcome
        PROVE  MapInv'
    <3>1. Len(consulted) = Len(partials) /\ reported = consulted /\ outcome = "none"
      BY <2>2 DEF MapPath, MapProgress
    <3>2. PartialsAreComplete'
      BY <2>2, <3>1, WholeIsCompleted DEF mapVars, MapTyped, PartialsAreComplete
    <3> QED
      BY <2>2, <3>1, <3>2 DEF mapVars, MapTyped, MapProgress, MapPath, Unmapped
  <2>3. CASE LeaveLoop \/ Explore \/ ExploreFails
    BY <2>2, <2>3 DEF LeaveLoop, Explore, ExploreFails, DriftAt, Goto, Return
  <2>4. CASE Lookup \/ Synthesize
    BY <2>2, <2>4 DEF Lookup, Synthesize, DriftAt, Goto, Return
  <2> QED
    BY <1>4, <2>1, <2>3, <2>4 DEF DriftNext
<1> QED
  BY <1>1, <1>2, <1>3, <1>4 DEF Next

\* The diagnostics of an answer, or of a tripped budget, name exactly the
\* communities whose map call completed, for every set of communities.
THEOREM DiagnosticsAreComplete == Spec => []PartialsAreComplete
<1>1. MapInv => PartialsAreComplete
  BY DEF MapInv
<1> QED
  BY <1>1, MapInit, MapStep, PTL DEF Spec

-----------------------------------------------------------------------------
\* The local loop.

DriftTyped ==
    /\ seen \subseteq Nodes
    /\ frontier \subseteq seen
    /\ explored \in Seq(SUBSET Nodes)

\* What was explored was seen, and never twice.
ExploredOnce ==
    \A i \in DOMAIN explored :
        /\ explored[i] # {}
        /\ explored[i] \subseteq seen
        /\ \A j \in 1..(i - 1) : explored[i] \cap explored[j] = {}

\* Before a round its seeds are new.
FrontierIsNew ==
    request.path = "drift" /\ pc = "local" =>
        \A i \in DOMAIN explored : explored[i] \cap frontier = {}

DriftInv ==
    /\ DriftTyped
    /\ ExploredOnce
    /\ FrontierIsNew
    /\ request.path # "drift" \/ pc \in {"start", "map", "seed"} => explored = <<>>
    /\ explored # <<>> => Len(explored) <= Rounds

LEMMA LeastOfTwo ==
    ASSUME NEW a \in Int, NEW b \in Int
    PROVE  Least({a, b}) \in {a, b} /\ Least({a, b}) <= a /\ Least({a, b}) <= b
<1>1. \E x \in {a, b} : \A y \in {a, b} : x <= y
  OBVIOUS
<1> QED
  BY <1>1 DEF Least

LEMMA RoundsAreBounded ==
    ASSUME request \in Requests
    PROVE  Rounds \in Int /\ Rounds <= MaxDriftRounds
<1>1. request.rounds \in Int
  BY RequestsAssumption DEF Request
<1>2. MaxDriftRounds \in Int /\ DefaultRounds \in Int /\ DefaultRounds <= MaxDriftRounds
  BY DriftAssumption
<1>3. CASE request.rounds <= 0
  BY <1>2, <1>3 DEF Rounds
<1>4. CASE ~(request.rounds <= 0)
  <2>1. Rounds = Least({request.rounds, MaxDriftRounds})
    BY <1>4 DEF Rounds
  <2> QED
    BY <1>1, <1>2, <2>1, LeastOfTwo
<1> QED
  BY <1>3, <1>4

LEMMA DriftStart == Init => DriftInv
  BY DEF Init, DriftInit, DriftInv, DriftTyped, ExploredOnce, FrontierIsNew

\* A round over new seeds keeps what was explored disjoint.
LEMMA ExploringOnce ==
    ASSUME DriftInv, request \in Requests, DriftAt("local"), ~Exhausted,
           explored' = Append(explored, frontier), UNCHANGED <<request, frontier, seen>>
    PROVE  /\ DriftTyped' /\ ExploredOnce'
           /\ Len(explored') <= Rounds
<1>1. explored \in Seq(SUBSET Nodes) /\ frontier \in SUBSET Nodes
  BY DEF DriftInv, DriftTyped
<1>2. /\ explored' \in Seq(SUBSET Nodes)
      /\ Len(explored') = Len(explored) + 1
      /\ \A i \in 1..Len(explored) : explored'[i] = explored[i]
      /\ explored'[Len(explored) + 1] = frontier
  BY <1>1, AppendProperties
<1>3. \A i \in DOMAIN explored : explored[i] \cap frontier = {}
  BY DEF DriftInv, FrontierIsNew, DriftAt
<1>4. Len(explored) \in Nat /\ Len(explored) < Rounds /\ frontier # {}
  BY <1>1, RoundsAreBounded, LenProperties DEF Exhausted
<1>5. DOMAIN explored = 1..Len(explored) /\ DOMAIN explored' = 1..(Len(explored) + 1)
  BY <1>1, <1>2, LenProperties
<1>6. ExploredOnce'
  <2> SUFFICES ASSUME NEW i \in 1..(Len(explored) + 1)
               PROVE  /\ explored'[i] # {}
                      /\ explored'[i] \subseteq seen
                      /\ \A j \in 1..(i - 1) : explored'[i] \cap explored'[j] = {}
    BY <1>5 DEF ExploredOnce
  <2>1. CASE i \in 1..Len(explored)
    BY <1>2, <1>4, <1>5, <2>1 DEF DriftInv, ExploredOnce
  <2>2. CASE i = Len(explored) + 1
    BY <1>2, <1>3, <1>4, <1>5, <2>2 DEF DriftInv, DriftTyped
  <2> QED
    BY <1>4, <2>1, <2>2
<1> QED
  BY <1>2, <1>4, <1>6, RoundsAreBounded DEF DriftInv, DriftTyped

\* Seeds are members of the communities that were consulted.
LEMMA SeedsAreNodes ==
    ASSUME MapInv, NEW calls \in SUBSET DOMAIN consulted
    PROVE  UNION {MembersOf[consulted[i]] : i \in calls} \subseteq Nodes
<1>1. \A i \in DOMAIN consulted : consulted[i] \in ToSet(Communities)
  BY ElementOfSeq, LenProperties DEF MapInv, MapTyped, CommunityIDs
<1> QED
  BY <1>1, DriftAssumption

LEMMA DriftStep == MapInv /\ DriftInv /\ [Next]_vars => DriftInv'
<1> SUFFICES ASSUME MapInv, DriftInv, [Next]_vars PROVE DriftInv'
  OBVIOUS
<1>0. request \in Requests
  BY DEF MapInv, MapTyped
<1>1. CASE UNCHANGED vars
  BY <1>1 DEF vars, answeringVars, driftVars, DriftInv, DriftTyped, ExploredOnce,
              FrontierIsNew, Rounds
<1>2. CASE AskNext /\ UNCHANGED <<mapVars, driftVars>>
  BY <1>2, AskKeepsRequest
     DEF driftVars, DriftInv, DriftTyped, ExploredOnce, FrontierIsNew, Rounds
<1>3. CASE GlobalNext /\ UNCHANGED <<askVars, driftVars>>
  <2>1. explored = <<>>
    BY <1>3 DEF GlobalNext, SelectReports, ReportsFail, MapReport, MapFails, Reduce, DriftInv
  <2>2. explored' = <<>> /\ seen' = seen /\ frontier' = frontier
    BY <1>3, <2>1 DEF driftVars
  <2> QED
    BY <2>1, <2>2 DEF DriftInv, DriftTyped, ExploredOnce, FrontierIsNew
<1>4. CASE DriftNext /\ UNCHANGED askVars
  <2>1. CASE Seed
    <3>1. explored = <<>> /\ explored' = <<>>
      BY <2>1 DEF Seed, DriftAt, DriftInv
    <3>2. DOMAIN consulted = DOMAIN partials
      BY <2>1, LenProperties
         DEF Seed, DriftAt, MapInv, MapTyped, MapProgress, MapPath, Unmapped
    <3>3. Scored \subseteq DOMAIN consulted
      BY <3>2 DEF Scored
    <3>4. frontier' \subseteq Nodes /\ seen' = frontier'
      BY <2>1, <3>2, <3>3, SeedsAreNodes DEF Seed
    <3> QED
      BY <3>1, <3>4 DEF DriftInv, DriftTyped, ExploredOnce, FrontierIsNew
  <2>2. CASE LeaveLoop
    BY <2>2 DEF LeaveLoop, DriftAt, Goto, driftVars, DriftInv, DriftTyped, ExploredOnce,
                FrontierIsNew, Rounds
  <2>3. CASE Explore \/ ExploreFails
    <3>1. /\ DriftAt("local") /\ ~Exhausted
          /\ explored' = Append(explored, frontier)
          /\ UNCHANGED <<request, frontier, seen>>
          /\ pc' \in {"lookup", "synthesize", "done"}
      BY <2>3 DEF Explore, ExploreFails, Goto, Return
    <3>2. DriftTyped' /\ ExploredOnce' /\ Len(explored') <= Rounds
      BY <1>0, <3>1, ExploringOnce
    <3> QED
      BY <3>1, <3>2 DEF DriftInv, FrontierIsNew, DriftAt, Rounds
  <2>4. CASE Lookup
    <3>1. /\ request.path = "drift" /\ request' = request /\ explored' = explored
          /\ pc' \in {"local", "synthesize", "done"}
      BY <2>4 DEF Lookup, DriftAt, Goto, Return
    <3>2. CASE UNCHANGED <<frontier, seen>> /\ pc' = "done"
      BY <3>1, <3>2 DEF DriftInv, DriftTyped, ExploredOnce, FrontierIsNew, Rounds
    <3>3. ASSUME NEW found \in SUBSET Nodes, seen' = seen \cup found,
                 \/ pc' = "synthesize" /\ UNCHANGED frontier
                 \/ frontier' = Unseen(found)
          PROVE  DriftInv'
      <4>1. DriftTyped' /\ ExploredOnce'
        BY <3>1, <3>3 DEF DriftInv, DriftTyped, ExploredOnce, Unseen
      <4>2. FrontierIsNew'
        BY <3>1, <3>3 DEF DriftInv, ExploredOnce, FrontierIsNew, Unseen
      <4> QED
        BY <3>1, <4>1, <4>2 DEF DriftInv, Rounds
    <3> QED
      BY <2>4, <3>2, <3>3 DEF Lookup, Goto, Return
  <2>5. CASE Synthesize
    BY <2>5 DEF Synthesize, DriftAt, Return, driftVars, DriftInv, DriftTyped, ExploredOnce,
                FrontierIsNew, Rounds
  <2> QED
    BY <1>4, <2>1, <2>2, <2>3, <2>4, <2>5 DEF DriftNext
<1> QED
  BY <1>1, <1>2, <1>3, <1>4 DEF Next

\* No round of AskDrift starts from an entity an earlier round started from, and
\* the rounds are bounded, for every graph, set of communities and request.
THEOREM SeedsAreNeverRevisited == Spec => []SeedsNeverRevisited
<1>1. MapInv /\ DriftInv => SeedsNeverRevisited
  <2> SUFFICES ASSUME MapInv, DriftInv PROVE SeedsNeverRevisited
    OBVIOUS
  <2>1. Len(explored) <= MaxDriftRounds
    <3>1. CASE explored = <<>>
      BY <3>1, DriftAssumption
    <3>2. CASE explored # <<>>
      <4>1. Len(explored) \in Nat /\ Len(explored) <= Rounds
        BY <3>2, LenProperties DEF DriftInv, DriftTyped
      <4>2. Rounds \in Int /\ Rounds <= MaxDriftRounds
        BY RoundsAreBounded DEF MapInv, MapTyped
      <4> QED
        BY <4>1, <4>2, DriftAssumption
    <3> QED
      BY <3>1, <3>2
  <2> QED
    BY <2>1 DEF SeedsNeverRevisited, DriftInv, ExploredOnce
<1> QED
  BY <1>1, MapInit, MapStep, DriftStart, DriftStep, PTL DEF Spec

-----------------------------------------------------------------------------
\* The rounds of Ask.

Kinds == {"stop", "continue", "rewrite", "failed"}

RoundsTyped == \E S : rounds \in Seq(S)

\* An Ask that has not returned.
Asking == request.path = "ask" /\ pc # "done"

Overrulings == IF request.adaptive /\ request.grading THEN 1 ELSE 0

\* A round was recorded because its decision called for the next one.
Chained ==
    \A i \in 1..(Len(rounds) - 1) :
        /\ rounds[i].kind # "failed"
        /\ rounds[i].kind = "rewrite" =>
                rounds[i + 1].query = rounds[i].next /\ rounds[i].next # rounds[i].query
        /\ rounds[i].kind # "rewrite" => rounds[i + 1].query = Question

\* The round under way is the one the last recorded decision called for.
CalledFor ==
    rounds # <<>> =>
        LET last == rounds[Len(rounds)]
        IN  /\ last.kind # "failed"
            /\ last.kind = "rewrite" => query = last.next /\ last.next # last.query
            /\ last.kind # "rewrite" => query = Question

\* A stop was overruled exactly when the adaptive round is used up.
OverruledOnce ==
    \/ extra = Overrulings /\ Stops = {}
    \/ extra = 0 /\ Overrulings = 1 /\ \E i \in DOMAIN rounds : Stops = {i}

\* What is decided is one of the decisions, and clamped at MaxRounds.
DecidedWithinRounds ==
    pc = "grade" =>
        /\ decision.kind \in Kinds
        /\ decision.kind = "rewrite" => decision.next # query
        /\ Index >= MaxRounds => decision.kind \in {"stop", "failed"}

GradingTyped ==
    /\ DOMAIN grading = {"todo", "best", "sum"}
    /\ grading.best \in Grades

RoundsInv ==
    /\ RoundsTyped
    /\ GradingTyped
    /\ Len(rounds) <= MaxRounds
    /\ Chained
    /\ request.path # "ask" => rounds = <<>>
    /\ Asking =>
        /\ outcome = "none"
        /\ Len(rounds) < MaxRounds
        /\ CalledFor
        /\ OverruledOnce
        /\ DecidedWithinRounds
    /\ ~Asking => RoundsFollowDecisions
-----------------------------------------------------------------------------
\* The budgets of Ask, AskGlobal and AskDrift.

FollowupStates == {"waiting", "running", "fetched", "failed"}

\* The follow-ups of the round under way that are charged already.
Charged ==
    IF pc \in {"draft", "rule", "evidence", "model", "grade"} THEN Len(followups) ELSE 0

\* The recorded follow-ups and those charged make up what is spent.
SpendingAddsUp ==
    \E planned \in [0..Len(rounds) -> 0..spent] :
        /\ PlannedUpTo(planned)
        /\ Asking \/ (Answered /\ Reflected) => planned[Len(rounds)] + Charged = spent

\* What is left and what was used make up the cap.
CapIsShared ==
    /\ spent \in Nat /\ remaining \in Nat
    /\ IF ActiveEnabled THEN spent + remaining = PerAsk ELSE spent = 0 /\ remaining = 0

FollowupsCapped ==
    /\ followups \in Seq(FollowupStates)
    /\ Len(followups) <= PerRound
    /\ request.path = "ask" /\ pc = "pregrade" => followups = <<>> /\ remaining > 0
    /\ request.path = "ask" /\ pc = "followups" => Len(followups) <= remaining

\* Under a token budget whatever goes on, or is answered, is within it.
WithinTokens ==
    /\ used \in Nat
    /\ request.path = "ask" /\ pc \in {"rule", "evidence", "model", "grade"} =>
            request.mode # "off" /\ ~Over(prompt.cost)
    /\ \A i \in DOMAIN rounds : rounds[i].planned <= PerRound /\ ~Over(rounds[i].cost)
    /\ MapPath /\ pc # "done" => ~Over(used)
    /\ Answered /\ ~Reflected => ~Over(used)
    /\ outcome = "over" => Over(used)

BudgetInv ==
    /\ pc # "done" => outcome = "none"
    /\ CapIsShared
    /\ FollowupsCapped
    /\ SpendingAddsUp
    /\ WithinTokens

-----------------------------------------------------------------------------
\* The rounds follow the decisions.

\* Totals stay natural numbers.
LEMMA AppendedIsNat ==
    ASSUME request \in Requests, NEW n \in Nat, NEW c \in Costs
    PROVE  Appended(n, c) \in Nat
<1>1. c \in Nat /\ request.limit \in Nat
  BY CostsAssumption, RequestsAssumption DEF Request
<1>2. /\ n + c \in Nat /\ request.limit + 1 \in Nat
      /\ n + c \in Int /\ request.limit + 1 \in Int
  BY <1>1
<1>3. Least({n + c, request.limit + 1}) \in {n + c, request.limit + 1}
  BY <1>2, LeastOfTwo
<1>4. Least({n + c, request.limit + 1}) \in Nat
  BY <1>2, <1>3
<1> QED
  BY <1>4 DEF Appended

\* What a call of the grader may leave and say.
LEMMA GradingsProperties ==
    ASSUME request \in Requests, NEW n \in Nat, NEW g \in Gradings(n)
    PROVE  g[1] \in Nat /\ g[2] \in Grades
<1>1. \A r \in Replies(n) : r[1] \in Nat
  BY AppendedIsNat DEF Replies
<1> QED
  BY <1>1 DEF Gradings, Grades, Neutral, High

\* A successful call ends within the budget, one that trips it above.
LEMMA CallProperties ==
    ASSUME request \in Requests, used \in Nat, request' = request, NEW result, Call(result)
    PROVE  /\ used' \in Nat
           /\ result = "ok" => ~Over(used')
           /\ result = "over" => Over(used')
<1>1. \A c \in Costs : Appended(used, c) \in Nat
  BY AppendedIsNat
<1> QED
  BY <1>1 DEF Call, Replies

\* No request has a total of zero tokens above its budget.
LEMMA NothingIsWithin ==
    ASSUME request \in Requests
    PROVE  ~Over(0)
<1>1. request.limit \in Nat
  BY RequestsAssumption DEF Request
<1> QED
  BY <1>1 DEF Over

LEMMA Paths ==
    ASSUME request \in Requests
    PROVE  request.path \in {"ask", "global", "drift"}
  BY RequestsAssumption DEF Request

\* While an Ask goes on, its recorded rounds are as they should be.
LEMMA AskingFollows ==
    ASSUME RoundsInv, Asking
    PROVE  RoundsFollowDecisions
<1>1. Cardinality(Stops \ {Len(rounds)}) <= Overrulings
  <2>1. CASE Stops = {}
    <3>1. Stops \ {Len(rounds)} = {}
      BY <2>1
    <3> QED
      BY <3>1, FS_EmptySet DEF Overrulings
  <2>2. CASE Overrulings = 1 /\ \E i \in DOMAIN rounds : Stops = {i}
    <3>1. PICK i : Stops = {i}
      BY <2>2
    <3>2. Stops \ {Len(rounds)} = {} \/ Stops \ {Len(rounds)} = {i}
      BY <3>1
    <3>3. Cardinality(Stops \ {Len(rounds)}) = 0 \/ Cardinality(Stops \ {Len(rounds)}) = 1
      BY <3>2, FS_EmptySet, FS_Singleton
    <3>4. Overrulings = 1
      BY <2>2
    <3> QED
      BY ONLY <3>3, <3>4
  <2> QED
    BY <2>1, <2>2 DEF RoundsInv, OverruledOnce
<1>2. ~Answered
  BY DEF RoundsInv, Answered
<1> QED
  BY <1>1, <1>2 DEF RoundsInv, Chained, RoundsFollowDecisions, Overrulings

\* A step that records no round keeps the rounds as they should be.
LEMMA NothingRecorded ==
    ASSUME RoundsInv, UNCHANGED <<request, rounds, query, extra>>,
           Asking, GradingTyped',
           \/ pc' # "done" /\ outcome' = outcome /\ DecidedWithinRounds'
           \/ pc' = "done" /\ (outcome' \in Failures \/ request.mode = "off")
    PROVE  RoundsInv'
<1>1. RoundsFollowDecisions
  BY AskingFollows
<1>2. /\ RoundsTyped' /\ (Len(rounds) <= MaxRounds)' /\ Chained'
      /\ (request.path # "ask" => rounds = <<>>)'
  BY DEF RoundsInv, RoundsTyped, Chained
<1>3. CASE pc' # "done" /\ outcome' = outcome /\ DecidedWithinRounds'
  BY <1>2, <1>3 DEF RoundsInv, Asking, CalledFor, OverruledOnce, Stops, Overrulings
<1>4. CASE pc' = "done" /\ (outcome' \in Failures \/ request.mode = "off")
  <2>1. ~(Answered /\ Reflected)'
    BY <1>4 DEF Answered, Reflected, Failures
  <2>2. RoundsFollowDecisions'
    BY <1>1, <2>1 DEF RoundsFollowDecisions, Stops
  <2> QED
    BY <1>2, <1>4, <2>2 DEF RoundsInv, Asking
<1> QED
  BY <1>3, <1>4

LEMMA RoundsStart == Init => RoundsInv
<1> SUFFICES ASSUME Init PROVE RoundsInv
  OBVIOUS
<1>1. rounds = <<>> /\ Len(rounds) = 0 /\ rounds \in Seq({}) /\ DOMAIN rounds = {}
  BY EmptySeq, LenProperties DEF Init, AskInit
<1>2. Stops = {}
  BY <1>1 DEF Stops
<1>3. RoundsFollowDecisions
  <2>1. Cardinality(Stops \ {Len(rounds)}) = 0
    BY <1>2, FS_EmptySet
  <2>2. ~Answered
    BY DEF Init, AnsweringInit, Answered
  <2> QED
    BY <1>1, <2>1, <2>2, AskAssumption DEF RoundsFollowDecisions
<1>4. RoundsTyped /\ Chained /\ CalledFor /\ Len(rounds) < MaxRounds
  BY <1>1, AskAssumption DEF RoundsTyped, Chained, CalledFor
<1>5. GradingTyped
  BY DEF Init, AskInit, Ungraded, GradingTyped, Grades
<1>6. OverruledOnce
  BY <1>2 DEF Init, AskInit, OverruledOnce, Overrulings
<1>7. pc = "start" /\ outcome = "none" /\ DecidedWithinRounds
  BY DEF Init, AnsweringInit, DecidedWithinRounds
<1> QED
  BY <1>1, <1>3, <1>4, <1>5, <1>6, <1>7, AskAssumption DEF RoundsInv

\* What recording a round does to the rounds.
LEMMA RecordedProperties ==
    ASSUME RoundsTyped
    PROVE  LET r == Recorded[Len(rounds) + 1]
           IN  /\ Len(rounds) \in Nat
               /\ DOMAIN rounds = 1..Len(rounds)
               /\ \E S : Recorded \in Seq(S)
               /\ Len(Recorded) = Len(rounds) + 1
               /\ DOMAIN Recorded = 1..(Len(rounds) + 1)
               /\ \A i \in 1..Len(rounds) : Recorded[i] = rounds[i]
               /\ r.query = query /\ r.kind = decision.kind /\ r.next = decision.next
               /\ r.relevance = grading.best
               /\ r.planned = Len(followups) /\ r.cost = prompt.cost
<1> DEFINE new == [query |-> query, kind |-> decision.kind, next |-> decision.next,
                   relevance |-> grading.best, score |-> Score,
                   planned |-> Len(followups), cost |-> prompt.cost]
<1>1. PICK S : rounds \in Seq(S)
  BY DEF RoundsTyped
<1>2. rounds \in Seq(S \cup {new})
  BY <1>1, ElementOfSeq, SeqDef
<1>3. /\ Recorded \in Seq(S \cup {new})
      /\ Len(Recorded) = Len(rounds) + 1
      /\ \A i \in 1..Len(rounds) : Recorded[i] = rounds[i]
      /\ Recorded[Len(rounds) + 1] = new
  BY <1>2, AppendProperties DEF Recorded
<1>4. DOMAIN rounds = 1..Len(rounds) /\ DOMAIN Recorded = 1..(Len(rounds) + 1)
  BY <1>1, <1>3, LenProperties
<1>5. Len(rounds) \in Nat
  BY <1>1, LenProperties
<1> QED
  BY <1>3, <1>4, <1>5

\* The recorded round joins those before it.
LEMMA RecordingChains ==
    ASSUME RoundsInv, Asking, pc = "grade", rounds' = Recorded
    PROVE  /\ RoundsTyped' /\ Len(rounds') = Len(rounds) + 1
           /\ Len(rounds) \in Nat /\ Len(rounds') <= MaxRounds
           /\ Chained'
           /\ Stops' = IF decision.kind = "stop" THEN Stops \cup {Len(rounds) + 1} ELSE Stops
<1> DEFINE n == Len(rounds)
<1>1. /\ n \in Nat /\ DOMAIN rounds = 1..n
      /\ \E S : rounds' \in Seq(S)
      /\ Len(rounds') = n + 1 /\ DOMAIN rounds' = 1..(n + 1)
      /\ \A i \in 1..n : rounds'[i] = rounds[i]
      /\ rounds'[n + 1].query = query
      /\ rounds'[n + 1].kind = decision.kind
  BY RecordedProperties DEF RoundsInv
<1>2. n < MaxRounds /\ MaxRounds \in Nat
  BY AskAssumption DEF RoundsInv
<1>3. CalledFor /\ Chained
  BY DEF RoundsInv
<1>4. n > 0 => rounds # <<>>
  BY <1>1
<1> HIDE DEF n
<1>5. Chained'
  <2> SUFFICES ASSUME NEW i \in 1..n
               PROVE  /\ rounds'[i].kind # "failed"
                      /\ rounds'[i].kind = "rewrite" =>
                            /\ rounds'[i + 1].query = rounds'[i].next
                            /\ rounds'[i].next # rounds'[i].query
                      /\ rounds'[i].kind # "rewrite" => rounds'[i + 1].query = Question
    <3>1. Len(rounds') - 1 = n
      BY <1>1
    <3> QED
      BY <3>1 DEF Chained
  <2>1. CASE i = n
    BY <1>1, <1>3, <1>4, <2>1 DEF CalledFor, n
  <2>2. CASE i # n
    <3>1. i \in 1..(n - 1) /\ i + 1 \in 1..n
      BY <1>1, <2>2
    <3>2. rounds'[i] = rounds[i] /\ rounds'[i + 1] = rounds[i + 1]
      BY <1>1, <3>1
    <3> QED
      BY <1>3, <3>1, <3>2 DEF Chained, n
  <2> QED
    BY <2>1, <2>2
<1>6. Stops' = IF decision.kind = "stop" THEN Stops \cup {n + 1} ELSE Stops
  <2>1. Stops' = {i \in 1..(n + 1) : rounds'[i].kind = "stop"}
    BY <1>1 DEF Stops
  <2>2. Stops = {i \in 1..n : rounds[i].kind = "stop"}
    BY <1>1 DEF Stops
  <2>3. 1..(n + 1) = 1..n \cup {n + 1}
    BY <1>1
  <2> QED
    BY <1>1, <2>1, <2>2, <2>3
<1> QED
  BY <1>1, <1>2, <1>5, <1>6 DEF RoundsTyped, n

\* A further round runs on the query its decision called for.
LEMMA NextRoundFollows ==
    ASSUME RoundsInv, NextRound
    PROVE  RoundsInv'
<1> DEFINE n == Len(rounds)
<1>1. Asking /\ pc = "grade" /\ request' = request /\ pc' = "start" /\ outcome' = outcome
  BY DEF NextRound, AskAt, Asking, RecordVars, Goto
<1>2. rounds' = Recorded /\ grading' = grading
  BY DEF NextRound, RecordVars
<1>3. /\ RoundsTyped' /\ Len(rounds') = n + 1 /\ n \in Nat /\ Chained'
      /\ Stops' = IF decision.kind = "stop" THEN Stops \cup {n + 1} ELSE Stops
  BY <1>1, <1>2, RecordingChains
<1>4. n + 1 < MaxRounds
  BY DEF NextRound, RunsOn, Index
<1>5. CalledFor'
  <2>1. /\ rounds'[n + 1].query = query
        /\ rounds'[n + 1].kind = decision.kind
        /\ rounds'[n + 1].next = decision.next
    BY <1>2, RecordedProperties DEF RoundsInv
  <2>2. decision.kind \in {"continue", "rewrite", "stop"}
    BY DEF NextRound, RunsOn, AdaptiveRound
  <2>3. decision.kind = "rewrite" => decision.next # query
    BY <1>1 DEF RoundsInv, DecidedWithinRounds
  <2>4. query' = IF decision.kind = "rewrite" THEN decision.next ELSE Question
    BY DEF NextRound
  <2>5. Question' = Question
    BY DEF Question
  <2> QED
    BY <1>3, <2>1, <2>2, <2>3, <2>4, <2>5 DEF CalledFor
<1>6. OverruledOnce'
  <2>1. Overrulings' = Overrulings /\ Overrulings \in {0, 1}
    BY <1>1 DEF Overrulings
  <2>2. OverruledOnce
    BY <1>1 DEF RoundsInv
  <2>3. CASE AdaptiveRound
    <3>1. extra > 0 /\ extra' = extra - 1 /\ decision.kind = "stop"
      BY <2>3 DEF NextRound, AdaptiveRound
    <3>2. extra = Overrulings /\ Stops = {}
      BY <2>2, <3>1 DEF OverruledOnce
    <3>3. extra' = 0 /\ Overrulings = 1
      BY <2>1, <3>1, <3>2
    <3>4. Stops' = {n + 1} /\ n + 1 \in DOMAIN rounds'
      BY <1>2, <1>3, <3>1, <3>2, RecordedProperties DEF RoundsInv
    <3> QED
      BY <2>1, <3>3, <3>4 DEF OverruledOnce
  <2>4. CASE ~AdaptiveRound
    <3>1. extra' = extra /\ decision.kind # "stop"
      BY <2>4 DEF NextRound, RunsOn
    <3>2. Stops' = Stops
      BY <1>3, <3>1
    <3>3. DOMAIN rounds \subseteq DOMAIN rounds'
      BY <1>2, RecordedProperties DEF RoundsInv
    <3> QED
      BY <2>1, <2>2, <3>1, <3>2, <3>3 DEF OverruledOnce
  <2> QED
    BY <2>3, <2>4
<1>7. GradingTyped' /\ DecidedWithinRounds' /\ outcome' = "none"
  BY <1>1, <1>2 DEF RoundsInv, GradingTyped, DecidedWithinRounds
<1>8. Len(rounds') < MaxRounds /\ Len(rounds') <= MaxRounds
  BY <1>3, <1>4, AskAssumption
<1>9. Asking'
  BY <1>1 DEF Asking
<1> QED
  BY <1>1, <1>3, <1>5, <1>6, <1>7, <1>8, <1>9 DEF RoundsInv, Asking

\* The last round was decided to stop, or its decision failed.
LEMMA FinishFollows ==
    ASSUME RoundsInv, Finish
    PROVE  RoundsInv'
<1> DEFINE n == Len(rounds)
<1>1. Asking /\ pc = "grade" /\ request' = request /\ pc' = "done" /\ outcome' = "answer"
  BY DEF Finish, AskAt, Asking, RecordVars, Return
<1>2. rounds' = Recorded /\ grading' = grading
  BY DEF Finish, RecordVars
<1>3. /\ RoundsTyped' /\ Len(rounds') = n + 1 /\ n \in Nat /\ Chained'
      /\ Len(rounds') <= MaxRounds
      /\ Stops' = IF decision.kind = "stop" THEN Stops \cup {n + 1} ELSE Stops
  BY <1>1, <1>2, RecordingChains
<1>4. /\ rounds'[n + 1].kind = decision.kind
      /\ rounds'[n + 1].relevance = grading.best
      /\ DOMAIN rounds = 1..n
  BY <1>2, RecordedProperties DEF RoundsInv
<1>5. OverruledOnce /\ DecidedWithinRounds /\ GradingTyped
  BY <1>1 DEF RoundsInv
<1>6. n + 1 \notin DOMAIN rounds
  BY <1>3, <1>4
<1>7. Stops \subseteq DOMAIN rounds
  BY DEF Stops
<1>8. Stops' \ {n + 1} = Stops
  BY <1>3, <1>6, <1>7
<1>9. Cardinality(Stops' \ {n + 1}) <= Overrulings
  <2>1. CASE Stops = {}
    <3>1. Cardinality(Stops' \ {n + 1}) = 0
      BY <1>8, <2>1, FS_EmptySet
    <3> QED
      BY <3>1 DEF Overrulings
  <2>2. CASE Overrulings = 1 /\ \E i \in DOMAIN rounds : Stops = {i}
    <3>1. Cardinality(Stops' \ {n + 1}) = 1
      BY <1>8, <2>2, FS_Singleton
    <3>2. Overrulings = 1
      BY <2>2
    <3> QED
      BY ONLY <3>1, <3>2
  <2> QED
    BY <1>5, <2>1, <2>2 DEF OverruledOnce
<1>10. decision.kind \in {"stop", "failed"}
  <2>1. CASE Index < MaxRounds
    BY <1>1, <1>5, <2>1 DEF Finish, RunsOn, DecidedWithinRounds, Kinds
  <2>2. CASE ~(Index < MaxRounds)
    <3>1. Index >= MaxRounds
      BY <1>3, <2>2, AskAssumption DEF Index
    <3> QED
      BY <1>1, <1>5, <3>1 DEF DecidedWithinRounds
  <2> QED
    BY <2>1, <2>2
<1>11. ASSUME request.adaptive, request.grading, n + 1 < MaxRounds
       PROVE  grading.best >= High \/ decision.kind = "failed" \/ Stops' # {n + 1}
  <2> SUFFICES ASSUME ~(grading.best >= High), decision.kind = "stop"
               PROVE  Stops' # {n + 1}
    BY <1>10
  <2>1. grading.best < High
    BY <1>5 DEF GradingTyped, Grades, Neutral, High
  <2>2. ~(extra > 0)
    BY <1>11, <2>1 DEF Finish, RunsOn, AdaptiveRound, Index
  <2>3. Overrulings = 1
    BY <1>11 DEF Overrulings
  <2>4. \E i \in DOMAIN rounds : Stops = {i}
    BY <1>5, <2>2, <2>3 DEF OverruledOnce
  <2> QED
    BY <1>3, <1>6, <2>4
<1>12. RoundsFollowDecisions'
  <2>1. Overrulings' = Overrulings /\ High' = High
    BY <1>1 DEF Overrulings, High
  <2>2. (Cardinality(Stops \ {Len(rounds)}) <= Overrulings)'
    BY <1>3, <1>9, <2>1
  <2>3. /\ rounds'[Len(rounds')].kind \in {"stop", "failed"}
        /\ request'.adaptive /\ request'.grading /\ Len(rounds') < MaxRounds =>
                \/ rounds'[Len(rounds')].relevance >= High'
                \/ rounds'[Len(rounds')].kind = "failed"
                \/ Stops' # {Len(rounds')}
    BY <1>1, <1>3, <1>4, <1>10, <1>11, <2>1
  <2> QED
    BY <1>3, <2>2, <2>3 DEF RoundsFollowDecisions, Chained, Overrulings
<1>13. GradingTyped' /\ ~Asking'
  BY <1>1, <1>2, <1>5 DEF GradingTyped, Asking
<1> QED
  BY <1>1, <1>3, <1>12, <1>13 DEF RoundsInv, Asking

\* The steps of Ask that record no round.
LEMMA RetrievingFollows ==
    ASSUME RoundsInv, Retrieve \/ RetrieveFails
    PROVE  RoundsInv'
<1>1. CASE Retrieve
  <2>1. UNCHANGED <<request, rounds, query, extra>> /\ Asking
    BY <1>1 DEF Retrieve, loopVars, AskAt, Asking
  <2>2. GradingTyped' /\ pc' # "done" /\ pc' # "grade" /\ outcome' = outcome
    BY <1>1 DEF Retrieve, Goto, Ungraded, GradingTyped, Grades
  <2> QED
    BY <2>1, <2>2, NothingRecorded DEF DecidedWithinRounds
<1>2. CASE RetrieveFails
  <2>1. UNCHANGED <<request, rounds, query, extra, grading>> /\ Asking
    BY <1>2 DEF RetrieveFails, askVars, loopVars, roundVars, AskAt, Asking
  <2>2. pc' = "done" /\ outcome' \in Failures
    BY <1>2 DEF RetrieveFails, Return, Failures
  <2> QED
    BY <2>1, <2>2, NothingRecorded DEF RoundsInv, GradingTyped
<1> QED
  BY <1>1, <1>2

LEMMA PlanningFollows ==
    ASSUME MapInv, WithinTokens, RoundsInv, PreGrade \/ Plan \/ Union
    PROVE  RoundsInv'
<1>1. CASE PreGrade
  <2>1. /\ UNCHANGED <<request, rounds, query, extra>> /\ Asking
        /\ pc' = "pregrade" /\ outcome' = outcome
    BY <1>1 DEF PreGrade, loopVars, AskAt, Asking
  <2>2. PICK g \in Gradings(used) :
            grading' = [grading EXCEPT !.todo = @ - 1, !.best = IF g[2] > @ THEN g[2] ELSE @]
    BY <1>1 DEF PreGrade
  <2>3. g[2] \in Grades
    BY GradingsProperties DEF MapInv, MapTyped, WithinTokens
  <2>4. GradingTyped'
    BY <2>2, <2>3 DEF RoundsInv, GradingTyped
  <2> QED
    BY <2>1, <2>4, NothingRecorded DEF DecidedWithinRounds
<1>2. CASE Plan
  <2>1. UNCHANGED <<request, rounds, query, extra>> /\ Asking
    BY <1>2 DEF Plan, loopVars, AskAt, Asking
  <2>2. GradingTyped' /\ pc' # "done" /\ pc' # "grade" /\ outcome' = outcome
    BY <1>2 DEF Plan, Goto, Ungraded, GradingTyped, Grades
  <2> QED
    BY <2>1, <2>2, NothingRecorded DEF DecidedWithinRounds
<1>3. CASE Union
  <2>1. UNCHANGED <<request, rounds, query, extra, grading>> /\ Asking
    BY <1>3 DEF Union, loopVars, AskAt, Asking
  <2>2. pc' # "done" /\ pc' # "grade" /\ outcome' = outcome
    BY <1>3 DEF Union, Goto
  <2> QED
    BY <2>1, <2>2, NothingRecorded DEF RoundsInv, GradingTyped, DecidedWithinRounds
<1> QED
  BY <1>1, <1>2, <1>3

LEMMA FetchingFollows ==
    ASSUME RoundsInv, NEW i \in DOMAIN followups, StartFollowup(i) \/ EndFollowup(i)
    PROVE  RoundsInv'
<1>1. /\ UNCHANGED <<request, rounds, query, extra, grading, outcome>> /\ Asking
      /\ pc' = "followups"
  BY DEF StartFollowup, EndFollowup, loopVars, answeringVars, AskAt, Asking
<1> QED
  BY <1>1, NothingRecorded DEF RoundsInv, GradingTyped, DecidedWithinRounds

LEMMA DraftingFollows ==
    ASSUME RoundsInv, Draft \/ DraftFails
    PROVE  RoundsInv'
<1>1. UNCHANGED <<request, rounds, query, extra, grading>> /\ Asking
  BY DEF Draft, DraftFails, askVars, loopVars, roundVars, AskAt, Asking
<1>2. \/ pc' # "done" /\ pc' # "grade" /\ outcome' = outcome
      \/ pc' = "done" /\ (outcome' \in Failures \/ request.mode = "off")
  BY DEF Draft, DraftFails, Goto, Return, Failures
<1> QED
  BY <1>1, <1>2, NothingRecorded DEF RoundsInv, GradingTyped, DecidedWithinRounds

\* A decision that is clamped at MaxRounds is recorded or leads on.
LEMMA DecisionFollows ==
    ASSUME RoundsInv, UNCHANGED <<request, rounds, query, extra>>, Asking,
           NEW kind \in Kinds, NEW next, Decide(kind, next),
           kind = "rewrite" => next # query,
           Index >= MaxRounds => kind \in {"stop", "failed"}
    PROVE  RoundsInv'
<1>1. decision'.kind = kind /\ decision'.next = next /\ pc' = "grade" /\ outcome' = outcome
  BY DEF Decide, Goto
<1>2. GradingTyped'
  BY DEF Decide, Ungraded, GradingTyped, Grades
<1>3. DecidedWithinRounds'
  BY <1>1 DEF DecidedWithinRounds, Index, Kinds
<1> QED
  BY <1>1, <1>2, <1>3, NothingRecorded

LEMMA DecidingFollows ==
    ASSUME RoundsInv,
           DecideByRule \/ StopForUnchangedEvidence \/ DecideByModel \/ DecisionFails
    PROVE  RoundsInv'
<1>1. UNCHANGED <<request, rounds, query, extra>> /\ Asking
  BY DEF DecideByRule, StopForUnchangedEvidence, DecideByModel, DecisionFails,
         DecidedVars, loopVars, AskAt, Asking
<1>2. ASSUME grading' = grading,
             \/ pc' # "done" /\ pc' # "grade" /\ outcome' = outcome
             \/ pc' = "done" /\ outcome' \in Failures
      PROVE  RoundsInv'
  BY <1>1, <1>2, NothingRecorded DEF RoundsInv, GradingTyped, DecidedWithinRounds
<1>3. CASE DecideByRule
  <2>1. CASE Decide("stop", Question)
    BY <1>1, <2>1, DecisionFollows DEF Kinds
  <2>2. CASE Decide("continue", Question) /\ ~(Index >= MaxRounds)
    BY <1>1, <2>2, DecisionFollows DEF Kinds
  <2>3. CASE Goto("evidence") /\ UNCHANGED <<decision, grading>>
    BY <1>2, <2>3 DEF Goto
  <2> QED
    BY <1>3, <2>1, <2>2, <2>3 DEF DecideByRule
<1>4. CASE StopForUnchangedEvidence
  <2>1. CASE Decide("stop", Question)
    BY <1>1, <2>1, DecisionFollows DEF Kinds
  <2>2. CASE Goto("model") /\ UNCHANGED <<decision, grading>>
    BY <1>2, <2>2 DEF Goto
  <2> QED
    BY <1>4, <2>1, <2>2 DEF StopForUnchangedEvidence
<1>5. CASE DecideByModel
  <2>1. ASSUME NEW kind \in {"stop", "continue"}, Decide(ClampAtMaxRounds(kind), Question)
        PROVE  RoundsInv'
    BY <1>1, <2>1, DecisionFollows DEF Kinds, ClampAtMaxRounds
  <2>2. ASSUME NEW next \in Rewrites,
               Decide(ClampAtMaxRounds(IF next = query THEN "stop" ELSE "rewrite"), next)
        PROVE  RoundsInv'
    BY <1>1, <2>2, DecisionFollows DEF Kinds, ClampAtMaxRounds
  <2> QED
    BY <1>5, <2>1, <2>2 DEF DecideByModel
<1>6. CASE DecisionFails
  <2>1. CASE Decide("failed", Question)
    BY <1>1, <2>1, DecisionFollows DEF Kinds
  <2>2. CASE pc' = "done" /\ outcome' \in {"over", "error"} /\ UNCHANGED <<decision, grading>>
    BY <1>2, <2>2 DEF Failures
  <2> QED
    BY <1>6, <2>1, <2>2 DEF DecisionFails, Return
<1> QED
  BY <1>3, <1>4, <1>5, <1>6

LEMMA GradingFollows ==
    ASSUME MapInv, WithinTokens, RoundsInv, GradeHit
    PROVE  RoundsInv'
<1>1. /\ UNCHANGED <<request, rounds, query, extra, decision, pc, outcome>> /\ Asking
      /\ pc = "grade"
  BY DEF GradeHit, loopVars, AskAt, Asking
<1>2. PICK relevance \in Gradings(used) : \E support \in Gradings(relevance[1]) :
          grading' = [todo |-> grading.todo - 1,
                      best |-> IF relevance[2] > grading.best THEN relevance[2] ELSE grading.best,
                      sum  |-> grading.sum + relevance[2] + support[2]]
  BY DEF GradeHit
<1>3. relevance[2] \in Grades
  BY GradingsProperties DEF MapInv, MapTyped, WithinTokens
<1>4. GradingTyped'
  BY <1>2, <1>3 DEF RoundsInv, GradingTyped
<1>5. DecidedWithinRounds'
  BY <1>1 DEF RoundsInv, DecidedWithinRounds, Index
<1> QED
  BY <1>1, <1>4, <1>5, NothingRecorded

\* On the other paths no round is ever recorded.
LEMMA OtherPathsFollow ==
    ASSUME RoundsInv, request.path # "ask", UNCHANGED <<request, askVars>>
    PROVE  RoundsInv'
<1>1. RoundsFollowDecisions /\ ~Reflected
  BY DEF RoundsInv, Asking, Reflected
<1>2. RoundsFollowDecisions'
  BY <1>1 DEF RoundsFollowDecisions, Stops, Answered, Reflected, askVars, loopVars
<1> QED
  BY <1>2 DEF RoundsInv, RoundsTyped, GradingTyped, Chained, Asking, askVars, loopVars, roundVars

LEMMA RoundsStep == MapInv /\ WithinTokens /\ RoundsInv /\ [Next]_vars => RoundsInv'
<1> SUFFICES ASSUME MapInv, WithinTokens, RoundsInv, [Next]_vars PROVE RoundsInv'
  OBVIOUS
<1>1. CASE UNCHANGED vars
  BY <1>1 DEF vars, answeringVars, askVars, loopVars, roundVars, RoundsInv, RoundsTyped,
              GradingTyped, Chained, Asking, CalledFor, OverruledOnce, Overrulings, Stops,
              DecidedWithinRounds, Index, RoundsFollowDecisions, Answered, Reflected
<1>2. CASE AskNext
  BY <1>2, RetrievingFollows, PlanningFollows, FetchingFollows, DraftingFollows,
     DecidingFollows, GradingFollows, NextRoundFollows, FinishFollows DEF AskNext
<1>3. CASE GlobalNext /\ UNCHANGED askVars
  <2>1. request' = request /\ request.path # "ask"
    BY <1>3 DEF GlobalNext, SelectReports, ReportsFail, MapReport, MapFails, Reduce, MapPath
  <2> QED
    BY <1>3, <2>1, OtherPathsFollow
<1>4. CASE DriftNext /\ UNCHANGED askVars
  <2>1. request' = request /\ request.path # "ask"
    BY <1>4 DEF DriftNext, Seed, LeaveLoop, Explore, ExploreFails, Lookup, Synthesize, DriftAt
  <2> QED
    BY <1>4, <2>1, OtherPathsFollow
<1> QED
  BY <1>1, <1>2, <1>3, <1>4 DEF Next

-----------------------------------------------------------------------------
\* The budgets are kept.

LEMMA BudgetStart == Init => BudgetInv
<1> SUFFICES ASSUME Init PROVE BudgetInv
  OBVIOUS
<1>1. /\ request \in Requests /\ rounds = <<>> /\ followups = <<>> /\ used = 0
      /\ pc = "start" /\ outcome = "none" /\ spent = 0
      /\ remaining = IF ActiveEnabled THEN PerAsk ELSE 0
  BY DEF Init, AnsweringInit, AskInit
<1>2. DOMAIN rounds = {} /\ Len(rounds) = 0 /\ Len(followups) = 0
  BY <1>1
<1>3. CapIsShared
  BY <1>1, AskAssumption DEF CapIsShared
<1>4. FollowupsCapped
  BY <1>1, <1>2, EmptySeq, AskAssumption DEF FollowupsCapped
<1>5. SpendingAddsUp
  <2> DEFINE planned == [i \in 0..0 |-> 0]
  <2>1. planned \in [0..Len(rounds) -> 0..spent] /\ planned[0] = 0
    BY <1>1, <1>2
  <2>2. PlannedUpTo(planned) /\ Charged = 0
    BY <1>1, <1>2, <2>1 DEF PlannedUpTo, Charged
  <2> QED
    BY <1>1, <1>2, <2>1, <2>2 DEF SpendingAddsUp
<1>6. WithinTokens
  BY <1>1, <1>2, NothingIsWithin DEF WithinTokens, Answered
<1> QED
  BY <1>1, <1>3, <1>4, <1>5, <1>6 DEF BudgetInv

LEMMA ChargedIsNat ==
    ASSUME FollowupsCapped
    PROVE  Charged \in Nat /\ Len(followups) \in Nat
<1>1. Len(followups) \in Nat
  BY LenProperties DEF FollowupsCapped
<1> QED
  BY <1>1 DEF Charged

\* Follow-ups are charged as they are spent.
LEMMA SpendingGoesOn ==
    ASSUME SpendingAddsUp, RoundsTyped, UNCHANGED <<request, rounds>>,
           spent \in Nat, spent' \in Nat, spent <= spent',
           Charged \in Nat, Charged' \in Nat,
           (Asking \/ (Answered /\ Reflected))' => Asking /\ spent' - Charged' = spent - Charged
    PROVE  SpendingAddsUp'
<1>1. PICK planned \in [0..Len(rounds) -> 0..spent] :
        /\ PlannedUpTo(planned)
        /\ Asking \/ (Answered /\ Reflected) => planned[Len(rounds)] + Charged = spent
  BY DEF SpendingAddsUp
<1>2. Len(rounds) \in Nat
  BY LenProperties DEF RoundsTyped
<1>3. 0..spent \subseteq 0..spent'
  OBVIOUS
<1>4. planned \in [0..Len(rounds') -> 0..spent'] /\ PlannedUpTo(planned)'
  BY <1>1, <1>3 DEF PlannedUpTo
<1>5. ASSUME (Asking \/ (Answered /\ Reflected))'
      PROVE  planned[Len(rounds')] + Charged' = spent'
  <2>1. planned[Len(rounds)] \in Int
    BY <1>1, <1>2
  <2>2. planned[Len(rounds)] + Charged = spent /\ spent' - Charged' = spent - Charged
    BY <1>1, <1>5
  <2>3. spent \in Int /\ spent' \in Int /\ Charged \in Int /\ Charged' \in Int
    OBVIOUS
  <2>4. planned[Len(rounds)] + Charged' = spent'
    BY ONLY <2>1, <2>2, <2>3
  <2> QED
    BY <2>4
<1> QED
  BY <1>4, <1>5 DEF SpendingAddsUp

\* The charged follow-ups become those of the round that is recorded.
LEMMA SpendingIsRecorded ==
    ASSUME RoundsTyped, FollowupsCapped, CapIsShared, SpendingAddsUp, Asking, pc = "grade",
           rounds' = Recorded, UNCHANGED <<request, spent>>, pc' \in {"start", "done"}
    PROVE  SpendingAddsUp'
<1> DEFINE n == Len(rounds)
<1>1. PICK planned \in [0..n -> 0..spent] :
        PlannedUpTo(planned) /\ planned[n] + Len(followups) = spent
  BY DEF SpendingAddsUp, Charged
<1>2. /\ n \in Nat /\ DOMAIN rounds = 1..n
      /\ Len(rounds') = n + 1 /\ DOMAIN rounds' = 1..(n + 1)
      /\ \A i \in 1..n : rounds'[i] = rounds[i]
      /\ rounds'[n + 1].planned = Len(followups)
  BY RecordedProperties
<1>3. spent \in Nat /\ Len(followups) \in Nat
  BY ChargedIsNat DEF CapIsShared
<1> HIDE DEF n
<1>4. PICK total \in [0..(n + 1) -> 0..spent] :
        /\ total[n + 1] = spent
        /\ \A i \in 0..n : total[i] = planned[i]
  <2> DEFINE t == [i \in 0..(n + 1) |-> IF i = n + 1 THEN spent ELSE planned[i]]
  <2>1. n + 1 \in 0..(n + 1) /\ \A i \in 0..n : i \in 0..(n + 1) /\ i # n + 1
    BY <1>2
  <2>2. \A i \in 0..(n + 1) : i = n + 1 \/ i \in 0..n
    BY <1>2
  <2>3. t \in [0..(n + 1) -> 0..spent]
    BY <1>1, <1>3, <2>2
  <2>4. t[n + 1] = spent /\ \A i \in 0..n : t[i] = planned[i]
    BY <2>1
  <2> QED
    BY <2>3, <2>4
<1>5. PlannedUpTo(total)'
  <2>1. total[0] = 0
    BY <1>1, <1>2, <1>4 DEF PlannedUpTo
  <2>2. ASSUME NEW i \in 1..n
        PROVE  total[i] = total[i - 1] + rounds'[i].planned
    <3>1. i \in 0..n /\ i - 1 \in 0..n
      BY <1>2
    <3>2. planned[i] = planned[i - 1] + rounds[i].planned
      BY <1>1, <1>2 DEF PlannedUpTo
    <3> QED
      BY <1>2, <1>4, <3>1, <3>2
  <2>3. total[n + 1] = total[n] + rounds'[n + 1].planned
    <3>1. n \in 0..n
      BY <1>2
    <3> QED
      BY <1>1, <1>2, <1>4, <3>1
  <2>4. \A i \in 1..(n + 1) : i \in 1..n \/ (i = n + 1 /\ i - 1 = n)
    BY <1>2
  <2>5. \A i \in 1..(n + 1) : total[i] = total[i - 1] + rounds'[i].planned
    BY <2>2, <2>3, <2>4
  <2> QED
    BY <1>2, <2>1, <2>5 DEF PlannedUpTo
<1>6. Charged' = 0
  BY DEF Charged
<1>7. total[Len(rounds')] + Charged' = spent'
  BY <1>2, <1>3, <1>4, <1>6
<1>8. total \in [0..Len(rounds') -> 0..spent']
  BY <1>2, <1>4
<1> QED
  BY <1>5, <1>7, <1>8 DEF SpendingAddsUp

\* The least of three numbers.
LEMMA LeastOfThree ==
    ASSUME NEW a \in Int, NEW b \in Int, NEW c \in Int
    PROVE  LET m == Least({a, b, c})
           IN  m \in {a, b, c} /\ m <= a /\ m <= b /\ m <= c
<1>1. \E x \in {a, b, c} : \A y \in {a, b, c} : x <= y
  OBVIOUS
<1> QED
  BY <1>1 DEF Least

\* What an Ask's step does to the tokens when no round is recorded.
LEMMA TokensGoOn ==
    ASSUME WithinTokens, UNCHANGED <<request, rounds>>, Asking, request \in Requests,
           used' \in Nat,
           pc' \in {"rule", "evidence", "model", "grade"} =>
                request.mode # "off" /\ ~Over(prompt'.cost),
           outcome' = "answer" => Reflected \/ ~Over(used'),
           outcome' = "over" => Over(used')
    PROVE  WithinTokens'
  BY DEF WithinTokens, Asking, MapPath, Answered, Reflected, Over

\* An Ask's step without a call or with one that succeeds, after which the path
\* goes on and no follow-up is planned, charged or recorded.
LEMMA BudgetGoesOn ==
    ASSUME BudgetInv, RoundsTyped, request \in Requests, Asking, used' \in Nat,
           UNCHANGED <<request, rounds, remaining, spent, followups>>, Charged' = Charged,
           pc' \notin {"done", "pregrade", "followups"}, outcome' = outcome,
           pc' \in {"rule", "evidence", "model", "grade"} =>
                request.mode # "off" /\ ~Over(prompt'.cost)
    PROVE  BudgetInv'
<1>1. outcome = "none"
  BY DEF BudgetInv, Asking
<1>2. CapIsShared' /\ FollowupsCapped'
  BY DEF BudgetInv, CapIsShared, FollowupsCapped, ActiveEnabled
<1>3. SpendingAddsUp'
  BY <1>2, ChargedIsNat, SpendingGoesOn DEF BudgetInv, CapIsShared
<1>4. WithinTokens'
  BY <1>1, TokensGoOn DEF BudgetInv
<1> QED
  BY <1>1, <1>2, <1>3, <1>4 DEF BudgetInv

\* An Ask's step that returns without recording a round.
LEMMA BudgetAtReturn ==
    ASSUME BudgetInv, RoundsTyped, request \in Requests, Asking, used' \in Nat,
           UNCHANGED <<request, rounds, remaining, spent, followups>>,
           pc' = "done", outcome' \in {"error", "over"} \/ request.mode = "off",
           outcome' = "answer" => ~Over(used'),
           outcome' = "over" => Over(used')
    PROVE  BudgetInv'
<1>1. CapIsShared' /\ FollowupsCapped'
  BY DEF BudgetInv, CapIsShared, FollowupsCapped, ActiveEnabled
<1>2. ~(Asking \/ (Answered /\ Reflected))'
  BY DEF Asking, Answered, Reflected
<1>3. SpendingAddsUp'
  <2>1. Charged \in Nat /\ spent \in Nat
    BY ChargedIsNat DEF BudgetInv, CapIsShared
  <2>2. Charged' = 0
    BY DEF Charged
  <2>3. Charged' \in Nat /\ spent' \in Nat /\ spent <= spent'
    BY <2>1, <2>2
  <2> QED
    BY <1>2, <2>1, <2>3, SpendingGoesOn DEF BudgetInv
<1>4. WithinTokens'
  BY TokensGoOn DEF BudgetInv
<1> QED
  BY <1>1, <1>3, <1>4 DEF BudgetInv

\* A call that fails returns its failure.
LEMMA FailingKeepsBudget ==
    ASSUME BudgetInv, RoundsTyped, request \in Requests, Asking,
           UNCHANGED <<request, askVars>>,
           NEW failure \in Failures, Call(failure), Return(failure)
    PROVE  BudgetInv'
<1>1. used' \in Nat /\ (failure = "over" => Over(used'))
  BY CallProperties DEF BudgetInv, WithinTokens
<1>2. UNCHANGED <<rounds, remaining, spent, followups>>
  BY DEF askVars, loopVars, roundVars, followVars
<1> QED
  BY <1>1, <1>2, BudgetAtReturn DEF Failures, Return

LEMMA RetrievingKeepsBudget ==
    ASSUME BudgetInv, RoundsTyped, request \in Requests, Retrieve \/ RetrieveFails
    PROVE  BudgetInv'
<1>1. Asking /\ request' = request /\ pc = "start"
  BY DEF Retrieve, RetrieveFails, AskAt, Asking
<1>2. ASSUME IF request.expand THEN Call("ok") ELSE UNCHANGED used
      PROVE  used' \in Nat
  BY <1>1, <1>2, CallProperties DEF BudgetInv, WithinTokens
<1>3. CASE Retrieve
  <2>1. /\ UNCHANGED <<rounds, remaining, spent>> /\ followups' = <<>> /\ used' \in Nat
        /\ outcome' = outcome
        /\ IF remaining > 0 THEN pc' = "pregrade" ELSE pc' = "draft"
    BY <1>2, <1>3 DEF Retrieve, Goto, loopVars, followVars
  <2>2. CapIsShared'
    BY <1>1, <2>1 DEF BudgetInv, CapIsShared, ActiveEnabled
  <2>3. Len(followups') = 0 /\ FollowupsCapped'
    BY <2>1, EmptySeq, AskAssumption DEF FollowupsCapped
  <2>4. Charged = 0 /\ Charged' = 0
    BY <1>1, <2>1, <2>3 DEF Charged
  <2>5. SpendingAddsUp'
    BY <1>1, <2>1, <2>4, SpendingGoesOn DEF BudgetInv, CapIsShared
  <2>6. outcome = "none"
    BY <1>1 DEF BudgetInv
  <2>7. WithinTokens'
    BY <1>1, <2>1, <2>6, TokensGoOn DEF BudgetInv
  <2> QED
    BY <2>1, <2>2, <2>3, <2>5, <2>6, <2>7 DEF BudgetInv
<1>4. CASE RetrieveFails
  <2>1. UNCHANGED askVars
    BY <1>4 DEF RetrieveFails
  <2>2. CASE \E failure \in Failures : Call(failure) /\ Return(failure)
    BY <1>1, <2>1, <2>2, FailingKeepsBudget
  <2>3. CASE (IF request.expand THEN Call("ok") ELSE UNCHANGED used) /\ Return("error")
    BY <1>1, <1>2, <2>1, <2>3, BudgetAtReturn DEF Return, askVars, loopVars, roundVars, followVars
  <2> QED
    BY <1>4, <2>2, <2>3 DEF RetrieveFails
<1> QED
  BY <1>3, <1>4

LEMMA PreGradingKeepsBudget ==
    ASSUME BudgetInv, RoundsTyped, request \in Requests, PreGrade
    PROVE  BudgetInv'
<1>1. /\ Asking /\ UNCHANGED <<request, pc, outcome, rounds, remaining, spent, followups>>
      /\ pc = "pregrade"
  BY DEF PreGrade, AskAt, Asking, loopVars, followVars
<1>2. used' \in Nat
  BY GradingsProperties DEF PreGrade, BudgetInv, WithinTokens
<1>3. CapIsShared' /\ FollowupsCapped' /\ Charged = 0 /\ Charged' = 0
  BY <1>1 DEF BudgetInv, CapIsShared, FollowupsCapped, ActiveEnabled, Charged
<1>4. SpendingAddsUp'
  BY <1>1, <1>3, SpendingGoesOn DEF BudgetInv, CapIsShared
<1>5. outcome = "none"
  BY <1>1 DEF BudgetInv
<1>6. WithinTokens'
  BY <1>1, <1>2, <1>5, TokensGoOn DEF BudgetInv
<1> QED
  BY <1>1, <1>3, <1>4, <1>5, <1>6 DEF BudgetInv

\* What a planner's reply is cut to.
LEMMA CappedProperties ==
    ASSUME remaining \in Nat, remaining > 0, NEW n \in 0..PlannerMax
    PROVE  Capped(n) \in Nat /\ Capped(n) <= PerRound /\ Capped(n) <= remaining
<1>1. n \in Nat /\ PerRound \in Nat
  BY AskAssumption
<1>2. n \in Int /\ PerRound \in Int /\ remaining \in Int
  BY <1>1
<1> DEFINE m == Least({n, PerRound, remaining})
<1>3. m \in {n, PerRound, remaining} /\ m <= PerRound /\ m <= remaining
  BY <1>2, LeastOfThree
<1> QED
  BY <1>1, <1>3 DEF Capped

LEMMA PlanningKeepsBudget ==
    ASSUME BudgetInv, RoundsTyped, request \in Requests, Plan
    PROVE  BudgetInv'
<1>1. /\ Asking /\ UNCHANGED <<request, rounds, remaining, spent, outcome>>
      /\ pc = "pregrade" /\ pc' \in {"draft", "followups"}
  BY DEF Plan, AskAt, Asking, Goto, loopVars, followVars
<1>2. outcome = "none" /\ followups = <<>> /\ remaining \in Nat /\ remaining > 0
  BY <1>1 DEF BudgetInv, FollowupsCapped, CapIsShared, Asking
<1>3. used' \in Nat
  BY <1>1, CallProperties DEF Plan, BudgetInv, WithinTokens
<1>4. CapIsShared'
  BY <1>1 DEF BudgetInv, CapIsShared, ActiveEnabled
<1>5. WithinTokens'
  BY <1>1, <1>2, <1>3, TokensGoOn DEF BudgetInv
<1>6. FollowupsCapped' /\ (pc' = "draft" => Len(followups') = 0)
  <2>1. CASE UNCHANGED followups /\ pc' = "draft"
    <3>1. Len(followups') = 0
      BY <1>2, <2>1
    <3> QED
      BY <1>2, <2>1, <3>1, EmptySeq, AskAssumption DEF FollowupsCapped
  <2>2. ASSUME NEW n \in 0..PlannerMax,
               followups' = [i \in 1..Capped(n) |-> "waiting"],
               pc' = IF Capped(n) = 0 THEN "draft" ELSE "followups"
        PROVE  FollowupsCapped' /\ (pc' = "draft" => Len(followups') = 0)
    <3>1. Capped(n) \in Nat /\ Capped(n) <= PerRound /\ Capped(n) <= remaining
      BY <1>2, CappedProperties
    <3>2. followups' \in Seq(FollowupStates) /\ Len(followups') = Capped(n)
      BY <2>2, <3>1, IsASeq, LenProperties DEF FollowupStates
    <3> QED
      BY <1>1, <2>2, <3>1, <3>2 DEF FollowupsCapped
  <2> QED
    BY <2>1, <2>2 DEF Plan, Goto
<1>7. Charged = 0 /\ Charged' = 0
  BY <1>1, <1>6 DEF Charged
<1>8. SpendingAddsUp'
  BY <1>1, <1>7, SpendingGoesOn DEF BudgetInv, CapIsShared
<1> QED
  BY <1>1, <1>2, <1>4, <1>5, <1>6, <1>8 DEF BudgetInv

LEMMA FetchingKeepsBudget ==
    ASSUME BudgetInv, RoundsTyped, request \in Requests,
           NEW i \in DOMAIN followups, StartFollowup(i) \/ EndFollowup(i)
    PROVE  BudgetInv'
<1>1. /\ Asking /\ UNCHANGED <<request, pc, outcome, rounds, remaining, spent>>
      /\ pc = "followups"
  BY DEF StartFollowup, EndFollowup, AskAt, Asking, loopVars, followVars, answeringVars
<1>2. outcome = "none" /\ used \in Nat /\ followups \in Seq(FollowupStates)
  BY <1>1 DEF BudgetInv, FollowupsCapped, WithinTokens
<1>3. used' \in Nat
  BY <1>2, AppendedIsNat DEF StartFollowup, EndFollowup, answeringVars
<1>4. PICK s \in FollowupStates : followups' = [followups EXCEPT ![i] = s]
  BY DEF StartFollowup, EndFollowup, FollowupStates
<1>5. i \in 1..Len(followups)
  BY <1>2, LenProperties
<1>6. followups' \in Seq(FollowupStates) /\ Len(followups') = Len(followups)
  BY <1>2, <1>4, <1>5, ExceptSeq
<1>7. CapIsShared' /\ FollowupsCapped' /\ Charged = 0 /\ Charged' = 0
  BY <1>1, <1>6 DEF BudgetInv, CapIsShared, FollowupsCapped, ActiveEnabled, Charged
<1>8. SpendingAddsUp'
  BY <1>1, <1>7, SpendingGoesOn DEF BudgetInv, CapIsShared
<1>9. WithinTokens'
  BY <1>1, <1>2, <1>3, TokensGoOn DEF BudgetInv
<1> QED
  BY <1>1, <1>2, <1>7, <1>8, <1>9 DEF BudgetInv

\* Every planned follow-up is charged.
LEMMA UnionKeepsBudget ==
    ASSUME BudgetInv, RoundsTyped, request \in Requests, Union
    PROVE  BudgetInv'
<1>1. /\ Asking /\ UNCHANGED <<request, outcome, rounds, used, followups>>
      /\ pc = "followups" /\ pc' = "draft"
      /\ remaining' = remaining - Len(followups) /\ spent' = spent + Len(followups)
  BY DEF Union, AskAt, Asking, Goto, loopVars
<1>2. /\ outcome = "none" /\ spent \in Nat /\ remaining \in Nat /\ Len(followups) \in Nat
      /\ Len(followups) <= remaining
  BY <1>1, ChargedIsNat DEF BudgetInv, CapIsShared, FollowupsCapped, Asking
<1>3. spent' \in Nat /\ remaining' \in Nat /\ spent <= spent'
  BY <1>1, <1>2
<1>4. CapIsShared'
  <2>1. spent' + remaining' = spent + remaining
    BY <1>1, <1>2
  <2>2. ~ActiveEnabled => spent' = 0 /\ remaining' = 0
    BY <1>1, <1>2 DEF BudgetInv, CapIsShared
  <2> QED
    BY <1>1, <1>3, <2>1, <2>2 DEF BudgetInv, CapIsShared, ActiveEnabled
<1>5. FollowupsCapped'
  BY <1>1 DEF BudgetInv, FollowupsCapped
<1>6. Charged = 0 /\ Charged' = Len(followups)
  BY <1>1 DEF Charged
<1>7. spent' - Charged' = spent - Charged
  BY <1>1, <1>2, <1>6
<1>8. SpendingAddsUp'
  BY <1>1, <1>2, <1>3, <1>6, <1>7, SpendingGoesOn DEF BudgetInv
<1>9. WithinTokens'
  BY <1>1, <1>2, TokensGoOn DEF BudgetInv, WithinTokens
<1> QED
  BY <1>1, <1>2, <1>4, <1>5, <1>8, <1>9 DEF BudgetInv

LEMMA DraftingKeepsBudget ==
    ASSUME BudgetInv, RoundsTyped, request \in Requests, Draft \/ DraftFails
    PROVE  BudgetInv'
<1>1. Asking /\ request' = request /\ pc = "draft"
  BY DEF Draft, DraftFails, AskAt, Asking
<1>2. CASE Draft
  <2>1. UNCHANGED <<rounds, remaining, spent, followups>> /\ prompt'.cost = used'
    BY <1>2 DEF Draft, loopVars, followVars
  <2>2. used' \in Nat /\ ~Over(used')
    BY <1>1, <1>2, CallProperties DEF Draft, BudgetInv, WithinTokens
  <2>3. CASE pc' = "done"
    BY <1>1, <1>2, <2>1, <2>2, <2>3, BudgetAtReturn DEF Draft, Return, Goto
  <2>4. CASE pc' # "done"
    <3>1. pc' \in {"evidence", "rule"} /\ outcome' = outcome /\ request.mode # "off"
      BY <1>2, <2>4 DEF Draft, Return, Goto
    <3>2. Charged' = Charged
      BY <1>1, <2>1, <3>1 DEF Charged
    <3> QED
      BY <1>1, <2>1, <2>2, <3>1, <3>2, BudgetGoesOn
  <2> QED
    BY <2>3, <2>4
<1>3. CASE DraftFails
  BY <1>1, <1>3, FailingKeepsBudget DEF DraftFails
<1> QED
  BY <1>2, <1>3

LEMMA DecidingKeepsBudget ==
    ASSUME BudgetInv, RoundsTyped, request \in Requests,
           DecideByRule \/ StopForUnchangedEvidence \/ DecideByModel \/ DecisionFails
    PROVE  BudgetInv'
<1>1. /\ Asking /\ pc \in {"rule", "evidence", "model"}
      /\ UNCHANGED <<request, rounds, remaining, spent, followups, prompt>>
  BY DEF DecideByRule, StopForUnchangedEvidence, DecideByModel, DecisionFails,
         DecidedVars, loopVars, followVars, AskAt, Asking
<1>2. request.mode # "off" /\ ~Over(prompt'.cost)
  BY <1>1 DEF BudgetInv, WithinTokens, Asking
<1>3. ASSUME used' \in Nat, pc' \in {"grade", "evidence", "model"}, outcome' = outcome
      PROVE  BudgetInv'
  <2>1. Charged' = Charged
    BY <1>1, <1>3 DEF Charged
  <2> QED
    BY <1>1, <1>2, <1>3, <2>1, BudgetGoesOn
<1>4. CASE DecideByRule \/ StopForUnchangedEvidence
  <2>1. used' \in Nat /\ pc' \in {"grade", "evidence", "model"} /\ outcome' = outcome
    BY <1>4 DEF DecideByRule, StopForUnchangedEvidence, Decide, Goto, DecidedVars,
                BudgetInv, WithinTokens
  <2> QED
    BY <1>3, <2>1
<1>5. CASE DecideByModel
  <2>1. used' \in Nat
    BY <1>1, <1>5, CallProperties DEF DecideByModel, BudgetInv, WithinTokens
  <2>2. pc' = "grade" /\ outcome' = outcome
    BY <1>5 DEF DecideByModel, Decide, Goto
  <2> QED
    BY <1>3, <2>1, <2>2
<1>6. CASE DecisionFails
  <2>1. PICK reply \in {"ok", "error", "over"} :
            /\ Call(reply)
            /\ IF request.failOpen
               THEN Decide("failed", Question)
               ELSE Return(IF reply = "over" THEN "over" ELSE "error")
    BY <1>6 DEF DecisionFails
  <2>2. used' \in Nat /\ (reply = "over" => Over(used'))
    BY <1>1, <2>1, CallProperties DEF BudgetInv, WithinTokens
  <2>3. CASE request.failOpen
    <3>1. pc' = "grade" /\ outcome' = outcome
      BY <2>1, <2>3 DEF Decide, Goto
    <3> QED
      BY <1>3, <2>2, <3>1
  <2>4. CASE ~request.failOpen
    <3>1. pc' = "done" /\ outcome' = IF reply = "over" THEN "over" ELSE "error"
      BY <2>1, <2>4 DEF Return
    <3> QED
      BY <1>1, <2>2, <3>1, BudgetAtReturn
  <2> QED
    BY <2>3, <2>4
<1> QED
  BY <1>4, <1>5, <1>6

LEMMA GradingKeepsBudget ==
    ASSUME BudgetInv, RoundsTyped, request \in Requests, GradeHit
    PROVE  BudgetInv'
<1>1. /\ Asking /\ pc = "grade"
      /\ UNCHANGED <<request, pc, outcome, rounds, remaining, spent, followups, prompt>>
  BY DEF GradeHit, AskAt, Asking, loopVars, followVars
<1>2. used' \in Nat
  BY GradingsProperties DEF GradeHit, BudgetInv, WithinTokens
<1>3. Charged' = Charged /\ request.mode # "off" /\ ~Over(prompt'.cost)
  BY <1>1 DEF Charged, BudgetInv, WithinTokens, Asking
<1> QED
  BY <1>1, <1>2, <1>3, BudgetGoesOn

LEMMA RecordingKeepsBudget ==
    ASSUME BudgetInv, RoundsTyped, request \in Requests, NextRound \/ Finish
    PROVE  BudgetInv'
<1> DEFINE n == Len(rounds)
<1>1. /\ Asking /\ pc = "grade" /\ rounds' = Recorded
      /\ UNCHANGED <<request, used, followups, remaining, spent>>
  BY DEF NextRound, Finish, AskAt, Asking, RecordVars, followVars
<1>2. /\ outcome = "none"
      /\ \/ pc' = "start" /\ outcome' = "none"
         \/ pc' = "done" /\ outcome' = "answer"
  BY <1>1 DEF NextRound, Finish, Goto, Return, BudgetInv
<1>3. CapIsShared' /\ FollowupsCapped'
  BY <1>1, <1>2 DEF BudgetInv, CapIsShared, FollowupsCapped, ActiveEnabled
<1>4. SpendingAddsUp'
  BY <1>1, <1>2, SpendingIsRecorded DEF BudgetInv
<1>5. WithinTokens'
  <2>1. /\ n \in Nat /\ DOMAIN rounds = 1..n /\ DOMAIN rounds' = 1..(n + 1)
        /\ \A i \in 1..n : rounds'[i] = rounds[i]
        /\ rounds'[n + 1].planned = Len(followups) /\ rounds'[n + 1].cost = prompt.cost
    BY <1>1, RecordedProperties
  <2>2. Len(followups) <= PerRound /\ ~Over(prompt.cost)
    BY <1>1 DEF BudgetInv, FollowupsCapped, WithinTokens, Asking
  <2>3. \A i \in 1..(n + 1) : i \in 1..n \/ i = n + 1
    BY <2>1
  <2>4. \A i \in DOMAIN rounds' : rounds'[i].planned <= PerRound /\ ~Over(rounds'[i].cost)
    BY <2>1, <2>2, <2>3 DEF BudgetInv, WithinTokens
  <2>5. request.path = "ask" /\ (Answered => Reflected)'
    <3>1. request.path = "ask"
      BY <1>1 DEF Asking
    <3>2. request.mode # "off"
      BY <1>1 DEF BudgetInv, WithinTokens, Asking
    <3> QED
      BY <1>1, <3>1, <3>2 DEF Reflected
  <2> QED
    BY <1>1, <1>2, <2>4, <2>5 DEF BudgetInv, WithinTokens, MapPath, Over, Answered
<1> QED
  BY <1>2, <1>3, <1>4, <1>5 DEF BudgetInv

\* A step of AskGlobal or AskDrift.
LEMMA MappingKeepsBudget ==
    ASSUME BudgetInv, request \in Requests, request.path # "ask", pc # "done",
           UNCHANGED <<request, askVars>>,
           \/ /\ used' = used \/ Call("ok")
              /\ \/ pc' # "done" /\ outcome' = outcome
                 \/ pc' = "done" /\ outcome' = "answer"
           \/ pc' = "done" /\ outcome' = "error" /\ used' = used
           \/ \E failure \in Failures : Call(failure) /\ Return(failure)
    PROVE  BudgetInv'
<1>1. MapPath /\ outcome = "none" /\ used \in Nat /\ ~Over(used)
  BY Paths DEF MapPath, BudgetInv, WithinTokens
<1>2. UNCHANGED <<rounds, followups, remaining, spent>>
  BY DEF askVars, loopVars, roundVars, followVars
<1>3. CapIsShared' /\ FollowupsCapped'
  BY <1>2 DEF BudgetInv, CapIsShared, FollowupsCapped, ActiveEnabled
<1>4. SpendingAddsUp'
  <2>1. PICK planned \in [0..Len(rounds) -> 0..spent] : PlannedUpTo(planned)
    BY DEF BudgetInv, SpendingAddsUp
  <2>2. PlannedUpTo(planned)'
    BY <1>2, <2>1 DEF PlannedUpTo
  <2>3. ~(Asking \/ (Answered /\ Reflected))'
    BY DEF Asking, Reflected
  <2> QED
    BY <1>2, <2>1, <2>2, <2>3 DEF SpendingAddsUp
<1>5. /\ used' \in Nat
      /\ outcome' # "over" => ~(outcome' = "answer" /\ Over(used')) /\ (pc' # "done" => ~Over(used'))
      /\ outcome' = "over" => pc' = "done" /\ Over(used')
  <2>1. CASE used' = used
    BY <1>1, <2>1, CallProperties DEF Return, Failures
  <2>2. CASE Call("ok")
    BY <1>1, <2>2, CallProperties DEF Return, Failures
  <2>3. ASSUME NEW failure \in Failures, Call(failure), Return(failure)
        PROVE  /\ used' \in Nat
               /\ outcome' # "over" =>
                      ~(outcome' = "answer" /\ Over(used')) /\ (pc' # "done" => ~Over(used'))
               /\ outcome' = "over" => pc' = "done" /\ Over(used')
    BY <1>1, <2>3, CallProperties DEF Return, Failures
  <2> QED
    BY <2>1, <2>2, <2>3
<1>6. WithinTokens'
  <2>1. \A i \in DOMAIN rounds' : (rounds'[i].planned <= PerRound /\ ~Over(rounds'[i].cost))
    BY <1>2 DEF BudgetInv, WithinTokens
  <2>2. pc' # "done" => outcome' = "none"
    BY <1>1 DEF Return
  <2> QED
    BY <1>5, <2>1, <2>2 DEF WithinTokens, Answered, Over
<1>7. pc' # "done" => outcome' = "none"
  BY <1>1 DEF Return
<1> QED
  BY <1>3, <1>4, <1>6, <1>7 DEF BudgetInv

LEMMA BudgetStep == MapInv /\ RoundsInv /\ BudgetInv /\ [Next]_vars => BudgetInv'
<1> SUFFICES ASSUME MapInv, RoundsInv, BudgetInv, [Next]_vars PROVE BudgetInv'
  OBVIOUS
<1>0. request \in Requests /\ RoundsTyped
  BY DEF MapInv, MapTyped, RoundsInv
<1>1. CASE UNCHANGED vars
  BY <1>1 DEF vars, answeringVars, askVars, loopVars, roundVars, followVars, BudgetInv,
              CapIsShared, ActiveEnabled, FollowupsCapped, SpendingAddsUp, PlannedUpTo,
              Charged, Asking, Answered, Reflected, WithinTokens, MapPath, Over
<1>2. CASE AskNext
  BY <1>0, <1>2, RetrievingKeepsBudget, PreGradingKeepsBudget, PlanningKeepsBudget,
     UnionKeepsBudget, FetchingKeepsBudget, DraftingKeepsBudget, DecidingKeepsBudget,
     GradingKeepsBudget, RecordingKeepsBudget DEF AskNext
<1>3. CASE GlobalNext /\ UNCHANGED askVars
  <2>1. request' = request /\ request.path # "ask" /\ pc # "done"
    BY <1>3 DEF GlobalNext, SelectReports, ReportsFail, MapReport, MapFails, Reduce, MapPath
  <2>2. CASE SelectReports \/ ReportsFail \/ MapReport
    BY <1>0, <1>3, <2>1, <2>2, MappingKeepsBudget
       DEF SelectReports, ReportsFail, MapReport, Goto, Return
  <2>3. CASE MapFails \/ Reduce
    BY <1>0, <1>3, <2>1, <2>3, MappingKeepsBudget DEF MapFails, Reduce, Return
  <2> QED
    BY <1>3, <2>2, <2>3 DEF GlobalNext
<1>4. CASE DriftNext /\ UNCHANGED askVars
  <2>1. request' = request /\ request.path # "ask" /\ pc # "done"
    BY <1>4 DEF DriftNext, Seed, LeaveLoop, Explore, ExploreFails, Lookup, Synthesize, DriftAt
  <2>2. CASE Seed \/ LeaveLoop \/ Lookup
    BY <1>0, <1>4, <2>1, <2>2, MappingKeepsBudget DEF Seed, LeaveLoop, Lookup, Goto, Return
  <2>3. CASE Explore \/ ExploreFails \/ Synthesize
    BY <1>0, <1>4, <2>1, <2>3, MappingKeepsBudget
       DEF Explore, ExploreFails, Synthesize, Goto, Return
  <2> QED
    BY <1>4, <2>2, <2>3 DEF DriftNext
<1> QED
  BY <1>1, <1>2, <1>3, <1>4 DEF Next

\* Together the two parts are inductive.
LEMMA AskInductive == Spec => [](MapInv /\ RoundsInv /\ BudgetInv)
<1>1. Init => MapInv /\ RoundsInv /\ BudgetInv
  BY MapInit, RoundsStart, BudgetStart
<1>2. MapInv /\ RoundsInv /\ BudgetInv /\ [Next]_vars => (MapInv /\ RoundsInv /\ BudgetInv)'
  <2>1. BudgetInv => WithinTokens
    BY DEF BudgetInv
  <2> QED
    BY <2>1, MapStep, RoundsStep, BudgetStep
<1> QED
  BY <1>1, <1>2, PTL DEF Spec

\* The rounds of an Ask follow its decisions, under every combination of options
\* and for every MaxRounds.
THEOREM RoundsAlwaysFollowDecisions == Spec => []RoundsFollowDecisions
<1>1. RoundsInv => RoundsFollowDecisions
  BY AskingFollows DEF RoundsInv
<1> QED
  BY <1>1, AskInductive, PTL

\* The caps on follow-ups and the token budget are kept on every answer path, for
\* every cap, budget and cost of a call.
THEOREM BudgetsAreAlwaysKept == Spec => []BudgetsAreKept
<1>1. BudgetInv => BudgetsAreKept
  <2> SUFFICES ASSUME BudgetInv PROVE BudgetsAreKept
    OBVIOUS
  <2>1. spent <= PerAsk /\ (ActiveEnabled => spent + remaining = PerAsk)
    <3>1. PerAsk \in Nat
      BY AskAssumption
    <3> QED
      BY <3>1 DEF BudgetInv, CapIsShared
  <2>2. \E planned \in [0..Len(rounds) -> 0..spent] :
          /\ PlannedUpTo(planned)
          /\ Answered /\ Reflected => planned[Len(rounds)] = spent
    <3>1. PICK planned \in [0..Len(rounds) -> 0..spent] :
            /\ PlannedUpTo(planned)
            /\ Answered /\ Reflected => planned[Len(rounds)] + Charged = spent
      BY DEF BudgetInv, SpendingAddsUp
    <3>2. ASSUME Answered, Reflected
          PROVE  planned[Len(rounds)] = spent
      <4>1. pc = "done"
        BY <3>2 DEF BudgetInv, Answered
      <4>2. Charged = 0
        BY <4>1 DEF Charged
      <4>3. planned[Len(rounds)] + 0 = spent
        BY <3>1, <3>2, <4>2
      <4>4. spent \in Nat
        BY DEF BudgetInv, CapIsShared
      <4> QED
        BY <4>3, <4>4
    <3> QED
      BY <3>1, <3>2
  <2> QED
    BY <2>1, <2>2 DEF BudgetsAreKept, BudgetInv, WithinTokens
<1> QED
  BY <1>1, AskInductive, PTL

-----------------------------------------------------------------------------
\* The round that is adopted.

\* i is the earliest of the best among the first n rounds.
EarliestBest(all, n, i) ==
    /\ i \in 1..n
    /\ \A j \in 1..n : all[j].score <= all[i].score /\ (j < i => all[j].score < all[i].score)

\* The rounds can be compared.
Comparable(all) == \A i \in 1..Len(all) : all[i].score \in Int

\* A set of numbers has a smallest one.
LEMMA LeastNumber ==
    ASSUME NEW S \in SUBSET Nat, S # {}
    PROVE  \E x \in S : \A y \in S : x <= y
<1> DEFINE R == {ss \in Nat \X Nat : ss[1] < ss[2]}
<1>1. IsWellFoundedOn(R, Nat)
  BY NatLessThanWellFounded DEF OpToRel
<1>2. PICK x \in S : \A y \in S : ~(<<y, x>> \in R)
  <2> HIDE DEF R
  <2> QED
    BY <1>1, WFMin
<1>3. ASSUME NEW y \in S, y < x
      PROVE  FALSE
  <2>1. <<y, x>> \in Nat \X Nat /\ <<y, x>>[1] < <<y, x>>[2]
    BY <1>3
  <2> QED
    BY <1>2, <2>1
<1> HIDE DEF R
<1> QED
  BY <1>2, <1>3

\* Two earliest best rounds are one.
LEMMA OneEarliestBest ==
    ASSUME NEW all, NEW n \in Nat, n <= Len(all), Len(all) \in Nat, Comparable(all),
           NEW i, NEW j, EarliestBest(all, n, i), EarliestBest(all, n, j)
    PROVE  i = j
<1>1. all[i].score \in Int /\ all[j].score \in Int
  BY DEF EarliestBest, Comparable
<1>2. all[i].score <= all[j].score /\ all[j].score <= all[i].score
  BY DEF EarliestBest
<1>3. ~(i < j) /\ ~(j < i)
  BY <1>1, <1>2 DEF EarliestBest
<1> QED
  BY <1>3 DEF EarliestBest

\* One more round is compared with the best one so far.
LEMMA OneMoreRound ==
    ASSUME NEW all, NEW n \in Nat, n # 0, n < Len(all), Len(all) \in Nat, Comparable(all),
           NEW b, EarliestBest(all, n, b)
    PROVE  EarliestBest(all, n + 1, IF all[n + 1].score > all[b].score THEN n + 1 ELSE b)
<1>1. b \in 1..n /\ b \in 1..Len(all) /\ n + 1 \in 1..Len(all)
  BY DEF EarliestBest
<1>2. all[n + 1].score \in Int /\ all[b].score \in Int /\ \A j \in 1..n : all[j].score \in Int
  BY <1>1 DEF Comparable
<1>3. \A j \in 1..(n + 1) : j \in 1..n \/ j = n + 1
  OBVIOUS
<1>4. \A j \in 1..n : all[j].score <= all[b].score /\ (j < b => all[j].score < all[b].score)
  BY DEF EarliestBest
<1>5. CASE all[n + 1].score > all[b].score
  <2>1. \A j \in 1..n : all[j].score < all[n + 1].score
    BY <1>2, <1>4, <1>5
  <2>2. all[n + 1].score <= all[n + 1].score
    BY <1>2
  <2>3. EarliestBest(all, n + 1, n + 1)
    BY <1>3, <2>1, <2>2, <1>2 DEF EarliestBest
  <2> QED
    BY <1>5, <2>3
<1>6. CASE ~(all[n + 1].score > all[b].score)
  <2>1. all[n + 1].score <= all[b].score /\ ~(n + 1 < b)
    BY <1>1, <1>2, <1>6
  <2>2. b \in 1..(n + 1)
    BY <1>1
  <2>3. EarliestBest(all, n + 1, b)
    BY <1>3, <1>4, <2>1, <2>2 DEF EarliestBest
  <2> QED
    BY <1>6, <2>3
<1> QED
  BY <1>5, <1>6

\* The first rounds, however many, have an earliest best one.
LEMMA EarliestBestExists ==
    ASSUME NEW all, Len(all) \in Nat, Comparable(all), NEW n \in 1..Len(all)
    PROVE  \E b : EarliestBest(all, n, b)
<1> DEFINE Without == {m \in 1..Len(all) : ~\E b : EarliestBest(all, m, b)}
<1> SUFFICES ASSUME Without # {} PROVE FALSE
  OBVIOUS
<1>1. PICK m \in Without : \A k \in Without : m <= k
  <2>1. Without \in SUBSET Nat
    OBVIOUS
  <2> HIDE DEF Without
  <2> QED
    BY <2>1, LeastNumber
<1>2. CASE m = 1
  <2>1. EarliestBest(all, 1, 1)
    BY <1>2 DEF EarliestBest, Comparable
  <2> QED
    BY <1>2, <2>1
<1>3. CASE m # 1
  <2>1. m - 1 \in 1..Len(all) /\ m - 1 \notin Without
    BY <1>1, <1>3
  <2>2. PICK b : EarliestBest(all, m - 1, b)
    BY <2>1
  <2>3. /\ m - 1 \in Nat /\ m - 1 # 0 /\ m - 1 < Len(all) /\ (m - 1) + 1 = m
    BY <1>3
  <2>4. \E c : EarliestBest(all, (m - 1) + 1, c)
    BY <2>2, <2>3, OneMoreRound
  <2> QED
    BY <2>3, <2>4
<1> QED
  BY <1>2, <1>3

\* pickBestRound returns the earliest of the rounds with the best score.
LEMMA PickBestRoundIsBest ==
    ASSUME NEW S, NEW all \in Seq(S), all # <<>>, Comparable(all)
    PROVE  EarliestBest(all, Len(all), PickBestRound(all))
<1> DEFINE N       == Len(all)
           W       == [n \in 1..N |-> CHOOSE b : EarliestBest(all, n, b)]
           Step(f) == [n \in 1..N |-> IF n = 1 \/ all[n].score > all[f[n - 1]].score
                                      THEN n ELSE f[n - 1]]
           Picked  == CHOOSE f : f = Step(f)
<1>1. N \in Nat /\ N # 0 /\ DOMAIN all = 1..N
  BY EmptySeq, LenProperties
<1>2. \A n \in 1..N : EarliestBest(all, n, W[n])
  BY <1>1, EarliestBestExists
<1>3. ASSUME NEW n \in 1..N, n # 1, NEW b, EarliestBest(all, n - 1, b)
      PROVE  EarliestBest(all, n, IF all[n].score > all[b].score THEN n ELSE b)
  <2>1. /\ n - 1 \in Nat /\ n - 1 # 0 /\ n - 1 < Len(all) /\ (n - 1) + 1 = n
    BY <1>1, <1>3
  <2>2. EarliestBest(all, (n - 1) + 1,
                     IF all[(n - 1) + 1].score > all[b].score THEN (n - 1) + 1 ELSE b)
    BY <1>1, <1>3, <2>1, OneMoreRound
  <2> QED
    BY <2>1, <2>2
<1>4. ASSUME NEW n \in 1..N
      PROVE  W[n] = IF n = 1 \/ all[n].score > all[W[n - 1]].score THEN n ELSE W[n - 1]
  <2>1. EarliestBest(all, n, W[n])
    BY <1>2
  <2>2. CASE n = 1
    BY <2>1, <2>2 DEF EarliestBest
  <2>3. CASE n # 1
    <3>1. n - 1 \in 1..N
      BY <1>1, <2>3
    <3>2. EarliestBest(all, n - 1, W[n - 1])
      BY <1>2, <3>1
    <3> HIDE DEF W
    <3>3. EarliestBest(all, n, IF all[n].score > all[W[n - 1]].score THEN n ELSE W[n - 1])
      BY <1>3, <2>3, <3>2
    <3>4. n \in Nat /\ n <= Len(all)
      BY <1>1
    <3>5. W[n] = IF all[n].score > all[W[n - 1]].score THEN n ELSE W[n - 1]
      BY <1>1, <2>1, <3>3, <3>4, OneEarliestBest
    <3> QED
      BY <2>3, <3>5
  <2> QED
    BY <2>2, <2>3
<1>5. Picked = Step(Picked)
  <2>1. W = [n \in 1..N |-> W[n]]
    OBVIOUS
  <2> HIDE DEF W
  <2>2. W = Step(W)
    BY <1>4, <2>1
  <2> HIDE DEF Step
  <2> QED
    BY <2>2
<1>6. PickBestRound(all) = Picked[N]
  BY <1>1 DEF PickBestRound
<1>7. \A n \in 1..N : EarliestBest(all, n, Picked[n])
  <2> DEFINE Wrong == {n \in 1..N : ~EarliestBest(all, n, Picked[n])}
  <2> SUFFICES ASSUME Wrong # {} PROVE FALSE
    OBVIOUS
  <2>0. \A n \in 1..N : Picked[n] = IF n = 1 \/ all[n].score > all[Picked[n - 1]].score
                                    THEN n ELSE Picked[n - 1]
    BY <1>5
  <2> HIDE DEF Picked
  <2>1. PICK n \in Wrong : \A k \in Wrong : n <= k
    <3>1. Wrong \in SUBSET Nat
      BY <1>1
    <3> QED
      BY <3>1, LeastNumber
  <2>2. CASE n = 1
    <3>1. Picked[n] = 1
      BY <2>0, <2>2
    <3>2. EarliestBest(all, 1, 1)
      BY <1>1 DEF EarliestBest, Comparable
    <3> QED
      BY <2>1, <2>2, <3>1, <3>2
  <2>3. CASE n # 1
    <3>1. n - 1 \in 1..N /\ n - 1 \notin Wrong
      BY <1>1, <2>1, <2>3
    <3>2. EarliestBest(all, n - 1, Picked[n - 1])
      BY <3>1
    <3>3. Picked[n] = IF all[n].score > all[Picked[n - 1]].score THEN n ELSE Picked[n - 1]
      BY <2>0, <2>1, <2>3
    <3>4. EarliestBest(all, n, Picked[n])
      BY <1>3, <2>1, <2>3, <3>2, <3>3
    <3> QED
      BY <2>1, <3>4
  <2> QED
    BY <2>2, <2>3
<1> HIDE DEF Picked
<1>8. N \in 1..N
  BY <1>1
<1> QED
  BY <1>6, <1>7, <1>8

\* A recursive function on 0..m, of the numbers whose product is taken.
ProductUpTo(f, m) ==
    /\ f \in [0..m -> Int]
    /\ \A n \in 0..m : f[n] = IF n = 0 THEN 1 ELSE n * f[n - 1]

\* The common denominator of the means is a number.
LEMMA ScaleType == Scale \in Int
<1> DEFINE Step(f) == [n \in 0..TopK |-> IF n = 0 THEN 1 ELSE n * f[n - 1]]
           Product == CHOOSE f : f = Step(f)
           Without == {m \in 0..TopK : ~\E f : ProductUpTo(f, m)}
<1>1. TopK \in Nat
  BY AskAssumption
<1>2. Without = {}
  <2> SUFFICES ASSUME Without # {} PROVE FALSE
    OBVIOUS
  <2>1. PICK m \in Without : \A k \in Without : m <= k
    <3>1. Without \in SUBSET Nat
      OBVIOUS
    <3> HIDE DEF Without
    <3> QED
      BY <3>1, LeastNumber
  <2>2. CASE m = 0
    <3>1. ProductUpTo([n \in 0..0 |-> 1], 0)
      BY DEF ProductUpTo
    <3> QED
      BY <2>1, <2>2, <3>1
  <2>3. CASE m # 0
    <3>1. m - 1 \in 0..TopK /\ m - 1 \notin Without
      BY <1>1, <2>1, <2>3
    <3>2. PICK f : ProductUpTo(f, m - 1)
      BY <3>1
    <3> DEFINE g == [n \in 0..m |-> IF n = m THEN m * f[m - 1] ELSE f[n]]
    <3>3. m \in Nat /\ m \in Int /\ m - 1 \in 0..(m - 1) /\ f[m - 1] \in Int
      BY <2>1, <2>3, <3>2 DEF ProductUpTo
    <3>4. m * f[m - 1] \in Int
      BY <3>3
    <3>5. \A n \in 0..m : n # m => n \in 0..(m - 1) /\ (n # 0 => n - 1 \in 0..(m - 1))
      BY <3>3
    <3>6. g \in [0..m -> Int]
      BY <3>2, <3>4, <3>5 DEF ProductUpTo
    <3>7. \A n \in 0..m : n # 0 => n - 1 \in 0..m /\ n - 1 # m
      BY <3>3
    <3>8. \A n \in 0..m : g[n] = IF n = 0 THEN 1 ELSE n * g[n - 1]
      <4> SUFFICES ASSUME NEW n \in 0..m
                   PROVE  g[n] = IF n = 0 THEN 1 ELSE n * g[n - 1]
        OBVIOUS
      <4>1. CASE n = m
        BY <2>3, <3>7, <4>1
      <4>2. CASE n # m
        <5>1. n \in 0..(m - 1) /\ f[n] = IF n = 0 THEN 1 ELSE n * f[n - 1]
          BY <3>2, <3>5, <4>2 DEF ProductUpTo
        <5>2. g[n] = f[n]
          BY <4>2
        <5>3. n # 0 => g[n - 1] = f[n - 1]
          BY <3>7
        <5> QED
          BY <5>1, <5>2, <5>3
      <4> QED
        BY <4>1, <4>2
    <3>9. ProductUpTo(g, m)
      BY <3>6, <3>8 DEF ProductUpTo
    <3> QED
      BY <2>1, <3>9
  <2> QED
    BY <2>2, <2>3
<1>3. PICK f : ProductUpTo(f, TopK)
  BY <1>1, <1>2
<1>4. f = Step(f)
  BY <1>3 DEF ProductUpTo
<1>5. Product = Step(Product)
  <2> HIDE DEF Step
  <2> QED
    BY <1>4
<1>6. Scale = Product[TopK]
  BY DEF Scale
<1> HIDE DEF Product, Without
<1>7. \A n \in 0..TopK : Product[n] \in Int
  <2> DEFINE Untyped == {n \in 0..TopK : Product[n] \notin Int}
  <2> SUFFICES ASSUME Untyped # {} PROVE FALSE
    OBVIOUS
  <2>0. \A n \in 0..TopK : Product[n] = IF n = 0 THEN 1 ELSE n * Product[n - 1]
    BY <1>5
  <2>1. PICK m \in Untyped : \A k \in Untyped : m <= k
    <3>1. Untyped \in SUBSET Nat
      OBVIOUS
    <3> HIDE DEF Untyped
    <3> QED
      BY <3>1, LeastNumber
  <2>2. CASE m = 0
    BY <2>0, <2>1, <2>2
  <2>3. CASE m # 0
    <3>1. m \in Int /\ m - 1 \in 0..TopK /\ m - 1 \notin Untyped
      BY <1>1, <2>1, <2>3
    <3>2. Product[m - 1] \in Int
      BY <3>1
    <3>3. Product[m] = m * Product[m - 1]
      BY <2>0, <2>1, <2>3
    <3>4. m * Product[m - 1] \in Int
      BY <3>1, <3>2
    <3> QED
      BY <2>1, <3>3, <3>4
  <2> QED
    BY <2>2, <2>3
<1> QED
  BY <1>1, <1>6, <1>7

\* The score of a round is a number.
LEMMA ScoreType ==
    ASSUME prompt.chunks \subseteq Chunk, grading.sum \in Int
    PROVE  Score \in Int
<1>1. IsFiniteSet(prompt.chunks)
  BY AskAssumption, FS_Subset
<1>2. CASE prompt.chunks # {}
  <2>1. Cardinality(prompt.chunks) \in Nat /\ Cardinality(prompt.chunks) # 0
    BY <1>1, <1>2, FS_CardinalityType, FS_EmptySet
  <2>2. Scale \div Cardinality(prompt.chunks) \in Int
    BY <2>1, ScaleType
  <2>3. grading.sum * (Scale \div Cardinality(prompt.chunks)) \in Int
    BY <2>2
  <2> QED
    BY <2>3 DEF Score
<1>3. CASE prompt.chunks = {}
  BY <1>3 DEF Score
<1> QED
  BY <1>2, <1>3

\* The round that is recorded has the score of its grades.
LEMMA RecordedScore ==
    ASSUME RoundsTyped
    PROVE  Recorded[Len(rounds) + 1].score = Score
<1> DEFINE new == [query |-> query, kind |-> decision.kind, next |-> decision.next,
                   relevance |-> grading.best, score |-> Score,
                   planned |-> Len(followups), cost |-> prompt.cost]
<1>1. PICK S : rounds \in Seq(S)
  BY DEF RoundsTyped
<1>2. rounds \in Seq(S \cup {new})
  BY <1>1, ElementOfSeq, SeqDef
<1>3. Recorded[Len(rounds) + 1] = new
  BY <1>2, AppendProperties DEF Recorded
<1> QED
  BY <1>3

\* An Ask takes steps until it has returned.
LEMMA AskRunsOn ==
    ASSUME AskNext
    PROVE  pc # "done"
<1>1. CASE Retrieve \/ RetrieveFails \/ PreGrade \/ Plan \/ Union \/ Draft \/ DraftFails
  BY <1>1 DEF Retrieve, RetrieveFails, PreGrade, Plan, Union, Draft, DraftFails, AskAt
<1>2. CASE \E i \in DOMAIN followups : StartFollowup(i) \/ EndFollowup(i)
  BY <1>2 DEF StartFollowup, EndFollowup, AskAt
<1>3. CASE DecideByRule \/ StopForUnchangedEvidence \/ DecideByModel \/ DecisionFails
  BY <1>3 DEF DecideByRule, StopForUnchangedEvidence, DecideByModel, DecisionFails, AskAt
<1>4. CASE GradeHit \/ NextRound \/ Finish
  BY <1>4 DEF GradeHit, NextRound, Finish, AskAt
<1> QED
  BY <1>1, <1>2, <1>3, <1>4 DEF AskNext

\* What is retrieved and packed are chunks, and grades and scores are numbers.
EvidenceTyped ==
    /\ evidence \subseteq Chunk
    /\ fetched \subseteq Chunk
    /\ prompt.chunks \subseteq Chunk
    /\ grading.sum \in Int
    /\ \A i \in DOMAIN rounds : rounds[i].score \in Int

AdoptionInv == EvidenceTyped /\ AdoptedIsBest

LEMMA AdoptionStart == Init => AdoptionInv
<1> SUFFICES ASSUME Init PROVE AdoptionInv
  OBVIOUS
<1>1. EvidenceTyped
  BY DEF Init, AskInit, NoPrompt, Ungraded, EvidenceTyped
<1>2. ~Answered
  BY DEF Init, AnsweringInit, Answered
<1> QED
  BY <1>1, <1>2 DEF AdoptionInv, AdoptedIsBest

\* A round joins the rounds, and the earliest of the best is adopted, or the last.
LEMMA RecordingAdopts ==
    ASSUME RoundsTyped, EvidenceTyped, rounds' = Recorded,
           request' = request,
           adopted' = IF request.best THEN PickBestRound(rounds') ELSE Len(rounds')
    PROVE  AdoptedIsBest'
<1>1. /\ Len(rounds) \in Nat
      /\ \E S : rounds' \in Seq(S)
      /\ Len(rounds') = Len(rounds) + 1
      /\ DOMAIN rounds' = 1..(Len(rounds) + 1)
      /\ \A i \in 1..Len(rounds) : rounds'[i] = rounds[i]
      /\ DOMAIN rounds = 1..Len(rounds)
  BY RecordedProperties
<1>2. rounds'[Len(rounds) + 1].score = Score
  BY RecordedScore
<1>3. Score \in Int
  BY ScoreType DEF EvidenceTyped
<1>4. Comparable(rounds')
  BY <1>1, <1>2, <1>3 DEF EvidenceTyped, Comparable
<1>5. PICK S : rounds' \in Seq(S)
  BY <1>1
<1>6. rounds' # <<>>
  BY <1>1
<1>7. EarliestBest(rounds', Len(rounds'), PickBestRound(rounds'))
  BY <1>4, <1>5, <1>6, PickBestRoundIsBest
<1>8. CASE request.best
  BY <1>1, <1>7, <1>8 DEF EarliestBest, AdoptedIsBest
<1>9. CASE ~request.best
  BY <1>1, <1>9 DEF AdoptedIsBest
<1> QED
  BY <1>8, <1>9

LEMMA AdoptionStep ==
    MapInv /\ RoundsInv /\ BudgetInv /\ AdoptionInv /\ [Next]_vars => AdoptionInv'
<1> SUFFICES ASSUME MapInv, RoundsInv, BudgetInv, AdoptionInv, [Next]_vars
             PROVE  AdoptionInv'
  OBVIOUS
<1>0. /\ request \in Requests /\ used \in Nat /\ RoundsTyped /\ GradingTyped
      /\ pc # "done" => ~Answered
      /\ EvidenceTyped /\ AdoptedIsBest
  BY DEF MapInv, MapTyped, RoundsInv, BudgetInv, WithinTokens, AdoptionInv, Answered
<1>1. CASE UNCHANGED vars
  BY <1>0, <1>1 DEF vars, answeringVars, askVars, loopVars, roundVars, followVars, AdoptionInv,
                    EvidenceTyped, AdoptedIsBest, Answered, Reflected
<1>2. CASE AskNext
  <2>1. request' = request /\ pc # "done"
    <3>1. pc # "done"
      BY <1>2, AskRunsOn
    <3> QED
      BY <1>2, <3>1, AskKeepsRequest
  <2>2. CASE Retrieve \/ RetrieveFails \/ PreGrade \/ Plan
    <3>1. ~Answered' /\ rounds' = rounds
      BY <1>0, <2>1, <2>2 DEF Retrieve, RetrieveFails, PreGrade, Plan, Goto, Return, Failures,
                         Answered, askVars, loopVars
    <3>2. EvidenceTyped'
      <4>1. CASE Retrieve
        BY <1>0, <4>1 DEF Retrieve, Found, Ungraded, EvidenceTyped, loopVars
      <4>2. CASE RetrieveFails
        BY <1>0, <4>2 DEF RetrieveFails, EvidenceTyped, askVars, loopVars, roundVars
      <4>3. CASE PreGrade
        <5>1. grading'.sum = grading.sum
          BY <1>0, <4>3 DEF PreGrade, GradingTyped
        <5> QED
          BY <1>0, <4>3, <5>1 DEF PreGrade, EvidenceTyped, loopVars
      <4>4. CASE Plan
        BY <1>0, <4>4 DEF Plan, Ungraded, EvidenceTyped, loopVars
      <4> QED
        BY <2>2, <4>1, <4>2, <4>3, <4>4
    <3> QED
      BY <3>1, <3>2 DEF AdoptionInv, AdoptedIsBest
  <2>3. CASE Union \/ \E i \in DOMAIN followups : StartFollowup(i) \/ EndFollowup(i)
    <3>1. outcome' = outcome /\ rounds' = rounds
      BY <2>3 DEF Union, StartFollowup, EndFollowup, Goto, answeringVars, loopVars
    <3>2. EvidenceTyped'
      <4>1. CASE Union
        BY <1>0, <4>1 DEF Union, Kept, EvidenceTyped, loopVars
      <4>2. ASSUME NEW i \in DOMAIN followups, StartFollowup(i) \/ EndFollowup(i)
            PROVE  EvidenceTyped'
        BY <1>0, <4>2 DEF StartFollowup, EndFollowup, Found, EvidenceTyped, loopVars
      <4> QED
        BY <2>3, <4>1, <4>2
    <3>3. ~Answered'
      BY <1>0, <2>1, <3>1 DEF Answered
    <3> QED
      BY <3>2, <3>3 DEF AdoptionInv, AdoptedIsBest
  <2>4. CASE Draft \/ DraftFails
    <3>1. EvidenceTyped'
      <4>1. CASE Draft
        BY <1>0, <4>1 DEF Draft, EvidenceTyped, loopVars
      <4>2. CASE DraftFails
        BY <1>0, <4>2 DEF DraftFails, EvidenceTyped, askVars, loopVars, roundVars
      <4> QED
        BY <2>4, <4>1, <4>2
    <3>2. ~(Answered /\ Reflected)'
      BY <1>0, <2>1, <2>4 DEF Draft, DraftFails, Goto, Return, Failures, Answered, Reflected
    <3> QED
      BY <3>1, <3>2 DEF AdoptionInv, AdoptedIsBest
  <2>5. CASE DecideByRule \/ StopForUnchangedEvidence \/ DecideByModel \/ DecisionFails
    <3>1. EvidenceTyped'
      BY <1>0, <2>5 DEF DecideByRule, StopForUnchangedEvidence, DecideByModel, DecisionFails,
                        Decide, DecidedVars, Ungraded, EvidenceTyped, loopVars
    <3>2. ~Answered'
      BY <1>0, <2>1, <2>5 DEF DecideByRule, StopForUnchangedEvidence, DecideByModel,
                              DecisionFails, Decide, DecidedVars, Goto, Return, Answered
    <3> QED
      BY <3>1, <3>2 DEF AdoptionInv, AdoptedIsBest
  <2>6. CASE GradeHit
    <3>1. PICK relevance \in Gradings(used) : \E support \in Gradings(relevance[1]) :
             grading' = [todo |-> grading.todo - 1,
                         best |-> IF relevance[2] > grading.best THEN relevance[2]
                                                                 ELSE grading.best,
                         sum  |-> grading.sum + relevance[2] + support[2]]
      BY <2>6 DEF GradeHit
    <3>2. PICK support \in Gradings(relevance[1]) :
             grading'.sum = grading.sum + relevance[2] + support[2]
      BY <3>1
    <3>3. relevance[1] \in Nat /\ relevance[2] \in Int /\ support[2] \in Int
      BY <1>0, GradingsProperties DEF Grades, Neutral, High
    <3>4. grading'.sum \in Int
      BY <1>0, <3>2, <3>3 DEF EvidenceTyped
    <3>5. EvidenceTyped'
      BY <1>0, <2>6, <3>4 DEF GradeHit, EvidenceTyped, loopVars
    <3>6. ~Answered'
      BY <1>0, <2>1, <2>6 DEF GradeHit, Answered
    <3> QED
      BY <3>5, <3>6 DEF AdoptionInv, AdoptedIsBest
  <2>7. CASE NextRound \/ Finish
    <3>1. rounds' = Recorded /\ UNCHANGED <<evidence, fetched, prompt, grading>>
      BY <2>7 DEF NextRound, Finish, RecordVars
    <3>2. EvidenceTyped'
      BY <1>0, <3>1, RecordedProperties, RecordedScore, ScoreType DEF EvidenceTyped
    <3>3. AdoptedIsBest'
      <4>1. CASE NextRound
        <5>1. ~Answered'
          BY <1>0, <2>1, <4>1 DEF NextRound, Goto, Answered
        <5> QED
          BY <5>1 DEF AdoptedIsBest
      <4>2. CASE Finish
        BY <1>0, <2>1, <3>1, <4>2, RecordingAdopts DEF Finish
      <4> QED
        BY <2>7, <4>1, <4>2
    <3> QED
      BY <3>2, <3>3 DEF AdoptionInv
  <2> QED
    BY <1>2, <2>2, <2>3, <2>4, <2>5, <2>6, <2>7 DEF AskNext
<1>3. CASE (GlobalNext \/ DriftNext) /\ UNCHANGED askVars
  <2>1. request' = request /\ request.path # "ask"
    BY <1>3 DEF GlobalNext, SelectReports, ReportsFail, MapReport, MapFails, Reduce, MapPath,
                DriftNext, Seed, LeaveLoop, Explore, ExploreFails, Lookup, Synthesize, DriftAt
  <2>2. EvidenceTyped'
    BY <1>0, <1>3 DEF EvidenceTyped, askVars, loopVars, roundVars
  <2>3. ~Reflected'
    BY <2>1 DEF Reflected
  <2> QED
    BY <2>2, <2>3 DEF AdoptionInv, AdoptedIsBest
<1> QED
  BY <1>1, <1>2, <1>3 DEF Next

\* The adopted round is one of the rounds: the last, or with SelectionModeBestByScore
\* the earliest of those with the best score, for any number of rounds and of
\* graded chunks.
THEOREM AdoptedIsAlwaysBest == Spec => []AdoptedIsBest
<1>1. Init => MapInv /\ RoundsInv /\ BudgetInv /\ AdoptionInv
  BY MapInit, RoundsStart, BudgetStart, AdoptionStart
<1>2. MapInv /\ RoundsInv /\ BudgetInv /\ AdoptionInv /\ [Next]_vars => AdoptionInv'
  BY AdoptionStep
<1>3. AdoptionInv => AdoptedIsBest
  BY DEF AdoptionInv
<1> QED
  BY <1>1, <1>2, <1>3, AskInductive, PTL DEF Spec
=============================================================================
