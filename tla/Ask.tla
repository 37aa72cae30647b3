--------------------------------- MODULE Ask ---------------------------------
(***************************************************************************)
(* System.Ask: rounds of retrieve, active retrieval, pack and generate,    *)
(* and between them the reflection that decides whether another round      *)
(* runs, on which query, and which round's answer is adopted.              *)
(*                                                                         *)
(* Data is kept as far as the control looks at it: hits are sets of chunks *)
(* cut at TopK, a prompt is the part of them that was packed, and a grade  *)
(* is below the floor of active retrieval (0), between it and the adaptive *)
(* threshold, where the neutral 0.5 of a failed grader call lies (1), or   *)
(* above the threshold (2).  Retrieval, reranking and packing return what  *)
(* they may; what the grader, the planner and the model reply is open.     *)
(***************************************************************************)
EXTENDS Answering

CONSTANTS
    Chunk,        \* chunks of the namespace
    TopK,         \* SearchOptions.TopK
    MaxRounds,    \* ReflectionOptions.MaxRounds
    MinHits,      \* ReflectionOptions.MinHits
    Rewrites,     \* queries the model may propose
    PerRound,     \* MaxFollowupQueries
    PerAsk,       \* MaxFollowupQueriesPerAsk
    PlannerMax    \* queries a planner reply holds at most

ASSUME AskAssumption ==
    /\ IsFiniteSet(Chunk)
    /\ TopK \in Nat \ {0}
    /\ MaxRounds \in Nat \ {0}
    /\ MinHits \in Nat
    /\ PerRound \in Nat \ {0}
    /\ PerAsk \in Nat \ {0}
    /\ PlannerMax \in Nat

Question == "question"
Neutral  == 1
High     == 2
Grades   == {0, Neutral, High}

\* Means of 1..TopK grades are compared over this common denominator.
Scale == LET product[n \in 0..TopK] == IF n = 0 THEN 1 ELSE n * product[n - 1]
         IN  product[TopK]

VARIABLES
    query,      \* query of the round
    followups,  \* state of each planned follow-up, in the planner's order
    evidence,   \* hits of the round until they are packed: its own, then the union
    fetched,    \* hits of the follow-ups, until the union
    prompt,     \* packed chunks of the draft, and what was used when it was drafted
    previous,   \* prompt of the previous round, a set of at most one
    decision,   \* decision on the round, and its rewrite
    grading,    \* grades so far: hits still to grade, best relevance, sum
    rounds,     \* rounds
    extra,      \* adaptiveBudget
    remaining,  \* followupsRemaining
    spent,      \* followupsUsedThisAsk
    adopted     \* adoptedIdx + 1, 0 before there is one

roundVars == <<followups, fetched, evidence, prompt, decision, grading>>
loopVars  == <<query, previous, rounds, extra, adopted>>
followVars == <<remaining, spent>>
askVars   == <<roundVars, loopVars, followVars>>

\* Active retrieval belongs to the reflection loop.
ActiveEnabled == request.active /\ request.mode # "off"

Ungraded == [todo |-> 0, best |-> 0, sum |-> 0]
NoPrompt == [chunks |-> {}, cost |-> 0]
Undecided == [kind |-> "none", next |-> Question]

AskInit ==
    /\ query = Question
    /\ followups = <<>>
    /\ fetched = {}
    /\ evidence = {}
    /\ prompt = NoPrompt
    /\ previous = {}
    /\ decision = Undecided
    /\ grading = Ungraded
    /\ rounds = <<>>
    /\ extra = IF request.adaptive /\ request.grading THEN 1 ELSE 0
    /\ remaining = IF ActiveEnabled THEN PerAsk ELSE 0
    /\ spent = 0
    /\ adopted = 0

AskAt(place) == request.path = "ask" /\ pc = place

\* The round under way.
Index == Len(rounds) + 1

Found == {S \in SUBSET Chunk : Cardinality(S) <= TopK}

-----------------------------------------------------------------------------
\* Retrieval: expansion of the query, when asked for, and the search.  The
\* calls of an expansion are taken for one.
Retrieve ==
    /\ AskAt("start")
    /\ IF request.expand THEN Call("ok") ELSE UNCHANGED used
    /\ evidence' \in Found
    /\ followups' = <<>>
    /\ IF remaining > 0
       THEN Goto("pregrade") /\ grading' = [Ungraded EXCEPT !.todo = Cardinality(evidence')]
       ELSE Goto("draft") /\ grading' = Ungraded
    /\ UNCHANGED <<request, fetched, prompt, decision, loopVars, followVars>>

RetrieveFails ==
    /\ AskAt("start")
    /\ \/ /\ request.expand
          /\ \E failure \in Failures : Call(failure) /\ Return(failure)
       \/ /\ IF request.expand THEN Call("ok") ELSE UNCHANGED used
          /\ Return("error")
    /\ UNCHANGED <<request, askVars>>

-----------------------------------------------------------------------------
\* Active retrieval.

\* What one call of the grader may cost and say: it fails open.
Gradings(total) ==
    {<<reply[1], grade>> : reply \in {r \in Replies(total) : r[2] = "ok"}, grade \in Grades}
    \cup {<<reply[1], Neutral>> : reply \in {r \in Replies(total) : r[2] # "ok"}}

\* gradeRelevanceOnly, one seed hit at a time.
PreGrade ==
    /\ AskAt("pregrade")
    /\ grading.todo > 0
    /\ \E relevance \in Gradings(used) :
        /\ used' = relevance[1]
        /\ grading' = [grading EXCEPT !.todo = @ - 1,
                                      !.best = IF relevance[2] > @ THEN relevance[2] ELSE @]
    /\ UNCHANGED <<request, pc, outcome, followups, fetched, evidence, prompt, decision>>
    /\ UNCHANGED <<loopVars, followVars>>

\* The planned queries that are kept.
Capped(n) == Least({n, PerRound, remaining})

\* Seeds at the floor need no follow-ups.  Else the planner is asked; its
\* failure means none, and the two caps cut what it plans.
Plan ==
    /\ AskAt("pregrade")
    /\ grading.todo = 0
    /\ grading' = Ungraded
    /\ \/ /\ grading.best >= Neutral
          /\ Goto("draft")
          /\ UNCHANGED <<used, followups>>
       \/ /\ grading.best < Neutral
          /\ \E failure \in Failures : Call(failure)
          /\ Goto("draft")
          /\ UNCHANGED followups
       \/ /\ grading.best < Neutral
          /\ Call("ok")
          /\ \E n \in 0..PlannerMax :
                /\ followups' = [i \in 1..Capped(n) |-> "waiting"]
                /\ Goto(IF Capped(n) = 0 THEN "draft" ELSE "followups")
    /\ UNCHANGED <<request, fetched, evidence, prompt, decision, loopVars, followVars>>

\* Mutation of InFlight: a failed follow-up keeps its worker.
InFlightLeaks == {i \in DOMAIN followups : followups[i] \in {"running", "failed"}}

InFlight == {i \in DOMAIN followups : followups[i] = "running"}

\* A worker takes the next follow-up and, when it expands the query, its call
\* fails or is appended to the shared usage; the comparison comes later.
StartFollowup(i) ==
    /\ AskAt("followups")
    /\ followups[i] = "waiting"
    /\ \A j \in 1..(i - 1) : followups[j] # "waiting"
    /\ Cardinality(InFlight) < request.workers
    /\ \/ /\ followups' = [followups EXCEPT ![i] = "running"]
          /\ IF request.expand THEN \E c \in Costs : used' = Appended(used, c)
                               ELSE UNCHANGED used
       \/ /\ request.expand
          /\ followups' = [followups EXCEPT ![i] = "failed"]
          /\ UNCHANGED used
    /\ UNCHANGED <<request, pc, outcome, fetched, evidence, prompt, decision, grading>>
    /\ UNCHANGED <<loopVars, followVars>>

\* The budget is compared, and the search runs.  A failure is skipped.
EndFollowup(i) ==
    /\ AskAt("followups")
    /\ followups[i] = "running"
    /\ \/ /\ ~(request.expand /\ Over(used))
          /\ \E S \in Found : fetched' = fetched \cup S
          /\ followups' = [followups EXCEPT ![i] = "fetched"]
       \/ /\ followups' = [followups EXCEPT ![i] = "failed"]
          /\ UNCHANGED fetched
    /\ UNCHANGED <<answeringVars, evidence, prompt, decision, grading>>
    /\ UNCHANGED <<loopVars, followVars>>

\* What unionHits may keep: the TopK hits with the best scores.
Kept(S) ==
    IF Cardinality(S) <= TopK THEN {S} ELSE {T \in SUBSET S : Cardinality(T) = TopK}

\* Mutation of Union: only the follow-ups that succeeded are charged.
UnionChargesSuccess ==
    /\ AskAt("followups")
    /\ \A i \in DOMAIN followups : followups[i] \in {"fetched", "failed"}
    /\ evidence' \in Kept(evidence \cup fetched)
    /\ fetched' = {}
    /\ LET charged == Cardinality({i \in DOMAIN followups : followups[i] = "fetched"})
       IN  remaining' = remaining - charged /\ spent' = spent + charged
    /\ Goto("draft")
    /\ UNCHANGED <<request, used, followups, prompt, decision, grading, loopVars>>

\* Every planned follow-up is charged, whether it was retrieved or not.
Union ==
    /\ AskAt("followups")
    /\ \A i \in DOMAIN followups : followups[i] \in {"fetched", "failed"}
    /\ evidence' \in Kept(evidence \cup fetched)
    /\ fetched' = {}
    /\ remaining' = remaining - Len(followups)
    /\ spent' = spent + Len(followups)
    /\ Goto("draft")
    /\ UNCHANGED <<request, used, followups, prompt, decision, grading, loopVars>>

-----------------------------------------------------------------------------
\* Packing and generation.  Without reflection the draft is the answer.
Draft ==
    /\ AskAt("draft")
    /\ Call("ok")
    /\ \E packed \in SUBSET evidence : prompt' = [chunks |-> packed, cost |-> used']
    /\ IF request.mode = "off"
       THEN Return("answer")
       ELSE Goto(IF request.mode = "model" THEN "evidence" ELSE "rule")
    /\ evidence' = {}
    /\ UNCHANGED <<request, followups, fetched, decision, grading>>
    /\ UNCHANGED <<loopVars, followVars>>

DraftFails ==
    /\ AskAt("draft")
    /\ \E failure \in Failures : Call(failure) /\ Return(failure)
    /\ UNCHANGED <<request, askVars>>

-----------------------------------------------------------------------------
\* The decision on the round.
DecidedVars == <<request, used, followups, fetched, evidence, prompt, loopVars, followVars>>

\* The decision is taken; grading comes first when it is enabled.
Decide(kind, next) ==
    /\ decision' = [kind |-> kind, next |-> next]
    /\ grading' = [Ungraded EXCEPT
                      !.todo = IF request.grading THEN Cardinality(prompt.chunks) ELSE 0]
    /\ Goto("grade")

\* The scores and document counts the rule also looks at are left open.
DecideByRule ==
    /\ AskAt("rule")
    /\ \E satisfied \in {FALSE, Cardinality(prompt.chunks) >= MinHits} :
        IF satisfied \/ Index >= MaxRounds
        THEN Decide("stop", Question)
        ELSE IF request.mode = "rule"
             THEN Decide("continue", Question)
             ELSE Goto("evidence") /\ UNCHANGED <<decision, grading>>
    /\ UNCHANGED DecidedVars

StopForUnchangedEvidence ==
    /\ AskAt("evidence")
    /\ IF prompt.chunks \in previous
       THEN Decide("stop", Question)
       ELSE Goto("model") /\ UNCHANGED <<decision, grading>>
    /\ UNCHANGED DecidedVars

ClampAtMaxRounds(kind) == IF Index >= MaxRounds THEN "stop" ELSE kind

\* A reply that stops, continues or rewrites; a rewrite that is not allowed or
\* empty continues, one that repeats the query stops.
DecideByModel ==
    /\ AskAt("model")
    /\ Call("ok")
    /\ \/ \E kind \in {"stop", "continue"} : Decide(ClampAtMaxRounds(kind), Question)
       \/ /\ request.rewrite
          /\ \E next \in Rewrites :
                LET kind == IF next = query THEN "stop" ELSE "rewrite"
                IN  Decide(ClampAtMaxRounds(kind), next)
    /\ UNCHANGED <<request, followups, fetched, evidence, prompt, loopVars, followVars>>

\* The call fails, or (parsed) its reply names no decision: with FailOpen the
\* round is recorded and the loop left, without it the path returns the error.
DecisionFails ==
    /\ AskAt("model")
    /\ \E reply \in {"ok", "error", "over"} :
        /\ Call(reply)
        /\ IF request.failOpen
           THEN Decide("failed", Question)
           ELSE /\ Return(IF reply = "over" THEN "over" ELSE "error")
                /\ UNCHANGED <<decision, grading>>
    /\ UNCHANGED <<request, followups, fetched, evidence, prompt, loopVars, followVars>>

-----------------------------------------------------------------------------
\* Recording the round.

\* gradeRound, one packed hit at a time: its relevance, then its support.
GradeHit ==
    /\ AskAt("grade")
    /\ grading.todo > 0
    /\ \E relevance \in Gradings(used) : \E support \in Gradings(relevance[1]) :
        /\ used' = support[1]
        /\ grading' = [todo |-> grading.todo - 1,
                       best |-> IF relevance[2] > grading.best THEN relevance[2] ELSE grading.best,
                       sum  |-> grading.sum + relevance[2] + support[2]]
    /\ UNCHANGED <<request, pc, outcome, followups, fetched, evidence, prompt, decision>>
    /\ UNCHANGED <<loopVars, followVars>>

\* The mean of the hits' grades, 0 for a round without any.
Score ==
    IF request.grading /\ prompt.chunks # {}
    THEN grading.sum * (Scale \div Cardinality(prompt.chunks))
    ELSE 0

Recorded ==
    Append(rounds, [query |-> query, kind |-> decision.kind, next |-> decision.next,
                    relevance |-> grading.best, score |-> Score,
                    planned |-> Len(followups), cost |-> prompt.cost])

\* Mutation of PickBestRound: a later round wins a tie.
PickLatestBest(all) ==
    LET best[n \in DOMAIN all] ==
            IF n = 1 \/ all[n].score >= all[best[n - 1]].score THEN n ELSE best[n - 1]
    IN  best[Len(all)]

\* The round with the best score, the earliest of several.
PickBestRound(all) ==
    LET best[n \in DOMAIN all] ==
            IF n = 1 \/ all[n].score > all[best[n - 1]].score THEN n ELSE best[n - 1]
    IN  best[Len(all)]

\* Mutation of AdaptiveRound: the threshold is compared the wrong way round.
AdaptiveRoundInverted ==
    /\ decision.kind = "stop"
    /\ extra > 0
    /\ Index < MaxRounds
    /\ grading.best >= High

\* A stop over evidence below the threshold is overruled, once.
AdaptiveRound ==
    /\ decision.kind = "stop"
    /\ extra > 0
    /\ Index < MaxRounds
    /\ grading.best < High

\* The loop goes on to another round.
RunsOn ==
    /\ decision.kind \in {"continue", "rewrite"} \/ AdaptiveRound
    /\ Index < MaxRounds

RecordVars == <<request, used, followups, fetched, evidence, prompt, grading, followVars>>

NextRound ==
    /\ AskAt("grade")
    /\ grading.todo = 0
    /\ RunsOn
    /\ rounds' = Recorded
    /\ previous' = {prompt.chunks}
    /\ extra' = IF AdaptiveRound THEN extra - 1 ELSE extra
    /\ query' = IF decision.kind = "rewrite" THEN decision.next ELSE Question
    /\ decision' = Undecided
    /\ Goto("start")
    /\ UNCHANGED <<RecordVars, adopted>>

Finish ==
    /\ AskAt("grade")
    /\ grading.todo = 0
    /\ ~RunsOn
    /\ rounds' = Recorded
    /\ adopted' = IF request.best THEN PickBestRound(rounds') ELSE Len(rounds')
    /\ Return("answer")
    /\ UNCHANGED <<RecordVars, previous, extra, query, decision>>

AskNext ==
    \/ Retrieve \/ RetrieveFails
    \/ PreGrade \/ Plan \/ Union
    \/ \E i \in DOMAIN followups : StartFollowup(i) \/ EndFollowup(i)
    \/ Draft \/ DraftFails
    \/ DecideByRule \/ StopForUnchangedEvidence \/ DecideByModel \/ DecisionFails
    \/ GradeHit \/ NextRound \/ Finish
=============================================================================
