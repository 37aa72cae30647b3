------------------------------- MODULE Answers -------------------------------
(***************************************************************************)
(* A question to a System, by any of its answer paths, and what the paths  *)
(* promise.                                                                *)
(***************************************************************************)
EXTENDS Ask, Drift

vars == <<answeringVars, askVars, mapVars, driftVars>>

Init == AnsweringInit /\ AskInit /\ GlobalInit /\ DriftInit

Next ==
    \/ AskNext /\ UNCHANGED <<mapVars, driftVars>>
    \/ GlobalNext /\ UNCHANGED <<askVars, driftVars>>
    \/ DriftNext /\ UNCHANGED askVars

Spec == Init /\ [][Next]_vars

\* Every model, store and grader call returns, and the path runs on.
FairSpec == Spec /\ WF_vars(Next)

-----------------------------------------------------------------------------
Answered == outcome = "answer"
Reflected == request.path = "ask" /\ request.mode # "off"

Stops == {i \in DOMAIN rounds : rounds[i].kind = "stop"}

\* The rounds of an Ask are the ones its decisions called for: at most
\* MaxRounds; the last one was decided to stop, or its decision failed; an
\* earlier stop was overruled once, only under AdaptiveRetrieval, and there it
\* was unless its evidence graded above the threshold or no round was left; a
\* rewrite is the query of the next round and differs from the query it
\* rewrites, and every other round asks the question itself (rag/ask.go, the
\* loops).
RoundsFollowDecisions ==
    LET last == Len(rounds) IN
    /\ last <= MaxRounds
    /\ \A i \in 1..(last - 1) :
        /\ rounds[i].kind # "failed"
        /\ rounds[i].kind = "rewrite" =>
                rounds[i + 1].query = rounds[i].next /\ rounds[i].next # rounds[i].query
        /\ rounds[i].kind # "rewrite" => rounds[i + 1].query = Question
    /\ Cardinality(Stops \ {last}) <= IF request.adaptive /\ request.grading THEN 1 ELSE 0
    /\ Answered /\ Reflected =>
        /\ rounds[last].kind \in {"stop", "failed"}
        /\ request.adaptive /\ request.grading /\ last < MaxRounds =>
                rounds[last].relevance >= High \/ rounds[last].kind = "failed" \/ Stops # {last}

\* The adopted round is the last one, and with SelectionModeBestByScore the
\* earliest of those with the best score (pickBestRound).
AdoptedIsBest ==
    Answered /\ Reflected =>
        /\ adopted \in DOMAIN rounds
        /\ ~request.best => adopted = Len(rounds)
        /\ request.best => \A i \in DOMAIN rounds :
                /\ rounds[i].score <= rounds[adopted].score
                /\ i < adopted => rounds[i].score < rounds[adopted].score

\* planned[i] follow-ups were planned in the first i recorded rounds.
PlannedUpTo(planned) ==
    /\ planned[0] = 0
    /\ \A i \in DOMAIN rounds : planned[i] = planned[i - 1] + rounds[i].planned

\* No answer outspends its budgets.  The follow-ups planned over all recorded
\* rounds are counted in what the question has spent, and are all of it when it
\* is answered; they stay within the cap of the question, those of a round within
\* the cap of a round, and what is left and what was used always make up the cap
\* (runActiveRetrieval).  Under a token budget AskGlobal and AskDrift answer only
\* within it, every draft that an Ask may return was generated within it, an Ask
\* without reflection answers within it too, and BudgetExceededError is returned
\* only above it (countingModel.Generate).
BudgetsAreKept ==
    /\ spent <= PerAsk
    /\ ActiveEnabled => spent + remaining = PerAsk
    /\ \A i \in DOMAIN rounds : rounds[i].planned <= PerRound /\ ~Over(rounds[i].cost)
    /\ \E planned \in [0..Len(rounds) -> 0..spent] :
        /\ PlannedUpTo(planned)
        /\ Answered /\ Reflected => planned[Len(rounds)] = spent
    /\ Answered /\ ~Reflected => ~Over(used)
    /\ outcome = "over" => Over(used)

\* Every round of AskDrift starts from entities that no earlier round started
\* from, from one at least, and there are no more than driftMaxRounds
\* (driftLocalLoop).
SeedsNeverRevisited ==
    /\ Len(explored) <= MaxDriftRounds
    /\ \A i \in DOMAIN explored :
        /\ explored[i] # {}
        /\ \A j \in 1..(i - 1) : explored[i] \cap explored[j] = {}

\* The diagnostics that come with an answer or with BudgetExceededError name
\* exactly the communities whose map call completed (AskGlobal, driftPrimer).
PartialsAreComplete ==
    outcome \in {"answer", "over"} =>
        /\ Len(reported) = Len(partials)
        /\ reported = SubSeq(consulted, 1, Len(partials))

\* Every question is answered, or its error returned.
QuestionsEnd == <>(outcome # "none")

\* AskOptions.MaxTotalTokens: above it, after any successful call, Ask aborts.
AnswersStayWithinBudget == Answered => ~Over(used)
=============================================================================
