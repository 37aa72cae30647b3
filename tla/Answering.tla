------------------------------ MODULE Answering ------------------------------
(***************************************************************************)
(* What the three answer paths of a System share: the request, the place   *)
(* the path is at, the outcome, and the token budget that every counted    *)
(* model call is charged to.                                               *)
(*                                                                         *)
(* Tokens are counted only under a budget, and only as far as one above    *)
(* it: countingModel never asks how far above.                             *)
(***************************************************************************)
EXTENDS Integers, FiniteSets, SequencesExt

CONSTANTS
    Requests,   \* the requests considered, see Request
    Costs       \* tokens a call may cost

ASSUME CostsAssumption == Costs \subseteq Nat

\* path: Ask, AskGlobal or AskDrift.  limit: MaxTotalTokens, 0 for none.
\* expand: retrieval calls the model to expand the query.  reflection: the
\* ReflectionOptions that steer the loop.  rounds: DriftOptions.Rounds.
Request ==
    [path : {"ask", "global", "drift"}, limit : Nat, expand : BOOLEAN, rounds : Int,
     mode : {"off", "rule", "model", "hybrid"}, rewrite : BOOLEAN, failOpen : BOOLEAN,
     grading : BOOLEAN, adaptive : BOOLEAN, best : BOOLEAN, active : BOOLEAN,
     workers : Nat]

ASSUME RequestsAssumption == Requests \subseteq Request

VARIABLES
    request,    \* what was asked; constant
    pc,         \* where the path is
    used,       \* StageUsageAccumulator.TotalSoFar()
    outcome     \* "none" until it returns: "answer", "over" (BudgetExceededError), "error"

answeringVars == <<request, pc, used, outcome>>

AnsweringInit ==
    /\ request \in Requests
    /\ pc = "start"
    /\ used = 0
    /\ outcome = "none"

Goto(place) == pc' = place /\ UNCHANGED outcome

Return(what) == pc' = "done" /\ outcome' = what

-----------------------------------------------------------------------------
Least(S) == CHOOSE x \in S : \A y \in S : x <= y

Appended(total, c) ==
    IF request.limit = 0 THEN 0 ELSE Least({total + c, request.limit + 1})

Over(total) == request.limit > 0 /\ total > request.limit

\* One call of a counting model: the usage of a call that succeeds is appended,
\* then the total is compared; a call that fails costs nothing.
Replies(total) ==
    {<<total, "error">>} \cup
    {<<Appended(total, c), IF Over(Appended(total, c)) THEN "over" ELSE "ok">> : c \in Costs}

\* The call that happens, with its result.
Call(result) == \E reply \in Replies(used) : used' = reply[1] /\ result = reply[2]

Failures == {"error", "over"}
=============================================================================
