------------------------------ MODULE MCAnswers ------------------------------
(***************************************************************************)
(* Instances of Answers: the requests that are asked, each an option or a  *)
(* combination of options the code treats differently.                     *)
(***************************************************************************)
EXTENDS Answers

CONSTANTS h1, h2, k1, k2, n1, n2, n3, n4

Plain ==
    [path |-> "ask", limit |-> 0, expand |-> FALSE, rounds |-> 0, mode |-> "off",
     rewrite |-> FALSE, failOpen |-> FALSE, grading |-> FALSE, adaptive |-> FALSE,
     best |-> FALSE, active |-> FALSE, workers |-> 1]

Loops ==
    {[Plain EXCEPT !.mode = m, !.rewrite = TRUE, !.failOpen = f, !.limit = l] :
        m \in {"rule", "model", "hybrid"}, f \in BOOLEAN, l \in {0, 3}}

Graded ==
    {[Plain EXCEPT !.mode = "rule", !.grading = TRUE, !.adaptive = TRUE, !.best = TRUE],
     [Plain EXCEPT !.mode = "hybrid", !.grading = TRUE, !.adaptive = TRUE, !.failOpen = TRUE]}

Active ==
    {[Plain EXCEPT !.mode = "rule", !.active = TRUE, !.workers = w, !.expand = e, !.limit = l] :
        w \in {1, 2}, e \in BOOLEAN, l \in {0, 6}}

OtherPaths ==
    {[Plain EXCEPT !.path = p, !.limit = l, !.rounds = r] :
        p \in {"global", "drift"}, l \in {0, 1, 3}, r \in {0, 1, 10}}

MCRequests ==
    {Plain, [Plain EXCEPT !.expand = TRUE, !.limit = 1]}
    \cup Loops \cup Graded \cup Active \cup OtherPaths

\* Budgeted questions whose grader, planner or decision call may fail open.
MCBudgeted ==
    {[Plain EXCEPT !.mode = "rule", !.grading = TRUE, !.limit = 2],
     [Plain EXCEPT !.mode = "model", !.failOpen = TRUE, !.limit = 2]}

MCCommunities == <<k1, k2>>
MCMembers == [k \in {k1, k2} |-> IF k = k1 THEN {n1} ELSE {n1, n2}]
=============================================================================
