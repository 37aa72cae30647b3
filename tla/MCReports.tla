------------------------------ MODULE MCReports ------------------------------
(***************************************************************************)
(* Instances of CommunityReports: one document whose revisions give the    *)
(* graphs {a}, {a, b, ab} and {a, b}, and a detector that finds connected  *)
(* components.                                                             *)
(***************************************************************************)
EXTENDS CommunityReports, TLC

CONSTANTS d1, s1, c10, a, b, ab, v1, v2, v3

MCEnds     == [r \in {ab} |-> {a, b}]
MCSourceOf == d1 :> s1
MCDocOf    == c10 :> d1
MCPosition == c10 :> 0
MCSplit    == d1 :> [v \in {v1, v2, v3} |-> {c10}]
MCExtracted ==
    v1 :> (c10 :> {a}) @@ v2 :> (c10 :> {a, b, ab}) @@ v3 :> (c10 :> {a, b})

Callers == Permutations(Caller)

\* Level 0 has the components, level 1 one community of everything when there
\* are several components (only level 0 lists relations).
MCDetect(g) ==
    LET Lowest(S) == IF a \in S THEN a ELSE b
        Level0 == CASE ab \in Relations(g) -> {Entities(g) \cup {ab}}
                    [] OTHER               -> {{e} : e \in Entities(g)}
        Level1 == IF Cardinality(Level0) > 1 THEN {Entities(g)} ELSE {}
    IN  {[level |-> 0, lowest |-> Lowest(S), members |-> S] : S \in Level0}
        \cup {[level |-> 1, lowest |-> Lowest(S), members |-> S] : S \in Level1}

\* A detector of one level, so that AskGlobal has several communities to walk.
MCDetectFlat(g) == {c \in MCDetect(g) : c.level = 0}
=============================================================================
