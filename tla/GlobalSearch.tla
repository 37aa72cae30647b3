---------------------------- MODULE GlobalSearch ----------------------------
(***************************************************************************)
(* System.AskGlobal after the reports are resolved (CommunityReports has   *)
(* that part): one model call maps each report to a scored partial answer, *)
(* one more reduces those with a score.  AskDrift's primer maps the same   *)
(* way.                                                                    *)
(***************************************************************************)
EXTENDS Answering

CONSTANTS
    Communities,    \* communities that may be selected, in the order of their IDs
    Scores          \* scores of the map step

ASSUME GlobalAssumption ==
    /\ Scores \subseteq Nat
    /\ Communities \in Seq(ToSet(Communities))
    /\ IsInjective(Communities)

VARIABLES
    selected,   \* reports still to map
    consulted,  \* communityIDs
    partials,   \* scores of the completed map calls, in order
    reported    \* community IDs in the diagnostics of what was returned

mapVars == <<selected, consulted, partials, reported>>

GlobalInit == selected = <<>> /\ consulted = <<>> /\ partials = <<>> /\ reported = <<>>

MapPath == request.path \in {"global", "drift"}

\* The ways to pick n communities, in the order of their IDs.
Picks(n) ==
    {at \in [1..n -> DOMAIN Communities] : \A i, j \in 1..n : i < j => at[i] < at[j]}

\* With no communities AskGlobal answers nothing; AskDrift goes on without.
SelectReports ==
    /\ MapPath
    /\ pc = "start"
    /\ \/ /\ Goto("map")
          /\ \E n \in 1..Len(Communities) : \E at \in Picks(n) :
                selected' = [i \in 1..n |-> Communities[at[i]]]
       \/ /\ IF request.path = "global" THEN Return("answer") ELSE Goto("seed")
          /\ UNCHANGED selected
    /\ UNCHANGED <<request, used, consulted, partials, reported>>

\* The store or the summarizer fails, before the first map call.
ReportsFail ==
    /\ MapPath
    /\ pc = "start"
    /\ Return("error")
    /\ UNCHANGED <<request, used, mapVars>>

MapReport ==
    /\ MapPath
    /\ pc = "map"
    /\ selected # <<>>
    /\ Call("ok")
    /\ consulted' = Append(consulted, Head(selected))
    /\ \E score \in Scores : partials' = Append(partials, score)
    /\ selected' = Tail(selected)
    /\ UNCHANGED <<request, pc, outcome, reported>>

\* Mutation of Completed: the community whose call failed is reported too.
AllConsulted(ids, n) == ids

\* Only communities whose call completed are reported.
Completed(ids, n) == SubSeq(ids, 1, n)

MapFails ==
    /\ MapPath
    /\ pc = "map"
    /\ selected # <<>>
    /\ consulted' = Append(consulted, Head(selected))
    /\ reported' = Completed(consulted', Len(partials))
    /\ \E failure \in Failures : Call(failure) /\ Return(failure)
    /\ UNCHANGED <<request, selected, partials>>

Scored == {i \in DOMAIN partials : partials[i] > 0}

\* With no scored partial the answer is a fixed text.
Reduce ==
    /\ request.path = "global"
    /\ pc = "map"
    /\ selected = <<>>
    /\ reported' = consulted
    /\ \/ Scored = {} /\ UNCHANGED used /\ Return("answer")
       \/ Scored # {} /\ Call("ok") /\ Return("answer")
       \/ Scored # {} /\ \E failure \in Failures : Call(failure) /\ Return(failure)
    /\ UNCHANGED <<request, selected, consulted, partials>>

GlobalNext == SelectReports \/ ReportsFail \/ MapReport \/ MapFails \/ Reduce
=============================================================================
