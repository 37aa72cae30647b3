-------------------------------- MODULE Drift --------------------------------
(***************************************************************************)
(* System.AskDrift: a primer over community reports seeds a loop over the  *)
(* graph, in which each round explores the neighborhood of entities that   *)
(* no earlier round started from, and a last call synthesizes the answer.  *)
(***************************************************************************)
EXTENDS GlobalSearch

CONSTANTS
    Nodes,          \* entities of the namespace
    MembersOf,      \* MembersOf[c]: the entities of a community
    DefaultRounds,  \* driftDefaultRounds
    MaxDriftRounds  \* driftMaxRounds

ASSUME DriftAssumption ==
    /\ MembersOf \in [ToSet(Communities) -> SUBSET Nodes]
    /\ DefaultRounds \in 1..MaxDriftRounds
    /\ MaxDriftRounds \in Nat

VARIABLES
    frontier,   \* seeds
    seen,       \* seen
    explored,   \* roundEntityIDs
    locals      \* number of local partial answers that are not blank

driftVars == <<frontier, seen, explored, locals>>

DriftInit == frontier = {} /\ seen = {} /\ explored = <<>> /\ locals = 0

DriftAt(place) == request.path = "drift" /\ pc = place

Rounds ==
    IF request.rounds <= 0 THEN DefaultRounds ELSE Least({request.rounds, MaxDriftRounds})

-----------------------------------------------------------------------------
\* The members of the communities with a score, or of all when they have none.
\* Without communities or without a graph there is nothing to explore.
Seed ==
    /\ \/ DriftAt("map") /\ selected = <<>>
       \/ DriftAt("seed")
    /\ LET Members(calls) == UNION {MembersOf[consulted[i]] : i \in calls}
       IN  frontier' = Members(IF Members(Scored) = {} THEN DOMAIN partials ELSE Scored)
    /\ seen' = frontier'
    /\ reported' = consulted
    /\ \E hasGraph \in BOOLEAN : Goto(IF hasGraph THEN "local" ELSE "synthesize")
    /\ UNCHANGED <<request, used, selected, consulted, partials, explored, locals>>

Exhausted == frontier = {} \/ Len(explored) >= Rounds

LeaveLoop ==
    /\ DriftAt("local")
    /\ Exhausted
    /\ Goto("synthesize")
    /\ UNCHANGED <<request, used, mapVars, driftVars>>

\* A round traverses, asks the model, and ends the loop when the model names
\* nothing; else the names are looked up next.
Explore ==
    /\ DriftAt("local")
    /\ ~Exhausted
    /\ explored' = Append(explored, frontier)
    /\ Call("ok")
    /\ locals' \in {locals, locals + 1}
    /\ \E followups \in BOOLEAN : Goto(IF followups THEN "lookup" ELSE "synthesize")
    /\ UNCHANGED <<request, mapVars, frontier, seen>>

\* The traversal, the packing or the model call fails.
ExploreFails ==
    /\ DriftAt("local")
    /\ ~Exhausted
    /\ explored' = Append(explored, frontier)
    /\ \E failure \in Failures : Call(failure) /\ Return(failure)
    /\ UNCHANGED <<request, mapVars, frontier, seen, locals>>

\* Mutation of Unseen: entities are not remembered.
AllFound(found) == found

Unseen(found) == found \ seen

\* Entities found again are dropped; with no new ones the loop ends.
Lookup ==
    /\ DriftAt("lookup")
    /\ \/ \E found \in SUBSET Nodes :
            /\ seen' = seen \cup found
            /\ IF Unseen(found) = {}
               THEN Goto("synthesize") /\ UNCHANGED frontier
               ELSE Goto("local") /\ frontier' = Unseen(found)
       \/ Return("error") /\ UNCHANGED <<frontier, seen>>
    /\ UNCHANGED <<request, used, mapVars, explored, locals>>

\* Blank texts and partials without a score are left out; when nothing is left
\* the answer is a fixed text.
Synthesize ==
    /\ DriftAt("synthesize")
    /\ \/ locals = 0 /\ Return("answer") /\ UNCHANGED used
       \/ /\ Scored # {} \/ locals > 0
          /\ \/ Call("ok") /\ Return("answer")
             \/ \E failure \in Failures : Call(failure) /\ Return(failure)
    /\ UNCHANGED <<request, mapVars, driftVars>>

DriftNext ==
    Seed \/ LeaveLoop \/ Explore \/ ExploreFails \/ Lookup \/ Synthesize
=============================================================================
