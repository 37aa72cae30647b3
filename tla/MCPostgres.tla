------------------------------ MODULE MCPostgres ------------------------------
(***************************************************************************)
(* An instance of PostgresStore: two entities and their relation, stated   *)
(* by two chunks, one of which can move to another source.                 *)
(***************************************************************************)
EXTENDS PostgresStore, TLC

CONSTANTS c1, c2, a, b, ab, k1, k2, s1, s2

MCEnds == ab :> {a, b}

States(chunk, what) == Canonicalize(chunk :> what)
ChunkRow(s) == [ns |-> "n", source |-> s]

UpsertsGraph ==
    {[op |-> "UpsertGraph", graph |-> g] :
        g \in {States(c1, {a}), States(c1, {a, b, ab}), States(c2, {a, b, ab})}}

RemovesGraph == {[op |-> "RemoveGraphBySource", chunks |-> {c1}]}

WritesChunks ==
    {[op |-> "Upsert", rows |-> f] :
        f \in {c1 :> ChunkRow(s1) @@ c2 :> ChunkRow(s2), c2 :> ChunkRow(s1)}}
    \cup {[op |-> "RemoveByFilter", match |-> ChunkRow(s1)]}

ReplacesCommunities ==
    {[op |-> "UpsertCommunities", ids |-> K] : K \in {{k1}, {k1, k2}}}

ReadsGraph ==
    {[op |-> "GraphSnapshot"], [op |-> "Neighborhood", seeds |-> {a}, hops |-> 1]}

MCCalls == UpsertsGraph \cup RemovesGraph \cup WritesChunks \cup ReplacesCommunities \cup ReadsGraph

Clients == Permutations(Client)
=============================================================================
