---------------------------- MODULE StoreContract ----------------------------
(***************************************************************************)
(* What the writing calls of a store promise their callers: a call takes   *)
(* effect at one moment, as a whole or not at all.  What it does then is   *)
(* what the in-memory store does under its lock.                           *)
(*                                                                         *)
(* One latitude: a call that takes something away - RemoveGraphBySource,   *)
(* RemoveByFilter, the replacement of the communities - may miss what      *)
(* another call wrote while it was running.                                *)
(***************************************************************************)
EXTENDS GraphStore

CONSTANTS
    Client,         \* concurrent callers
    Calls,          \* the calls they make
    CommunityId,
    NoCall,
    Absent          \* no chunk, or no community, has this ID

VARIABLES
    graph,          \* entities and relations of the namespace
    chunks,         \* chunks[c] is the stored chunk [ns, source], or Absent
    communities,    \* communities[k] is the set its call stored it with, or Absent
    pending,        \* pending[p]: the call p is in
    late            \* late[p]: what others wrote since p's call began

contractVars == <<graph, chunks, communities, pending, late>>

ContractInit ==
    /\ graph = EmptyGraph
    /\ chunks = [c \in Chunk |-> Absent]
    /\ communities = [k \in CommunityId |-> Absent]
    /\ pending = [p \in Client |-> NoCall]
    /\ late = [p \in Client |-> {}]

Begin(p, call) ==
    /\ pending[p] = NoCall
    /\ pending' = [pending EXCEPT ![p] = call]
    /\ late' = [late EXCEPT ![p] = {}]
    /\ UNCHANGED <<graph, chunks, communities>>

\* What a call leaves of the graph, the chunks and the communities if it
\* misses the elements, chunks and communities of missed.
GraphAfter(call, missed) ==
    CASE call.op = "UpsertGraph" -> UpsertGraph(graph, call.graph)
      [] call.op = "RemoveGraphBySource" ->
           LET rest == RemoveGraphBySource(graph, call.chunks)
           IN  [prov   |-> [x \in Element |-> IF x \in missed THEN graph.prov[x] ELSE rest.prov[x]],
                weight |-> [r \in Relation |-> IF r \in missed THEN graph.weight[r] ELSE rest.weight[r]]]
      [] OTHER -> graph

ChunksAfter(call, missed) ==
    CASE call.op = "Upsert" -> [c \in Chunk |-> IF c \in DOMAIN call.rows THEN call.rows[c] ELSE chunks[c]]
      [] call.op = "RemoveByFilter" ->
           [c \in Chunk |-> IF chunks[c] = call.match /\ c \notin missed THEN Absent ELSE chunks[c]]
      [] OTHER -> chunks

CommunitiesAfter(call, missed) ==
    IF call.op = "UpsertCommunities"
    THEN [k \in CommunityId |-> IF k \in call.ids THEN call.ids
                                ELSE IF k \in missed THEN communities[k] ELSE Absent]
    ELSE communities

\* What a call writes, as opposed to takes away.
Writes(call) ==
    CASE call.op = "UpsertGraph"       -> {x \in Element : call.graph.prov[x] # {}}
      [] call.op = "Upsert"            -> DOMAIN call.rows
      [] call.op = "UpsertCommunities" -> call.ids
      [] OTHER                         -> {}

Apply(p) ==
    /\ pending[p] # NoCall
    /\ \E missed \in SUBSET late[p] :
          /\ graph' = GraphAfter(pending[p], missed)
          /\ chunks' = ChunksAfter(pending[p], missed)
          /\ communities' = CommunitiesAfter(pending[p], missed)
    /\ pending' = [pending EXCEPT ![p] = NoCall]
    /\ late' = [q \in Client |-> IF q = p THEN {} ELSE late[q] \cup Writes(pending[p])]

\* An error, and nothing has happened.
Refuse(p) ==
    /\ pending[p] # NoCall
    /\ pending' = [pending EXCEPT ![p] = NoCall]
    /\ late' = [late EXCEPT ![p] = {}]
    /\ UNCHANGED <<graph, chunks, communities>>

ContractNext ==
    \E p \in Client : Apply(p) \/ Refuse(p) \/ \E call \in Calls : Begin(p, call)

ContractSpec == ContractInit /\ [][ContractNext]_contractVars
=============================================================================
