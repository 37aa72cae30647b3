---------------------------- MODULE PostgresStore ----------------------------
(***************************************************************************)
(* postgres.Store: the writing operations of the PostgreSQL store as       *)
(* transactions of several statements, and the database they run in.       *)
(*                                                                         *)
(* The database is modelled by what READ COMMITTED gives the statements.   *)
(* A scanning UPDATE or DELETE fixes the rows it will visit when it        *)
(* starts; it visits them one by one, waits for a row another transaction  *)
(* wrote, and then acts on that row's latest version; rows that appear     *)
(* meanwhile are not visited, nor those that were deleted.  An INSERT      *)
(* waits for and meets whatever row has its key.  A written row is locked  *)
(* until its transaction ends.                                             *)
(***************************************************************************)
EXTENDS GraphStore, Sequences

CONSTANTS
    Client,         \* concurrent callers
    Calls,          \* the calls they make
    CommunityId,
    NoCall,
    Absent,         \* no row has this key
    Faults,         \* whether a transaction may fail at any moment
    MaxCalls        \* bound: how many calls are made

\* The arguments callers pass: a graph gives no weight to a relation it does
\* not attribute to a chunk.
WellFormed(c) ==
    \/ /\ c.op = "UpsertGraph"
       /\ c.graph \in NsGraph
       /\ \A r \in Relation : c.graph.prov[r] = {} => c.graph.weight[r] = 0
    \/ c.op = "RemoveGraphBySource" /\ c.chunks \subseteq Chunk
    \/ c.op = "Upsert" /\ DOMAIN c.rows \subseteq Chunk /\ \A x \in DOMAIN c.rows : c.rows[x] # Absent
    \/ c.op = "RemoveByFilter" /\ c.match # Absent
    \/ c.op = "UpsertCommunities" /\ c.ids \subseteq CommunityId /\ c.ids # Absent
    \/ c.op \in {"GraphSnapshot", "Neighborhood"}

ASSUME PostgresAssumption ==
    /\ Faults \in BOOLEAN
    /\ MaxCalls \in Nat
    /\ Element \cap Chunk = {}                      \* a row is in one table
    /\ CommunityId \cap (Element \cup Chunk) = {}
    /\ NoCall \notin Calls
    /\ \A c \in Calls : WellFormed(c)
    /\ Absent \notin [prov : SUBSET Chunk, weight : Nat]

\* A chunk that states a relation states its endpoints.  The dictionary extractor
\* gives such graphs; a language model's answers need not be of this kind.
CoveringCalls == \A c \in Calls : c.op = "UpsertGraph" => CoversRelations(c.graph)

\* The keys of the four tables.
Key == Element \cup Chunk \cup CommunityId

VARIABLES
    db,         \* db[x]: the committed row, or Absent
    mine,       \* mine[p]: the rows p's transaction wrote and holds locked
    deleted,    \* deleted[p]: the rows p's transaction deleted
    call,       \* call[p]: the operation p is in
    todo,       \* todo[p]: the statements of its transaction that are left
    visiting,   \* visiting[p]: the rows the current statement has yet to visit
    calls,      \* how many calls were made
    seen,       \* seen[p]: what p's queries reached and returned so far
    late        \* observes: what others committed since p's call began

vars == <<db, mine, deleted, call, todo, visiting, calls, seen, late>>

NoRows == <<>>
Unread == [reached |-> Entity, got |-> {}]

Init ==
    /\ db = [x \in Key |-> Absent]
    /\ mine = [p \in Client |-> NoRows]
    /\ deleted = [p \in Client |-> {}]
    /\ call = [p \in Client |-> NoCall]
    /\ todo = [p \in Client |-> <<>>]
    /\ visiting = [p \in Client |-> {}]
    /\ calls = 0
    /\ seen = [p \in Client |-> Unread]
    /\ late = [p \in Client |-> {}]

-----------------------------------------------------------------------------
(***************************************************************************)
(* The statements.                                                         *)
(***************************************************************************)
Statement(verb, table) == [verb |-> verb, table |-> table]

UpsertGraphStatements ==
    <<Statement("merge", Entity), Statement("merge", Relation)>>

\* Mutation of RemoveGraphStatements: the relations first.
RemoveGraphRelationsFirst ==
    <<Statement("strip", Relation), Statement("collect", Relation),
      Statement("strip", Entity), Statement("collect", Entity)>>

RemoveGraphStatements ==
    <<Statement("strip", Entity), Statement("collect", Entity),
      Statement("strip", Relation), Statement("collect", Relation)>>

UpsertCommunitiesStatements ==
    <<Statement("delete", CommunityId), Statement("insert", CommunityId)>>

\* Mutation of GraphSnapshotStatements: the relations first.
GraphSnapshotRelationsFirst ==
    <<Statement("read", Relation), Statement("read", Entity)>>

GraphSnapshotStatements ==
    <<Statement("read", Entity), Statement("read", Relation)>>

NeighborhoodStatements ==
    <<Statement("walk", Entity), Statement("read", Entity), Statement("read", Relation)>>

Statements(c) ==
    CASE c.op = "UpsertGraph"         -> UpsertGraphStatements
      [] c.op = "RemoveGraphBySource" -> RemoveGraphStatements
      [] c.op = "Upsert"              -> <<Statement("write", Chunk)>>
      [] c.op = "RemoveByFilter"      -> <<Statement("delete", Chunk)>>
      [] c.op = "UpsertCommunities"   -> UpsertCommunitiesStatements
      [] c.op = "GraphSnapshot"       -> GraphSnapshotStatements
      [] c.op = "Neighborhood"        -> NeighborhoodStatements

Reads == {"read", "walk"}
Scans == {"strip", "collect", "delete"}

\* The row a call brings for a key.
Brought(c, x) ==
    CASE c.op = "UpsertGraph" /\ x \in Element /\ c.graph.prov[x] # {} ->
           [prov |-> c.graph.prov[x], weight |-> IF x \in Relation THEN c.graph.weight[x] ELSE 0]
      [] c.op = "Upsert" /\ x \in DOMAIN c.rows -> c.rows[x]
      [] c.op = "UpsertCommunities" /\ x \in c.ids -> c.ids
      [] OTHER -> Absent

\* The WHERE clause of a scanning statement.
Where(verb, c, row) ==
    /\ row # Absent
    /\ verb = "collect" => row.prov = {}
    /\ c.op = "RemoveByFilter" => row = c.match

\* What a statement makes of a row that is not there.
Inserted(c, x) == Brought(c, x)

\* Mutation of Merged: ON CONFLICT takes over the new provenance.
MergedOverwrites(row, new) == [prov |-> new.prov, weight |-> row.weight + new.weight]

\* ON CONFLICT DO UPDATE of entities and relations.
Merged(row, new) == [prov |-> row.prov \cup new.prov, weight |-> row.weight + new.weight]

Visited(verb, c, x, row) ==
    CASE verb = "merge" -> IF row = Absent THEN Inserted(c, x) ELSE Merged(row, Brought(c, x))
      [] verb \in {"write", "insert"} -> Brought(c, x)
      [] verb \in Scans -> IF ~Where(verb, c, row) THEN row
                           ELSE IF verb = "strip" THEN [row EXCEPT !.prov = @ \ c.chunks]
                           ELSE Absent

\* The entities within some hops of the stored seeds.
Stored(table) == {x \in table : db[x] # Absent}

Neighbours(S) == S \cup UNION {Ends[r] : r \in {q \in Stored(Relation) : Ends[q] \cap S # {}}}

Walk(seeds, hops) ==
    LET S == seeds \cap Stored(Entity)
    IN  CASE hops = 0 -> S
          [] hops = 1 -> Neighbours(S)
          [] OTHER    -> Neighbours(Neighbours(S))

\* What a query leaves a reader with.  Neighborhood asks for the entities its
\* walk reached, then for the relations among them; GraphSnapshot for all.
Among(x, ids) == IF x \in Relation THEN Ends[x] \subseteq ids ELSE x \in ids

Read(p, statement) ==
    IF statement.verb = "walk"
    THEN [seen[p] EXCEPT !.reached = Walk(call[p].seeds, call[p].hops)]
    ELSE [seen[p] EXCEPT !.got = @ \cup {x \in Stored(statement.table) : Among(x, seen[p].reached)}]

-----------------------------------------------------------------------------
(***************************************************************************)
(* Transactions.                                                           *)
(***************************************************************************)
Sees(p, x) == IF x \in DOMAIN mine[p] THEN mine[p][x] ELSE db[x]
Locked(p, x) == \E q \in Client \ {p} : x \in DOMAIN mine[q]

\* The rows a transaction wrote, and this one.
With(rows, x, row) == [y \in DOMAIN rows \cup {x} |-> IF y = x THEN row ELSE rows[y]]

Begin(p, c) ==
    /\ call[p] = NoCall
    /\ calls < MaxCalls
    /\ call' = [call EXCEPT ![p] = c]
    /\ todo' = [todo EXCEPT ![p] = <<Statement("begin", {})>> \o Statements(c)]
    /\ calls' = calls + 1
    /\ late' = [late EXCEPT ![p] = {}]
    /\ UNCHANGED <<db, mine, deleted, visiting, seen>>

\* The current statement is done and the next one starts.
Execute(p) ==
    /\ call[p] # NoCall
    /\ visiting[p] = {}
    /\ Len(todo[p]) > 1
    /\ LET next == todo[p][2]
           targets == {x \in next.table : IF next.verb \in Scans
                                          THEN Where(next.verb, call[p], Sees(p, x))
                                          ELSE Brought(call[p], x) # Absent}
       IN  IF next.verb \in Reads
           THEN seen' = [seen EXCEPT ![p] = Read(p, next)] /\ UNCHANGED visiting
           ELSE visiting' = [visiting EXCEPT ![p] = targets] /\ UNCHANGED seen
    /\ todo' = [todo EXCEPT ![p] = Tail(@)]
    /\ UNCHANGED <<db, mine, deleted, call, calls, late>>

\* It visits one of its rows.  An INSERT without ON CONFLICT fails on a row
\* that is there.
Visit(p, x) ==
    /\ x \in visiting[p]
    /\ ~Locked(p, x)
    /\ LET verb == Head(todo[p]).verb
           row  == Visited(verb, call[p], x, Sees(p, x))
       IN  /\ ~(verb = "insert" /\ Sees(p, x) # Absent)
           /\ mine' = [mine EXCEPT ![p] = With(@, x, row)]
           /\ deleted' = [deleted EXCEPT ![p] = IF row = Absent THEN @ \cup {x} ELSE @]
    /\ visiting' = [visiting EXCEPT ![p] = @ \ {x}]
    /\ UNCHANGED <<db, call, todo, calls, seen, late>>

End(p) ==
    /\ call' = [call EXCEPT ![p] = NoCall]
    /\ todo' = [todo EXCEPT ![p] = <<>>]
    /\ mine' = [mine EXCEPT ![p] = NoRows]
    /\ deleted' = [deleted EXCEPT ![p] = {}]
    /\ seen' = [seen EXCEPT ![p] = Unread]
    /\ UNCHANGED calls

Commit(p) ==
    /\ call[p] # NoCall
    /\ visiting[p] = {}
    /\ Len(todo[p]) = 1
    /\ db' = [x \in Key |-> Sees(p, x)]
    /\ visiting' = [q \in Client |->
                       IF todo[q] # <<>> /\ Head(todo[q]).verb \in Scans
                       THEN visiting[q] \ deleted[p] ELSE visiting[q]]
    /\ late' = [q \in Client |->
                   IF q = p THEN {}
                   ELSE late[q] \cup {x \in DOMAIN mine[p] : Brought(call[p], x) # Absent}]
    /\ End(p)

\* Mutation of RolledBack: the transaction is left open after an error.
LeftOpen(p) ==
    /\ call' = [call EXCEPT ![p] = NoCall]
    /\ todo' = [todo EXCEPT ![p] = <<>>]
    /\ visiting' = [visiting EXCEPT ![p] = {}]
    /\ late' = [late EXCEPT ![p] = {}]
    /\ UNCHANGED <<db, mine, deleted, calls, seen>>

\* The transaction is rolled back: an error, a lost connection, a violated
\* key, or this transaction is the one the database ends to break a deadlock.
RolledBack(p) ==
    /\ visiting' = [visiting EXCEPT ![p] = {}]
    /\ late' = [late EXCEPT ![p] = {}]
    /\ End(p)
    /\ UNCHANGED db

Fail(p) == Faults /\ call[p] # NoCall /\ RolledBack(p)

KeyViolated(p) ==
    /\ todo[p] # <<>> /\ Head(todo[p]).verb = "insert"
    /\ \E x \in visiting[p] : ~Locked(p, x) /\ Sees(p, x) # Absent
    /\ RolledBack(p)

\* All p's statement has left to visit is locked, by q among others.
WaitsFor(p, q) ==
    /\ visiting[p] # {} /\ \A x \in visiting[p] : Locked(p, x)
    /\ p # q /\ visiting[p] \cap DOMAIN mine[q] # {}

DeadlockBroken(p) ==
    /\ \E S \in SUBSET Client : p \in S /\ \A q \in S : \E r \in S : WaitsFor(q, r)
    /\ RolledBack(p)

Transaction(p) ==
    \/ Execute(p)
    \/ \E x \in Key : Visit(p, x)
    \/ Commit(p)
    \/ KeyViolated(p)
    \/ DeadlockBroken(p)

Next ==
    \E p \in Client : Transaction(p) \/ Fail(p) \/ \E c \in Calls : Begin(p, c)

Spec == Init /\ [][Next]_vars

\* The database runs every statement that waits for nothing, and breaks
\* deadlocks; the client sends its next statement when one returns.
FairSpec == Spec /\ \A p \in Client : WF_vars(Transaction(p))

-----------------------------------------------------------------------------
(***************************************************************************)
(* Properties.                                                             *)
(***************************************************************************)
CommittedGraph ==
    [prov   |-> [x \in Element  |-> IF db[x] = Absent THEN {} ELSE db[x].prov],
     weight |-> [r \in Relation |-> IF db[r] = Absent THEN 0 ELSE db[r].weight]]

\* However transactions interleave, fail or deadlock, no committed relation
\* is left without an endpoint: a removal may miss entities that an upsert
\* adds meanwhile, and must then miss their relations or find both.
NoCommittedRelationDangles == CoversRelations(CommittedGraph)

\* The transactions keep the contract of the in-memory store's calls: all of
\* a call or nothing of it, and nothing of another call's is lost.
Contract == INSTANCE StoreContract WITH
    graph       <- CommittedGraph,
    chunks      <- [c \in Chunk |-> db[c]],
    communities <- [k \in CommunityId |-> db[k]],
    pending     <- call
StoreKeepsContract == Contract!ContractSpec

\* GraphSnapshot and Neighborhood query entities and relations one after the
\* other.  A relation they return without one of its endpoints is newer than
\* the entities they return: they never mix in what has already been removed.
ReadsErrForward ==
    \A p \in Client : \A r \in seen[p].got \cap Relation :
        (Len(todo[p]) = 1) => Ends[r] \subseteq seen[p].got \cup late[p]

\* Every call ends: a lock is never kept by a transaction that has ended.
CallsEnd == \A p \in Client : call[p] # NoCall ~> call[p] = NoCall
=============================================================================
