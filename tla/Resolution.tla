----------------------------- MODULE Resolution -----------------------------
(***************************************************************************)
(* EmbeddingEntityResolver (graph/resolve.go), the pass of an import that  *)
(* gives near-duplicate entities one name before they are canonicalized.   *)
(*                                                                         *)
(* A name is a number, in lexical order; what the resolver computes from   *)
(* it is its length, and from the embeddings of two names whether they are *)
(* alike.  A type is a number, in the order of the IDs that begin with it. *)
(* Where a relation ends is for Canonicalize (graph/canonicalize.go) to    *)
(* say, which takes a name in its normal form.                             *)
(***************************************************************************)
EXTENDS Naturals, Sequences, SequencesExt, FiniteSetsExt, Sorting

CONSTANTS
    ResolveInputs,  \* [entities, relations, alike], see ResolveAssumption
    NameLength,     \* NameLength[n]: how long the name n is
    NormalName      \* NormalName[n]: the normal form of n, which is not empty

Name == DOMAIN NameLength

ASSUME ResolveAssumption ==
    /\ Name \subseteq Nat /\ NameLength \in [Name -> Nat]
    /\ DOMAIN NormalName = Name
    /\ \A b \in ResolveInputs :
        /\ b.entities \in Seq([name : Name, type : Nat])
        /\ \A i \in DOMAIN b.relations :    \* [source, target], by name
              {b.relations[i].source, b.relations[i].target} \subseteq Name
        \* Pairs of names whose cosine similarity is Threshold or more.
        /\ \A p \in b.alike : <<p[2], p[1]>> \in b.alike

VARIABLES
    batch,      \* what is resolved
    resolver,   \* "idle", "embed", "compare", "done", "failed"
    order,      \* its entities in the order they are compared
    embedded,   \* names in vecByName
    pair,       \* places in the order of the next two entities to compare
    parent,     \* parent[i]: of the entity i, in the forest of clusters
    resolved    \* [entities, relations] with their new names

resolveVars == <<batch, resolver, order, embedded, pair, parent, resolved>>

Nothing == [entities |-> <<>>, relations |-> <<>>]

ResolveInit ==
    /\ batch = [entities |-> <<>>, relations |-> <<>>, alike |-> {}]
    /\ resolver = "idle"
    /\ order = <<>>
    /\ embedded = {}
    /\ pair = <<1, 2>>
    /\ parent = <<>>
    /\ resolved = Nothing

Named(i) == batch.entities[i].name

\* The entities sorted by name, those of one name as they came.
Sorted(entities) ==
    InOrder(DOMAIN entities, LAMBDA i, j : \/ entities[i].name < entities[j].name
                                           \/ entities[i].name = entities[j].name /\ i < j)

\* A resolver without an Embedder fails at once, one without entities has
\* nothing to do.
Resolve ==
    /\ resolver = "idle"
    /\ \E b \in ResolveInputs :
          /\ batch' = b
          /\ order' = Sorted(b.entities)
          /\ parent' = [i \in DOMAIN b.entities |-> i]
          /\ \/ resolver' = "failed" /\ UNCHANGED resolved
             \/ b.entities # <<>> /\ resolver' = "embed" /\ UNCHANGED resolved
             \/ /\ b.entities = <<>> /\ resolver' = "done"
                /\ resolved' = [entities |-> <<>>, relations |-> b.relations]
    /\ UNCHANGED <<embedded, pair>>

\* Each distinct name is embedded once, in order; an error ends it all.
EmbedName ==
    /\ resolver = "embed"
    /\ LET left == SelectSeq(order, LAMBDA i : Named(i) \notin embedded)
       IN  IF left = <<>> THEN resolver' = "compare" /\ UNCHANGED embedded
           ELSE \/ embedded' = embedded \cup {Named(left[1])} /\ UNCHANGED resolver
                \/ resolver' = "failed" /\ UNCHANGED embedded
    /\ UNCHANGED <<batch, order, pair, parent, resolved>>

-----------------------------------------------------------------------------
\* The way up from x ends at its root; of its elements every other one, x the
\* first, is hung under its grandparent.
Root(forest, x) ==
    LET root[y \in DOMAIN forest] == IF forest[y] = y THEN y ELSE root[forest[y]]
    IN  root[x]

Halved(forest, x) ==
    LET passed[y \in DOMAIN forest] ==
            {y} \cup (IF forest[y] = y THEN {} ELSE passed[forest[forest[y]]])
    IN  [y \in DOMAIN forest |-> IF y \in passed[x] THEN forest[forest[y]] ELSE forest[y]]

\* Mutation of Union: an element is hung under another, whatever its root.
UnionOfElements(a, b) ==
    IF a < b THEN [parent EXCEPT ![b] = a] ELSE [parent EXCEPT ![a] = b]

\* Both ways are halved, and the lower root stays one.
Union(a, b) ==
    LET roots == {Root(parent, a), Root(parent, b)}
    IN  [Halved(Halved(parent, a), b) EXCEPT ![Max(roots)] = Min(roots)]

Duplicates(i, j) ==
    /\ batch.entities[i].type = batch.entities[j].type
    /\ Named(i) = Named(j) \/ <<Named(i), Named(j)>> \in batch.alike

NextPair == IF pair[2] < Len(order) THEN <<pair[1], pair[2] + 1>> ELSE <<pair[1] + 1, pair[1] + 2>>

ComparePair ==
    /\ resolver = "compare" /\ pair[1] < Len(order)
    /\ LET i == order[pair[1]]
           j == order[pair[2]]
       IN  parent' = IF Duplicates(i, j) THEN Union(i, j) ELSE parent
    /\ pair' = NextPair
    /\ UNCHANGED <<batch, order, resolver, embedded, resolved>>

-----------------------------------------------------------------------------
\* betterCanonical: the longer name, of equally long ones the lower.
BetterCanonical(m, n) ==
    \/ NameLength[m] > NameLength[n]
    \/ NameLength[m] = NameLength[n] /\ m < n

Canonical(names) == CHOOSE n \in names : \A m \in names \ {n} : BetterCanonical(n, m)

\* The canonical name of the cluster of the last entity in order of that name:
\* the map knows names and no types.
Rewrite(name) ==
    LET last == SelectLastInSeq(order, LAMBDA i : Named(i) = name)
    IN  Canonical({Named(i) : i \in {j \in DOMAIN parent : Root(parent, j) = Root(parent, order[last])}})

Names(entities) == {entities[i].name : i \in DOMAIN entities}

\* Mutation of RewriteEndpoint: the relations are left as they are.
LeaveEndpoint(name) == name

RewriteEndpoint(name) == IF name \in Names(batch.entities) THEN Rewrite(name) ELSE name

RewriteNames ==
    /\ resolver = "compare" /\ pair[1] >= Len(order)
    /\ resolved' =
          [entities  |-> [i \in DOMAIN batch.entities |->
                            [batch.entities[i] EXCEPT !.name = Rewrite(@)]],
           relations |-> [i \in DOMAIN batch.relations |->
                            [source |-> RewriteEndpoint(batch.relations[i].source),
                             target |-> RewriteEndpoint(batch.relations[i].target)]]]
    /\ resolver' = "done"
    /\ UNCHANGED <<batch, order, embedded, pair, parent>>

ResolveStep == EmbedName \/ ComparePair \/ RewriteNames

-----------------------------------------------------------------------------
\* Canonicalize makes one node of the entities of a type whose names have one
\* normal form.  An endpoint goes to the node that bears its name, of several
\* types the highest, and with none its relation is dropped.
NodeOf(entity) == <<entity.type, NormalName[entity.name]>>

Bearers(entities, name) ==
    {i \in DOMAIN entities : NormalName[entities[i].name] = NormalName[name]}

Lookup(entities, name) ==
    <<Max({entities[i].type : i \in Bearers(entities, name)}), NormalName[name]>>

-----------------------------------------------------------------------------
(***************************************************************************)
(* Properties.                                                             *)
(***************************************************************************)
\* The entities that a chain of duplicates of one type joins to i: they are in
\* every set that holds i and with an entity all its duplicates.
Chained(i) ==
    LET all       == DOMAIN batch.entities
        Closed(S) == \A j \in S, k \in all : Duplicates(j, k) => k \in S
    IN  {j \in all : \A S \in SUBSET all : i \in S /\ Closed(S) => j \in S}

\* Of the entities of a name, of whatever type, the one that came last.
LastNamed(name) == Max({i \in DOMAIN batch.entities : Named(i) = name})

\* All that a chain of duplicates joins get the best of their names, and nothing
\* else gets it.  Entities of one name keep one name; where they are of several
\* types, the chain of the one that came last decides for them all.
ChainsShareAName ==
    \A i \in DOMAIN batch.entities :
        resolved.entities[i].name = Canonical({Named(j) : j \in Chained(LastNamed(Named(i)))})

\* No two types share a name, in whatever spelling.
TypesShareNoName ==
    \A i, j \in DOMAIN batch.entities :
        NormalName[Named(i)] = NormalName[Named(j)] => batch.entities[i].type = batch.entities[j].type

\* An endpoint in the spelling of an entity is found by Canonicalize also after
\* the names have changed, and if no two types share a name, it is found to be the
\* node that just this entity has become.  One that named nothing names nothing.
EndpointsFollow ==
    \A i \in DOMAIN batch.relations, end \in {"source", "target"} :
        LET before == batch.relations[i][end]
            after  == resolved.relations[i][end]
        IN  /\ \A j \in DOMAIN batch.entities : Named(j) = before =>
                  /\ Bearers(resolved.entities, after) # {}
                  /\ TypesShareNoName =>
                        Lookup(resolved.entities, after) = NodeOf(resolved.entities[j])
            /\ Bearers(batch.entities, before) = {} => Bearers(resolved.entities, after) = {}

\* What Resolve promises (graph/resolve.go:44), in whatever order the entities come
\* and are compared: duplicates get one name, and what Canonicalize makes of the
\* relations follows what it makes of their entities.  Of an endpoint spelled like
\* no entity and yet found by its normal form, nothing is said: Resolve leaves it
\* alone, and its entity may be renamed under it.
ResolutionIsFaithful == resolver = "done" => ChainsShareAName /\ EndpointsFollow
=============================================================================
