----------------------------- MODULE GraphStore -----------------------------
(***************************************************************************)
(* The knowledge graph one namespace keeps in a store.GraphStore, and the  *)
(* operations Import performs on it: Canonicalize, UpsertGraph and         *)
(* RemoveGraphBySource.                                                    *)
(*                                                                         *)
(* A node or an edge of the graph is an Element.  What the store keeps of  *)
(* it that its life cycle depends on is its provenance, the chunk IDs it   *)
(* was extracted from: an element exists exactly while its provenance is   *)
(* non-empty, because every extractor of the repository stamps the chunk   *)
(* ID and RemoveGraphBySource deletes an element whose list became empty.  *)
(* A relation also carries the weight that community detection reads.      *)
(* Names, types, descriptions and metadata are abstracted away.            *)
(***************************************************************************)
EXTENDS Naturals, FiniteSets

CONSTANTS
    Chunk,      \* chunk IDs ("docID:index", deterministic)
    Entity,     \* canonical entity IDs ("type:name")
    Relation,   \* canonical relation IDs ("source::label::target")
    Ends        \* Ends[r] is the set of endpoint entities of relation r

ASSUME GraphAssumption ==
    /\ IsFiniteSet(Chunk)
    /\ Entity \cap Relation = {}
    /\ Ends \in [Relation -> SUBSET Entity]

Element == Entity \cup Relation

NsGraph == [prov : [Element -> SUBSET Chunk], weight : [Relation -> Nat]]

EmptyGraph == [prov   |-> [x \in Element |-> {}],
               weight |-> [r \in Relation |-> 0]]

\* The entities and the relations a reader of the graph sees.
Entities(g)  == {e \in Entity : g.prov[e] # {}}
Relations(g) == {r \in Relation : g.prov[r] # {}}

-----------------------------------------------------------------------------
\* The extraction of a batch: raw[c] is what the extractor returned for chunk
\* c.  A relation whose endpoint no chunk of the batch names is dropped, each
\* mention of a relation weighs one.
Canonicalize(raw) ==
    LET Mentions(x)  == {c \in DOMAIN raw : x \in raw[c]}
        Resolved(r)  == \A e \in Ends[r] : Mentions(e) # {}
        Provenance(x) == IF x \in Relation /\ ~Resolved(x)
                         THEN {} ELSE Mentions(x)
    IN  [prov   |-> [x \in Element |-> Provenance(x)],
         weight |-> [r \in Relation |-> Cardinality(Provenance(r))]]

\* Mutation of UpsertGraph: the incoming relation's weight wins.
UpsertGraphLastWeight(g, new) ==
    [prov   |-> [x \in Element |-> g.prov[x] \cup new.prov[x]],
     weight |-> [r \in Relation |-> IF new.prov[r] = {} THEN g.weight[r]
                                                       ELSE new.weight[r]]]

\* Union-merge: provenance is unioned, weights add up (an absent relation
\* weighs zero).
UpsertGraph(g, new) ==
    [prov   |-> [x \in Element |-> g.prov[x] \cup new.prov[x]],
     weight |-> [r \in Relation |-> g.weight[r] + new.weight[r]]]

\* Mutations of RemoveGraphBySource: relations keep their provenance; the
\* weight is discounted by every chunk ID given, not by those it was found in.
RemoveGraphBySourceEntitiesOnly(g, drop) ==
    [g EXCEPT !.prov = [x \in Element |-> IF x \in Entity THEN @[x] \ drop ELSE @[x]]]

\* Drops chunk IDs from every provenance list.  An element left with none is
\* deleted, and its weight with it; the weight of a relation that keeps some
\* provenance is left as it was.
RemoveGraphBySource(g, drop) ==
    [prov   |-> [x \in Element |-> g.prov[x] \ drop],
     weight |-> [r \in Relation |->
                    IF g.prov[r] \subseteq drop THEN 0 ELSE g.weight[r]]]

-----------------------------------------------------------------------------
\* Every chunk that is evidence for a relation is evidence for both of its
\* endpoints, so a relation never outlives an endpoint and traversal never
\* meets an edge with a missing end.
CoversRelations(g) ==
    \A r \in Relation : \A e \in Ends[r] : g.prov[r] \subseteq g.prov[e]

\* A relation weighs at least one for each chunk it is still attributed to.
WeighsEvidence(g) ==
    \A r \in Relation : g.weight[r] >= Cardinality(g.prov[r])
=============================================================================
