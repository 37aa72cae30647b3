---------------------------- MODULE IngestProofs ----------------------------
(***************************************************************************)
(* Theorems about Ingest, for any number of importers, documents, sources, *)
(* chunks, entities and relations, and any number of imports.              *)
(***************************************************************************)
EXTENDS Ingest, FiniteSetTheorems, TLAPS

-----------------------------------------------------------------------------
(***************************************************************************)
(* What the operations on a namespace's graph preserve: its type, and that *)
(* every chunk that is evidence for a relation is evidence for the         *)
(* relation's endpoints.                                                   *)
(***************************************************************************)
\* A set of chunk IDs has a size.
LEMMA ChunkSetSize ==
    ASSUME NEW S \in SUBSET Chunk
    PROVE  Cardinality(S) \in Nat
  BY GraphAssumption, FS_Subset, FS_CardinalityType DEF GraphAssumption

\* An element mentioned in chunks of the batch is attributed to a subset of
\* them, so Canonicalize returns a graph.
LEMMA CanonicalizeType ==
    ASSUME NEW raw, DOMAIN raw \subseteq Chunk
    PROVE  Canonicalize(raw) \in NsGraph
<1> DEFINE Mentions(x)   == {c \in DOMAIN raw : x \in raw[c]}
           Resolved(r)   == \A e \in Ends[r] : Mentions(e) # {}
           Provenance(x) == IF x \in Relation /\ ~Resolved(x) THEN {} ELSE Mentions(x)
<1>1. \A x : Provenance(x) \in SUBSET Chunk
  OBVIOUS
<1>2. \A x : Cardinality(Provenance(x)) \in Nat
  BY <1>1, ChunkSetSize
<1> HIDE DEF Provenance
<1>3. [prov |-> [x \in Element |-> Provenance(x)],
       weight |-> [r \in Relation |-> Cardinality(Provenance(r))]] \in NsGraph
  BY <1>1, <1>2 DEF NsGraph
<1> QED
  BY <1>3 DEF Canonicalize, Provenance

\* Merging two graphs gives a graph.
LEMMA UpsertGraphType ==
    ASSUME NEW g \in NsGraph, NEW new \in NsGraph
    PROVE  UpsertGraph(g, new) \in NsGraph
  BY DEF NsGraph, UpsertGraph

\* Removing chunk IDs from a graph gives a graph.
LEMMA RemoveGraphBySourceType ==
    ASSUME NEW g \in NsGraph, NEW drop
    PROVE  RemoveGraphBySource(g, drop) \in NsGraph
  BY DEF NsGraph, RemoveGraphBySource

\* The empty graph is a graph without relations.
LEMMA EmptyGraphCovers == EmptyGraph \in NsGraph /\ CoversRelations(EmptyGraph)
  BY GraphAssumption DEF GraphAssumption, EmptyGraph, NsGraph, CoversRelations, Element

-----------------------------------------------------------------------------
\* When every chunk that yields a relation yields its endpoints, the graph of
\* a batch attributes to a relation only chunks it attributes to its endpoints.
LEMMA CanonicalizeCovers ==
    ASSUME NEW raw,
           \A c \in DOMAIN raw : \A r \in Relation \cap raw[c] : Ends[r] \subseteq raw[c]
    PROVE  CoversRelations(Canonicalize(raw))
<1> SUFFICES ASSUME NEW r \in Relation, NEW e \in Ends[r],
                    NEW c \in Canonicalize(raw).prov[r]
             PROVE  c \in Canonicalize(raw).prov[e]
  BY DEF CoversRelations
<1>1. e \in Entity /\ e \in Element /\ r \in Element /\ e \notin Relation
  BY GraphAssumption DEF GraphAssumption, Element
<1>2. c \in DOMAIN raw /\ r \in raw[c]
  BY <1>1 DEF Canonicalize
<1>3. e \in raw[c]
  BY <1>2
<1> QED
  BY <1>1, <1>2, <1>3 DEF Canonicalize

\* The two passes of UpsertGraph, over entities and over relations, union the
\* provenance alike.
LEMMA UpsertGraphCovers ==
    ASSUME NEW g, CoversRelations(g), NEW new, CoversRelations(new)
    PROVE  CoversRelations(UpsertGraph(g, new))
<1> SUFFICES ASSUME NEW r \in Relation, NEW e \in Ends[r]
             PROVE  UpsertGraph(g, new).prov[r] \subseteq UpsertGraph(g, new).prov[e]
  BY DEF CoversRelations
<1>1. e \in Element /\ r \in Element
  BY GraphAssumption DEF GraphAssumption, Element
<1>2. g.prov[r] \subseteq g.prov[e] /\ new.prov[r] \subseteq new.prov[e]
  BY DEF CoversRelations
<1> QED
  BY <1>1, <1>2 DEF UpsertGraph

\* The two passes of RemoveGraphBySource drop the same chunk IDs, so an
\* endpoint is deleted no earlier than the relation that needs it.
LEMMA RemoveGraphBySourceCovers ==
    ASSUME NEW g, CoversRelations(g), NEW drop
    PROVE  CoversRelations(RemoveGraphBySource(g, drop))
<1> SUFFICES ASSUME NEW r \in Relation, NEW e \in Ends[r]
             PROVE  RemoveGraphBySource(g, drop).prov[r]
                        \subseteq RemoveGraphBySource(g, drop).prov[e]
  BY DEF CoversRelations
<1>1. e \in Element /\ r \in Element
  BY GraphAssumption DEF GraphAssumption, Element
<1>2. g.prov[r] \subseteq g.prov[e]
  BY DEF CoversRelations
<1> QED
  BY <1>1, <1>2 DEF RemoveGraphBySource
-----------------------------------------------------------------------------
\* The weights of a batch count its mentions exactly.
LEMMA CanonicalizeWeighs ==
    ASSUME NEW raw, DOMAIN raw \subseteq Chunk
    PROVE  WeighsEvidence(Canonicalize(raw))
<1> DEFINE G == Canonicalize(raw)
<1>1. G \in NsGraph
  BY CanonicalizeType
<1>2. \A r \in Relation : G.weight[r] = Cardinality(G.prov[r])
  BY DEF Canonicalize, Element
<1>3. \A r \in Relation : G.weight[r] \in Nat
  BY <1>1 DEF NsGraph
<1> QED
  BY <1>2, <1>3 DEF WeighsEvidence

\* Provenance is unioned where weights are added: the sum of two sizes bounds
\* the size of the union.
LEMMA UpsertGraphWeighs ==
    ASSUME NEW g \in NsGraph, WeighsEvidence(g), NEW new \in NsGraph, WeighsEvidence(new)
    PROVE  WeighsEvidence(UpsertGraph(g, new))
<1> SUFFICES ASSUME NEW r \in Relation
             PROVE  UpsertGraph(g, new).weight[r]
                        >= Cardinality(UpsertGraph(g, new).prov[r])
  BY DEF WeighsEvidence
<1> DEFINE A == g.prov[r]
           B == new.prov[r]
<1>1. A \in SUBSET Chunk /\ B \in SUBSET Chunk
  BY DEF NsGraph, Element
<1>2. IsFiniteSet(A) /\ IsFiniteSet(B)
  BY <1>1, GraphAssumption, FS_Subset DEF GraphAssumption
<1>3. Cardinality(A \cup B) = Cardinality(A) + Cardinality(B) - Cardinality(A \cap B)
  BY <1>2, FS_Union
<1>4. /\ Cardinality(A) \in Nat
      /\ Cardinality(B) \in Nat
      /\ Cardinality(A \cap B) \in Nat
  BY <1>1, ChunkSetSize
<1>5. g.weight[r] >= Cardinality(A) /\ new.weight[r] >= Cardinality(B)
  BY DEF WeighsEvidence
<1>6. g.weight[r] \in Nat /\ new.weight[r] \in Nat
  BY DEF NsGraph
<1>7. /\ UpsertGraph(g, new).prov[r] = A \cup B
      /\ UpsertGraph(g, new).weight[r] = g.weight[r] + new.weight[r]
  BY DEF UpsertGraph, Element
<1> HIDE DEF A, B
<1> QED
  BY <1>3, <1>4, <1>5, <1>6, <1>7

\* Removal shrinks the evidence and keeps the weight, or deletes both.
LEMMA RemoveGraphBySourceWeighs ==
    ASSUME NEW g \in NsGraph, WeighsEvidence(g), NEW drop
    PROVE  WeighsEvidence(RemoveGraphBySource(g, drop))
<1> SUFFICES ASSUME NEW r \in Relation
             PROVE  RemoveGraphBySource(g, drop).weight[r]
                        >= Cardinality(RemoveGraphBySource(g, drop).prov[r])
  BY DEF WeighsEvidence
<1> DEFINE A == g.prov[r]
           B == A \ drop
<1>1. A \in SUBSET Chunk /\ IsFiniteSet(A)
  BY GraphAssumption, FS_Subset DEF GraphAssumption, NsGraph, Element
<1>2. /\ RemoveGraphBySource(g, drop).prov[r] = B
      /\ RemoveGraphBySource(g, drop).weight[r] = IF A \subseteq drop THEN 0 ELSE g.weight[r]
  BY DEF RemoveGraphBySource, Element
<1>3. CASE A \subseteq drop
  <2>1. B = {}
    BY <1>3
  <2> QED
    BY <1>2, <1>3, <2>1, FS_EmptySet
<1>4. CASE ~(A \subseteq drop)
  <2>1. Cardinality(B) <= Cardinality(A)
    BY <1>1, FS_Subset
  <2>2. Cardinality(B) \in Nat /\ Cardinality(A) \in Nat /\ g.weight[r] \in Nat
    BY <1>1, ChunkSetSize DEF NsGraph
  <2>3. g.weight[r] >= Cardinality(A)
    BY DEF WeighsEvidence
  <2> QED
    BY <1>2, <1>4, <2>1, <2>2, <2>3
<1> QED
  BY <1>3, <1>4

-----------------------------------------------------------------------------
(***************************************************************************)
(* The imports.                                                            *)
(***************************************************************************)

\* The locals of an importer that is not in an import are typed.
LEMMA IdleType == Idle \in Locals
  BY EmptyGraphCovers DEF Idle, Locals, Batches

\* What a batch extracts is indexed by chunk IDs.
LEMMA RawGraphDomain ==
    ASSUME TypeOK, NEW i \in Importer
    PROVE  DOMAIN RawGraph(i) \subseteq Chunk
<1>1. NewChunks(i) \subseteq Chunk
  BY IngestAssumption DEF IngestAssumption, TypeOK, Locals, Batches, NewChunks, BatchDocs
<1> QED
  BY <1>1 DEF RawGraph

\* The batch of an importer in flight, as a graph.
LEMMA BatchGraphType ==
    ASSUME TypeOK, NEW i \in Importer
    PROVE  Canonicalize(RawGraph(i)) \in NsGraph
  BY RawGraphDomain, CanonicalizeType

\* A chunk of the batch has a revision.
LEMMA NewRevisionType ==
    ASSUME TypeOK, NEW i \in Importer, NEW c \in NewChunks(i)
    PROVE  c \in Chunk /\ NewRevision(i, c) \in Revision
<1>1. PICK d \in BatchDocs(i) : c \in Split[d][local[i].batch[d]]
  BY DEF NewChunks
<1>2. d \in Doc /\ local[i].batch[d] \in Revision
  BY DEF BatchDocs, TypeOK, Locals, Batches
<1>3. Split[d][local[i].batch[d]] \in SUBSET Chunk
  BY <1>2, IngestAssumption DEF IngestAssumption
<1>4. DocOf[c] = d
  BY <1>1, <1>2, IngestAssumption DEF IngestAssumption
<1> QED
  BY <1>1, <1>2, <1>3, <1>4 DEF NewRevision

-----------------------------------------------------------------------------
\* The variables keep their types, and with them the sums and sizes the
\* weights are made of stay natural numbers.
LEMMA TypeInit == Init => TypeOK
  BY EmptyGraphCovers, IdleType DEF Init, TypeOK

\* An import that ends with an error leaves typed locals behind.
LEMMA AbandonType ==
    ASSUME TypeOK, NEW i \in Importer, Abandon(i)
    PROVE  /\ pc' \in [Importer -> {"idle", "list", "remove", "embed", "reconcile",
                                    "merge", "snapshot", "communities"}]
           /\ local' \in [Importer -> Locals]
           /\ imports' \in Nat
           /\ lone' \subseteq Importer
           /\ redetected' \in BOOLEAN
           /\ tainted' \subseteq Source
           /\ reimported' \subseteq Source
<1>1. BatchSources(i) \subseteq Source
  BY IngestAssumption DEF IngestAssumption, BatchSources, BatchDocs
<1> QED
  BY <1>1, IdleType DEF Abandon, TypeOK

\* No call of an import, and no removal of a chunk, breaks a type.
LEMMA TypeStep == TypeOK /\ [IngestNext]_ingestVars => TypeOK'
<1> SUFFICES ASSUME TypeOK, [IngestNext]_ingestVars
             PROVE  TypeOK'
  OBVIOUS
<1>1. ASSUME NEW i \in Importer, NEW batch \in Batches, NEW replace \in ReplaceModes,
             Start(i, batch, replace)
      PROVE  TypeOK'
  <2> DEFINE docs    == {d \in Doc : batch[d] # NoRev}
             sources == {SourceOf[d] : d \in docs}
             new     == [Idle EXCEPT !.batch = batch, !.todo = docs, !.replace = replace]
  <2>1. new \in Locals
    BY IdleType, IngestAssumption DEF IngestAssumption, Locals
  <2>2. sources \subseteq Source
    BY IngestAssumption DEF IngestAssumption
  <2>3. local' \in [Importer -> Locals]
    BY <1>1, <2>1 DEF Start, TypeOK
  <2>4. tainted' \subseteq Source /\ reimported' \subseteq Source
    BY <1>1, <2>2 DEF Start, TypeOK
  <2>5. pc' \in [Importer -> {"idle", "list", "remove", "embed", "reconcile",
                              "merge", "snapshot", "communities"}]
    BY <1>1 DEF Start, TypeOK
  <2>6. imports' \in Nat /\ lone' \subseteq Importer
    BY <1>1 DEF Start, TypeOK
  <2> QED
    BY <1>1, <2>3, <2>4, <2>5, <2>6 DEF Start, TypeOK, storeVars
<1>2. ASSUME NEW i \in Importer, NEW d \in Doc, ListStale(i, d)
      PROVE  TypeOK'
  <2>1. Stored(SourceOf[d]) \subseteq Chunk
    BY DEF Stored, ChunksOf
  <2>2. [local[i] EXCEPT !.stale = @ \cup Stored(SourceOf[d]), !.current = {d}] \in Locals
    BY <2>1 DEF TypeOK, Locals
  <2>3. local' \in [Importer -> Locals]
    BY <1>2, <2>2 DEF ListStale, TypeOK
  <2> QED
    BY <1>2, <2>3 DEF ListStale, TypeOK, storeVars, ghostVars
<1>3. ASSUME NEW i \in Importer, RemoveByFilter(i)
      PROVE  TypeOK'
  <2>1. [local[i] EXCEPT !.todo = local[i].todo \ local[i].current, !.current = {}] \in Locals
    BY DEF TypeOK, Locals
  <2>2. local' \in [Importer -> Locals]
    BY <1>3, <2>1 DEF RemoveByFilter, TypeOK
  <2>3. chunks' \in [Chunk -> Revision \cup {NoRev}]
    BY <1>3 DEF RemoveByFilter, TypeOK
  <2> QED
    BY <1>3, <2>2, <2>3 DEF RemoveByFilter, TypeOK, ghostVars
<1>4. ASSUME NEW i \in Importer, UpsertChunks(i)
      PROVE  TypeOK'
  <2>1. chunks' \in [Chunk -> Revision \cup {NoRev}]
    BY <1>4, NewRevisionType DEF UpsertChunks, TypeOK
  <2> QED
    BY <1>4, <2>1 DEF UpsertChunks, TypeOK, ghostVars
<1>5. ASSUME NEW i \in Importer, Reconcile(i)
      PROVE  TypeOK'
  <2>1. graph' \in NsGraph
    BY <1>5, RemoveGraphBySourceType DEF Reconcile, TypeOK
  <2> QED
    BY <1>5, <2>1 DEF Reconcile, TypeOK, ghostVars
<1>6. ASSUME NEW i \in Importer, MergeGraph(i)
      PROVE  TypeOK'
  <2>1. graph' \in NsGraph
    BY <1>6, BatchGraphType, UpsertGraphType DEF MergeGraph, TypeOK
  <2> QED
    BY <1>6, <2>1 DEF MergeGraph, TypeOK, ghostVars
<1>7. ASSUME NEW i \in Importer, TakeSnapshot(i)
      PROVE  TypeOK'
  <2>1. local' \in [Importer -> Locals]
    BY <1>7 DEF TakeSnapshot, TypeOK, Locals
  <2> QED
    BY <1>7, <2>1 DEF TakeSnapshot, TypeOK, storeVars, ghostVars
<1>8. ASSUME NEW i \in Importer, PutCommunities(i)
      PROVE  TypeOK'
  <2>1. local[i].snapshot \in NsGraph
    BY DEF TypeOK, Locals
  <2>2. BatchSources(i) \subseteq Source
    BY IngestAssumption DEF IngestAssumption, BatchSources, BatchDocs
  <2>3. local' \in [Importer -> Locals]
    BY <1>8, IdleType DEF PutCommunities, TypeOK
  <2> QED
    BY <1>8, <2>1, <2>2, <2>3 DEF PutCommunities, TypeOK
<1>9. ASSUME NEW i \in Importer, Fail(i)
      PROVE  TypeOK'
  <2>1. Abandon(i) /\ UNCHANGED storeVars
    BY <1>9 DEF Fail
  <2> QED
    BY <2>1, AbandonType DEF TypeOK, storeVars
<1>10. ASSUME NEW i \in Importer, NEW kept \in SUBSET Chunk, UpsertPrefix(i, kept)
       PROVE  TypeOK'
  <2>1. chunks' \in [Chunk -> Revision \cup {NoRev}]
    BY <1>10, NewRevisionType DEF UpsertPrefix, TypeOK
  <2>2. Abandon(i) /\ UNCHANGED <<graph, communities>>
    BY <1>10 DEF UpsertPrefix
  <2> QED
    BY <2>1, <2>2, AbandonType DEF TypeOK
<1>11. ASSUME NEW c \in Chunk, RemoveChunk(c)
       PROVE  TypeOK'
  <2>1. SourceOf[DocOf[c]] \in Source
    BY IngestAssumption DEF IngestAssumption
  <2> QED
    BY <1>11, <2>1 DEF RemoveChunk, TypeOK
<1>12. ASSUME UNCHANGED ingestVars
       PROVE  TypeOK'
  BY <1>12 DEF ingestVars, storeVars, ghostVars, TypeOK
<1> QED
  BY <1>1, <1>2, <1>3, <1>4, <1>5, <1>6, <1>7, <1>8, <1>9, <1>10, <1>11, <1>12
     DEF IngestNext, Call

\* The store, the graph and the locals of every importer keep their types
\* whatever imports run, fail or overlap: no operation on the graph takes a
\* weight below zero or attributes an element to something that is no chunk.
THEOREM TypeInvariant == IngestSpec => []TypeOK
<1> QED
  BY TypeInit, TypeStep, PTL DEF IngestSpec

-----------------------------------------------------------------------------
\* With a closed extraction the graph of any batch covers its relations.
LEMMA BatchGraphCovers ==
    ASSUME ClosedExtraction, TypeOK, NEW i \in Importer
    PROVE  CoversRelations(Canonicalize(RawGraph(i)))
<1>1. \A c \in NewChunks(i) : c \in Chunk /\ NewRevision(i, c) \in Revision
  BY NewRevisionType
<1>2. \A c \in DOMAIN RawGraph(i) :
          \A r \in Relation \cap RawGraph(i)[c] : Ends[r] \subseteq RawGraph(i)[c]
  BY <1>1 DEF RawGraph, ClosedExtraction
<1> QED
  BY <1>2, CanonicalizeCovers

\* Every call of Import, and every failure, keeps relations covered: the graph
\* changes by the two operations proved above, a snapshot is the graph or
\* empty, and the communities come from a snapshot.
LEMMA NoDanglingStep ==
    ASSUME ClosedExtraction
    PROVE  TypeOK /\ NoDanglingRelation /\ [IngestNext]_ingestVars => NoDanglingRelation'
<1> SUFFICES ASSUME TypeOK, NoDanglingRelation, [IngestNext]_ingestVars
             PROVE  NoDanglingRelation'
  OBVIOUS
<1> USE DEF TypeOK
<1>1. ASSUME NEW i \in Importer, NEW batch \in Batches, NEW replace \in ReplaceModes,
             Start(i, batch, replace)
      PROVE  NoDanglingRelation'
  <2>1. \A j \in Importer : \/ local'[j] = local[j]
                            \/ local'[j].snapshot = EmptyGraph
    BY <1>1 DEF Start, Idle
  <2> QED
    BY <1>1, <2>1, EmptyGraphCovers DEF Start, storeVars, NoDanglingRelation
<1>2. ASSUME NEW i \in Importer, NEW d \in Doc, ListStale(i, d)
      PROVE  NoDanglingRelation'
  <2>1. \A j \in Importer : local'[j].snapshot = local[j].snapshot
    BY <1>2 DEF ListStale, Locals
  <2> QED
    BY <1>2, <2>1 DEF ListStale, storeVars, NoDanglingRelation
<1>3. ASSUME NEW i \in Importer, RemoveByFilter(i)
      PROVE  NoDanglingRelation'
  <2>1. \A j \in Importer : local'[j].snapshot = local[j].snapshot
    BY <1>3 DEF RemoveByFilter, Locals
  <2> QED
    BY <1>3, <2>1 DEF RemoveByFilter, NoDanglingRelation
<1>4. ASSUME NEW i \in Importer, UpsertChunks(i)
      PROVE  NoDanglingRelation'
  BY <1>4 DEF UpsertChunks, NoDanglingRelation
<1>5. ASSUME NEW i \in Importer, Reconcile(i)
      PROVE  NoDanglingRelation'
  <2>1. CoversRelations(graph')
    BY <1>5, RemoveGraphBySourceCovers DEF Reconcile, NoDanglingRelation
  <2> QED
    BY <1>5, <2>1 DEF Reconcile, NoDanglingRelation
<1>6. ASSUME NEW i \in Importer, MergeGraph(i)
      PROVE  NoDanglingRelation'
  <2>1. CoversRelations(graph')
    BY <1>6, BatchGraphCovers, UpsertGraphCovers DEF MergeGraph, NoDanglingRelation
  <2> QED
    BY <1>6, <2>1 DEF MergeGraph, NoDanglingRelation
<1>7. ASSUME NEW i \in Importer, TakeSnapshot(i)
      PROVE  NoDanglingRelation'
  <2>1. \A j \in Importer : \/ local'[j].snapshot = local[j].snapshot
                            \/ local'[j].snapshot = graph
    BY <1>7 DEF TakeSnapshot, Locals
  <2> QED
    BY <1>7, <2>1 DEF TakeSnapshot, storeVars, NoDanglingRelation
<1>8. ASSUME NEW i \in Importer, PutCommunities(i)
      PROVE  NoDanglingRelation'
  <2>1. \A j \in Importer : \/ local'[j] = local[j]
                            \/ local'[j].snapshot = EmptyGraph
    BY <1>8 DEF PutCommunities, Idle
  <2> QED
    BY <1>8, <2>1, EmptyGraphCovers DEF PutCommunities, NoDanglingRelation
<1>9. ASSUME NEW i \in Importer, Abandon(i), UNCHANGED <<graph, communities>>
      PROVE  NoDanglingRelation'
  <2>1. \A j \in Importer : \/ local'[j] = local[j]
                            \/ local'[j].snapshot = EmptyGraph
    BY <1>9 DEF Abandon, Idle
  <2> QED
    BY <1>9, <2>1, EmptyGraphCovers DEF NoDanglingRelation
<1>10. ASSUME NEW c \in Chunk, RemoveChunk(c)
       PROVE  NoDanglingRelation'
  BY <1>10 DEF RemoveChunk, NoDanglingRelation
<1>11. ASSUME UNCHANGED ingestVars
       PROVE  NoDanglingRelation'
  BY <1>11 DEF ingestVars, storeVars, NoDanglingRelation
<1> QED
  BY <1>1, <1>2, <1>3, <1>4, <1>5, <1>6, <1>7, <1>8, <1>9, <1>10, <1>11
     DEF IngestNext, Call, Fail, UpsertPrefix, storeVars

\* When the extractor reports endpoints with their relation, no interleaving,
\* failure or crash of imports leaves a relation with a missing endpoint in
\* the graph, in a snapshot of it or in what communities were detected from.
THEOREM NoRelationDangles ==
    ASSUME ClosedExtraction
    PROVE  IngestSpec => []NoDanglingRelation
<1>1. Init => NoDanglingRelation
  BY EmptyGraphCovers DEF Init, NoDanglingRelation, Idle
<1>2. TypeOK /\ NoDanglingRelation /\ [IngestNext]_ingestVars => NoDanglingRelation'
  BY NoDanglingStep
<1> QED
  BY <1>1, <1>2, TypeInvariant, PTL DEF IngestSpec

-----------------------------------------------------------------------------
\* Only Reconcile and MergeGraph change the graph.
LEMMA GraphSteps ==
    ASSUME IngestNext
    PROVE  \/ graph' = graph
           \/ \E i \in Importer : Reconcile(i) \/ MergeGraph(i)
<1>1. ASSUME NEW i \in Importer, Call(i), ~Reconcile(i), ~MergeGraph(i)
      PROVE  graph' = graph
  BY <1>1 DEF Call, ListStale, RemoveByFilter, UpsertChunks, TakeSnapshot, PutCommunities,
              Fail, UpsertPrefix, storeVars
<1> QED
  BY <1>1 DEF IngestNext, Start, RemoveChunk, storeVars

\* Whatever the extractor answers and however imports interleave and fail, a
\* relation weighs at least one for each chunk it is attributed to: what
\* UpsertGraph adds, RemoveGraphBySource never takes away too much of.
THEOREM WeightsCoverEvidence == IngestSpec => []EvidenceIsWeighed
<1>1. Init => EvidenceIsWeighed
  BY FS_EmptySet DEF Init, EvidenceIsWeighed, WeighsEvidence, EmptyGraph, Element
<1>2. ASSUME TypeOK, EvidenceIsWeighed, [IngestNext]_ingestVars
      PROVE  EvidenceIsWeighed'
  <2>1. CASE graph' = graph
    BY <1>2, <2>1 DEF EvidenceIsWeighed
  <2>2. ASSUME NEW i \in Importer, Reconcile(i)
        PROVE  EvidenceIsWeighed'
    <3>1. graph \in NsGraph
      BY <1>2 DEF TypeOK
    <3> QED
      BY <1>2, <2>2, <3>1, RemoveGraphBySourceWeighs DEF Reconcile, EvidenceIsWeighed
  <2>3. ASSUME NEW i \in Importer, MergeGraph(i)
        PROVE  EvidenceIsWeighed'
    <3>1. WeighsEvidence(Canonicalize(RawGraph(i)))
      BY <1>2, RawGraphDomain, CanonicalizeWeighs
    <3>2. graph \in NsGraph /\ Canonicalize(RawGraph(i)) \in NsGraph
      BY <1>2, BatchGraphType DEF TypeOK
    <3> QED
      BY <1>2, <2>3, <3>1, <3>2, UpsertGraphWeighs DEF MergeGraph, EvidenceIsWeighed
  <2>4. CASE UNCHANGED ingestVars
    BY <2>1, <2>4 DEF ingestVars, storeVars
  <2> QED
    BY <1>2, <2>1, <2>2, <2>3, <2>4, GraphSteps
<1> QED
  BY <1>1, <1>2, TypeInvariant, PTL DEF IngestSpec

-----------------------------------------------------------------------------
\* What an import holds belongs to its batch: the documents still to be
\* reached, the one being removed, and the chunk IDs it found stored.
LocalsOwned ==
    \A i \in Importer :
        /\ local[i].todo \subseteq BatchDocs(i)
        /\ local[i].current \subseteq BatchDocs(i)
        /\ \A c \in local[i].stale : SourceOf[DocOf[c]] \in BatchSources(i)

\* A source never leaves the batch of an import while the import runs, so
\* only what ListStale adds has to be looked at.
LEMMA LocalsOwnedStep == TypeOK /\ LocalsOwned /\ [IngestNext]_ingestVars => LocalsOwned'
<1> SUFFICES ASSUME TypeOK, LocalsOwned, [IngestNext]_ingestVars,
                    NEW j \in Importer
             PROVE  /\ local'[j].todo \subseteq BatchDocs(j)'
                    /\ local'[j].current \subseteq BatchDocs(j)'
                    /\ \A c \in local'[j].stale : SourceOf[DocOf[c]] \in BatchSources(j)'
  BY DEF LocalsOwned
<1> DEFINE Owned(l) ==
        LET docs == {d \in Doc : l.batch[d] # NoRev}
        IN  /\ l.todo \subseteq docs
            /\ l.current \subseteq docs
            /\ \A c \in l.stale : SourceOf[DocOf[c]] \in {SourceOf[d] : d \in docs}
<1>1. \A i \in Importer : Owned(local[i])
  BY DEF LocalsOwned, BatchDocs, BatchSources
<1>2. Owned(local'[j]) => /\ local'[j].todo \subseteq BatchDocs(j)'
                          /\ local'[j].current \subseteq BatchDocs(j)'
                          /\ \A c \in local'[j].stale : SourceOf[DocOf[c]] \in BatchSources(j)'
  BY DEF BatchDocs, BatchSources
<1>3. Owned(Idle)
  BY DEF Idle
<1>4. SUFFICES Owned(local'[j])
  BY <1>2
<1>5. CASE local'[j] = local[j]
  BY <1>1, <1>5
<1>6. CASE local'[j] = Idle
  BY <1>3, <1>6
<1>7. ASSUME NEW i \in Importer, NEW batch \in Batches, NEW replace \in ReplaceModes,
             Start(i, batch, replace), local'[j] # local[j]
      PROVE  Owned(local'[j])
  <2>1. local'[j] = [Idle EXCEPT !.batch = batch, !.todo = {d \in Doc : batch[d] # NoRev},
                                 !.replace = replace]
    BY <1>7 DEF Start, TypeOK
  <2> QED
    BY <2>1 DEF Idle
<1>8. ASSUME NEW i \in Importer, NEW d \in Doc, ListStale(i, d), local'[j] # local[j]
      PROVE  Owned(local'[j])
  <2>1. i = j
    BY <1>8 DEF ListStale, TypeOK
  <2>2. /\ local'[j].batch = local[j].batch
        /\ local'[j].todo = local[j].todo
        /\ local'[j].current = {d}
        /\ local'[j].stale = local[j].stale \cup Stored(SourceOf[d])
    BY <1>8, <2>1 DEF ListStale, TypeOK, Locals
  <2>3. d \in local[j].todo
    BY <1>8, <2>1 DEF ListStale
  <2>4. \A c \in Stored(SourceOf[d]) : SourceOf[DocOf[c]] = SourceOf[d]
    BY DEF Stored, ChunksOf
  <2> QED
    BY <1>1, <2>2, <2>3, <2>4
<1>9. ASSUME NEW i \in Importer, RemoveByFilter(i), local'[j] # local[j]
      PROVE  Owned(local'[j])
  <2>1. /\ local'[j].batch = local[j].batch
        /\ local'[j].todo \subseteq local[j].todo
        /\ local'[j].current = {}
        /\ local'[j].stale = local[j].stale
    BY <1>9 DEF RemoveByFilter, TypeOK, Locals
  <2> QED
    BY <1>1, <2>1
<1>10. ASSUME NEW i \in Importer, TakeSnapshot(i)
       PROVE  Owned(local'[j])
  <2>1. /\ local'[j].batch = local[j].batch
        /\ local'[j].todo = local[j].todo
        /\ local'[j].current = local[j].current
        /\ local'[j].stale = local[j].stale
    BY <1>10 DEF TakeSnapshot, TypeOK, Locals
  <2> QED
    BY <1>1, <2>1
<1>11. ASSUME NEW i \in Importer,
              \/ UpsertChunks(i) \/ Reconcile(i) \/ MergeGraph(i)
              \/ PutCommunities(i) \/ Abandon(i)
       PROVE  local'[j] \in {local[j], Idle}
  BY <1>11 DEF UpsertChunks, Reconcile, MergeGraph, PutCommunities, Abandon, TypeOK
<1>12. ASSUME NEW c \in Chunk, RemoveChunk(c)
       PROVE  local' = local
  BY <1>12 DEF RemoveChunk
<1>13. ASSUME UNCHANGED ingestVars
       PROVE  local' = local
  BY <1>13 DEF ingestVars
<1> HIDE DEF Owned
<1> QED
  BY <1>5, <1>6, <1>7, <1>8, <1>9, <1>10, <1>11, <1>12, <1>13
     DEF IngestNext, Call, Fail, UpsertPrefix

\* What an import captured as stale, and what it stores, belongs to the sources
\* of its own batch, at every point of every import.
THEOREM LocalsOwnedInvariant == IngestSpec => [](TypeOK /\ LocalsOwned)
<1>1. Init => LocalsOwned
  BY DEF Init, Idle, LocalsOwned
<1>2. TypeOK /\ LocalsOwned /\ [IngestNext]_ingestVars => LocalsOwned'
  BY LocalsOwnedStep
<1> QED
  BY <1>1, <1>2, TypeInvariant, PTL DEF IngestSpec

\* What one step of importer i may do to what it does not own.
ForeignUntouchedBy(i) ==
    pc'[i] # pc[i] /\ pc[i] # "idle" =>
        \A c \in Chunk : SourceOf[DocOf[c]] \notin BatchSources(i) =>
            /\ chunks'[c] = chunks[c]
            /\ \A x \in Element : c \in graph'.prov[x] <=> c \in graph.prov[x]

\* Each call of an import keeps to the chunk IDs the importer owns.
LEMMA ForeignStep ==
    ASSUME TypeOK, LocalsOwned, [IngestNext]_ingestVars, NEW i \in Importer
    PROVE  ForeignUntouchedBy(i)
<1> SUFFICES ASSUME pc'[i] # pc[i], pc[i] # "idle",
                    NEW c \in Chunk, SourceOf[DocOf[c]] \notin BatchSources(i)
             PROVE  /\ chunks'[c] = chunks[c]
                    /\ \A x \in Element : c \in graph'.prov[x] <=> c \in graph.prov[x]
  BY DEF ForeignUntouchedBy
<1>1. c \notin NewChunks(i)
  <2> SUFFICES ASSUME c \in NewChunks(i) PROVE FALSE
    OBVIOUS
  <2>1. PICK d \in BatchDocs(i) : c \in Split[d][local[i].batch[d]]
    BY DEF NewChunks
  <2>2. d \in Doc /\ local[i].batch[d] \in Revision
    BY DEF BatchDocs, TypeOK, Locals, Batches
  <2>3. DocOf[c] = d
    BY <2>1, <2>2, IngestAssumption DEF IngestAssumption
  <2> QED
    BY <2>1, <2>3 DEF BatchSources
<1>2. c \notin local[i].stale
  BY DEF LocalsOwned
<1>3. \A d \in local[i].current : c \notin ChunksOf(SourceOf[d])
  BY DEF LocalsOwned, BatchSources, ChunksOf
<1>4. Call(i)
  <2>1. ASSUME NEW j \in Importer, j # i, Call(j)
        PROVE  pc'[i] = pc[i]
    BY <2>1 DEF Call, ListStale, RemoveByFilter, UpsertChunks, Reconcile, MergeGraph,
                TakeSnapshot, PutCommunities, Fail, UpsertPrefix, Abandon, TypeOK
  <2>2. ASSUME NEW j \in Importer, NEW batch \in Batches, NEW replace \in ReplaceModes,
               Start(j, batch, replace)
        PROVE  pc'[i] = pc[i]
    BY <2>2 DEF Start, TypeOK
  <2> QED
    BY <2>1, <2>2 DEF IngestNext, RemoveChunk, ingestVars
<1>5. CASE \/ (\E d \in Doc : ListStale(i, d)) \/ TakeSnapshot(i) \/ PutCommunities(i) \/ Fail(i)
  BY <1>5 DEF ListStale, TakeSnapshot, PutCommunities, Fail, storeVars
<1>6. CASE RemoveByFilter(i)
  BY <1>3, <1>6 DEF RemoveByFilter
<1>7. CASE UpsertChunks(i)
  BY <1>1, <1>7 DEF UpsertChunks
<1>8. CASE Reconcile(i)
  BY <1>2, <1>8 DEF Reconcile, RemoveGraphBySource
<1>9. CASE MergeGraph(i)
  <2>1. \A x \in Element : c \notin Canonicalize(RawGraph(i)).prov[x]
    BY <1>1 DEF Canonicalize, RawGraph
  <2> QED
    BY <1>9, <2>1 DEF MergeGraph, UpsertGraph
<1>10. CASE \E kept \in SUBSET Chunk : UpsertPrefix(i, kept)
  BY <1>1, <1>10 DEF UpsertPrefix
<1> QED
  BY <1>4, <1>5, <1>6, <1>7, <1>8, <1>9, <1>10 DEF Call

\* A step of an import changes neither the chunks nor the evidence of a source
\* its batch does not name: the IDs it drops are those List returned for its
\* own sources, the IDs it writes carry its own documents' names.
THEOREM ForeignSourcesStayUntouched == IngestSpec => ForeignSourcesUntouched
<1>1. TypeOK /\ LocalsOwned /\ [IngestNext]_ingestVars
        => [\A i \in Importer : pc'[i] # pc[i] /\ pc[i] # "idle" =>
              \A c \in Chunk : SourceOf[DocOf[c]] \notin BatchSources(i) =>
                  /\ chunks'[c] = chunks[c]
                  /\ \A x \in Element : c \in graph'.prov[x] <=> c \in graph.prov[x]
           ]_ingestVars
  BY ForeignStep DEF ForeignUntouchedBy
<1> QED
  BY <1>1, LocalsOwnedInvariant, PTL DEF IngestSpec, ForeignSourcesUntouched

-----------------------------------------------------------------------------
\* A relation that Canonicalize keeps comes with entities for its endpoints.
LEMMA CanonicalizeResolves ==
    ASSUME NEW raw, NEW r \in Relation, Canonicalize(raw).prov[r] # {}, NEW e \in Ends[r]
    PROVE  e \in Entity /\ Canonicalize(raw).prov[e] # {}
<1> DEFINE Mentions(y) == {c \in DOMAIN raw : y \in raw[c]}
<1>1. e \in Entity /\ e \notin Relation
  BY GraphAssumption DEF GraphAssumption
<1>2. \A x \in Element : Canonicalize(raw).prov[x]
        = IF x \in Relation /\ ~(\A f \in Ends[x] : Mentions(f) # {}) THEN {} ELSE Mentions(x)
  BY DEF Canonicalize
<1> HIDE DEF Mentions
<1>3. Mentions(e) # {}
  BY <1>2 DEF Element
<1> QED
  BY <1>1, <1>2, <1>3 DEF Element

\* Whatever the extractor answers, a relation that a merge adds has both of its
\* endpoints in the graph at that moment.
THEOREM MergesAddWholeRelations == IngestSpec => NewRelationsHaveEndpoints
<1> DEFINE Whole == \A i \in Importer : pc[i] = "merge" /\ pc'[i] = "snapshot" =>
                \A r \in Relations(graph') \ Relations(graph) : Ends[r] \subseteq Entities(graph')
<1>1. TypeOK /\ [IngestNext]_ingestVars => [Whole]_ingestVars
  <2> SUFFICES ASSUME TypeOK, IngestNext,
                      NEW r \in Relations(graph') \ Relations(graph), NEW e \in Ends[r]
               PROVE  e \in Entities(graph')
    BY DEF ingestVars
  <2>1. r \in Relation /\ graph.prov[r] = {} /\ graph'.prov[r] # {}
    BY DEF Relations
  <2>2. PICK i \in Importer : Reconcile(i) \/ MergeGraph(i)
    BY <2>1, GraphSteps
  <2>3. r \in Element
    BY <2>1 DEF Element
  <2>4. ~Reconcile(i)
    BY <2>1, <2>3 DEF Reconcile, RemoveGraphBySource
  <2>5. \A x \in Element : graph'.prov[x] = graph.prov[x] \cup Canonicalize(RawGraph(i)).prov[x]
    BY <2>2, <2>4 DEF MergeGraph, UpsertGraph
  <2>6. Canonicalize(RawGraph(i)).prov[r] # {}
    BY <2>1, <2>3, <2>5
  <2>7. e \in Entity /\ Canonicalize(RawGraph(i)).prov[e] # {}
    BY <2>1, <2>6, CanonicalizeResolves
  <2>8. graph'.prov[e] # {}
    BY <2>5, <2>7 DEF Element
  <2> QED
    BY <2>7, <2>8 DEF Entities
<1> QED
  BY <1>1, TypeInvariant, PTL DEF IngestSpec, NewRelationsHaveEndpoints

-----------------------------------------------------------------------------
\* An import that has been alone since it started is the only one in flight;
\* the snapshot it took is the graph as it stands.
LoneInv ==
    /\ \A i \in lone : pc[i] # "idle" /\ \A j \in Importer : pc[j] # "idle" => j = i
    /\ \A i \in lone : pc[i] = "communities" => local[i].snapshot = graph
    /\ LoneImportRedetects

\* A start ends the solitude of the others; a call of a lone import is the only
\* one that can run.
LEMMA LoneStep == TypeOK /\ LoneInv /\ [IngestNext]_ingestVars => LoneInv'
<1> SUFFICES ASSUME TypeOK, LoneInv, [IngestNext]_ingestVars
             PROVE  LoneInv'
  OBVIOUS
<1>1. ASSUME NEW i \in Importer, NEW batch \in Batches, NEW replace \in ReplaceModes,
             Start(i, batch, replace)
      PROVE  LoneInv'
  <2>1. pc'[i] \in {"list", "embed"} /\ \A j \in Importer : j # i => pc'[j] = pc[j]
    BY <1>1 DEF Start, TypeOK
  <2>2. ~AllIdle'
    BY <2>1 DEF AllIdle
  <2>3. lone' = IF AllIdle THEN {i} ELSE {}
    BY <1>1 DEF Start
  <2> QED
    BY <2>1, <2>2, <2>3 DEF LoneInv, LoneImportRedetects, AllIdle
<1>2. ASSUME NEW i \in Importer, pc[i] # "idle", pc'[i] # "idle",
             \A j \in Importer : j # i => pc'[j] = pc[j] /\ local'[j] = local[j],
             lone' = lone,
             pc'[i] = "communities" => local'[i].snapshot = graph'
      PROVE  LoneInv'
  <2>1. ~AllIdle'
    BY <1>2 DEF AllIdle
  <2>2. \A k \in lone : k = i
    BY <1>2 DEF LoneInv
  <2> QED
    BY <1>2, <2>1, <2>2 DEF LoneInv, LoneImportRedetects
<1>3. ASSUME NEW i \in Importer, pc[i] # "idle", pc'[i] = "idle", lone' = lone \ {i},
             \A j \in Importer : j # i => pc'[j] = pc[j] /\ local'[j] = local[j],
             redetected' => i \in lone /\ communities' = graph'
      PROVE  LoneInv'
  <2>1. \A k \in lone : k = i
    BY <1>3 DEF LoneInv
  <2> QED
    BY <1>3, <2>1 DEF LoneInv, LoneImportRedetects
<1>4. ASSUME NEW i \in Importer, Call(i)
      PROVE  LoneInv'
  <2>1. CASE \E d \in Doc : ListStale(i, d)
    BY <1>2, <2>1 DEF ListStale, ghostVars, TypeOK
  <2>2. CASE RemoveByFilter(i)
    BY <1>2, <2>2 DEF RemoveByFilter, ghostVars, TypeOK
  <2>3. CASE UpsertChunks(i) \/ Reconcile(i) \/ MergeGraph(i)
    BY <1>2, <2>3 DEF UpsertChunks, Reconcile, MergeGraph, ghostVars, TypeOK
  <2>4. CASE TakeSnapshot(i)
    <3>1. local'[i].snapshot = graph'
      BY <2>4 DEF TakeSnapshot, storeVars, TypeOK, Locals
    <3> QED
      BY <1>2, <2>4, <3>1 DEF TakeSnapshot, ghostVars, TypeOK
  <2>5. CASE PutCommunities(i)
    <3>1. i \in lone => local[i].snapshot = graph
      BY <2>5 DEF PutCommunities, LoneInv
    <3> QED
      BY <1>3, <2>5, <3>1 DEF PutCommunities, TypeOK
  <2>6. CASE Fail(i)
    BY <1>3, <2>6 DEF Fail, Abandon, TypeOK
  <2>7. CASE \E kept \in SUBSET Chunk : UpsertPrefix(i, kept)
    BY <1>3, <2>7 DEF UpsertPrefix, Abandon, TypeOK
  <2> QED
    BY <1>4, <2>1, <2>2, <2>3, <2>4, <2>5, <2>6, <2>7 DEF Call
<1>5. ASSUME NEW c \in Chunk, RemoveChunk(c)
      PROVE  LoneInv'
  BY <1>5 DEF RemoveChunk, LoneInv, LoneImportRedetects, AllIdle
<1>6. CASE UNCHANGED ingestVars
  BY <1>6 DEF ingestVars, storeVars, ghostVars, LoneInv, LoneImportRedetects, AllIdle
<1> QED
  BY <1>1, <1>4, <1>5, <1>6 DEF IngestNext

\* An import that ran alone and succeeded leaves the communities detected from
\* the graph as it stands: from TakeSnapshot to its return nobody else could
\* change the graph.
THEOREM LoneImportsRedetect == IngestSpec => []LoneImportRedetects
<1>1. Init => LoneInv
  BY DEF Init, LoneInv, LoneImportRedetects
<1>2. LoneInv => LoneImportRedetects
  BY DEF LoneInv
<1> QED
  BY <1>1, <1>2, LoneStep, TypeInvariant, PTL DEF IngestSpec

-----------------------------------------------------------------------------
(***************************************************************************)
(* Imports of different sources do not disturb one another.  The invariant *)
(* says how far an import has got with each source it replaces.            *)
(***************************************************************************)

\* The stored chunks of s are what importer i's batch makes of s.
ExactBatch(i, s) ==
    \A c \in ChunksOf(s) :
        chunks[c] = IF c \in NewChunks(i) THEN NewRevision(i, c) ELSE NoRev

\* The chunks of s that the graph names are among S.
EvidenceWithin(s, S) == \A x \in Element : graph.prov[x] \cap ChunksOf(s) \subseteq S

\* How far importer i has got with source s.  While it lists and removes, what
\* the graph says about s is covered by what is stored or already captured;
\* then by what was captured; then by nothing; then the batch is merged.
Progress(i, s) ==
    /\ pc[i] \in {"list", "remove"} =>
          /\ EvidenceWithin(s, local[i].stale \cup Stored(s))
          /\ \A d \in BatchDocs(i) \ local[i].todo : SourceOf[d] = s => Stored(s) = {}
    /\ pc[i] = "remove" =>
          \A d \in local[i].current : SourceOf[d] = s => Stored(s) \subseteq local[i].stale
    /\ pc[i] = "embed" => Stored(s) = {} /\ EvidenceWithin(s, local[i].stale)
    /\ pc[i] = "reconcile" => ExactBatch(i, s) /\ EvidenceWithin(s, local[i].stale)
    /\ pc[i] = "merge" => ExactBatch(i, s) /\ EvidenceWithin(s, {})
    /\ pc[i] \in {"snapshot", "communities"} => Reconciled(s)

\* A source that is not tainted is in at most one import, which has got
\* somewhere with it, or in none, and then the graph is exact about it.
Isolated(s) ==
    /\ \A i, j \in InFlight(s) : i = j
    /\ InFlight(s) = {} => Reconciled(s)
    /\ \A i \in InFlight(s) : Progress(i, s)

IsolationInv == \A s \in Source \ tainted : Isolated(s)

-----------------------------------------------------------------------------
\* A step that leaves the chunks of s and their share of the graph alone.
Frame(s) ==
    \A c \in ChunksOf(s) :
        /\ chunks'[c] = chunks[c]
        /\ \A x \in Element : c \in graph'.prov[x] <=> c \in graph.prov[x]

\* Such a step stores and removes no chunk of s.
LEMMA FrameStored ==
    ASSUME NEW s, Frame(s)
    PROVE  Stored(s)' = Stored(s)
  BY DEF Frame, Stored, ChunksOf

\* What was found in the source, and what the graph says of it, is as before.
LEMMA FrameReconciled ==
    ASSUME NEW s, Frame(s), Reconciled(s)
    PROVE  Reconciled(s)'
<1>1. Stored(s)' = Stored(s) /\ \A c \in Stored(s) : chunks'[c] = chunks[c]
  BY FrameStored DEF Frame, Stored
<1>2. ASSUME NEW x \in Element
      PROVE  /\ graph'.prov[x] \cap ChunksOf(s) \subseteq Found(s, x)'
             /\ Grounded(s, x)' \subseteq graph'.prov[x]
  <2>1. Found(s, x)' = Found(s, x)
    BY <1>1 DEF Found
  <2>2. Grounded(s, x)' = Grounded(s, x)
    BY <1>1, <2>1 DEF Grounded, Found
  <2>3. Grounded(s, x) \subseteq ChunksOf(s)
    BY DEF Grounded, Found, Stored
  <2>4. graph'.prov[x] \cap ChunksOf(s) = graph.prov[x] \cap ChunksOf(s)
    BY DEF Frame
  <2> QED
    BY <2>1, <2>2, <2>3, <2>4 DEF Reconciled
<1> QED
  BY <1>2 DEF Reconciled, ChunksOf

\* Without a change to what is stored or to the graph there is none.
LEMMA SameReconciled ==
    ASSUME NEW s, chunks' = chunks, graph' = graph, Reconciled(s)
    PROVE  Reconciled(s)'
<1>1. Frame(s)
  BY DEF Frame
<1> QED
  BY <1>1, FrameReconciled

\* An import that goes on elsewhere has got as far with s as before.
LEMMA FrameProgress ==
    ASSUME NEW s, Frame(s), NEW j \in Importer, Progress(j, s),
           pc'[j] = pc[j], local'[j] = local[j]
    PROVE  Progress(j, s)'
<1>1. Stored(s)' = Stored(s)
  BY FrameStored
<1>2. /\ BatchDocs(j)' = BatchDocs(j)
      /\ NewChunks(j)' = NewChunks(j)
      /\ \A c : NewRevision(j, c)' = NewRevision(j, c)
  BY DEF BatchDocs, NewChunks, NewRevision
<1>3. ASSUME NEW S, EvidenceWithin(s, S)
      PROVE  \A x \in Element : graph'.prov[x] \cap ChunksOf(s) \subseteq S
  BY <1>3 DEF Frame, EvidenceWithin
<1>4. ExactBatch(j, s) => ExactBatch(j, s)'
  BY <1>2 DEF ExactBatch, Frame, ChunksOf
<1>5. Reconciled(s) => Reconciled(s)'
  BY FrameReconciled
<1>6. ChunksOf(s)' = ChunksOf(s)
  BY DEF ChunksOf
<1>7. /\ EvidenceWithin(s, local[j].stale \cup Stored(s))
            => EvidenceWithin(s, local[j].stale \cup Stored(s))'
      /\ EvidenceWithin(s, local[j].stale) => EvidenceWithin(s, local[j].stale)'
      /\ EvidenceWithin(s, {}) => EvidenceWithin(s, {})'
  BY <1>1, <1>3, <1>6 DEF EvidenceWithin
<1> QED
  BY <1>1, <1>2, <1>4, <1>5, <1>7 DEF Progress

-----------------------------------------------------------------------------
\* The graph of a batch names only chunks in which the extractor found the
\* element, and all of those in which a relation comes with its endpoints.
LEMMA BatchGraphExact ==
    ASSUME TypeOK, NEW i \in Importer, NEW x \in Element
    PROVE  /\ Canonicalize(RawGraph(i)).prov[x]
                 \subseteq {c \in NewChunks(i) : x \in Extracted[NewRevision(i, c)][c]}
           /\ \A c \in NewChunks(i) :
                 /\ x \in Extracted[NewRevision(i, c)][c]
                 /\ x \in Relation => Ends[x] \subseteq Extracted[NewRevision(i, c)][c]
                 => c \in Canonicalize(RawGraph(i)).prov[x]
<1> DEFINE raw == RawGraph(i)
           Mentions(y) == {c \in DOMAIN raw : y \in raw[c]}
<1>1. \A y : Mentions(y) = {c \in NewChunks(i) : y \in Extracted[NewRevision(i, c)][c]}
  BY DEF RawGraph
<1>2. Canonicalize(raw).prov[x]
        = IF x \in Relation /\ ~(\A e \in Ends[x] : Mentions(e) # {}) THEN {} ELSE Mentions(x)
  BY DEF Canonicalize
<1> HIDE DEF raw, Mentions
<1>3. Canonicalize(raw).prov[x] \subseteq Mentions(x)
  BY <1>2
<1>4. ASSUME NEW c \in NewChunks(i), x \in Extracted[NewRevision(i, c)][c],
             x \in Relation => Ends[x] \subseteq Extracted[NewRevision(i, c)][c]
      PROVE  c \in Canonicalize(raw).prov[x]
  <2>1. c \in Mentions(x) /\ (x \in Relation => \A e \in Ends[x] : c \in Mentions(e))
    BY <1>1, <1>4
  <2> QED
    BY <1>2, <2>1
<1> QED
  BY <1>1, <1>3, <1>4 DEF raw

\* An import's start on a source nobody else is importing.
LEMMA StartProgress ==
    ASSUME TypeOK, NEW i \in Importer, NEW batch \in Batches, NEW replace \in ReplaceModes,
           Start(i, batch, replace),
           NEW s \in Source, s \notin tainted', InFlight(s) = {}, Reconciled(s),
           s \in BatchSources(i)'
    PROVE  Progress(i, s)'
<1> DEFINE docs == {d \in Doc : batch[d] # NoRev}
<1>1. local'[i] = [Idle EXCEPT !.batch = batch, !.todo = docs, !.replace = replace]
  BY DEF Start, TypeOK
<1>2. local'[i].batch = batch /\ local'[i].todo = docs /\ local'[i].stale = {}
  BY <1>1 DEF Idle
<1>3. BatchDocs(i)' = docs /\ BatchSources(i)' = {SourceOf[d] : d \in docs}
  BY <1>2 DEF BatchDocs, BatchSources
<1>4. docs # {}
  BY <1>3
<1>5. pc'[i] = IF replace THEN "list" ELSE "embed"
  BY <1>4 DEF Start, TypeOK
<1>6. ~replace => Stored(s) = {}
  BY <1>3 DEF Start
<1>7. EvidenceWithin(s, Stored(s))
  BY DEF Reconciled, EvidenceWithin, Found
<1>8. Stored(s)' = Stored(s) /\ graph' = graph /\ ChunksOf(s)' = ChunksOf(s)
  BY DEF Start, storeVars, Stored, ChunksOf
<1>9. EvidenceWithin(s, local[i].stale \cup Stored(s))'
  BY <1>2, <1>7, <1>8 DEF EvidenceWithin
<1>10. ~replace => EvidenceWithin(s, local[i].stale)'
  BY <1>2, <1>6, <1>7, <1>8 DEF EvidenceWithin
<1>11. BatchDocs(i)' \ local'[i].todo = {}
  BY <1>2, <1>3
<1> HIDE DEF docs
<1>12. CASE replace
  BY <1>5, <1>9, <1>11, <1>12 DEF Progress
<1>13. CASE ~replace
  BY <1>5, <1>6, <1>8, <1>10, <1>13 DEF Progress
<1> QED
  BY <1>12, <1>13

\* Each call of an import takes its own sources one stage further.
LEMMA ListProgress ==
    ASSUME TypeOK, NEW i \in Importer, NEW d \in Doc, ListStale(i, d),
           NEW s \in Source, Progress(i, s)
    PROVE  Progress(i, s)'
<1>1. /\ local'[i].batch = local[i].batch
      /\ local'[i].todo = local[i].todo
      /\ local'[i].current = {d}
      /\ local'[i].stale = local[i].stale \cup Stored(SourceOf[d])
      /\ pc[i] = "list" /\ pc'[i] = "remove"
  BY DEF ListStale, TypeOK, Locals
<1>2. Stored(s)' = Stored(s) /\ graph' = graph /\ ChunksOf(s)' = ChunksOf(s)
  BY DEF ListStale, storeVars, Stored, ChunksOf
<1>3. EvidenceWithin(s, local[i].stale \cup Stored(s))
  BY <1>1 DEF Progress
<1>4. EvidenceWithin(s, local[i].stale \cup Stored(s))'
  BY <1>1, <1>2, <1>3 DEF EvidenceWithin
<1>5. \A e \in BatchDocs(i)' \ local'[i].todo : SourceOf[e] = s => Stored(s)' = {}
  BY <1>1, <1>2 DEF BatchDocs, Progress
<1>6. \A e \in local'[i].current : SourceOf[e] = s => Stored(s)' \subseteq local'[i].stale
  BY <1>1, <1>2
<1> QED
  BY <1>1, <1>4, <1>5, <1>6 DEF Progress

\* RemoveByFilter: what is gone from the store was captured before.
LEMMA RemoveProgress ==
    ASSUME TypeOK, LocalsOwned, NEW i \in Importer, RemoveByFilter(i),
           NEW s \in BatchSources(i), Progress(i, s)
    PROVE  Progress(i, s)'
<1> DEFINE cur  == local[i].current
           rest == local[i].todo \ cur
<1>1. /\ local'[i].batch = local[i].batch
      /\ local'[i].todo = rest
      /\ local'[i].current = {}
      /\ local'[i].stale = local[i].stale
      /\ pc[i] = "remove" /\ pc'[i] = IF rest = {} THEN "embed" ELSE "list"
  BY DEF RemoveByFilter, TypeOK, Locals
<1>2. graph' = graph /\ ChunksOf(s)' = ChunksOf(s) /\ BatchDocs(i)' = BatchDocs(i)
  BY <1>1 DEF RemoveByFilter, ChunksOf, BatchDocs
<1>3. Stored(s)' \subseteq Stored(s)
  BY DEF RemoveByFilter, Stored, ChunksOf
<1>4. ASSUME NEW d \in cur, SourceOf[d] = s
      PROVE  Stored(s)' = {} /\ Stored(s) \subseteq local[i].stale
  BY <1>1, <1>4 DEF RemoveByFilter, Stored, ChunksOf, Progress
<1>5. EvidenceWithin(s, local[i].stale \cup Stored(s))
  BY <1>1 DEF Progress
<1>6. (\A d \in cur : SourceOf[d] # s) => Stored(s)' = Stored(s)
  BY DEF RemoveByFilter, Stored, ChunksOf
<1>7. local[i].stale \cup Stored(s) \subseteq local[i].stale \cup Stored(s)'
  BY <1>4, <1>6
<1>8. EvidenceWithin(s, local[i].stale \cup Stored(s))'
  BY <1>1, <1>2, <1>5, <1>7 DEF EvidenceWithin
<1>9. ASSUME NEW d \in BatchDocs(i), d \notin rest, SourceOf[d] = s
      PROVE  Stored(s)' = {}
  <2>1. CASE d \in cur
    BY <1>4, <1>9, <2>1
  <2>2. CASE d \notin local[i].todo
    BY <1>1, <1>3, <1>9, <2>2 DEF Progress
  <2> QED
    BY <1>9, <2>1, <2>2
<1>10. CASE rest = {}
  <2>1. PICK d \in BatchDocs(i) : SourceOf[d] = s
    BY DEF BatchSources
  <2>2. Stored(s)' = {}
    BY <1>9, <1>10, <2>1
  <2>3. EvidenceWithin(s, local[i].stale)'
    BY <1>8, <2>2 DEF EvidenceWithin
  <2> QED
    BY <1>1, <1>10, <2>2, <2>3 DEF Progress
<1>11. CASE rest # {}
  BY <1>1, <1>2, <1>8, <1>9, <1>11 DEF Progress
<1> QED
  BY <1>10, <1>11

\* UpsertChunks: the source is empty, so it holds what the batch makes of it.
LEMMA UpsertProgress ==
    ASSUME TypeOK, NEW i \in Importer, UpsertChunks(i), NEW s \in Source, Progress(i, s)
    PROVE  Progress(i, s)'
<1>1. pc[i] = "embed" /\ pc'[i] = "reconcile" /\ local' = local /\ graph' = graph
  BY DEF UpsertChunks, TypeOK
<1>2. /\ NewChunks(i)' = NewChunks(i)
      /\ \A c : NewRevision(i, c)' = NewRevision(i, c)
      /\ ChunksOf(s)' = ChunksOf(s)
  BY <1>1 DEF BatchDocs, NewChunks, NewRevision, ChunksOf
<1>3. Stored(s) = {} /\ EvidenceWithin(s, local[i].stale)
  BY <1>1 DEF Progress
<1>4. \A c \in ChunksOf(s) : c \in Chunk /\ chunks[c] = NoRev
  BY <1>3 DEF Stored, ChunksOf
<1>5. ExactBatch(i, s)'
  BY <1>2, <1>4 DEF UpsertChunks, ExactBatch
<1>6. EvidenceWithin(s, local[i].stale)'
  BY <1>1, <1>2, <1>3 DEF EvidenceWithin
<1> QED
  BY <1>1, <1>5, <1>6 DEF Progress

\* Reconcile: all evidence from the source was captured, so none is left.
LEMMA ReconcileProgress ==
    ASSUME TypeOK, NEW i \in Importer, Reconcile(i), NEW s \in Source, Progress(i, s)
    PROVE  Progress(i, s)'
<1>1. pc[i] = "reconcile" /\ pc'[i] = "merge" /\ local' = local /\ chunks' = chunks
  BY DEF Reconcile, TypeOK
<1>2. ExactBatch(i, s) /\ EvidenceWithin(s, local[i].stale)
  BY <1>1 DEF Progress
<1>3. ExactBatch(i, s)'
  BY <1>1, <1>2 DEF ExactBatch, ChunksOf, NewChunks, BatchDocs, NewRevision
<1>4. ASSUME NEW x \in Element
      PROVE  graph'.prov[x] \cap ChunksOf(s) = {}
  <2>1. CASE local[i].stale = {}
    BY <1>2, <2>1 DEF Reconcile, EvidenceWithin
  <2>2. CASE local[i].stale # {}
    <3>1. graph'.prov[x] = graph.prov[x] \ local[i].stale
      BY <2>2 DEF Reconcile, RemoveGraphBySource
    <3> QED
      BY <1>2, <3>1 DEF EvidenceWithin
  <2> QED
    BY <2>1, <2>2
<1>5. EvidenceWithin(s, {})'
  BY <1>4 DEF EvidenceWithin, ChunksOf
<1> QED
  BY <1>1, <1>3, <1>5 DEF Progress

\* MergeGraph: the graph says of the source what the batch says.
LEMMA MergeProgress ==
    ASSUME TypeOK, NEW i \in Importer, MergeGraph(i),
           NEW s \in Source, Progress(i, s)
    PROVE  Progress(i, s)'
<1>1. pc[i] = "merge" /\ pc'[i] = "snapshot" /\ local' = local /\ chunks' = chunks
  BY DEF MergeGraph, TypeOK
<1>2. ExactBatch(i, s) /\ EvidenceWithin(s, {})
  BY <1>1 DEF Progress
<1>3. \A c \in NewChunks(i) : NewRevision(i, c) # NoRev
  BY NewRevisionType, IngestAssumption DEF IngestAssumption
<1>4. \A c \in Chunk : c \in Stored(s) <=> c \in ChunksOf(s) /\ c \in NewChunks(i)
  BY <1>2, <1>3 DEF ExactBatch, Stored
<1>5. NewChunks(i) \subseteq Chunk /\ ChunksOf(s) \subseteq Chunk /\ Stored(s) \subseteq ChunksOf(s)
  BY NewRevisionType DEF ChunksOf, Stored
<1>6. \A c \in Stored(s) : chunks[c] = NewRevision(i, c)
  BY <1>2, <1>4, <1>5 DEF ExactBatch
<1>7. Stored(s)' = Stored(s) /\ ChunksOf(s)' = ChunksOf(s)
  BY <1>1 DEF Stored, ChunksOf
<1>8. ASSUME NEW x \in Element
      PROVE  /\ graph'.prov[x] \cap ChunksOf(s) \subseteq Found(s, x)'
             /\ Grounded(s, x)' \subseteq graph'.prov[x]
  <2>1. graph'.prov[x] = graph.prov[x] \cup Canonicalize(RawGraph(i)).prov[x]
    BY DEF MergeGraph, UpsertGraph
  <2>2. graph.prov[x] \cap ChunksOf(s) = {}
    BY <1>2 DEF EvidenceWithin
  <2>3. Found(s, x)' = {c \in Stored(s) : x \in Extracted[NewRevision(i, c)][c]}
    BY <1>1, <1>6, <1>7 DEF Found
  <2>4. \A c \in Grounded(s, x)' :
            /\ c \in Stored(s) /\ x \in Extracted[NewRevision(i, c)][c]
            /\ x \in Relation => Ends[x] \subseteq Extracted[NewRevision(i, c)][c]
    BY <1>1, <1>6, <2>3 DEF Grounded
  <2>5. graph'.prov[x] \cap ChunksOf(s) \subseteq Found(s, x)'
    BY <1>4, <1>5, <2>1, <2>2, <2>3, BatchGraphExact
  <2>6. Grounded(s, x)' \subseteq graph'.prov[x]
    BY <1>4, <1>5, <2>1, <2>4, BatchGraphExact
  <2> QED
    BY <2>5, <2>6
<1>9. Reconciled(s)'
  BY <1>7, <1>8 DEF Reconciled
<1> QED
  BY <1>1, <1>9 DEF Progress

\* TakeSnapshot changes nothing the graph says.
LEMMA SnapshotProgress ==
    ASSUME TypeOK, NEW i \in Importer, TakeSnapshot(i), NEW s \in Source, Progress(i, s)
    PROVE  Progress(i, s)'
<1>1. /\ pc[i] = "snapshot" /\ pc'[i] = "communities"
      /\ chunks' = chunks /\ graph' = graph
  BY DEF TakeSnapshot, storeVars, TypeOK
<1>2. Reconciled(s)
  BY <1>1 DEF Progress
<1>3. Reconciled(s)'
  BY <1>1, <1>2, SameReconciled
<1> QED
  BY <1>1, <1>3 DEF Progress

-----------------------------------------------------------------------------
\* An import keeps its batch and goes on, unless it returns or fails.
LEMMA BatchKept ==
    ASSUME TypeOK, NEW i \in Importer, Call(i), ~Abandon(i), ~PutCommunities(i)
    PROVE  local'[i].batch = local[i].batch /\ pc'[i] # "idle"
<1>1. ASSUME NEW d \in Doc, ListStale(i, d)
      PROVE  local'[i].batch = local[i].batch /\ pc'[i] # "idle"
  BY <1>1 DEF ListStale, TypeOK, Locals
<1>2. CASE RemoveByFilter(i)
  BY <1>2 DEF RemoveByFilter, TypeOK, Locals
<1>3. CASE UpsertChunks(i) \/ Reconcile(i) \/ MergeGraph(i)
  BY <1>3 DEF UpsertChunks, Reconcile, MergeGraph, TypeOK
<1>4. CASE TakeSnapshot(i)
  BY <1>4 DEF TakeSnapshot, TypeOK, Locals
<1> QED
  BY <1>1, <1>2, <1>3, <1>4 DEF Call, Fail, UpsertPrefix

\* A call by an import of other sources.
LEMMA ForeignCallIsolated ==
    ASSUME TypeOK, LocalsOwned, NEW i \in Importer, Call(i),
           NEW s \in Source, Isolated(s), s \notin BatchSources(i)
    PROVE  Isolated(s)'
<1>1. IngestNext
  BY DEF IngestNext
<1>2. pc[i] # "idle" /\ pc'[i] # pc[i]
  BY DEF Call, ListStale, RemoveByFilter, UpsertChunks, Reconcile, MergeGraph, TakeSnapshot,
         PutCommunities, Fail, UpsertPrefix, Abandon, TypeOK
<1>3. Frame(s)
  BY <1>1, <1>2, ForeignStep DEF ForeignUntouchedBy, Frame, ChunksOf
<1>4. \A j \in Importer : j # i => pc'[j] = pc[j] /\ local'[j] = local[j]
  BY DEF Call, ListStale, RemoveByFilter, UpsertChunks, Reconcile, MergeGraph, TakeSnapshot,
         PutCommunities, Fail, UpsertPrefix, Abandon, TypeOK
<1>5. \A j \in Importer : j # i => BatchSources(j)' = BatchSources(j)
  BY <1>4 DEF BatchSources, BatchDocs
<1>6. s \notin BatchSources(i)'
  <2>1. local'[i] = Idle \/ local'[i].batch = local[i].batch
    BY BatchKept DEF Abandon, PutCommunities, TypeOK
  <2> QED
    BY <2>1 DEF BatchSources, BatchDocs, Idle
<1>7. InFlight(s)' = InFlight(s)
  BY <1>4, <1>5, <1>6 DEF InFlight
<1>8. \A j \in InFlight(s) : j \in Importer /\ j # i
  BY DEF InFlight
<1>9. \A j \in InFlight(s) : Progress(j, s)'
  BY <1>3, <1>4, <1>8, FrameProgress DEF Isolated
<1>10. InFlight(s) = {} => Reconciled(s)'
  BY <1>3, FrameReconciled DEF Isolated
<1> QED
  BY <1>7, <1>9, <1>10 DEF Isolated

\* A call by the only import of the source.
LEMMA OwnCallIsolated ==
    ASSUME TypeOK, LocalsOwned, NEW i \in Importer, Call(i),
           NEW s \in Source, s \notin tainted', Isolated(s), s \in BatchSources(i)
    PROVE  Isolated(s)'
<1>1. pc[i] # "idle"
  BY DEF Call, ListStale, RemoveByFilter, UpsertChunks, Reconcile, MergeGraph, TakeSnapshot,
         PutCommunities, Fail, UpsertPrefix
<1>2. i \in InFlight(s) /\ Progress(i, s)
  BY <1>1 DEF InFlight, Isolated
<1>3. \A j \in InFlight(s) : j = i
  BY <1>2 DEF Isolated
<1>4. ~Abandon(i)
  BY DEF Abandon
<1>5. \A j \in Importer : j # i => pc'[j] = pc[j] /\ local'[j] = local[j]
  BY DEF Call, ListStale, RemoveByFilter, UpsertChunks, Reconcile, MergeGraph, TakeSnapshot,
         PutCommunities, Fail, UpsertPrefix, Abandon, TypeOK
<1>6. \A j \in InFlight(s)' : j = i
  BY <1>3, <1>5 DEF InFlight, BatchSources, BatchDocs
<1>7. CASE PutCommunities(i)
  <2>1. InFlight(s)' = {}
    BY <1>6, <1>7 DEF PutCommunities, InFlight, TypeOK
  <2>2. Reconciled(s)
    BY <1>2, <1>7 DEF PutCommunities, Progress
  <2>3. Reconciled(s)'
    BY <1>7, <2>2, SameReconciled DEF PutCommunities
  <2> QED
    BY <2>1, <2>3 DEF Isolated
<1>8. CASE ~PutCommunities(i)
  <2>1. local'[i].batch = local[i].batch /\ pc'[i] # "idle"
    BY <1>4, <1>8, BatchKept
  <2>2. i \in InFlight(s)'
    BY <1>2, <2>1 DEF InFlight, BatchSources, BatchDocs
  <2>3. Progress(i, s)'
    BY <1>2, <1>4, <1>8, ListProgress, RemoveProgress, UpsertProgress, ReconcileProgress,
       MergeProgress, SnapshotProgress DEF Call, Fail, UpsertPrefix
  <2> QED
    BY <1>6, <2>2, <2>3 DEF Isolated
<1> QED
  BY <1>7, <1>8

\* The start of an import.
LEMMA StartIsolated ==
    ASSUME TypeOK, NEW i \in Importer, NEW batch \in Batches, NEW replace \in ReplaceModes,
           Start(i, batch, replace),
           NEW s \in Source, s \notin tainted', Isolated(s)
    PROVE  Isolated(s)'
<1>1. Frame(s) /\ pc[i] = "idle"
  BY DEF Start, storeVars, Frame
<1>2. \A j \in Importer : j # i => pc'[j] = pc[j] /\ local'[j] = local[j]
  BY DEF Start, TypeOK
<1>3. \A j \in Importer : j # i => BatchSources(j)' = BatchSources(j)
  BY <1>2 DEF BatchSources, BatchDocs
<1>4. i \notin InFlight(s)
  BY <1>1 DEF InFlight
<1>5. CASE s \notin BatchSources(i)'
  <2>1. InFlight(s)' = InFlight(s)
    BY <1>2, <1>3, <1>4, <1>5 DEF InFlight
  <2>2. \A j \in InFlight(s) : Progress(j, s)'
    BY <1>1, <1>2, <1>4, FrameProgress DEF Isolated, InFlight
  <2>3. InFlight(s) = {} => Reconciled(s)'
    BY <1>1, FrameReconciled DEF Isolated
  <2> QED
    BY <2>1, <2>2, <2>3 DEF Isolated
<1>6. CASE s \in BatchSources(i)'
  <2>1. local'[i].batch = batch
    BY DEF Start, TypeOK, Idle
  <2>2. s \in {SourceOf[d] : d \in {e \in Doc : batch[e] # NoRev}}
    BY <1>6, <2>1 DEF BatchSources, BatchDocs
  <2>3. InFlight(s) = {}
    BY <2>2 DEF Start
  <2>4. Progress(i, s)'
    BY <1>6, <2>3, StartProgress DEF Isolated
  <2>5. \A j \in InFlight(s)' : j = i
    BY <1>2, <1>3, <2>3 DEF InFlight
  <2>6. pc'[i] # "idle"
    BY DEF Start, TypeOK
  <2>7. i \in InFlight(s)'
    BY <1>6, <2>6 DEF InFlight
  <2> QED
    BY <2>4, <2>5, <2>7 DEF Isolated
<1> QED
  BY <1>5, <1>6

\* System.Remove taints the source of the chunk it removes.
LEMMA RemoveChunkIsolated ==
    ASSUME TypeOK, NEW c \in Chunk, RemoveChunk(c),
           NEW s \in Source, s \notin tainted', Isolated(s)
    PROVE  Isolated(s)'
<1>1. SourceOf[DocOf[c]] # s
  BY DEF RemoveChunk
<1>2. Frame(s) /\ pc' = pc /\ local' = local
  BY <1>1 DEF RemoveChunk, Frame, ChunksOf, TypeOK
<1>3. InFlight(s)' = InFlight(s)
  BY <1>2 DEF InFlight, BatchSources, BatchDocs
<1>4. \A j \in InFlight(s) : Progress(j, s)'
  BY <1>2, FrameProgress DEF Isolated, InFlight
<1>5. InFlight(s) = {} => Reconciled(s)'
  BY <1>2, FrameReconciled DEF Isolated
<1> QED
  BY <1>3, <1>4, <1>5 DEF Isolated

\* Every step keeps every source that stays untainted isolated.
LEMMA IsolationStep ==
    TypeOK /\ LocalsOwned /\ IsolationInv /\ [IngestNext]_ingestVars => IsolationInv'
<1> SUFFICES ASSUME TypeOK, LocalsOwned, IsolationInv, [IngestNext]_ingestVars,
                    NEW s \in Source, s \notin tainted'
             PROVE  Isolated(s)'
  BY DEF IsolationInv
<1>1. tainted \subseteq tainted'
  BY DEF IngestNext, Start, RemoveChunk, Call, ListStale, RemoveByFilter, UpsertChunks, Reconcile,
         MergeGraph, TakeSnapshot, PutCommunities, Fail, UpsertPrefix, Abandon, ghostVars, ingestVars
<1>2. Isolated(s)
  BY <1>1 DEF IsolationInv
<1>3. ASSUME NEW i \in Importer, NEW batch \in Batches, NEW replace \in ReplaceModes,
             Start(i, batch, replace)
      PROVE  Isolated(s)'
  BY <1>2, <1>3, StartIsolated
<1>4. ASSUME NEW i \in Importer, Call(i)
      PROVE  Isolated(s)'
  BY <1>2, <1>4, ForeignCallIsolated, OwnCallIsolated
<1>5. ASSUME NEW c \in Chunk, RemoveChunk(c)
      PROVE  Isolated(s)'
  BY <1>2, <1>5, RemoveChunkIsolated
<1>6. CASE UNCHANGED ingestVars
  BY <1>2, <1>6 DEF ingestVars, storeVars, Isolated, InFlight, Progress, Reconciled, Found, Grounded,
                    Stored, ChunksOf, EvidenceWithin, ExactBatch, NewChunks, NewRevision, BatchSources,
                    BatchDocs
<1> QED
  BY <1>3, <1>4, <1>5, <1>6 DEF IngestNext

\* A source whose imports all succeeded, replaced what was there and did not
\* overlap has an exact graph between them, whatever imports of other sources
\* do or fail at in the meantime.
THEOREM SourcesStayIsolated == IngestSpec => []SourcesAreIsolated
<1>1. Init => IsolationInv
  <2> SUFFICES ASSUME Init, NEW s \in Source
               PROVE  Isolated(s)
    BY DEF IsolationInv
  <2>1. InFlight(s) = {}
    BY DEF Init, InFlight
  <2>2. Stored(s) = {}
    BY DEF Init, Stored, ChunksOf
  <2>3. \A x \in Element : graph.prov[x] = {}
    BY DEF Init, EmptyGraph
  <2>4. Reconciled(s)
    BY <2>2, <2>3 DEF Reconciled, Found, Grounded
  <2> QED
    BY <2>1, <2>4 DEF Isolated
<1>2. TypeOK /\ LocalsOwned /\ IsolationInv /\ [IngestNext]_ingestVars => IsolationInv'
  BY IsolationStep
<1>3. IsolationInv => SourcesAreIsolated
  BY DEF IsolationInv, Isolated, SourcesAreIsolated
<1> QED
  BY <1>1, <1>2, <1>3, LocalsOwnedInvariant, PTL DEF IngestSpec
=============================================================================
