------------------------------- MODULE Ingest -------------------------------
(***************************************************************************)
(* System.Import: concurrent imports into one namespace of a store that is *)
(* a Store, a GraphStore and a CommunityStore, with an entity extractor    *)
(* and a community detector configured.                                    *)
(*                                                                         *)
(* Import makes up to seven kinds of store calls.  Each is atomic (the     *)
(* store locks its mutex, or runs one transaction), the import as a whole  *)
(* is not: other imports run between the calls, any call may return an     *)
(* error, and the process may stop between two of them.  An error or a     *)
(* crash ends the import and keeps the effects of the calls already made.  *)
(*                                                                         *)
(* Detect is a deterministic function of the graph it is given, so the     *)
(* stored community set is represented by the snapshot it was computed     *)
(* from.                                                                   *)
(***************************************************************************)
EXTENDS GraphStore

CONSTANTS
    Doc,          \* document IDs
    Source,       \* source IDs
    SourceOf,     \* SourceOf[d] is the source ID document d carries
    DocOf,        \* DocOf[c] is the document whose chunks carry ID c
    Position,     \* Position[c] is the index in the chunk ID
    Revision,     \* contents a document may have
    Split,        \* Split[d][v] are the chunk IDs of document d with content v
    Extracted,    \* Extracted[v][c] is what the extractor finds in chunk c of v
    NoRev,        \* the chunk is not stored; the document is not in the batch
    Importer,     \* concurrent callers of Import
    ReplaceModes, \* values of ImportOptions.ReplaceSource that callers use
    Faults,       \* whether calls may fail
    Removals,     \* whether callers use System.Remove
    MaxImports    \* bound: how many imports are started

ASSUME IngestAssumption ==
    /\ SourceOf \in [Doc -> Source]
    /\ DocOf \in [Chunk -> Doc]
    /\ Position \in [Chunk -> Nat]
    /\ Split \in [Doc -> [Revision -> SUBSET Chunk]]
    /\ \A d \in Doc, v \in Revision : \A c \in Split[d][v] : DocOf[c] = d
    /\ Extracted \in [Revision -> [Chunk -> SUBSET Element]]
    /\ NoRev \notin Revision
    /\ ReplaceModes \subseteq BOOLEAN
    /\ Faults \in BOOLEAN
    /\ Removals \in BOOLEAN
    /\ MaxImports \in Nat

\* A relation found in a chunk comes with its endpoints, found in the same
\* chunk.  DictionaryEntityExtractor guarantees it; what a language model
\* answers to LLMEntityExtractor need not have it.
ClosedExtraction ==
    \A v \in Revision, c \in Chunk :
        \A r \in Relation \cap Extracted[v][c] : Ends[r] \subseteq Extracted[v][c]

VARIABLES
    chunks,       \* chunks[c]: the revision stored under chunk ID c, or NoRev
    graph,        \* the namespace's graph
    communities,  \* the snapshot the stored community set was detected from
    pc,           \* where each importer is
    local,        \* the local variables of each importer
    \* Variables that only observe:
    imports,      \* how many imports were started
    lone,         \* importers in flight that have been alone since they started
    redetected,   \* the import that ended last was alone and succeeded
    tainted,      \* sources that an import overlapped, failed on or did not replace
    reimported    \* sources whose last import was a completed ReplaceSource one

storeVars == <<chunks, graph, communities>>
ghostVars == <<imports, lone, redetected, tainted, reimported>>
ingestVars == <<storeVars, pc, local, ghostVars>>

Batches == [Doc -> Revision \cup {NoRev}]

Idle == [batch    |-> [d \in Doc |-> NoRev],
         todo     |-> {},
         current  |-> {},
         stale    |-> {},
         snapshot |-> EmptyGraph,
         replace  |-> FALSE]

Locals == [batch    : Batches,       \* the documents given, with their content
           todo     : SUBSET Doc,    \* documents the first pass has not reached
           current  : SUBSET Doc,    \* the document whose source is being removed
           stale    : SUBSET Chunk,  \* staleGraphChunkIDs
           snapshot : NsGraph,       \* snap
           replace  : BOOLEAN]       \* opts.ReplaceSource

\* The documents of the batch, the sources they name, and the chunks the
\* splitter makes of them.
BatchDocs(i)    == {d \in Doc : local[i].batch[d] # NoRev}
BatchSources(i) == {SourceOf[d] : d \in BatchDocs(i)}
NewChunks(i)    == UNION {Split[d][local[i].batch[d]] : d \in BatchDocs(i)}
NewRevision(i, c) == local[i].batch[DocOf[c]]

RawGraph(i) == [c \in NewChunks(i) |-> Extracted[NewRevision(i, c)][c]]

ChunksOf(s)  == {c \in Chunk : SourceOf[DocOf[c]] = s}
Stored(s)    == {c \in ChunksOf(s) : chunks[c] # NoRev}
InFlight(s)  == {i \in Importer : pc[i] # "idle" /\ s \in BatchSources(i)}
AllIdle      == \A i \in Importer : pc[i] = "idle"

Init ==
    /\ chunks = [c \in Chunk |-> NoRev]
    /\ graph = EmptyGraph
    /\ communities = EmptyGraph
    /\ pc = [i \in Importer |-> "idle"]
    /\ local = [i \in Importer |-> Idle]
    /\ imports = 0
    /\ lone = {}
    /\ redetected = TRUE
    /\ tainted = {}
    /\ reimported = {}

-----------------------------------------------------------------------------
\* The first pass removes the sources of the batch when ReplaceSource is set.
Start(i, batch, replace) ==
    LET docs    == {d \in Doc : batch[d] # NoRev}
        sources == {SourceOf[d] : d \in docs}
    IN  /\ pc[i] = "idle"
        /\ imports < MaxImports
        /\ pc' = [pc EXCEPT ![i] = IF replace /\ docs # {} THEN "list" ELSE "embed"]
        /\ local' = [local EXCEPT ![i] = [Idle EXCEPT !.batch = batch,
                                                      !.todo = docs,
                                                      !.replace = replace]]
        /\ imports' = imports + 1
        /\ lone' = IF AllIdle THEN {i} ELSE {}
        /\ tainted' = tainted \cup
              {s \in sources : \/ InFlight(s) # {}
                               \/ ~replace /\ Stored(s) # {}}
        /\ reimported' = reimported \ sources
        /\ UNCHANGED <<storeVars, redetected>>

\* Mutation of ListStale: the IDs of the last source replace those before.
ListStaleOverwrites(i, d) ==
    /\ pc[i] = "list"
    /\ d \in local[i].todo
    /\ local' = [local EXCEPT ![i].stale = Stored(SourceOf[d]),
                              ![i].current = {d}]
    /\ pc' = [pc EXCEPT ![i] = "remove"]
    /\ UNCHANGED <<storeVars, ghostVars>>

\* The chunk IDs the source had are captured for the graph.
ListStale(i, d) ==
    /\ pc[i] = "list"
    /\ d \in local[i].todo
    /\ local' = [local EXCEPT ![i].stale = @ \cup Stored(SourceOf[d]),
                              ![i].current = {d}]
    /\ pc' = [pc EXCEPT ![i] = "remove"]
    /\ UNCHANGED <<storeVars, ghostVars>>

\* Mutation of RemoveByFilter: the source filter is not applied.
RemoveByFilterUnfiltered(i) ==
    LET rest == local[i].todo \ local[i].current
    IN  /\ pc[i] = "remove"
        /\ chunks' = [c \in Chunk |-> NoRev]
        /\ local' = [local EXCEPT ![i].todo = rest, ![i].current = {}]
        /\ pc' = [pc EXCEPT ![i] = IF rest = {} THEN "embed" ELSE "list"]
        /\ UNCHANGED <<graph, communities, ghostVars>>

\* The chunks of the source are removed; then the next document, or embedding.
RemoveByFilter(i) ==
    LET removed == UNION {ChunksOf(SourceOf[d]) : d \in local[i].current}
        rest    == local[i].todo \ local[i].current
    IN  /\ pc[i] = "remove"
        /\ chunks' = [c \in Chunk |-> IF c \in removed THEN NoRev ELSE chunks[c]]
        /\ local' = [local EXCEPT ![i].todo = rest, ![i].current = {}]
        /\ pc' = [pc EXCEPT ![i] = IF rest = {} THEN "embed" ELSE "list"]
        /\ UNCHANGED <<graph, communities, ghostVars>>

\* Every chunk of the batch is embedded and its graph extracted, then all are
\* upserted in one call.
UpsertChunks(i) ==
    /\ pc[i] = "embed"
    /\ chunks' = [c \in Chunk |-> IF c \in NewChunks(i)
                                  THEN NewRevision(i, c) ELSE chunks[c]]
    /\ pc' = [pc EXCEPT ![i] = "reconcile"]
    /\ UNCHANGED <<graph, communities, local, ghostVars>>

\* The stale contributions captured in the first pass are dropped, if any.
Reconcile(i) ==
    /\ pc[i] = "reconcile"
    /\ graph' = IF local[i].stale = {}
                THEN graph ELSE RemoveGraphBySource(graph, local[i].stale)
    /\ pc' = [pc EXCEPT ![i] = "merge"]
    /\ UNCHANGED <<chunks, communities, local, ghostVars>>

MergeGraph(i) ==
    /\ pc[i] = "merge"
    /\ graph' = UpsertGraph(graph, Canonicalize(RawGraph(i)))
    /\ pc' = [pc EXCEPT ![i] = "snapshot"]
    /\ UNCHANGED <<chunks, communities, local, ghostVars>>

TakeSnapshot(i) ==
    /\ pc[i] = "snapshot"
    /\ local' = [local EXCEPT ![i].snapshot = graph]
    /\ pc' = [pc EXCEPT ![i] = "communities"]
    /\ UNCHANGED <<storeVars, ghostVars>>

\* Mutation of PutCommunities: an empty set does not clear the stored one.
PutCommunitiesUnlessEmpty(i) ==
    /\ pc[i] = "communities"
    /\ communities' = IF Entities(local[i].snapshot) = {}
                      THEN communities ELSE local[i].snapshot
    /\ pc' = [pc EXCEPT ![i] = "idle"]
    /\ local' = [local EXCEPT ![i] = Idle]
    /\ lone' = lone \ {i}
    /\ redetected' = (i \in lone)
    /\ reimported' = IF local[i].replace
                     THEN reimported \cup BatchSources(i) ELSE reimported
    /\ UNCHANGED <<chunks, graph, imports, tainted>>

\* Detection over the snapshot replaces the stored set; Import returns.
PutCommunities(i) ==
    /\ pc[i] = "communities"
    /\ communities' = local[i].snapshot
    /\ pc' = [pc EXCEPT ![i] = "idle"]
    /\ local' = [local EXCEPT ![i] = Idle]
    /\ lone' = lone \ {i}
    /\ redetected' = (i \in lone)
    /\ reimported' = IF local[i].replace
                     THEN reimported \cup BatchSources(i) ELSE reimported
    /\ UNCHANGED <<chunks, graph, imports, tainted>>

-----------------------------------------------------------------------------
\* Import returns an error and forgets its locals.
Abandon(i) ==
    /\ pc' = [pc EXCEPT ![i] = "idle"]
    /\ local' = [local EXCEPT ![i] = Idle]
    /\ lone' = lone \ {i}
    /\ redetected' = FALSE
    /\ tainted' = tainted \cup BatchSources(i)
    /\ UNCHANGED <<imports, reimported>>

\* A call fails without an effect, or the process stops before it: the
\* embedder, the extractor, the entity resolver, the detector, or the store.
Fail(i) ==
    /\ Faults
    /\ pc[i] # "idle"
    /\ Abandon(i)
    /\ UNCHANGED storeVars

\* InMemoryStore.Upsert stores the chunks in order and stops at the first
\* vector of a wrong dimension: those before it stay stored.
UpsertPrefix(i, kept) ==
    /\ Faults
    /\ pc[i] = "embed"
    /\ kept \in SUBSET NewChunks(i) /\ kept # {} /\ kept # NewChunks(i)
    /\ \A c \in kept, b \in NewChunks(i) :
          DocOf[b] = DocOf[c] /\ Position[b] < Position[c] => b \in kept
    /\ chunks' = [c \in Chunk |-> IF c \in kept THEN NewRevision(i, c) ELSE chunks[c]]
    /\ Abandon(i)
    /\ UNCHANGED <<graph, communities>>

\* System.Remove deletes one chunk and leaves the graph alone.
RemoveChunk(c) ==
    /\ Removals
    /\ chunks[c] # NoRev
    /\ chunks' = [chunks EXCEPT ![c] = NoRev]
    /\ tainted' = tainted \cup {SourceOf[DocOf[c]]}
    /\ UNCHANGED <<graph, communities, pc, local, imports, lone, redetected, reimported>>

Call(i) ==
    \/ \E d \in Doc : ListStale(i, d)
    \/ RemoveByFilter(i)
    \/ UpsertChunks(i)
    \/ Reconcile(i)
    \/ MergeGraph(i)
    \/ TakeSnapshot(i)
    \/ PutCommunities(i)
    \/ Fail(i)
    \/ \E kept \in SUBSET Chunk : UpsertPrefix(i, kept)

IngestNext ==
    \/ \E i \in Importer, batch \in Batches, replace \in ReplaceModes :
          Start(i, batch, replace)
    \/ \E i \in Importer : Call(i)
    \/ \E c \in Chunk : RemoveChunk(c)

IngestSpec == Init /\ [][IngestNext]_ingestVars

-----------------------------------------------------------------------------
(***************************************************************************)
(* Properties.                                                             *)
(***************************************************************************)
TypeOK ==
    /\ chunks \in [Chunk -> Revision \cup {NoRev}]
    /\ graph \in NsGraph
    /\ communities \in NsGraph
    /\ pc \in [Importer -> {"idle", "list", "remove", "embed", "reconcile",
                            "merge", "snapshot", "communities"}]
    /\ local \in [Importer -> Locals]
    /\ imports \in Nat
    /\ lone \subseteq Importer
    /\ redetected \in BOOLEAN
    /\ tainted \subseteq Source
    /\ reimported \subseteq Source

\* However imports interleave and wherever they fail, no reader of the graph,
\* of a snapshot of it or of the stored communities meets a relation with an
\* endpoint that is gone: the two passes of UpsertGraph and of
\* RemoveGraphBySource, over entities and over relations, stay in step.
NoDanglingRelation ==
    /\ CoversRelations(graph)
    /\ CoversRelations(communities)
    /\ \A i \in Importer : CoversRelations(local[i].snapshot)

\* Whatever the extractor answers, a merge adds no relation whose endpoint the
\* graph does not have at that moment: Canonicalize drops relations with an
\* endpoint nobody named, before UpsertGraph adds the rest.
NewRelationsHaveEndpoints ==
    [][\A i \in Importer : pc[i] = "merge" /\ pc'[i] = "snapshot" =>
          \A r \in Relations(graph') \ Relations(graph) : Ends[r] \subseteq Entities(graph')
      ]_ingestVars

\* The weight that community detection reads never falls below the number of
\* chunks the relation is attributed to, across re-imports and removals.
EvidenceIsWeighed == WeighsEvidence(graph)

\* The stored chunks of a source in which the extractor found an element, and
\* those in which it found the endpoints of a relation too.
Found(s, x) == {c \in Stored(s) : x \in Extracted[chunks[c]][c]}
Grounded(s, x) ==
    {c \in Found(s, x) : x \in Relation => Ends[x] \subseteq Extracted[chunks[c]][c]}

\* What the graph attributes to the chunks of a source is what the extractor
\* found in those that are stored; only a relation found without its endpoints
\* may be missing.
Reconciled(s) ==
    \A x \in Element :
        /\ graph.prov[x] \cap ChunksOf(s) \subseteq Found(s, x)
        /\ Grounded(s, x) \subseteq graph.prov[x]

\* Imports of different sources do not disturb one another: a source whose
\* own imports all succeeded, replaced what was there and did not overlap has
\* an exact graph, whatever other imports did, failed at, or are doing.
SourcesAreIsolated ==
    \A s \in Source : s \notin tainted /\ InFlight(s) = {} => Reconciled(s)

\* An import that ran alone leaves the communities detected from the graph as
\* it stands.
LoneImportRedetects ==
    AllIdle /\ redetected => communities = graph

\* A step of an import changes nothing that belongs to a source its batch does
\* not name: neither its chunks nor its share of any provenance.
ForeignSourcesUntouched ==
    [][\A i \in Importer : pc'[i] # pc[i] /\ pc[i] # "idle" =>
          \A c \in Chunk : SourceOf[DocOf[c]] \notin BatchSources(i) =>
              /\ chunks'[c] = chunks[c]
              /\ \A x \in Element : c \in graph'.prov[x] <=> c \in graph.prov[x]
      ]_ingestVars

-----------------------------------------------------------------------------
(***************************************************************************)
(* What the documentation says and the code does not do (violated).        *)
(***************************************************************************)

\* docs/graphrag.md: Import "reconciles it on a ReplaceSource re-ingest (stale
\* contributions removed, the re-extracted subgraph union-merged)".  Stated of
\* a source whose last import was a ReplaceSource import that succeeded.
ReingestReconciles ==
    \A s \in reimported : InFlight(s) = {} => Reconciled(s)
=============================================================================
