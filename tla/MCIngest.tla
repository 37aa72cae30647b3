------------------------------ MODULE MCIngest ------------------------------
(***************************************************************************)
(* Instances of Ingest: two documents, up to three chunk IDs, a graph of   *)
(* two entities and one relation.                                          *)
(***************************************************************************)
EXTENDS Ingest, TLC

\* Importers are interchangeable.
Importers == Permutations(Importer)

CONSTANTS d1, d2, s1, s2, c10, c11, c20, a, b, ab, v1, v2

MCEnds == [r \in {ab} |-> {a, b}]

MCDocOf    == c10 :> d1 @@ c11 :> d1 @@ c20 :> d2
MCPosition == c10 :> 0 @@ c11 :> 1 @@ c20 :> 0

\* Two sources of one document each, or one source of two documents.
OwnSource    == d1 :> s1 @@ d2 :> s2
SharedSource == d1 :> s1 @@ d2 :> s1

\* Document d1 shrinks from two chunks to one, d2 becomes empty.
MCSplit == d1 :> (v1 :> {c10, c11} @@ v2 :> {c10})
        @@ d2 :> (v1 :> {c20}      @@ v2 :> {})

\* The chunk ID c10 is reused for different content, and both documents
\* mention the relation.
Dictionary ==
    v1 :> (c10 :> {a} @@ c11 :> {a, b, ab} @@ c20 :> {a, b, ab})
 @@ v2 :> (c10 :> {b} @@ c11 :> {}         @@ c20 :> {})

\* A language model that names the endpoints of the relation in other chunks
\* than those it states it in, or nowhere.
LanguageModel ==
    v1 :> (c10 :> {a}  @@ c11 :> {b, ab} @@ c20 :> {ab})
 @@ v2 :> (c10 :> {ab} @@ c11 :> {}      @@ c20 :> {})
=============================================================================
