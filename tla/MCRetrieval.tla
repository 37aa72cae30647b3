------------------------------ MODULE MCRetrieval ------------------------------
(***************************************************************************)
(* An instance of Retrieval: three chunks in three sections, two of them   *)
(* nested, and two queries that rank them differently.                     *)
(***************************************************************************)
EXTENDS Retrieval, TLC

MCSectionOf == <<<<"A">>, <<"A", "B">>, <<"C">>>>
MCMatches ==
    ("q" :> ("A" :> 1 @@ "B" :> 0 @@ "C" :> 1 @@ "T" :> 0))
    @@ ("r" :> ("A" :> 0 @@ "B" :> 1 @@ "C" :> 0 @@ "T" :> 0))
MCTerms      == ("q" :> <<1, 0, 1>>) @@ ("r" :> <<1, 1, 0>>)
MCSimilarity == ("q" :> <<2, 1, 2>>) @@ ("r" :> <<1, 3, 2>>)
MCHops       == ("q" :> (2 :> 0 @@ 3 :> 1)) @@ ("r" :> (1 :> 0))

Plain == [queries |-> <<"q">>, topK |-> 2, path |-> <<>>, autoRoute |-> FALSE, fanout |-> 0,
          threshold |-> 0, gap |-> 0, minScore |-> 10, structure |-> TRUE, graph |-> TRUE,
          depth |-> 0, via |-> "variants"]

Routed == [Plain EXCEPT !.autoRoute = TRUE, !.graph = FALSE]

MCRequests ==
    {Plain,
     [Routed EXCEPT !.fanout = 2],
     [Routed EXCEPT !.fanout = 3, !.threshold = 40, !.gap = 20, !.structure = FALSE, !.queries = <<"q", "r">>],
     [Routed EXCEPT !.queries = <<"r", "q">>, !.topK = 3, !.structure = FALSE],
     [Plain EXCEPT !.via = "hops", !.path = <<"A">>, !.graph = FALSE, !.queries = <<"q", "r">>]}
=============================================================================
