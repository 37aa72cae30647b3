--------------------------- MODULE MCComputations ---------------------------
(***************************************************************************)
(* Inputs for the algorithms, small and many.                              *)
(***************************************************************************)
EXTENDS Computations

Pairs(S) == {e \in S \X S : e[1] < e[2]}
Unit(S, edges) == [entities |-> S, relations |-> {[from |-> e[1], to |-> e[2], weight |-> 1] : e \in edges}]

\* Every graph of five entities and four or five relations; weighted ones of
\* four entities, with weights that count as one; torn ones, with loops.
UnitGraphs     == {Unit(1..5, E) : E \in kSubset(4, Pairs(1..5)) \cup kSubset(5, Pairs(1..5))}
WeightedGraphs ==
    {[entities |-> 1..4, relations |-> {[from |-> e[2], to |-> e[1], weight |-> w[e]] : e \in DOMAIN w}] :
        w \in UNION {[E -> {-1, 2, 3}] : E \in kSubset(3, Pairs(1..4))}}
TornGraphs     ==
    {[entities |-> {2, 3, 4}, relations |-> {[from |-> e[1], to |-> e[2], weight |-> 2] : e \in E}] :
        E \in kSubset(3, (1..4) \X (2..4))}
MCDetectInputs == UnitGraphs \cup WeightedGraphs \cup TornGraphs \cup {Unit(1..3, {}), Unit({}, {})}

\* IDs 1, 2 and 3, 4, 5 are alike among themselves.
MCCommonPrefix ==
    [i \in 1..5 |-> [j \in 1..5 |-> IF i = j THEN 3 ELSE IF (i <= 2) = (j <= 2) THEN 2 ELSE 1]]

Text(t)    == [level |-> 0, text |-> t]
Heading(n) == [level |-> n, text |-> <<>>]
Texts == {<<>>, <<"x">>, <<"x", " ", "x">>, <<"x", "x", "x", " ", "x">>}
MCSplitInputs ==
    {[splitter |-> "markdown", lines |-> ls, maxChars |-> 3, overlap |-> 1] :
        ls \in [1..4 -> {Text(<<>>), Text(<<"x", " ", "x", "x">>)} \cup {Heading(n) : n \in 1..3}]}
    \cup {[splitter |-> "char", lines |-> ls, maxChars |-> size[1], overlap |-> size[2]] :
        ls \in [1..4 -> {Text(t) : t \in Texts}], size \in {<<5, 0>>, <<5, 2>>, <<3, 1>>, <<2, 3>>}}

Hit(id, title, content, score, matches) ==
    [id |-> id, name |-> 2, title |-> title, content |-> content, score |-> score, matches |-> matches]
MCPackInputs ==
    [question : {3, 9}, budget : {0, 6, 13, 20}, reranker : {"none", "heuristic", "model"}, topN : {0, 2},
     compress : BOOLEAN, drop : BOOLEAN,
     hits : {<<>>,
             <<Hit("a", 0, <<2>>, 10, 0), Hit("b", 3, <<3, 1, 2>>, 9, 1), Hit("c", 1, <<1>>, 9, 2)>>,
             <<Hit("a", 2, <<1, 4, 1>>, 5, 0), Hit("b", 1, <<>>, 5, 0), Hit("c", 0, <<6>>, 2, 3)>>}]

\* Four entities of one type in every order, under every likeness of their
\* names; three of two types that may share names, with duplicates.  The names 1
\* and 4 are spellings of one, 5 is another of 3 that no entity has, and 6 names
\* nothing.
Alike(E)     == E \cup {<<e[2], e[1]>> : e \in E}
Related(ns)  == [i \in 1..Len(ns) |-> [source |-> ns[i], target |-> ns[(i % Len(ns)) + 1]]]
MCNameLength == <<2, 1, 3, 2, 3, 2>>
MCNormalName == <<1, 2, 3, 1, 3, 4>>
MCResolveInputs ==
    {[entities  |-> [i \in 1..4 |-> [name |-> p[i], type |-> 1]],
      relations |-> Related(<<1, 2, 5, 6>>),
      alike     |-> Alike(E)] : p \in Permutations(1..4), E \in SUBSET Pairs(1..4)}
    \cup
    [entities  : {es \in [1..3 -> [name : {1, 3, 4}, type : {1, 2}]] : es[1].type = 2} \cup {<<>>},
     relations : {Related(<<1, 3, 4, 5, 6>>)},
     alike     : {Alike(E) : E \in SUBSET Pairs({1, 3, 4})}]

\* Four places for entities, one unknown to the neighborhood in some, and
\* relations that run in parallel, loop or lead out of it.
Relation(e, w, cs) == [source |-> e[1], target |-> e[2], weight |-> w, chunks |-> cs]
MCPathInputs ==
    [entities  : {{1, 2, 3, 4}, {1, 2, 4}},
     relations : {<<Relation(e[1], 0, {"x"}), Relation(e[2], 2, {"x"}), Relation(e[3], 1, {}), Relation(e[4], 3, {"x", "y"})>> :
                     e \in {f \in [1..4 -> {<<1, 2>>, <<3, 2>>, <<1, 3>>, <<4, 1>>, <<2, 2>>}] : f[1] # <<2, 2>>}},
     seeds     : {{1}, {1, 2}, {1, 2, 3}}]
=============================================================================
