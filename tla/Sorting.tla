------------------------------- MODULE Sorting -------------------------------
(***************************************************************************)
(* Sorting by a total order, as the calls of package sort do.  SetToSortSeq *)
(* gives the same list, but rests on an operator of TLC's own; here an     *)
(* element is at the place that its predecessors leave it.                 *)
(***************************************************************************)
EXTENDS Naturals, FiniteSets

\* The elements of a finite set, each before those it has to be before.
InOrder(S, before(_, _)) ==
    [k \in 1..Cardinality(S) |->
        CHOOSE x \in S : Cardinality({y \in S : before(y, x)}) = k - 1]
=============================================================================
