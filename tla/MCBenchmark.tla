----------------------------- MODULE MCBenchmark -----------------------------
(***************************************************************************)
(* An instance of Benchmark: three examples, the first two with one query  *)
(* that may be answered in two ways.                                       *)
(***************************************************************************)
EXTENDS Benchmark

CONSTANTS q1, q2

MCQuery == <<q1, q1, q2>>
MCKey   == {q1, q2} \X Texts
=============================================================================
