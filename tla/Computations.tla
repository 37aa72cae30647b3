---------------------------- MODULE Computations ----------------------------
(***************************************************************************)
(* The computations that no other actor takes part in: one community       *)
(* detection, one splitting of a document, one prompt, one resolution of   *)
(* names, one ranking of paths.  They share nothing and one of them runs.  *)
(***************************************************************************)
EXTENDS Detection, Splitting, Packing, Resolution, Paths

VARIABLE computation    \* "detection", "splitting", "packing", "resolution", "paths"

vars == <<computation, detectVars, splitVars, packVars, resolveVars, pathVars>>

Init ==
    /\ computation \in {"detection", "splitting", "packing", "resolution", "paths"}
    /\ DetectInit /\ SplitInit /\ PackInit /\ ResolveInit /\ PathInit

Idle == at = "idle" /\ stage = "idle" /\ phase = "idle" /\ resolver = "idle" /\ ranker = "idle"

Others(own) ==
    /\ computation = own /\ UNCHANGED computation
    /\ own # "detection"  => UNCHANGED detectVars
    /\ own # "splitting"  => UNCHANGED splitVars
    /\ own # "packing"    => UNCHANGED packVars
    /\ own # "resolution" => UNCHANGED resolveVars
    /\ own # "paths"      => UNCHANGED pathVars

Begin ==
    \/ Others("detection") /\ Detect
    \/ Others("splitting") /\ Split
    \/ Others("packing") /\ AskRound
    \/ Others("resolution") /\ Resolve
    \/ Others("paths") /\ RankPaths

Step ==
    \/ Others("detection") /\ DetectStep
    \/ Others("splitting") /\ SplitStep
    \/ Others("packing") /\ PackStep
    \/ Others("resolution") /\ ResolveStep
    \/ Others("paths") /\ PathStep

Next == Begin \/ Step

\* Nothing is waited for: what has begun goes on while it has a step.
Fairness == WF_vars(Step)

Spec     == Init /\ [][Next]_vars
FairSpec == Spec /\ Fairness

Ended ==
    CASE computation = "detection" -> DetectionSettled
      [] computation = "splitting" -> stage = "done"
      [] computation = "packing"   -> phase \in {"cited", "failed"}
      [] computation = "resolution" -> resolver \in {"done", "failed"}
      [] OTHER                     -> ranker = "ranked"

\* Every computation that begins comes to its end, and detection to one of its
\* own: its sweeps end because nothing moves any more, not at
\* louvainMaxPassIters or labelPropagationMaxIters.
EveryComputationEnds == ~Idle ~> Ended
=============================================================================
