------------------------------- MODULE Scatter -------------------------------
(***************************************************************************)
(* What fanout.Run promises its callers, without saying how: every task    *)
(* settles once, as what the task answered or as skipped; a task is        *)
(* skipped only after something called the run off, which is a caller that *)
(* cancelled or, with fail-fast, a task that failed; and Run returns when  *)
(* every task has settled.                                                 *)
(***************************************************************************)
EXTENDS Naturals

CONSTANTS N, FailFast

VARIABLES
    settled,    \* settled[t]: how task t settled
    cancelled,  \* the caller's context is cancelled
    returned    \* Run returned: "no", with "nil", or with the context's "error"

vars == <<settled, cancelled, returned>>

Failures == {"err", "panic"}
Answers  == {"ok"} \cup Failures

CalledOff ==
    cancelled \/ (FailFast /\ \E t \in 1..N : settled[t] \in Failures)

Init ==
    /\ settled = [t \in 1..N |-> "none"]
    /\ cancelled = FALSE
    /\ returned = "no"

Answer(t, a) ==
    /\ settled[t] = "none"
    /\ settled' = [settled EXCEPT ![t] = a]
    /\ UNCHANGED <<cancelled, returned>>

Skip(t) ==
    /\ settled[t] = "none"
    /\ CalledOff
    /\ settled' = [settled EXCEPT ![t] = "skipped"]
    /\ UNCHANGED <<cancelled, returned>>

Cancel ==
    /\ cancelled' = TRUE
    /\ UNCHANGED <<settled, returned>>

Return ==
    /\ returned = "no"
    /\ \A t \in 1..N : settled[t] # "none"
    /\ returned' = IF cancelled THEN "error" ELSE "nil"
    /\ UNCHANGED <<settled, cancelled>>

Next ==
    \/ \E t \in 1..N : Skip(t) \/ \E a \in Answers : Answer(t, a)
    \/ Cancel
    \/ Return

Spec == Init /\ [][Next]_vars
=============================================================================
