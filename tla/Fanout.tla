-------------------------------- MODULE Fanout --------------------------------
(***************************************************************************)
(* internal/fanout: Run starts one goroutine per task, bounds how many     *)
(* tasks run by a semaphore channel, waits for all of them on a WaitGroup  *)
(* and returns one result per task.  With fail-fast, a task that fails or  *)
(* panics cancels the context its siblings share.                          *)
(*                                                                         *)
(* Goroutines interleave at every channel, context and WaitGroup           *)
(* operation.  A deferred call is a step of its own: runOne's run in the   *)
(* order cancel (inside the recover handler), semaphore release, wg.Done.  *)
(***************************************************************************)
EXTENDS Naturals, FiniteSets

CONSTANTS
    N,              \* number of tasks
    MaxConcurrency, \* 0: unlimited, no semaphore
    FailFast,       \* WithFailFast
    Waiters,        \* tasks that return only once their context is done
    Cancels         \* whether the caller may cancel its context

ASSUME FanoutAssumption ==
    /\ N \in Nat \ {0}
    /\ MaxConcurrency \in Nat
    /\ FailFast \in BOOLEAN
    /\ Waiters \subseteq 1..N
    /\ Cancels \in BOOLEAN

Task == 1..N

VARIABLES
    main,      \* Run: "spawn", "wait", "check" (of the caller's context), "done"
    next,      \* the task Run starts next
    pc,        \* where each goroutine is
    sem,       \* tokens in the semaphore channel
    wg,        \* WaitGroup counter
    results,   \* results[t]: "none" until written
    outerDone, \* the caller's context is cancelled
    runDone,   \* the derived context is cancelled
    returned   \* what Run returned: "no" until then

vars == <<main, next, pc, sem, wg, results, outerDone, runDone, returned>>

Failures == {"err", "panic"}

Init ==
    /\ main = "spawn"
    /\ next = 1
    /\ pc = [t \in Task |-> "unborn"]
    /\ sem = 0
    /\ wg = 0
    /\ results = [t \in Task |-> "none"]
    /\ outerDone = FALSE
    /\ runDone = FALSE
    /\ returned = "no"

Goto(t, place) == pc' = [pc EXCEPT ![t] = place]

-----------------------------------------------------------------------------
\* wg.Add(1) and go, for each task in turn.
Spawn ==
    /\ main = "spawn"
    /\ wg' = wg + 1
    /\ Goto(next, IF MaxConcurrency = 0 THEN "check" ELSE "acquire")
    /\ next' = next + 1
    /\ main' = IF next = N THEN "wait" ELSE "spawn"
    /\ UNCHANGED <<sem, results, outerDone, runDone, returned>>

\* The select: both branches may be ready, and Go picks either.
Acquire(t) ==
    /\ pc[t] = "acquire"
    /\ sem < MaxConcurrency
    /\ sem' = sem + 1
    /\ Goto(t, "check")
    /\ UNCHANGED <<main, next, wg, results, outerDone, runDone, returned>>

GiveUp(t) ==
    /\ pc[t] = "acquire"
    /\ runDone
    /\ results' = [results EXCEPT ![t] = "skipped"]
    /\ Goto(t, "leave")
    /\ UNCHANGED <<main, next, sem, wg, outerDone, runDone, returned>>

\* The check of the context before the task, with the token in hand.
Check(t) ==
    /\ pc[t] = "check"
    /\ IF runDone
       THEN /\ results' = [results EXCEPT ![t] = "skipped"]
            /\ Goto(t, "release")
       ELSE /\ Goto(t, "running")
            /\ UNCHANGED results
    /\ UNCHANGED <<main, next, sem, wg, outerDone, runDone, returned>>

\* Mutation of Finish: a panic does not reach the fail-fast branch.
FinishPanicUnseen(t, outcome) ==
    /\ pc[t] = "running"
    /\ t \in Waiters => runDone /\ outcome = "err"
    /\ results' = [results EXCEPT ![t] = outcome]
    /\ Goto(t, IF outcome = "err" /\ FailFast THEN "cancel" ELSE "release")
    /\ UNCHANGED <<main, next, sem, wg, outerDone, runDone, returned>>

\* The task returns or panics; its result is written, then the others are
\* cancelled.
Finish(t, outcome) ==
    /\ pc[t] = "running"
    /\ t \in Waiters => runDone /\ outcome = "err"
    /\ results' = [results EXCEPT ![t] = outcome]
    /\ Goto(t, IF outcome \in Failures /\ FailFast THEN "cancel" ELSE "release")
    /\ UNCHANGED <<main, next, sem, wg, outerDone, runDone, returned>>

CancelSiblings(t) ==
    /\ pc[t] = "cancel"
    /\ runDone' = TRUE
    /\ Goto(t, "release")
    /\ UNCHANGED <<main, next, sem, wg, results, outerDone, returned>>

\* The deferred receive gives the token back.
Release(t) ==
    /\ pc[t] = "release"
    /\ sem' = IF MaxConcurrency = 0 THEN sem ELSE sem - 1
    /\ Goto(t, "leave")
    /\ UNCHANGED <<main, next, wg, results, outerDone, runDone, returned>>

Leave(t) ==
    /\ pc[t] = "leave"
    /\ wg' = wg - 1
    /\ Goto(t, "gone")
    /\ UNCHANGED <<main, next, sem, results, outerDone, runDone, returned>>

\* wg.Wait, then the caller's context decides the error; the deferred cancel
\* ends the derived context.
Wait ==
    /\ main = "wait"
    /\ wg = 0
    /\ main' = "check"
    /\ UNCHANGED <<next, pc, sem, wg, results, outerDone, runDone, returned>>

\* Mutation of Return: the derived context decides the error.
ReturnDerived ==
    /\ main = "check"
    /\ returned' = IF runDone THEN "error" ELSE "nil"
    /\ runDone' = TRUE
    /\ main' = "done"
    /\ UNCHANGED <<next, pc, sem, wg, results, outerDone>>

Return ==
    /\ main = "check"
    /\ returned' = IF outerDone THEN "error" ELSE "nil"
    /\ runDone' = TRUE
    /\ main' = "done"
    /\ UNCHANGED <<next, pc, sem, wg, results, outerDone>>

\* The caller cancels; the derived context follows.
CancelOuter ==
    /\ Cancels
    /\ ~outerDone
    /\ outerDone' = TRUE
    /\ UNCHANGED <<main, next, pc, sem, wg, results, runDone, returned>>

Propagate ==
    /\ outerDone /\ ~runDone
    /\ runDone' = TRUE
    /\ UNCHANGED <<main, next, pc, sem, wg, results, outerDone, returned>>

Goroutine(t) ==
    \/ Acquire(t)
    \/ GiveUp(t)
    \/ Check(t)
    \/ \E outcome \in {"ok"} \cup Failures : Finish(t, outcome)
    \/ CancelSiblings(t)
    \/ Release(t)
    \/ Leave(t)

Run == Spawn \/ Wait \/ Return

\* Run has returned and every goroutine is gone.
Terminated == main = "done" /\ UNCHANGED vars

Next == Run \/ Terminated \/ CancelOuter \/ Propagate \/ \E t \in Task : Goroutine(t)

Spec == Init /\ [][Next]_vars

\* The Go scheduler runs every goroutine that can run.  A task's own return is
\* a step of its goroutine: tasks outside Waiters end by themselves.
FairSpec ==
    /\ Spec
    /\ WF_vars(Run)
    /\ WF_vars(Propagate)
    /\ \A t \in Task : WF_vars(Goroutine(t))

-----------------------------------------------------------------------------
(***************************************************************************)
(* Properties.                                                             *)
(***************************************************************************)
TypeOK ==
    /\ main \in {"spawn", "wait", "check", "done"}
    /\ next \in 1..(N + 1)
    /\ pc \in [Task -> {"unborn", "acquire", "check", "running", "cancel",
                        "release", "leave", "gone"}]
    /\ sem \in Nat
    /\ wg \in Nat
    /\ results \in [Task -> {"none", "ok", "err", "panic", "skipped"}]
    /\ outerDone \in BOOLEAN
    /\ runDone \in BOOLEAN
    /\ returned \in {"no", "nil", "error"}

Running == {t \in Task : pc[t] = "running"}

\* "At most maxConcurrency in parallel", whatever panics, fails or is
\* cancelled on the way.
ConcurrencyBounded ==
    MaxConcurrency > 0 => Cardinality(Running) <= MaxConcurrency

\* When Run hands out the results, every one of them is written and no
\* goroutine is left that could still write.
ResultsComplete ==
    main \in {"check", "done"} =>
        \A t \in Task : results[t] # "none" /\ pc[t] = "gone"

\* A task is skipped only because the caller cancelled or, with fail-fast,
\* because a sibling failed: by default one failure never aborts another task.
SkippedForAReason ==
    \A t \in Task : results[t] = "skipped" =>
        outerDone \/ (FailFast /\ \E u \in Task : results[u] \in Failures)

\* Run keeps the promise of Scatter.
Promise == INSTANCE Scatter WITH settled <- results, cancelled <- outerDone
RunKeepsItsPromise == Promise!Spec

\* Run returns once nothing waits for ever: when the tasks return by themselves,
\* or when their context ends, because the caller cancels or, with fail-fast,
\* because a sibling fails while others run or queue.
RunReturns ==
    \/ Waiters = {}
    \/ outerDone
    \/ FailFast /\ \E t \in Task : results[t] \in Failures
    ~> main = "done"

=============================================================================
