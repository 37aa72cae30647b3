------------------------------- MODULE Benchmark -------------------------------
(***************************************************************************)
(* AnswerBenchmark.Run: examples are asked and, when there is a judge,     *)
(* judged, one after the other or by a bounded pool of workers that share  *)
(* one cache of judgements.                                                *)
(* The asker is NewRetryAsker(inner), the judge is                         *)
(* NewCachingJudge(NewRetryJudge(inner)), and both retry under one policy. *)
(*                                                                         *)
(* The caller's goroutine alone runs the examples of a sequential run.     *)
(* Goroutines interleave between the calls of the inner asker and judge,   *)
(* the operations of the cache and the accesses of firstErr, each of which *)
(* is atomic (a mutex, or one call).  The pool is fanout.Run by what       *)
(* Scatter promises of it, without fail-fast; the context the caller may   *)
(* cancel is checked where the code checks it.  Durations are left out: a  *)
(* sleep ends when its timer or the context ends it.                       *)
(***************************************************************************)
EXTENDS LruCache, FiniteSets

CONSTANTS
    N,            \* number of examples
    Workers,      \* Parallelism, where it is at least 2
    Query,        \* Query[e]: the query of example e
    Texts,        \* texts the inner asker may answer
    MaxAttempts,  \* RetryPolicy.MaxAttempts
    Cancels,      \* whether the caller may cancel its context
    Panics        \* whether the inner asker and judge may panic

ASSUME BenchmarkAssumption ==
    /\ N \in Nat \ {0}
    /\ Workers \in Nat \ {0, 1}
    /\ Key = {Query[e] : e \in 1..N} \X Texts
    /\ Texts # {}
    /\ MaxAttempts \in Nat \ {0}
    /\ Cancels \in BOOLEAN
    /\ Panics \in BOOLEAN

Example == 1..N

\* Errors of the inner calls, by what RetryPolicy.Classify says of them.
InnerErrors == {"transient", "permanent"}

NoVerdict == "unjudged"

VARIABLES
    parallel,  \* Parallelism >= 2
    judging,   \* Judge is not nil
    pc,        \* where the worker of each example is
    stage,     \* the call it is in: "ask" or "judge"
    attempt,   \* i of retryLoop
    answer,    \* ans
    verdict,   \* j, a set of at most one
    error,     \* err of runOne, a set of at most one
    cache,     \* the shared MemoryJudgeCache
    cancelled, \* the caller's context is cancelled
    firstErr,  \* the recorded error, a set of at most one <<example, error>>
    results,   \* the examples scored, with their verdict or NoVerdict
    settled,   \* Result.Err of each task, for Scatter
    fanned,    \* what fanout.Run returned
    returned,  \* what Run returned: "no" until then, "ok", "error" or "panic"
    \* Variables that only observe:
    given,     \* verdicts the inner judge gave, with their key
    recency,   \* keys ever stored, the most recently used first
    progress   \* how many times Progress fired for each example

workerVars == <<pc, stage, attempt, answer, verdict, error>>
sharedVars == <<cache, firstErr, results, settled>>
runVars    == <<parallel, judging, cancelled, fanned, returned>>
seenVars   == <<given, recency, progress>>
vars == <<workerVars, sharedVars, runVars, seenVars>>

Init ==
    /\ parallel \in BOOLEAN
    /\ judging \in BOOLEAN
    /\ pc = [e \in Example |-> "waiting"]
    /\ stage = [e \in Example |-> "ask"]
    /\ attempt = [e \in Example |-> 0]
    /\ answer \in [Example -> {CHOOSE a \in Texts : TRUE}]
    /\ verdict = [e \in Example |-> {}]
    /\ error = [e \in Example |-> {}]
    /\ cache = EmptyCache
    /\ cancelled = FALSE
    /\ firstErr = {}
    /\ results = [e \in Example |-> {}]
    /\ settled = [e \in Example |-> "none"]
    /\ fanned = "no"
    /\ returned = "no"
    /\ given = {}
    /\ recency = <<>>
    /\ progress = [e \in Example |-> 0]

Goto(e, place) == pc' = [pc EXCEPT ![e] = place]

\* Workers that hold a slot of the pool.
Busy == {e \in Example : pc[e] \notin {"waiting", "done"}}

\* Mutation of JudgeKey: the answer is left out of the key.
JudgeKeyOfQuery(e) == <<Query[e], CHOOSE a \in Texts : TRUE>>

\* JudgeCacheKey; the context is a function of the query.
JudgeKey(e) == <<Query[e], answer[e]>>

-----------------------------------------------------------------------------
\* Mutation of Skip: a recorded error skips the examples that still wait.
SkipOnError(e) ==
    /\ parallel /\ pc[e] = "waiting"
    /\ cancelled \/ firstErr # {}
    /\ settled' = [settled EXCEPT ![e] = "skipped"]
    /\ Goto(e, "done")
    /\ UNCHANGED <<stage, attempt, answer, verdict, error>>
    /\ UNCHANGED <<cache, firstErr, results, runVars, seenVars>>

\* The pool gives up a task that has no slot when the context ends.
Skip(e) ==
    /\ parallel /\ pc[e] = "waiting"
    /\ cancelled
    /\ settled' = [settled EXCEPT ![e] = "skipped"]
    /\ Goto(e, "done")
    /\ UNCHANGED <<stage, attempt, answer, verdict, error>>
    /\ UNCHANGED <<cache, firstErr, results, runVars, seenVars>>

Enter(e) ==
    /\ parallel /\ pc[e] = "waiting"
    /\ Cardinality(Busy) < Workers
    /\ ~cancelled
    /\ Goto(e, "gate")
    /\ UNCHANGED <<stage, attempt, answer, verdict, error>>
    /\ UNCHANGED <<sharedVars, runVars, seenVars>>

\* The sequential loop goes on to the next example while none has failed.
RunNext(e) ==
    /\ ~parallel /\ pc[e] = "waiting"
    /\ returned = "no"
    /\ \A d \in 1..(e - 1) : pc[d] = "done"
    /\ Goto(e, "enter")
    /\ UNCHANGED <<stage, attempt, answer, verdict, error>>
    /\ UNCHANGED <<sharedVars, runVars, seenVars>>

\* Mutation of Gate: the sticky error is not read.
GateOpen(e) ==
    /\ pc[e] = "gate"
    /\ Goto(e, "enter")
    /\ UNCHANGED <<stage, attempt, answer, verdict, error>>
    /\ UNCHANGED <<sharedVars, runVars, seenVars>>

\* The sticky-error gate: with an error recorded the task ends without a result
\* and without an error of its own.
Gate(e) ==
    /\ pc[e] = "gate"
    /\ IF firstErr # {}
       THEN Goto(e, "done") /\ settled' = [settled EXCEPT ![e] = "ok"]
       ELSE Goto(e, "enter") /\ UNCHANGED settled
    /\ UNCHANGED <<stage, attempt, answer, verdict, error>>
    /\ UNCHANGED <<cache, firstErr, results, runVars, seenVars>>

\* The select before the loop: a context that is done never even tries.
EnterLoop(e) ==
    /\ pc[e] = "enter"
    /\ IF cancelled
       THEN Goto(e, "report") /\ error' = [error EXCEPT ![e] = {"ctx"}]
       ELSE Goto(e, "try") /\ UNCHANGED error
    /\ attempt' = [attempt EXCEPT ![e] = 0]
    /\ UNCHANGED <<stage, answer, verdict>>
    /\ UNCHANGED <<sharedVars, runVars, seenVars>>

\* The inner asker answers; the answer is scored and its judgement looked up,
\* if there is a judge.
Answered(e, a) ==
    /\ pc[e] = "try" /\ stage[e] = "ask"
    /\ answer' = [answer EXCEPT ![e] = a]
    /\ IF judging
       THEN /\ stage' = [stage EXCEPT ![e] = "judge"]
            /\ Goto(e, "lookup")
            /\ UNCHANGED verdict
       ELSE /\ verdict' = [verdict EXCEPT ![e] = {NoVerdict}]
            /\ Goto(e, "report")
            /\ UNCHANGED stage
    /\ UNCHANGED <<attempt, error>>
    /\ UNCHANGED <<sharedVars, runVars, seenVars>>

\* The inner judge gives a verdict, which the caching judge is to store.
Judged(e, v) ==
    /\ pc[e] = "try" /\ stage[e] = "judge"
    /\ verdict' = [verdict EXCEPT ![e] = {v}]
    /\ given' = given \cup {<<<<Query[e], answer[e]>>, v>>}
    /\ Goto(e, "put")
    /\ UNCHANGED <<stage, attempt, answer, error>>
    /\ UNCHANGED <<sharedVars, runVars, recency, progress>>

\* The inner call fails: on the last attempt, or with an error that is not
\* retryable, the loop ends with it; otherwise it sleeps.
Failed(e, err) ==
    /\ pc[e] = "try"
    /\ IF attempt[e] = MaxAttempts - 1 \/ err = "permanent"
       THEN /\ error' = [error EXCEPT ![e] = {err}]
            /\ Goto(e, "report")
       ELSE /\ Goto(e, "sleep")
            /\ UNCHANGED error
    /\ UNCHANGED <<stage, attempt, answer, verdict>>
    /\ UNCHANGED <<sharedVars, runVars, seenVars>>

\* The inner call panics: the panic unwinds past Progress and past the record of
\* the error to the pool, or to the caller of a sequential run.
Panicked(e) ==
    /\ Panics
    /\ pc[e] = "try"
    /\ IF parallel
       THEN settled' = [settled EXCEPT ![e] = "panic"] /\ UNCHANGED returned
       ELSE returned' = "panic" /\ UNCHANGED settled
    /\ Goto(e, "done")
    /\ UNCHANGED <<stage, attempt, answer, verdict, error>>
    /\ UNCHANGED <<cache, firstErr, results, parallel, judging, cancelled, fanned, seenVars>>

\* Mutation of Wake: the loop starts over.
WakeRestarts(e) ==
    /\ pc[e] = "sleep"
    /\ Goto(e, "enter")
    /\ UNCHANGED <<stage, attempt, answer, verdict, error>>
    /\ UNCHANGED <<sharedVars, runVars, seenVars>>

\* The sleep ends: by its timer, or by the context if that is done.
Wake(e) ==
    /\ pc[e] = "sleep"
    /\ attempt' = [attempt EXCEPT ![e] = @ + 1]
    /\ Goto(e, "try")
    /\ UNCHANGED <<stage, answer, verdict, error>>
    /\ UNCHANGED <<sharedVars, runVars, seenVars>>

Interrupted(e) ==
    /\ pc[e] = "sleep"
    /\ cancelled
    /\ error' = [error EXCEPT ![e] = {"ctx"}]
    /\ Goto(e, "report")
    /\ UNCHANGED <<stage, attempt, answer, verdict>>
    /\ UNCHANGED <<sharedVars, runVars, seenVars>>

\* cachingJudge.Judge looks the answer up; on a miss it asks the inner judge.
Lookup(e) ==
    LET k == JudgeKey(e)
    IN  /\ pc[e] = "lookup"
        /\ cache' = Touch(cache, k)
        /\ IF Holds(cache, k)
           THEN /\ verdict' = [verdict EXCEPT ![e] = {cache.byKey[k]}]
                /\ recency' = MoveToFront(recency, k)
                /\ Goto(e, "report")
           ELSE /\ Goto(e, "enter")
                /\ UNCHANGED <<verdict, recency>>
        /\ UNCHANGED <<stage, attempt, answer, error>>
        /\ UNCHANGED <<firstErr, results, settled, runVars, given, progress>>

Store(e) ==
    LET k == JudgeKey(e)
    IN  /\ pc[e] = "put"
        /\ \E v \in verdict[e] : cache' = Put(cache, k, v)
        /\ recency' = MoveToFront(recency, k)
        /\ Goto(e, "report")
        /\ UNCHANGED <<stage, attempt, answer, verdict, error>>
        /\ UNCHANGED <<firstErr, results, settled, runVars, given, progress>>

\* runOne returned: Progress fires, then the slot of the example is written or
\* the error goes on to be recorded.  A sequential run returns it.
Report(e) ==
    /\ pc[e] = "report"
    /\ progress' = [progress EXCEPT ![e] = @ + 1]
    /\ IF error[e] = {}
       THEN /\ results' = [results EXCEPT ![e] = verdict[e]]
            /\ settled' = IF parallel THEN [settled EXCEPT ![e] = "ok"] ELSE settled
            /\ Goto(e, "done")
            /\ UNCHANGED returned
       ELSE /\ Goto(e, IF parallel THEN "record" ELSE "done")
            /\ returned' = IF parallel THEN returned ELSE "error"
            /\ UNCHANGED <<results, settled>>
    /\ UNCHANGED <<stage, attempt, answer, verdict, error>>
    /\ UNCHANGED <<cache, firstErr, parallel, judging, cancelled, fanned, given, recency>>

\* The first error to get here sticks.
Record(e) ==
    /\ pc[e] = "record"
    /\ firstErr' = IF firstErr = {} THEN {<<e, err>> : err \in error[e]} ELSE firstErr
    /\ settled' = [settled EXCEPT ![e] = "err"]
    /\ Goto(e, "done")
    /\ UNCHANGED <<stage, attempt, answer, verdict, error>>
    /\ UNCHANGED <<cache, results, runVars, seenVars>>

\* fanout.Run returns; its own error is dropped.
Gather ==
    /\ parallel /\ fanned = "no"
    /\ \A e \in Example : pc[e] = "done"
    /\ fanned' = IF cancelled THEN "error" ELSE "nil"
    /\ UNCHANGED <<workerVars, sharedVars, parallel, judging, cancelled, returned, seenVars>>

\* Mutation of Return: what the pool says of the tasks is dropped as well.
ReturnRecorded ==
    /\ fanned # "no" /\ returned = "no"
    /\ returned' = IF firstErr = {} THEN "ok" ELSE "error"
    /\ UNCHANGED <<workerVars, sharedVars, parallel, judging, cancelled, fanned, seenVars>>

\* The recorded error, else the error of any task, else the results.
Return ==
    /\ fanned # "no" /\ returned = "no"
    /\ returned' = IF firstErr = {} /\ \A e \in Example : settled[e] = "ok"
                   THEN "ok" ELSE "error"
    /\ UNCHANGED <<workerVars, sharedVars, parallel, judging, cancelled, fanned, seenVars>>

\* The sequential loop is through.
ReturnAll ==
    /\ ~parallel /\ returned = "no"
    /\ \A e \in Example : pc[e] = "done"
    /\ returned' = "ok"
    /\ UNCHANGED <<workerVars, sharedVars, parallel, judging, cancelled, fanned, seenVars>>

Cancel ==
    /\ Cancels
    /\ ~cancelled
    /\ fanned = "no" /\ returned = "no"
    /\ cancelled' = TRUE
    /\ UNCHANGED <<workerVars, sharedVars, parallel, judging, fanned, returned, seenVars>>

Worker(e) ==
    \/ Skip(e)
    \/ Enter(e)
    \/ RunNext(e)
    \/ Gate(e)
    \/ EnterLoop(e)
    \/ \E a \in Texts : Answered(e, a)
    \/ \E v \in Value : Judged(e, v)
    \/ \E err \in InnerErrors : Failed(e, err)
    \/ Panicked(e)
    \/ Wake(e)
    \/ Interrupted(e)
    \/ Lookup(e)
    \/ Store(e)
    \/ Report(e)
    \/ Record(e)

Finished == returned # "no" /\ UNCHANGED vars

Next ==
    \/ \E e \in Example : Worker(e)
    \/ Gather
    \/ Return
    \/ ReturnAll
    \/ Cancel
    \/ Finished

Spec == Init /\ [][Next]_vars

\* The scheduler runs every goroutine, inner calls answer, timers fire.
FairSpec ==
    /\ Spec
    /\ \A e \in Example : WF_vars(Worker(e))
    /\ WF_vars(Gather \/ Return \/ ReturnAll)

-----------------------------------------------------------------------------
(***************************************************************************)
(* Properties.                                                             *)
(***************************************************************************)

\* However lookups and stores of the workers interleave, list and map agree and
\* hold exactly the Cap most recently used keys, in that order; whatever left
\* was counted.
CacheIsLRU ==
    LET size == IF Len(recency) < Cap THEN Len(recency) ELSE Cap
    IN  /\ cache.order = SubSeq(recency, 1, size)
        /\ DOMAIN cache.byKey = ToSet(cache.order)
        /\ cache.evictions >= Len(recency) - size

\* A verdict is one the inner judge gave for this query and this answer, with
\* the cache or without, and never one of a failed attempt.
VerdictsAreGenuine ==
    /\ \A e \in Example : \A v \in results[e] :
          IF judging THEN <<<<Query[e], answer[e]>>, v>> \in given ELSE v = NoVerdict
    /\ \A k \in DOMAIN cache.byKey : <<k, cache.byKey[k]>> \in given

\* Run returns results only if every example was asked, judged and reported
\* once: no gate, panic or cancelled context leaves an empty slot in them.
SuccessScoresAll ==
    returned = "ok" => \A e \in Example : results[e] # {} /\ progress[e] = 1

\* An error is recorded when nothing is left to try, and then stops the run: a
\* retryable one ends its loop only after every attempt was spent, and once one
\* is recorded only the examples in flight go on; nothing runs on after the
\* return, and a sequential run has not run the examples after the failing one.
ErrorsAreFinal ==
    /\ \A e \in Example : "transient" \in error[e] => attempt[e] = MaxAttempts - 1
    /\ firstErr # {} => Cardinality(Busy \ {e \in Example : pc[e] = "gate"}) < Workers
    /\ returned # "no" => Busy = {}
    /\ ~parallel => \A e \in Example : error[e] # {} => \A d \in (e + 1)..N : pc[d] = "waiting"

\* The tasks of Run use the pool as Scatter describes it: no failure of one
\* skips another.
Pool == INSTANCE Scatter WITH FailFast <- FALSE, returned <- fanned
TasksFollowScatter == Pool!Spec

\* Run returns, whatever fails, panics or is cancelled.
BenchmarkReturns == <>(returned # "no")
=============================================================================
