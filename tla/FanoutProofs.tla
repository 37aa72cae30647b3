----------------------------- MODULE FanoutProofs -----------------------------
(***************************************************************************)
(* Theorems about Fanout, for any number of tasks and any bound on their   *)
(* concurrency.                                                            *)
(***************************************************************************)
EXTENDS Fanout, FiniteSetTheorems, TLAPS

Places == {"unborn", "acquire", "check", "running", "cancel", "release", "leave", "gone"}

\* Goroutines with a token, and goroutines Run still waits for.
Holders == {t \in Task : pc[t] \in {"check", "running", "cancel", "release"}}
Live    == {t \in Task : pc[t] \notin {"unborn", "gone"}}

\* The two counters count what they stand for.
TokensCounted == MaxConcurrency > 0 => sem = Cardinality(Holders) /\ sem <= MaxConcurrency
LiveCounted   == wg = Cardinality(Live)

\* Tasks are started in order, and wg.Wait is reached after the last one.
SpawnedInOrder ==
    /\ \A t \in Task : pc[t] = "unborn" <=> t >= next
    /\ IF main = "spawn" THEN next <= N ELSE next = N + 1

\* A result is written exactly when its goroutine is past the task.
WrittenWhenPast ==
    \A t \in Task : results[t] # "none" <=> pc[t] \in {"cancel", "release", "leave", "gone"}

AllGone == main \in {"check", "done"} => \A t \in Task : pc[t] = "gone"

\* Why a derived context may be done, before Run itself ends it.
Reason == outerDone \/ (FailFast /\ \E u \in Task : results[u] \in Failures)
CancelledForAReason ==
    /\ runDone /\ main # "done" => Reason
    /\ \A t \in Task : pc[t] = "cancel" => FailFast /\ results[t] \in Failures
    /\ SkippedForAReason

NotReturned == returned = "no" <=> main # "done"

-----------------------------------------------------------------------------
\* A set of tasks is finite, and its size moves by one with one task.
LEMMA TaskSets ==
    ASSUME NEW S \in SUBSET Task
    PROVE  /\ IsFiniteSet(S)
           /\ Cardinality(S) \in Nat
           /\ \A t \in Task \ S : Cardinality(S \cup {t}) = Cardinality(S) + 1
           /\ \A t \in S : Cardinality(S \ {t}) = Cardinality(S) - 1
<1>1. IsFiniteSet(Task)
  BY FanoutAssumption, FS_Interval DEF FanoutAssumption, Task
<1>2. IsFiniteSet(S)
  BY <1>1, FS_Subset
<1> QED
  BY <1>2, FS_CardinalityType, FS_AddElement, FS_RemoveElement

\* The counters do not drop below zero, because they count live goroutines.
LEMMA TypeStep == TypeOK /\ SpawnedInOrder /\ LiveCounted /\ TokensCounted /\ [Next]_vars => TypeOK'
<1> SUFFICES ASSUME TypeOK, SpawnedInOrder, LiveCounted, TokensCounted, [Next]_vars
             PROVE  TypeOK'
  OBVIOUS
<1> USE DEF TypeOK, Goto
<1>1. CASE Spawn
  <2>1. next \in Task /\ next + 1 \in 1..(N + 1)
    BY <1>1, FanoutAssumption DEF FanoutAssumption, Spawn, SpawnedInOrder, Task
  <2>2. pc' \in [Task -> Places]
    BY <1>1, <2>1 DEF Spawn, Places
  <2> QED
    BY <1>1, <2>1, <2>2 DEF Spawn, Places
<1>2. CASE Wait
  BY <1>2 DEF Wait
<1>3. CASE Return
  BY <1>3 DEF Return
<1>4. CASE CancelOuter \/ Propagate \/ UNCHANGED vars
  BY <1>4 DEF CancelOuter, Propagate, vars
<1>5. ASSUME NEW t \in Task, Acquire(t) \/ GiveUp(t) \/ Check(t) \/ CancelSiblings(t)
      PROVE  TypeOK'
  <2>1. CASE Acquire(t)
    BY <2>1 DEF Acquire
  <2>2. CASE GiveUp(t)
    BY <2>2 DEF GiveUp
  <2>3. CASE Check(t)
    BY <2>3 DEF Check
  <2>4. CASE CancelSiblings(t)
    BY <2>4 DEF CancelSiblings
  <2> QED
    BY <1>5, <2>1, <2>2, <2>3, <2>4
<1>6. ASSUME NEW t \in Task, NEW outcome \in {"ok"} \cup Failures, Finish(t, outcome)
      PROVE  TypeOK'
  <2>1. outcome \in {"ok", "err", "panic"}
    BY DEF Failures
  <2> QED
    BY <1>6, <2>1 DEF Finish
<1>7. ASSUME NEW t \in Task, Release(t)
      PROVE  TypeOK'
  <2>1. MaxConcurrency > 0 => sem - 1 \in Nat
    <3>1. t \in Holders /\ Holders \in SUBSET Task
      BY <1>7 DEF Release, Holders
    <3>2. Cardinality(Holders \ {t}) = Cardinality(Holders) - 1
      BY <3>1, TaskSets
    <3>3. Cardinality(Holders \ {t}) \in Nat
      BY <3>1, TaskSets
    <3> QED
      BY <3>2, <3>3 DEF TokensCounted
  <2>2. sem' \in Nat
    BY <1>7, <2>1, FanoutAssumption DEF FanoutAssumption, Release
  <2> QED
    BY <1>7, <2>2 DEF Release
<1>8. ASSUME NEW t \in Task, Leave(t)
      PROVE  TypeOK'
  <2>1. t \in Live /\ Live \in SUBSET Task
    BY <1>8 DEF Leave, Live
  <2>2. Cardinality(Live \ {t}) = Cardinality(Live) - 1 /\ Cardinality(Live \ {t}) \in Nat
    BY <2>1, TaskSets
  <2>3. wg' \in Nat
    BY <1>8, <2>2 DEF Leave, LiveCounted
  <2> QED
    BY <1>8, <2>3 DEF Leave
<1> QED
  BY <1>1, <1>2, <1>3, <1>4, <1>5, <1>6, <1>7, <1>8 DEF Next, Run, Terminated, Goroutine

\* The semaphore holds one token per goroutine between its acquire and its
\* deferred release, on every way out: skipped, failed or panicked.
LEMMA TokensStep ==
    TypeOK /\ SpawnedInOrder /\ TokensCounted /\ [Next]_vars => TokensCounted'
<1> SUFFICES ASSUME TypeOK, SpawnedInOrder, TokensCounted, [Next]_vars, MaxConcurrency > 0
             PROVE  sem' = Cardinality(Holders') /\ sem' <= MaxConcurrency
  BY DEF TokensCounted
<1>1. /\ sem = Cardinality(Holders) /\ sem <= MaxConcurrency /\ sem \in Nat
      /\ MaxConcurrency \in Nat
  BY FanoutAssumption DEF FanoutAssumption, TypeOK, TokensCounted
<1>2. Holders \in SUBSET Task
  BY DEF Holders
<1>3. ASSUME Holders' = Holders, sem' = sem
      PROVE  sem' = Cardinality(Holders') /\ sem' <= MaxConcurrency
  BY <1>1, <1>3
<1>4. CASE Spawn
  <2>1. next \in Task /\ pc[next] = "unborn"
    BY <1>4, FanoutAssumption DEF FanoutAssumption, Spawn, SpawnedInOrder, Task, TypeOK
  <2>2. Holders' = Holders /\ sem' = sem
    BY <1>4, <2>1 DEF Spawn, Goto, Holders, TypeOK
  <2> QED
    BY <1>3, <2>2
<1>5. CASE Wait \/ Return \/ CancelOuter \/ Propagate \/ UNCHANGED vars
  <2>1. pc' = pc /\ sem' = sem
    BY <1>5 DEF Wait, Return, CancelOuter, Propagate, vars
  <2>2. Holders' = Holders
    BY <2>1 DEF Holders
  <2> QED
    BY <1>3, <2>1, <2>2
<1>6. ASSUME NEW t \in Task, Acquire(t)
      PROVE  sem' = Cardinality(Holders') /\ sem' <= MaxConcurrency
  <2>1. t \notin Holders /\ Holders' = Holders \cup {t}
    BY <1>6 DEF Acquire, Goto, Holders, TypeOK
  <2>2. Cardinality(Holders \cup {t}) = Cardinality(Holders) + 1
    BY <1>2, <2>1, TaskSets
  <2> QED
    BY <1>1, <1>6, <2>1, <2>2 DEF Acquire
<1>7. ASSUME NEW t \in Task, \/ GiveUp(t) \/ Check(t) \/ CancelSiblings(t) \/ Leave(t)
                             \/ \E outcome \in {"ok"} \cup Failures : Finish(t, outcome)
      PROVE  sem' = Cardinality(Holders') /\ sem' <= MaxConcurrency
  <2>1. Holders' = Holders /\ sem' = sem
    BY <1>7 DEF GiveUp, Check, CancelSiblings, Leave, Finish, Goto, Holders, TypeOK
  <2> QED
    BY <1>3, <2>1
<1>8. ASSUME NEW t \in Task, Release(t)
      PROVE  sem' = Cardinality(Holders') /\ sem' <= MaxConcurrency
  <2>1. t \in Holders /\ Holders' = Holders \ {t}
    BY <1>8 DEF Release, Goto, Holders, TypeOK
  <2>2. Cardinality(Holders \ {t}) = Cardinality(Holders) - 1
    BY <1>2, <2>1, TaskSets
  <2> QED
    BY <1>1, <1>8, <2>1, <2>2 DEF Release
<1> QED
  BY <1>4, <1>5, <1>6, <1>7, <1>8 DEF Next, Run, Terminated, Goroutine

\* The WaitGroup counts the goroutines that were started and are not gone.
LEMMA LiveStep ==
    TypeOK /\ SpawnedInOrder /\ LiveCounted /\ [Next]_vars => LiveCounted'
<1> SUFFICES ASSUME TypeOK, SpawnedInOrder, LiveCounted, [Next]_vars
             PROVE  wg' = Cardinality(Live')
  BY DEF LiveCounted
<1>1. wg = Cardinality(Live) /\ wg \in Nat /\ Live \in SUBSET Task
  BY DEF TypeOK, LiveCounted, Live
<1>2. CASE Spawn
  <2>1. next \in Task /\ pc[next] = "unborn"
    BY <1>2, FanoutAssumption DEF FanoutAssumption, Spawn, SpawnedInOrder, Task, TypeOK
  <2>2. next \notin Live /\ Live' = Live \cup {next}
    BY <1>2, <2>1 DEF Spawn, Goto, Live, TypeOK
  <2>3. Cardinality(Live \cup {next}) = Cardinality(Live) + 1
    BY <1>1, <2>1, <2>2, TaskSets
  <2> QED
    BY <1>1, <1>2, <2>2, <2>3 DEF Spawn
<1>3. CASE Wait \/ Return \/ CancelOuter \/ Propagate \/ UNCHANGED vars
  <2>1. pc' = pc /\ wg' = wg
    BY <1>3 DEF Wait, Return, CancelOuter, Propagate, vars
  <2> QED
    BY <1>1, <2>1 DEF Live
<1>4. ASSUME NEW t \in Task, \/ Acquire(t) \/ GiveUp(t) \/ Check(t) \/ CancelSiblings(t) \/ Release(t)
                             \/ \E outcome \in {"ok"} \cup Failures : Finish(t, outcome)
      PROVE  wg' = Cardinality(Live')
  <2>1. Live' = Live /\ wg' = wg
    BY <1>4 DEF Acquire, GiveUp, Check, CancelSiblings, Release, Finish, Goto, Live, TypeOK
  <2> QED
    BY <1>1, <2>1
<1>5. ASSUME NEW t \in Task, Leave(t)
      PROVE  wg' = Cardinality(Live')
  <2>1. t \in Live /\ Live' = Live \ {t}
    BY <1>5 DEF Leave, Goto, Live, TypeOK
  <2>2. Cardinality(Live \ {t}) = Cardinality(Live) - 1
    BY <1>1, <2>1, TaskSets
  <2> QED
    BY <1>1, <1>5, <2>1, <2>2 DEF Leave
<1> QED
  BY <1>2, <1>3, <1>4, <1>5 DEF Next, Run, Terminated, Goroutine

\* Run starts the tasks in order and waits only after the last.
LEMMA SpawnedStep == TypeOK /\ SpawnedInOrder /\ [Next]_vars => SpawnedInOrder'
<1> SUFFICES ASSUME TypeOK, SpawnedInOrder, [Next]_vars
             PROVE  SpawnedInOrder'
  OBVIOUS
<1>1. CASE Spawn
  <2>1. next \in Task /\ next' = next + 1 /\ N \in Nat
    BY <1>1, FanoutAssumption DEF FanoutAssumption, Spawn, SpawnedInOrder, Task, TypeOK
  <2>2. \A t \in Task : pc'[t] = IF t = next THEN pc'[next] ELSE pc[t]
    BY <1>1 DEF Spawn, Goto, TypeOK
  <2>3. pc'[next] # "unborn"
    BY <1>1, <2>1 DEF Spawn, Goto, TypeOK
  <2>4. \A t \in Task : pc'[t] = "unborn" <=> t >= next'
    BY <2>1, <2>2, <2>3 DEF SpawnedInOrder, Task
  <2>5. IF main' = "spawn" THEN next' <= N ELSE next' = N + 1
    BY <1>1, <2>1 DEF Spawn, Task
  <2> QED
    BY <2>4, <2>5 DEF SpawnedInOrder
<1>2. CASE Wait \/ Return \/ CancelOuter \/ Propagate \/ UNCHANGED vars
  <2>1. pc' = pc /\ next' = next /\ (main' = "spawn" <=> main = "spawn")
    BY <1>2 DEF Wait, Return, CancelOuter, Propagate, vars
  <2> QED
    BY <2>1 DEF SpawnedInOrder
<1>3. ASSUME NEW t \in Task, Goroutine(t)
      PROVE  SpawnedInOrder'
  <2>1. /\ next' = next /\ main' = main
        /\ \A u \in Task : pc'[u] = "unborn" <=> pc[u] = "unborn"
    BY <1>3 DEF Goroutine, Acquire, GiveUp, Check, Finish, CancelSiblings, Release, Leave,
                Goto, TypeOK
  <2> QED
    BY <2>1 DEF SpawnedInOrder
<1> QED
  BY <1>1, <1>2, <1>3 DEF Next, Run, Terminated

\* Each way out of a goroutine writes its result, and none writes it twice.
LEMMA WrittenStep ==
    TypeOK /\ SpawnedInOrder /\ WrittenWhenPast /\ [Next]_vars => WrittenWhenPast'
<1> SUFFICES ASSUME TypeOK, SpawnedInOrder, WrittenWhenPast, [Next]_vars, NEW u \in Task
             PROVE  results'[u] # "none" <=> pc'[u] \in {"cancel", "release", "leave", "gone"}
  BY DEF WrittenWhenPast
<1>1. results[u] # "none" <=> pc[u] \in {"cancel", "release", "leave", "gone"}
  BY DEF WrittenWhenPast
<1>2. CASE Spawn
  <2>1. next \in Task /\ pc[next] = "unborn"
    BY <1>2, FanoutAssumption DEF FanoutAssumption, Spawn, SpawnedInOrder, Task, TypeOK
  <2> QED
    BY <1>1, <1>2, <2>1 DEF Spawn, Goto, TypeOK
<1>3. CASE Wait \/ Return \/ CancelOuter \/ Propagate \/ UNCHANGED vars
  BY <1>1, <1>3 DEF Wait, Return, CancelOuter, Propagate, vars
<1>4. ASSUME NEW t \in Task, Acquire(t) \/ GiveUp(t) \/ Check(t)
      PROVE  results'[u] # "none" <=> pc'[u] \in {"cancel", "release", "leave", "gone"}
  BY <1>1, <1>4 DEF Acquire, GiveUp, Check, Goto, TypeOK
<1>5. ASSUME NEW t \in Task, NEW outcome \in {"ok"} \cup Failures, Finish(t, outcome)
      PROVE  results'[u] # "none" <=> pc'[u] \in {"cancel", "release", "leave", "gone"}
  BY <1>1, <1>5 DEF Finish, Failures, Goto, TypeOK
<1>6. ASSUME NEW t \in Task, CancelSiblings(t) \/ Release(t) \/ Leave(t)
      PROVE  results'[u] # "none" <=> pc'[u] \in {"cancel", "release", "leave", "gone"}
  BY <1>1, <1>6 DEF CancelSiblings, Release, Leave, Goto, TypeOK
<1> QED
  BY <1>2, <1>3, <1>4, <1>5, <1>6 DEF Next, Run, Terminated, Goroutine

\* wg.Wait returns only when every goroutine has left.
LEMMA AllGoneStep ==
    TypeOK /\ SpawnedInOrder /\ LiveCounted /\ AllGone /\ [Next]_vars => AllGone'
<1> SUFFICES ASSUME TypeOK, SpawnedInOrder, LiveCounted, AllGone, [Next]_vars,
                    main' \in {"check", "done"}, NEW u \in Task
             PROVE  pc'[u] = "gone"
  BY DEF AllGone
<1>1. CASE Wait
  <2>1. Live \in SUBSET Task /\ Cardinality(Live) = 0
    BY <1>1 DEF Wait, LiveCounted, Live
  <2>2. Live = {}
    BY <2>1, TaskSets, FS_EmptySet
  <2>3. pc[u] # "unborn"
    BY <1>1, FanoutAssumption DEF FanoutAssumption, Wait, SpawnedInOrder, Task
  <2> QED
    BY <1>1, <2>2, <2>3 DEF Wait, Live
<1>2. CASE Spawn
  BY <1>2 DEF Spawn
<1>3. CASE Return \/ CancelOuter \/ Propagate \/ UNCHANGED vars
  BY <1>3 DEF Return, CancelOuter, Propagate, vars, AllGone
<1>4. ASSUME NEW t \in Task, Goroutine(t)
      PROVE  FALSE
  <2>1. main' = main
    BY <1>4 DEF Goroutine, Acquire, GiveUp, Check, Finish, CancelSiblings, Release, Leave
  <2>2. pc[t] = "gone"
    BY <2>1 DEF AllGone
  <2> QED
    BY <1>4, <2>2 DEF Goroutine, Acquire, GiveUp, Check, Finish, CancelSiblings, Release, Leave
<1> QED
  BY <1>1, <1>2, <1>3, <1>4 DEF Next, Run, Terminated

\* Failures are never unwritten, so a reason stays a reason.
LEMMA ReasonStep ==
    TypeOK /\ SpawnedInOrder /\ WrittenWhenPast /\ AllGone /\ CancelledForAReason /\ [Next]_vars
        => CancelledForAReason'
<1> SUFFICES ASSUME TypeOK, SpawnedInOrder, WrittenWhenPast, AllGone, CancelledForAReason, [Next]_vars
             PROVE  CancelledForAReason'
  OBVIOUS
<1>1. \A t \in Task : pc[t] = "cancel" => FailFast /\ results[t] \in Failures
  BY DEF CancelledForAReason
<1>2. CASE Spawn
  <2>1. next \in Task /\ pc[next] = "unborn"
    BY <1>2, FanoutAssumption DEF FanoutAssumption, Spawn, SpawnedInOrder, Task, TypeOK
  <2>2. \A t \in Task : pc'[t] = "cancel" => pc[t] = "cancel"
    BY <1>2, <2>1 DEF Spawn, Goto, TypeOK
  <2> QED
    BY <1>2, <2>2 DEF Spawn, CancelledForAReason, SkippedForAReason, Reason
<1>3. CASE Wait \/ Return \/ CancelOuter \/ Propagate \/ UNCHANGED vars
  BY <1>3 DEF Wait, Return, CancelOuter, Propagate, vars, CancelledForAReason,
              SkippedForAReason, Reason
<1>4. ASSUME NEW t \in Task, GiveUp(t) \/ Check(t)
      PROVE  CancelledForAReason'
  <2>1. pc[t] # "gone" /\ pc[t] \notin {"cancel", "release", "leave", "gone"}
    BY <1>4 DEF GiveUp, Check
  <2>2. results[t] = "none" /\ main # "done"
    BY <2>1 DEF WrittenWhenPast, AllGone
  <2>3. \A u \in Task : results[u] \in Failures => results'[u] = results[u]
    BY <1>4, <2>2 DEF GiveUp, Check, Failures, TypeOK
  <2>4. \A u \in Task : pc'[u] = "cancel" => pc[u] = "cancel"
    BY <1>4 DEF GiveUp, Check, Goto, TypeOK
  <2>5. \A u \in Task : results'[u] = "skipped" => results[u] = "skipped" \/ runDone
    BY <1>4 DEF GiveUp, Check, TypeOK
  <2>6. runDone' = runDone /\ outerDone' = outerDone /\ main' = main
    BY <1>4 DEF GiveUp, Check
  <2>7. Reason => Reason'
    BY <2>3, <2>6 DEF Reason
  <2> QED
    BY <2>2, <2>3, <2>4, <2>5, <2>6, <2>7 DEF CancelledForAReason, SkippedForAReason, Reason
<1>5. ASSUME NEW t \in Task, NEW outcome \in {"ok"} \cup Failures, Finish(t, outcome)
      PROVE  CancelledForAReason'
  <2>1. results[t] = "none"
    BY <1>5 DEF Finish, WrittenWhenPast
  <2>2. \A u \in Task : results[u] \in Failures => results'[u] = results[u]
    BY <1>5, <2>1 DEF Finish, Failures, TypeOK
  <2>3. \A u \in Task : pc'[u] = "cancel" => FailFast /\ results'[u] \in Failures
    BY <1>1, <1>5, <2>2 DEF Finish, Goto, TypeOK
  <2>4. \A u \in Task : results'[u] = "skipped" => results[u] = "skipped"
    BY <1>5 DEF Finish, Failures, TypeOK
  <2>5. runDone' = runDone /\ outerDone' = outerDone /\ main' = main
    BY <1>5 DEF Finish
  <2>6. Reason => Reason'
    BY <2>2, <2>5 DEF Reason
  <2> QED
    BY <2>3, <2>4, <2>5, <2>6 DEF CancelledForAReason, SkippedForAReason, Reason
<1>6. ASSUME NEW t \in Task, CancelSiblings(t)
      PROVE  CancelledForAReason'
  <2>1. Reason
    BY <1>1, <1>6 DEF CancelSiblings, Reason
  <2>2. results' = results /\ outerDone' = outerDone
    BY <1>6 DEF CancelSiblings
  <2>3. \A u \in Task : pc'[u] = "cancel" => pc[u] = "cancel"
    BY <1>6 DEF CancelSiblings, Goto, TypeOK
  <2> QED
    BY <2>1, <2>2, <2>3 DEF CancelledForAReason, SkippedForAReason, Reason
<1>7. ASSUME NEW t \in Task, Acquire(t) \/ Release(t) \/ Leave(t)
      PROVE  CancelledForAReason'
  <2>1. /\ results' = results /\ outerDone' = outerDone /\ runDone' = runDone /\ main' = main
        /\ \A u \in Task : pc'[u] = "cancel" => pc[u] = "cancel"
    BY <1>7 DEF Acquire, Release, Leave, Goto, TypeOK
  <2> QED
    BY <2>1 DEF CancelledForAReason, SkippedForAReason, Reason
<1> QED
  BY <1>2, <1>3, <1>4, <1>5, <1>6, <1>7 DEF Next, Run, Terminated, Goroutine

-----------------------------------------------------------------------------
\* The inductive invariant.  The counters have to be tied to the goroutines
\* they count before "wg is zero" can mean that all have left, and results to
\* the places that write them before "all have left" can mean all are written.
IInv ==
    /\ TypeOK
    /\ SpawnedInOrder
    /\ TokensCounted
    /\ LiveCounted
    /\ WrittenWhenPast
    /\ AllGone
    /\ CancelledForAReason
    /\ NotReturned

\* Nothing runs, and no task has a result, before the first goroutine.
LEMMA InitInv == Init => IInv
<1> SUFFICES ASSUME Init PROVE IInv
  OBVIOUS
<1>1. Holders = {} /\ Live = {}
  BY DEF Init, Holders, Live
<1>2. TypeOK /\ SpawnedInOrder
  <2>1. N \in Nat /\ N >= 1
    BY FanoutAssumption DEF FanoutAssumption
  <2>2. next \in 1..(N + 1) /\ (\A t \in Task : t >= next) /\ next <= N
    BY <2>1 DEF Init, Task
  <2>3. /\ pc \in [Task -> {"unborn", "acquire", "check", "running", "cancel",
                            "release", "leave", "gone"}]
        /\ results \in [Task -> {"none", "ok", "err", "panic", "skipped"}]
    BY DEF Init
  <2>4. TypeOK
    BY <2>2, <2>3 DEF Init, TypeOK
  <2>5. SpawnedInOrder
    BY <2>2 DEF Init, SpawnedInOrder
  <2> QED
    BY <2>4, <2>5
<1>3. TokensCounted /\ LiveCounted
  BY <1>1, FS_EmptySet, FanoutAssumption DEF FanoutAssumption, Init, TokensCounted, LiveCounted
<1>4. WrittenWhenPast /\ AllGone /\ CancelledForAReason /\ NotReturned
  BY DEF Init, WrittenWhenPast, AllGone, CancelledForAReason, SkippedForAReason, NotReturned
<1> QED
  BY <1>2, <1>3, <1>4 DEF IInv

\* The parts of the invariant hold each other up.
LEMMA NextInv == IInv /\ [Next]_vars => IInv'
<1>1. TypeOK /\ NotReturned /\ [Next]_vars => NotReturned'
  BY DEF TypeOK, NotReturned, Next, Run, Spawn, Wait, Return, CancelOuter, Propagate, Terminated,
         Goroutine, Acquire, GiveUp, Check, Finish, CancelSiblings, Release, Leave, vars
<1> QED
  BY <1>1, TypeStep, SpawnedStep, TokensStep, LiveStep, WrittenStep, AllGoneStep, ReasonStep
     DEF IInv

\* The invariant holds throughout.
LEMMA Invariant == Spec => []IInv
  BY InitInv, NextInv, PTL DEF Spec

\* The state of Run keeps its type; the counters never drop below zero.
THEOREM FanoutTypeInvariant == Spec => []TypeOK
<1>1. IInv => TypeOK
  BY DEF IInv
<1> QED
  BY <1>1, Invariant, PTL

\* At most MaxConcurrency tasks run at a time, on every path a goroutine can
\* take: each running task holds one of the tokens the semaphore counts.
THEOREM RunningIsBounded == Spec => []ConcurrencyBounded
<1>1. IInv => ConcurrencyBounded
  <2> SUFFICES ASSUME IInv, MaxConcurrency > 0
               PROVE  Cardinality(Running) <= MaxConcurrency
    BY DEF ConcurrencyBounded
  <2>1. Running \subseteq Holders /\ Holders \in SUBSET Task /\ Running \in SUBSET Task
    BY DEF Running, Holders
  <2>2. Cardinality(Running) <= Cardinality(Holders)
    BY <2>1, TaskSets, FS_Subset
  <2>3. /\ Cardinality(Holders) <= MaxConcurrency
        /\ Cardinality(Running) \in Nat
        /\ Cardinality(Holders) \in Nat
        /\ MaxConcurrency \in Nat
    BY <2>1, TaskSets, FanoutAssumption DEF FanoutAssumption, IInv, TokensCounted
  <2> QED
    BY <2>2, <2>3
<1> QED
  BY <1>1, Invariant, PTL

\* No goroutine outlives Run's wait, and no result is missing after it.
THEOREM ResultsAreComplete == Spec => []ResultsComplete
<1>1. IInv => ResultsComplete
  BY DEF IInv, AllGone, WrittenWhenPast, ResultsComplete
<1> QED
  BY <1>1, Invariant, PTL

\* A task is skipped only if the caller cancelled or, with fail-fast, a
\* sibling failed.
THEOREM SkipsHaveAReason == Spec => []SkippedForAReason
<1>1. IInv => SkippedForAReason
  BY DEF IInv, CancelledForAReason
<1> QED
  BY <1>1, Invariant, PTL

-----------------------------------------------------------------------------
\* A goroutine's steps are an answer, a skip, or invisible to the caller.
LEMMA GoroutineRefines ==
    ASSUME IInv, NEW t \in Task, Goroutine(t)
    PROVE  [Promise!Next]_(Promise!vars)
<1> USE DEF Promise!vars
<1>0. t \in 1..N
  BY DEF Task
<1>1. CASE Acquire(t) \/ CancelSiblings(t) \/ Release(t) \/ Leave(t)
  BY <1>1 DEF Acquire, CancelSiblings, Release, Leave
<1>2. ASSUME NEW outcome \in {"ok"} \cup Failures, Finish(t, outcome)
      PROVE  [Promise!Next]_(Promise!vars)
  <2>1. results[t] = "none"
    BY <1>2 DEF Finish, IInv, WrittenWhenPast
  <2>2. Promise!Answer(t, outcome)
    BY <1>2, <2>1 DEF Finish, Promise!Answer
  <2>3. outcome \in Promise!Answers
    BY DEF Failures, Promise!Answers, Promise!Failures
  <2> QED
    BY <1>0, <2>2, <2>3 DEF Promise!Next
<1>3. CASE GiveUp(t) \/ Check(t)
  <2>1. results[t] = "none" /\ main # "done"
    BY <1>3 DEF GiveUp, Check, IInv, WrittenWhenPast, AllGone
  <2>2. CASE runDone
    <3>1. Promise!CalledOff
      BY <2>1, <2>2 DEF IInv, CancelledForAReason, Reason, Failures, Task,
                        Promise!CalledOff, Promise!Failures
    <3>2. Promise!Skip(t)
      BY <1>3, <2>1, <2>2, <3>1 DEF GiveUp, Check, Promise!Skip
    <3> QED
      BY <1>0, <3>2 DEF Promise!Next
  <2>3. CASE ~runDone
    BY <1>3, <2>3 DEF GiveUp, Check
  <2> QED
    BY <2>2, <2>3
<1> QED
  BY <1>1, <1>2, <1>3 DEF Goroutine

\* Run keeps the promise of Scatter: every task settles once, for a reason if
\* it is skipped, and Run returns when all have.
THEOREM RunRefinesScatter == Spec => RunKeepsItsPromise
<1>1. Init => Promise!Init
  BY DEF Init, Promise!Init, Task
<1>2. IInv /\ [Next]_vars => [Promise!Next]_(Promise!vars)
  <2> SUFFICES ASSUME IInv, [Next]_vars
               PROVE  [Promise!Next]_(Promise!vars)
    OBVIOUS
  <2>1. CASE Spawn \/ Wait \/ Propagate \/ UNCHANGED vars
    BY <2>1 DEF Spawn, Wait, Propagate, vars, Promise!vars
  <2>2. CASE CancelOuter
    BY <2>2 DEF CancelOuter, Promise!Next, Promise!Cancel
  <2>3. CASE Return
    <3>1. \A t \in 1..N : results[t] # "none"
      BY <2>3 DEF Return, IInv, AllGone, WrittenWhenPast, Task
    <3>2. returned = "no"
      BY <2>3 DEF Return, IInv, NotReturned
    <3> QED
      BY <2>3, <3>1, <3>2 DEF Return, Promise!Next, Promise!Return
  <2>4. CASE \E t \in Task : Goroutine(t)
    BY <2>4, GoroutineRefines
  <2> QED
    BY <2>1, <2>2, <2>3, <2>4 DEF Next, Run, Terminated
<1> QED
  BY <1>1, <1>2, Invariant, PTL DEF Spec, RunKeepsItsPromise, Promise!Spec
=============================================================================
