------------------------------- MODULE LruCache -------------------------------
(***************************************************************************)
(* MemoryGraderCache and MemoryJudgeCache, the same least-recently-used    *)
(* cache twice: a list of keys, most recent first, and a map from key to   *)
(* value.  Each operation runs under the cache's mutex.  A key stands for  *)
(* the SHA-256 of the normalized request.                                  *)
(***************************************************************************)
EXTENDS Naturals, SequencesExt

CONSTANTS
    Key,
    Value,
    Cap     \* capacity, after the default was applied

ASSUME CacheAssumption == Cap \in Nat \ {0}

\* order: the list; byKey: the entries it links, as a function of their key.
Cache == [order : Seq(Key), byKey : UNION {[K -> Value] : K \in SUBSET Key},
          hits : Nat, misses : Nat, evictions : Nat]

EmptyCache == [order |-> <<>>, byKey |-> <<>>, hits |-> 0, misses |-> 0, evictions |-> 0]

Holds(cache, k) == k \in DOMAIN cache.byKey

\* Where a key is in the list; a new one is behind its end.
PlaceOf(order, k) ==
    IF k \in ToSet(order) THEN CHOOSE i \in DOMAIN order : order[i] = k ELSE Len(order) + 1

\* The key goes to the front, and those before it one place back.
MoveToFront(order, k) ==
    LET place == PlaceOf(order, k)
    IN  [i \in 1..(IF place > Len(order) THEN place ELSE Len(order)) |->
            IF i = 1 THEN k ELSE IF i <= place THEN order[i - 1] ELSE order[i]]

\* Mutation of Touch: a hit leaves the order alone, as in a FIFO queue.
TouchKeepsOrder(cache, k) ==
    IF Holds(cache, k) THEN [cache EXCEPT !.hits = @ + 1]
                       ELSE [cache EXCEPT !.misses = @ + 1]

\* What Get does to the cache; it returns byKey[k] on a hit.
Touch(cache, k) ==
    IF Holds(cache, k)
    THEN [cache EXCEPT !.order = MoveToFront(@, k), !.hits = @ + 1]
    ELSE [cache EXCEPT !.misses = @ + 1]

\* An existing entry is overwritten and moved to the front; a new one is pushed
\* to the front and what exceeds the capacity leaves from the back.
Put(cache, k, v) ==
    LET order == MoveToFront(cache.order, k)
        kept  == SubSeq(order, 1, IF Len(order) < Cap THEN Len(order) ELSE Cap)
    IN  [cache EXCEPT
            !.order     = kept,
            !.byKey     = [x \in ToSet(kept) |-> IF x = k THEN v ELSE cache.byKey[x]],
            !.evictions = @ + (Len(order) - Len(kept))]
=============================================================================
