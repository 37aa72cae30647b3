--------------------------- MODULE BenchmarkProofs ---------------------------
(***************************************************************************)
(* Theorems about Benchmark and the cache of judgements its workers share, *)
(* for any number of examples, workers and attempts and any capacity.      *)
(***************************************************************************)
EXTENDS Benchmark, FiniteSetTheorems, SequenceTheorems, TLAPS

Places == {"waiting", "gate", "enter", "try", "sleep", "lookup", "put", "report",
           "record", "done"}

Verdict == Value \cup {NoVerdict}
Errors  == InnerErrors \cup {"ctx"}

TypeOK ==
    /\ parallel \in BOOLEAN /\ judging \in BOOLEAN /\ cancelled \in BOOLEAN
    /\ pc \in [Example -> Places]
    /\ stage \in [Example -> {"ask", "judge"}]
    /\ attempt \in [Example -> Nat]
    /\ answer \in [Example -> Texts]
    /\ verdict \in [Example -> SUBSET Verdict]
    /\ error \in [Example -> SUBSET Errors]
    /\ results \in [Example -> SUBSET Verdict]
    /\ settled \in [Example -> {"none", "ok", "err", "panic", "skipped"}]
    /\ firstErr \subseteq Example \X Errors
    /\ fanned \in {"no", "nil", "error"}
    /\ returned \in {"no", "ok", "error", "panic"}
    /\ progress \in [Example -> Nat]
    /\ given \subseteq Key \X Value

\* A verdict for the query and the answer of an example.
Genuine(e, v) == IF judging THEN <<JudgeKey(e), v>> \in given ELSE v = NoVerdict

\* What the place of a worker says of the variables of its example.
Underway(e) ==
    /\ pc[e] \notin {"put", "report", "record", "done"} => verdict[e] = {}
    /\ pc[e] = "put" \/ (pc[e] = "report" /\ error[e] = {}) => verdict[e] # {}
    /\ error[e] # {} => pc[e] \in {"report", "record", "done"}
    /\ "transient" \in error[e] => attempt[e] = MaxAttempts - 1
    /\ pc[e] \notin {"record", "done"} => progress[e] = 0
    /\ pc[e] # "done" => results[e] = {} /\ settled[e] = "none"
    /\ pc[e] \in {"gate", "record"} => parallel
    /\ stage[e] = "judge" \/ pc[e] \in {"lookup", "put"} => judging
    /\ \A v \in verdict[e] : Genuine(e, v)
    /\ results[e] \subseteq verdict[e]

\* An example that is done has a result, or something keeps Run from success: of
\* a sequential run its return, of a parallel one the pool's outcome of the task
\* or, behind the gate, the recorded error.
Scored(e) == results[e] # {} /\ progress[e] = 1
Ended(e) ==
    pc[e] = "done" =>
        IF parallel THEN settled[e] # "none" /\ (settled[e] = "ok" => firstErr # {} \/ Scored(e))
                    ELSE returned = "no" => Scored(e) /\ error[e] = {}

\* Who may be where, of the examples together.
InOrder ==
    /\ ~parallel => /\ firstErr = {} /\ fanned = "no"
                    /\ \A e \in Example : pc[e] # "waiting" => \A d \in 1..(e - 1) : pc[d] = "done"
    /\ fanned # "no" \/ returned = "ok" => \A e \in Example : pc[e] = "done"
    /\ parallel /\ returned # "no" => fanned # "no"

\* The pool's slots.
Committed == Busy \ {e \in Example : pc[e] = "gate"}
Slotted   == parallel => Cardinality(Busy) <= Workers

\* A cache is in step with the keys in the order of their last use.
Distinct(s) == \A i, j \in DOMAIN s : s[i] = s[j] => i = j
Size(recent) == IF Len(recent) < Cap THEN Len(recent) ELSE Cap
Mirrors(c, recent) ==
    /\ c \in Cache
    /\ recent \in Seq(Key) /\ Distinct(recent)
    /\ c.order = SubSeq(recent, 1, Size(recent))
    /\ DOMAIN c.byKey = ToSet(c.order)
    /\ c.evictions >= Len(recent) - Size(recent)

Stored == \A k \in DOMAIN cache.byKey : <<k, cache.byKey[k]>> \in given
-----------------------------------------------------------------------------
\* A key's place is the only one that holds it.
LEMMA PlaceOfKey ==
    ASSUME NEW s \in Seq(Key), NEW k
    PROVE  /\ PlaceOf(s, k) \in 1..(Len(s) + 1)
           /\ k \in ToSet(s) => PlaceOf(s, k) \in 1..Len(s) /\ s[PlaceOf(s, k)] = k
           /\ k \notin ToSet(s) => PlaceOf(s, k) = Len(s) + 1
<1>1. CASE k \in ToSet(s)
  <2>1. PICK i \in DOMAIN s : s[i] = k
    BY <1>1 DEF ToSet
  <2>2. PlaceOf(s, k) \in DOMAIN s /\ s[PlaceOf(s, k)] = k
    BY <1>1, <2>1 DEF PlaceOf
  <2> QED
    BY <1>1, <2>2
<1>2. CASE k \notin ToSet(s)
  BY <1>2 DEF PlaceOf
<1> QED
  BY <1>1, <1>2

\* What moving a key to the front makes of the list, place by place.
LEMMA MoveToFrontPlaces ==
    ASSUME NEW s \in Seq(Key), NEW k \in Key
    PROVE  LET t == MoveToFront(s, k)
               p == PlaceOf(s, k)
           IN  /\ t \in Seq(Key)
               /\ Len(t) = IF k \in ToSet(s) THEN Len(s) ELSE Len(s) + 1
               /\ t[1] = k
               /\ \A i \in 2..Len(t) : t[i] = IF i <= p THEN s[i - 1] ELSE s[i]
<1> DEFINE p == PlaceOf(s, k)
           n == IF p > Len(s) THEN p ELSE Len(s)
           t == MoveToFront(s, k)
<1>1. p \in 1..(Len(s) + 1) /\ n \in Nat /\ 1 <= n /\ p <= n
  BY PlaceOfKey
<1>2. n = IF k \in ToSet(s) THEN Len(s) ELSE Len(s) + 1
  BY PlaceOfKey
<1>3. t = [i \in 1..n |-> IF i = 1 THEN k ELSE IF i <= p THEN s[i - 1] ELSE s[i]]
  BY DEF MoveToFront
<1>4. \A i \in 1..n : t[i] \in Key
  <2> SUFFICES ASSUME NEW i \in 1..n, i # 1
               PROVE  (IF i <= p THEN s[i - 1] ELSE s[i]) \in Key
    BY <1>3
  <2>1. CASE i <= p
    BY <1>1, <2>1
  <2>2. CASE i > p
    BY <1>1, <2>2
  <2> QED
    BY <1>1, <2>1, <2>2
<1>5. t \in Seq(Key) /\ Len(t) = n
  BY <1>1, <1>3, <1>4
<1>6. t[1] = k
  BY <1>1, <1>3
<1>7. \A i \in 2..n : t[i] = IF i <= p THEN s[i - 1] ELSE s[i]
  BY <1>1, <1>3
<1> QED
  BY <1>2, <1>5, <1>6, <1>7

\* The list keeps its keys, each once.
LEMMA MoveToFrontKeys ==
    ASSUME NEW s \in Seq(Key), NEW k \in Key
    PROVE  ToSet(MoveToFront(s, k)) = ToSet(s) \cup {k}
<1> DEFINE p == PlaceOf(s, k)
           t == MoveToFront(s, k)
<1>1. /\ t \in Seq(Key) /\ t[1] = k
      /\ Len(t) = IF k \in ToSet(s) THEN Len(s) ELSE Len(s) + 1
      /\ \A i \in 2..Len(t) : t[i] = IF i <= p THEN s[i - 1] ELSE s[i]
  BY MoveToFrontPlaces
<1>2. /\ p \in 1..(Len(s) + 1)
      /\ k \in ToSet(s) => p \in 1..Len(s) /\ s[p] = k
      /\ k \notin ToSet(s) => p = Len(s) + 1
  BY PlaceOfKey
<1>3. /\ Len(s) \in Nat /\ DOMAIN s = 1..Len(s)
      /\ Len(t) \in Nat /\ DOMAIN t = 1..Len(t) /\ 1 \in 1..Len(t)
  BY <1>1, <1>2
<1> HIDE DEF t, p
<1>4. ASSUME NEW i \in DOMAIN t
      PROVE  t[i] \in ToSet(s) \cup {k}
  <2>1. CASE i = 1
    BY <1>1, <2>1
  <2>2. CASE i # 1 /\ i <= p
    <3>1. i - 1 \in DOMAIN s /\ t[i] = s[i - 1]
      BY <1>1, <1>2, <1>3, <2>2
    <3> QED
      BY <3>1 DEF ToSet
  <2>3. CASE i > p
    <3>1. i \in DOMAIN s /\ t[i] = s[i]
      BY <1>1, <1>2, <1>3, <2>3
    <3> QED
      BY <3>1 DEF ToSet
  <2> QED
    BY <1>2, <1>3, <2>1, <2>2, <2>3
<1>5. ASSUME NEW j \in DOMAIN s
      PROVE  \E i \in DOMAIN t : t[i] = s[j]
  <2>1. CASE j < p
    <3>1. j + 1 \in DOMAIN t /\ t[j + 1] = s[j]
      BY <1>1, <1>2, <1>3, <2>1
    <3> QED
      BY <3>1
  <2>2. CASE j = p
    BY <1>1, <1>2, <1>3, <2>2
  <2>3. CASE j > p
    <3>1. j \in DOMAIN t /\ t[j] = s[j]
      BY <1>1, <1>2, <1>3, <2>3
    <3> QED
      BY <3>1
  <2> QED
    BY <1>2, <1>3, <2>1, <2>2, <2>3
<1>6. k \in ToSet(t)
  BY <1>1, <1>3 DEF ToSet
<1>7. ToSet(t) = ToSet(s) \cup {k}
  BY <1>4, <1>5, <1>6 DEF ToSet
<1> QED
  BY <1>7 DEF t

LEMMA MoveToFrontDistinct ==
    ASSUME NEW s \in Seq(Key), NEW k \in Key, Distinct(s)
    PROVE  Distinct(MoveToFront(s, k))
<1> DEFINE p == PlaceOf(s, k)
           t == MoveToFront(s, k)
           Was(i) == IF i <= p THEN i - 1 ELSE i
<1>1. /\ t \in Seq(Key) /\ t[1] = k
      /\ Len(t) = IF k \in ToSet(s) THEN Len(s) ELSE Len(s) + 1
      /\ \A i \in 2..Len(t) : t[i] = IF i <= p THEN s[i - 1] ELSE s[i]
  BY MoveToFrontPlaces
<1>2. /\ p \in 1..(Len(s) + 1)
      /\ k \in ToSet(s) => p \in 1..Len(s) /\ s[p] = k
      /\ k \notin ToSet(s) => p = Len(s) + 1
  BY PlaceOfKey
<1>3. /\ Len(s) \in Nat /\ DOMAIN s = 1..Len(s)
      /\ Len(t) \in Nat /\ DOMAIN t = 1..Len(t)
  BY <1>1
<1> HIDE DEF t, p
<1>4. ASSUME NEW i \in 2..Len(t)
      PROVE  /\ Was(i) \in DOMAIN s /\ Was(i) # p
             /\ t[i] = s[Was(i)] /\ t[i] # k
  <2>1. Was(i) \in DOMAIN s /\ Was(i) # p /\ t[i] = s[Was(i)]
    BY <1>1, <1>2, <1>3
  <2>2. CASE k \in ToSet(s)
    BY <1>2, <1>3, <2>1, <2>2 DEF Distinct
  <2>3. CASE k \notin ToSet(s)
    BY <2>1, <2>3 DEF ToSet
  <2> QED
    BY <2>1, <2>2, <2>3
<1>5. \A i, j \in 2..Len(t) : Was(i) = Was(j) => i = j
  BY <1>2, <1>3
<1>6. \A i, j \in 2..Len(t) : t[i] = t[j] => i = j
  BY <1>4, <1>5 DEF Distinct
<1>7. Distinct(t)
  <2> SUFFICES ASSUME NEW i \in DOMAIN t, NEW j \in DOMAIN t, t[i] = t[j]
               PROVE  i = j
    BY DEF Distinct
  <2>1. i \in 1..Len(t) /\ j \in 1..Len(t)
    BY <1>3
  <2> QED
    BY <1>1, <1>3, <1>4, <1>6, <2>1
<1> QED
  BY <1>7 DEF t

\* The list of the cache goes on being the beginning of the keys by recency.
LEMMA PrefixMoves ==
    ASSUME NEW r \in Seq(Key), NEW k \in Key, Distinct(r)
    PROVE  LET o == SubSeq(r, 1, Size(r))
               u == MoveToFront(o, k)
               t == MoveToFront(r, k)
           IN  /\ o \in Seq(Key) /\ u \in Seq(Key) /\ t \in Seq(Key)
               /\ SubSeq(u, 1, Size(u)) = SubSeq(t, 1, Size(t))
               /\ k \in ToSet(o) => Len(u) = Size(u) /\ Len(t) = Len(r)
               /\ Len(t) - Size(t) <= (Len(r) - Size(r)) + (Len(u) - Size(u))
<1> DEFINE n == Size(r)
           o == SubSeq(r, 1, n)
           u == MoveToFront(o, k)
           t == MoveToFront(r, k)
           po == PlaceOf(o, k)
           pr == PlaceOf(r, k)
<1>0. /\ n = IF Len(r) < Cap THEN Len(r) ELSE Cap
      /\ Size(u) = IF Len(u) < Cap THEN Len(u) ELSE Cap
      /\ Size(t) = IF Len(t) < Cap THEN Len(t) ELSE Cap
  BY DEF Size
<1>1. Len(r) \in Nat /\ Cap \in Nat /\ Cap > 0
  BY CacheAssumption DEF CacheAssumption
<1>1a. DOMAIN r = 1..Len(r)
  OBVIOUS
<1>1b. n \in Nat /\ n <= Len(r) /\ n <= Cap /\ (n < Cap => n = Len(r))
  BY <1>0, <1>1
<1>2. o \in Seq(Key) /\ Len(o) = n /\ \A i \in 1..n : o[i] = r[i]
  <2>1. \A i \in 1..n : r[i] \in Key
    BY <1>1, <1>1b
  <2>2. /\ o \in Seq(Key) /\ Len(o) = IF 1 <= n THEN n - 1 + 1 ELSE 0
        /\ \A i \in 1..n - 1 + 1 : o[i] = r[1 + i - 1]
    BY <1>1, <1>1b, <2>1, SubSeqProperties
  <2> QED
    BY <1>1, <1>1b, <2>2
<1> HIDE DEF n, o
<1>3. /\ u \in Seq(Key) /\ u[1] = k
      /\ Len(u) = IF k \in ToSet(o) THEN n ELSE n + 1
      /\ \A i \in 2..Len(u) : u[i] = IF i <= po THEN o[i - 1] ELSE o[i]
  BY <1>2, MoveToFrontPlaces
<1>4. /\ t \in Seq(Key) /\ t[1] = k
      /\ Len(t) = IF k \in ToSet(r) THEN Len(r) ELSE Len(r) + 1
      /\ \A i \in 2..Len(t) : t[i] = IF i <= pr THEN r[i - 1] ELSE r[i]
  BY MoveToFrontPlaces
<1>5. /\ po \in 1..(n + 1)
      /\ k \in ToSet(o) => po \in 1..n /\ o[po] = k
      /\ k \notin ToSet(o) => po = n + 1
  BY <1>2, PlaceOfKey
<1>6. /\ pr \in 1..(Len(r) + 1)
      /\ k \in ToSet(r) => pr \in 1..Len(r) /\ r[pr] = k
      /\ k \notin ToSet(r) => pr = Len(r) + 1
  BY PlaceOfKey
<1> HIDE DEF u, t, po, pr
<1>7. k \in ToSet(o) => k \in ToSet(r) /\ pr = po
  <2> SUFFICES ASSUME k \in ToSet(o)
               PROVE  k \in ToSet(r) /\ pr = po
    OBVIOUS
  <2>1. po \in 1..Len(r) /\ r[po] = k
    BY <1>1, <1>1b, <1>2, <1>5
  <2>2. k \in ToSet(r)
    BY <1>1a, <2>1 DEF ToSet
  <2> QED
    BY <1>1a, <1>6, <2>1, <2>2 DEF Distinct
<1>8. k \notin ToSet(o) => pr > n
  <2> SUFFICES ASSUME pr <= n
               PROVE  k \in ToSet(o)
    BY <1>1, <1>1b, <1>6
  <2>1. pr \in 1..n /\ r[pr] = k
    BY <1>1, <1>1b, <1>6
  <2>2. o[pr] = k /\ pr \in DOMAIN o
    BY <1>2, <2>1
  <2> QED
    BY <2>2 DEF ToSet
<1>9. Size(u) = Size(t) /\ Size(u) <= Len(u) /\ Size(t) <= Len(t) /\ Size(u) \in Nat
      /\ Len(u) \in Nat /\ Len(t) \in Nat
  <2>1. CASE k \in ToSet(o)
    <3>1. Len(u) = n /\ Len(t) = Len(r)
      BY <1>3, <1>4, <1>7, <2>1
    <3> QED
      BY <1>0, <1>1, <1>1b, <3>1
  <2>2. CASE k \notin ToSet(o)
    <3>1. Len(u) = n + 1
      BY <1>3, <2>2
    <3>2. Len(t) \in {Len(r), Len(r) + 1} /\ Len(t) >= pr
      BY <1>1, <1>1b, <1>4, <1>6
    <3>3. pr > n
      BY <1>8, <2>2
    <3> QED
      BY <1>0, <1>1, <1>1b, <1>6, <3>1, <3>2, <3>3
  <2> QED
    BY <2>1, <2>2
<1>10. \A i \in 1..Size(u) : u[i] = t[i]
  <2> SUFFICES ASSUME NEW i \in 2..Size(u)
               PROVE  u[i] = t[i]
    BY <1>3, <1>4, <1>9
  <2>1. i \in 2..Len(u) /\ i \in 2..Len(t)
    BY <1>9
  <2>2. CASE k \in ToSet(o)
    BY <1>1, <1>1b, <1>2, <1>3, <1>4, <1>5, <1>7, <2>1, <2>2
  <2>3. CASE k \notin ToSet(o)
    <3>1. i <= po /\ i <= pr /\ i - 1 \in 1..n
      BY <1>1, <1>1b, <1>3, <1>5, <1>6, <1>8, <2>1, <2>3
    <3>2. u[i] = o[i - 1] /\ t[i] = r[i - 1]
      BY <1>3, <1>4, <2>1, <3>1
    <3> QED
      BY <1>2, <3>1, <3>2
  <2> QED
    BY <2>2, <2>3
<1>11. SubSeq(u, 1, Size(u)) = SubSeq(t, 1, Size(t))
  <2> DEFINE m == Size(u)
             U == SubSeq(u, 1, m)
             T == SubSeq(t, 1, m)
  <2>1. (\A i \in 1..m : u[i] \in Key) /\ (\A i \in 1..m : t[i] \in Key)
    BY <1>3, <1>4, <1>9
  <2>2. U \in Seq(Key) /\ Len(U) = m /\ \A i \in 1..m : U[i] = u[i]
    BY <1>9, <2>1
  <2>3. T \in Seq(Key) /\ Len(T) = m /\ \A i \in 1..m : T[i] = t[i]
    BY <1>9, <2>1
  <2> HIDE DEF U, T, m
  <2>4. U = T
    BY <1>10, <2>2, <2>3, SeqEqual DEF m
  <2> QED
    BY <1>9, <2>4 DEF U, T, m
<1>12. k \in ToSet(o) => Len(u) = Size(u) /\ Len(t) = Len(r)
  BY <1>0, <1>1, <1>1b, <1>3, <1>4, <1>7
<1>13. Len(t) - Size(t) <= (Len(r) - n) + (Len(u) - Size(u))
  <2>1. CASE k \in ToSet(o)
    BY <1>1, <1>1b, <1>3, <1>4, <1>7, <1>9, <2>1
  <2>2. CASE k \notin ToSet(o)
    BY <1>1, <1>1b, <1>3, <1>4, <1>9, <2>2
  <2> QED
    BY <2>1, <2>2
<1> QED
  BY <1>2, <1>3, <1>4, <1>11, <1>12, <1>13 DEF n, o, u, t

LEMMA EmptyMirrors == Mirrors(EmptyCache, <<>>)
<1>1. Cap \in Nat /\ Cap > 0
  BY CacheAssumption DEF CacheAssumption
<1>2. <<>> \in [{} -> Value] /\ DOMAIN <<>> = {}
  OBVIOUS
<1>3. EmptyCache \in Cache
  BY <1>2 DEF EmptyCache, Cache
<1>4. <<>> \in Seq(Key) /\ Distinct(<<>>) /\ Size(<<>>) = 0
  BY <1>1 DEF Distinct, Size
<1>5. SubSeq(<<>>, 1, 0) = <<>>
  BY SubSeqEmpty
<1>6. ToSet(<<>>) = {}
  BY DEF ToSet
<1> QED
  BY <1>2, <1>3, <1>4, <1>5, <1>6 DEF Mirrors, EmptyCache

\* A lookup that hits makes its key the most recently used of both; a miss
\* changes neither.
LEMMA TouchMirrors ==
    ASSUME NEW c, NEW r, NEW k \in Key, Mirrors(c, r)
    PROVE  /\ Holds(c, k) => Mirrors(Touch(c, k), MoveToFront(r, k))
           /\ ~Holds(c, k) => Mirrors(Touch(c, k), r)
           /\ Touch(c, k).byKey = c.byKey
<1>1. c \in Cache /\ r \in Seq(Key) /\ Distinct(r)
  BY DEF Mirrors
<1>2. Touch(c, k).byKey = c.byKey
  BY <1>1 DEF Touch, Cache
<1>3. ASSUME ~Holds(c, k)
      PROVE  Mirrors(Touch(c, k), r)
  <2>1. Touch(c, k) = [c EXCEPT !.misses = c.misses + 1]
    BY <1>3 DEF Touch
  <2>2. /\ Touch(c, k) \in Cache /\ Touch(c, k).order = c.order
        /\ Touch(c, k).byKey = c.byKey /\ Touch(c, k).evictions = c.evictions
    BY <1>1, <2>1 DEF Cache
  <2> QED
    BY <2>2 DEF Mirrors
<1>4. ASSUME Holds(c, k)
      PROVE  Mirrors(Touch(c, k), MoveToFront(r, k))
  <2> DEFINE u == MoveToFront(c.order, k)
             t == MoveToFront(r, k)
  <2>1. /\ c.order = SubSeq(r, 1, Size(r)) /\ DOMAIN c.byKey = ToSet(c.order)
        /\ c.evictions >= Len(r) - Size(r)
    BY DEF Mirrors
  <2>2. k \in ToSet(c.order)
    BY <1>4, <2>1 DEF Holds
  <2>3. /\ u \in Seq(Key) /\ t \in Seq(Key)
        /\ SubSeq(u, 1, Size(u)) = SubSeq(t, 1, Size(t))
        /\ Len(u) = Size(u) /\ Len(t) = Len(r)
    <3> DEFINE o == SubSeq(r, 1, Size(r))
               w == MoveToFront(o, k)
    <3>1. k \in ToSet(o) /\ u = w
      BY <2>1, <2>2
    <3>2. /\ w \in Seq(Key) /\ t \in Seq(Key)
          /\ SubSeq(w, 1, Size(w)) = SubSeq(t, 1, Size(t))
          /\ k \in ToSet(o) => Len(w) = Size(w) /\ Len(t) = Len(r)
      BY <1>1, PrefixMoves
    <3> HIDE DEF u, t, w, o
    <3> QED
      BY <3>1, <3>2
  <2>4. SubSeq(u, 1, Len(u)) = u
    BY <2>3, SubSeqFull
  <2>5. u = SubSeq(t, 1, Size(t)) /\ Size(t) = Size(r)
    BY <2>3, <2>4 DEF Size
  <2>6. ToSet(u) = ToSet(c.order)
    <3>1. c.order \in Seq(Key)
      BY <1>1 DEF Cache
    <3>2. ToSet(u) = ToSet(c.order) \cup {k}
      BY <3>1, MoveToFrontKeys
    <3> HIDE DEF u
    <3> QED
      BY <2>2, <3>2
  <2>7. Distinct(t)
    BY <1>1, MoveToFrontDistinct
  <2>8. Touch(c, k) = [c EXCEPT !.order = u, !.hits = c.hits + 1]
    BY <1>4 DEF Touch
  <2> HIDE DEF u, t
  <2>9. /\ Touch(c, k) \in Cache /\ Touch(c, k).order = u
        /\ Touch(c, k).byKey = c.byKey /\ Touch(c, k).evictions = c.evictions
    <3>1. c.hits + 1 \in Nat /\ u \in Seq(Key)
      BY <1>1, <2>3 DEF Cache
    <3> QED
      BY <1>1, <2>8, <3>1 DEF Cache
  <2>10. Touch(c, k).evictions >= Len(t) - Size(t)
    BY <2>1, <2>3, <2>5, <2>9
  <2>11. /\ Touch(c, k).order = SubSeq(t, 1, Size(t))
         /\ DOMAIN Touch(c, k).byKey = ToSet(Touch(c, k).order)
    BY <2>1, <2>5, <2>6, <2>9
  <2>12. Touch(c, k) \in Cache /\ t \in Seq(Key)
    BY <2>3, <2>9
  <2>13. Mirrors(Touch(c, k), t)
    BY <2>7, <2>10, <2>11, <2>12, Zenon DEF Mirrors
  <2> QED
    BY <2>13 DEF t
<1> QED
  BY <1>2, <1>3, <1>4

\* A store makes its key the most recently used of both, and gives up the least
\* recently used one when the cache was full.
LEMMA PutMirrors ==
    ASSUME NEW c, NEW r, NEW k \in Key, NEW v \in Value, Mirrors(c, r)
    PROVE  /\ Mirrors(Put(c, k, v), MoveToFront(r, k))
           /\ \A x \in DOMAIN Put(c, k, v).byKey :
                 Put(c, k, v).byKey[x] = IF x = k THEN v ELSE c.byKey[x]
           /\ DOMAIN Put(c, k, v).byKey \subseteq DOMAIN c.byKey \cup {k}
<1> DEFINE u == MoveToFront(c.order, k)
           t == MoveToFront(r, k)
           kept == SubSeq(u, 1, Size(u))
           byKey == [x \in ToSet(kept) |-> IF x = k THEN v ELSE c.byKey[x]]
           P == Put(c, k, v)
<1>1. /\ c \in Cache /\ r \in Seq(Key) /\ Distinct(r)
      /\ c.order = SubSeq(r, 1, Size(r)) /\ DOMAIN c.byKey = ToSet(c.order)
      /\ c.evictions >= Len(r) - Size(r)
  BY DEF Mirrors
<1>2. /\ u \in Seq(Key) /\ t \in Seq(Key)
      /\ kept = SubSeq(t, 1, Size(t))
      /\ Len(t) - Size(t) <= (Len(r) - Size(r)) + (Len(u) - Size(u))
  BY <1>1, PrefixMoves
<1>3. Size(u) \in Nat /\ Size(u) <= Len(u) /\ Len(u) \in Nat
  BY <1>2, CacheAssumption DEF CacheAssumption, Size
<1>4. kept \in Seq(Key) /\ Len(kept) = Size(u) /\ \A i \in 1..Size(u) : kept[i] = u[i]
  <2>1. \A i \in 1..Size(u) : u[i] \in Key
    BY <1>2, <1>3
  <2> QED
    BY <1>3, <2>1
<1>5. P = [c EXCEPT !.order = kept, !.byKey = byKey,
                    !.evictions = c.evictions + (Len(u) - Len(kept))]
  BY DEF Put, Size
<1> HIDE DEF P, u, t, kept
<1>6. ToSet(kept) \subseteq ToSet(c.order) \cup {k}
  <2>1. ToSet(u) = ToSet(c.order) \cup {k}
    BY <1>1, MoveToFrontKeys DEF u, Cache
  <2>2. ToSet(kept) \subseteq ToSet(u)
    BY <1>2, <1>3, <1>4 DEF ToSet
  <2> QED
    BY <2>1, <2>2
<1>7. ToSet(kept) \subseteq Key
  BY <1>4 DEF ToSet
<1>8. byKey \in [ToSet(kept) -> Value]
  <2>1. \A x \in ToSet(kept) : x # k => c.byKey[x] \in Value
    BY <1>1, <1>6 DEF Cache
  <2> QED
    BY <2>1
<1>9. /\ P \in Cache /\ P.order = kept /\ P.byKey = byKey
      /\ P.evictions = c.evictions + (Len(u) - Size(u))
  <2>1. byKey \in UNION {[K -> Value] : K \in SUBSET Key}
    BY <1>7, <1>8
  <2>2. c.evictions + (Len(u) - Len(kept)) \in Nat
    BY <1>1, <1>3, <1>4 DEF Cache
  <2> HIDE DEF byKey
  <2> QED
    BY <1>1, <1>4, <1>5, <2>1, <2>2 DEF Cache
<1>10. Distinct(t)
  BY <1>1, MoveToFrontDistinct DEF t
<1>11. P.evictions >= Len(t) - Size(t)
  <2>1. Len(r) \in Nat /\ Len(t) \in Nat /\ c.evictions \in Nat
    BY <1>1, <1>2 DEF Cache
  <2>2. Size(r) \in Nat /\ Size(t) \in Nat
    BY <2>1, CacheAssumption DEF CacheAssumption, Size
  <2> QED
    BY <1>1, <1>2, <1>3, <1>9, <2>1, <2>2
<1>12. Mirrors(P, t)
  BY <1>2, <1>8, <1>9, <1>10, <1>11 DEF Mirrors
<1>13. DOMAIN P.byKey = ToSet(kept)
  BY <1>9
<1> QED
  BY <1>1, <1>6, <1>9, <1>12, <1>13 DEF P, t

-----------------------------------------------------------------------------
\* The variables keep their types.
LEMMA TypeInit == Init => TypeOK
<1> SUFFICES ASSUME Init
             PROVE  TypeOK
  OBVIOUS
<1>1. (CHOOSE a \in Texts : TRUE) \in Texts
  BY BenchmarkAssumption DEF BenchmarkAssumption
<1> QED
  BY <1>1 DEF Init, TypeOK, Places

LEMMA JudgeKeyType ==
    ASSUME TypeOK, NEW e \in Example
    PROVE  JudgeKey(e) \in Key
<1>1. answer[e] \in Texts
  BY DEF TypeOK
<1>2. Query[e] \in {Query[d] : d \in 1..N}
  BY DEF Example
<1> QED
  BY <1>1, <1>2, BenchmarkAssumption DEF BenchmarkAssumption, JudgeKey

\* The stored verdicts are verdicts.
LEMMA StoredType ==
    ASSUME TypeOK, Stored, NEW k, Holds(cache, k)
    PROVE  cache.byKey[k] \in Value
  BY DEF TypeOK, Stored, Holds

LEMMA WorkerType ==
    ASSUME TypeOK, Stored, NEW e \in Example, Worker(e)
    PROVE  TypeOK'
<1> USE DEF Goto, Places, workerVars, sharedVars, runVars, seenVars
<1>1. CASE Skip(e)
  BY <1>1 DEF Skip, TypeOK
<1>2. CASE Enter(e)
  BY <1>2 DEF Enter, TypeOK
<1>3. CASE RunNext(e)
  BY <1>3 DEF RunNext, TypeOK
<1>4. CASE Gate(e)
  BY <1>4 DEF Gate, TypeOK
<1>5. CASE EnterLoop(e)
  <2>1. error' \in [Example -> SUBSET Errors]
    BY <1>5 DEF EnterLoop, TypeOK, Errors
  <2>2. pc' \in [Example -> Places] /\ attempt' \in [Example -> Nat]
    BY <1>5 DEF EnterLoop, TypeOK
  <2> QED
    BY <1>5, <2>1, <2>2 DEF EnterLoop, TypeOK
<1>6. ASSUME NEW a \in Texts, Answered(e, a)
      PROVE  TypeOK'
  <2>1. verdict' \in [Example -> SUBSET Verdict]
    BY <1>6 DEF Answered, TypeOK, Verdict
  <2>2. pc' \in [Example -> Places] /\ stage' \in [Example -> {"ask", "judge"}]
        /\ answer' \in [Example -> Texts]
    BY <1>6 DEF Answered, TypeOK
  <2> QED
    BY <1>6, <2>1, <2>2 DEF Answered, TypeOK
<1>7. ASSUME NEW v \in Value, Judged(e, v)
      PROVE  TypeOK'
  <2>1. verdict' \in [Example -> SUBSET Verdict]
    BY <1>7 DEF Judged, TypeOK, Verdict
  <2>2. given' \subseteq Key \X Value
    BY <1>7, JudgeKeyType DEF Judged, TypeOK, JudgeKey
  <2>3. pc' \in [Example -> Places]
    BY <1>7 DEF Judged, TypeOK
  <2> QED
    BY <1>7, <2>1, <2>2, <2>3 DEF Judged, TypeOK
<1>8. ASSUME NEW err \in InnerErrors, Failed(e, err)
      PROVE  TypeOK'
  <2>1. error' \in [Example -> SUBSET Errors]
    BY <1>8 DEF Failed, TypeOK, Errors
  <2>2. pc' \in [Example -> Places]
    BY <1>8 DEF Failed, TypeOK
  <2> QED
    BY <1>8, <2>1, <2>2 DEF Failed, TypeOK
<1>9. CASE Panicked(e)
  BY <1>9 DEF Panicked, TypeOK
<1>10. CASE Wake(e)
  BY <1>10 DEF Wake, TypeOK
<1>11. CASE Interrupted(e)
  <2>1. error' \in [Example -> SUBSET Errors]
    BY <1>11 DEF Interrupted, TypeOK, Errors
  <2> QED
    BY <1>11, <2>1 DEF Interrupted, TypeOK
<1>12. CASE Lookup(e)
  <2>1. verdict' \in [Example -> SUBSET Verdict]
    BY <1>12, StoredType DEF Lookup, TypeOK, Verdict
  <2>2. pc' \in [Example -> Places]
    BY <1>12 DEF Lookup, TypeOK
  <2> QED
    BY <1>12, <2>1, <2>2 DEF Lookup, TypeOK
<1>13. CASE Store(e)
  BY <1>13 DEF Store, TypeOK
<1>14. CASE Report(e)
  <2>1. results' \in [Example -> SUBSET Verdict] /\ progress' \in [Example -> Nat]
    BY <1>14 DEF Report, TypeOK
  <2>2. pc' \in [Example -> Places]
        /\ settled' \in [Example -> {"none", "ok", "err", "panic", "skipped"}]
    BY <1>14 DEF Report, TypeOK
  <2> QED
    BY <1>14, <2>1, <2>2 DEF Report, TypeOK
<1>15. CASE Record(e)
  <2>1. firstErr' \subseteq Example \X Errors
    BY <1>15 DEF Record, TypeOK
  <2>2. pc' \in [Example -> Places]
        /\ settled' \in [Example -> {"none", "ok", "err", "panic", "skipped"}]
    BY <1>15 DEF Record, TypeOK
  <2> QED
    BY <1>15, <2>1, <2>2 DEF Record, TypeOK
<1> QED
  BY <1>1, <1>2, <1>3, <1>4, <1>5, <1>6, <1>7, <1>8, <1>9, <1>10, <1>11, <1>12, <1>13,
     <1>14, <1>15 DEF Worker

LEMMA TypeStep == TypeOK /\ Stored /\ [Next]_vars => TypeOK'
<1> SUFFICES ASSUME TypeOK, Stored, [Next]_vars
             PROVE  TypeOK'
  OBVIOUS
<1>1. CASE Gather \/ Return \/ ReturnAll \/ Cancel
  BY <1>1 DEF Gather, Return, ReturnAll, Cancel, TypeOK,
              workerVars, sharedVars, runVars, seenVars
<1>2. CASE UNCHANGED vars
  BY <1>2 DEF vars, TypeOK, workerVars, sharedVars, runVars, seenVars
<1> QED
  BY <1>1, <1>2, WorkerType DEF Next, Finished

-----------------------------------------------------------------------------
\* What a worker leaves alone.
SameEntries(d) ==
    /\ pc'[d] = pc[d] /\ stage'[d] = stage[d] /\ attempt'[d] = attempt[d]
    /\ answer'[d] = answer[d] /\ verdict'[d] = verdict[d] /\ error'[d] = error[d]
    /\ results'[d] = results[d] /\ settled'[d] = settled[d] /\ progress'[d] = progress[d]

SharedKept ==
    /\ parallel' = parallel /\ judging' = judging /\ cancelled' = cancelled /\ fanned' = fanned
    /\ given \subseteq given'
    /\ firstErr # {} => firstErr' = firstErr
    /\ returned' # returned => ~parallel /\ returned' \in {"error", "panic"}

LEMMA WorkerFrame ==
    ASSUME TypeOK, NEW e \in Example, Worker(e)
    PROVE  SharedKept /\ \A d \in Example \ {e} : SameEntries(d)
<1> DEFINE Frame == SharedKept /\ \A d \in Example \ {e} : SameEntries(d)
<1> USE DEF Goto, workerVars, sharedVars, runVars, seenVars, SharedKept, SameEntries, TypeOK
<1>1. CASE Skip(e)
  BY <1>1 DEF Skip
<1>2. CASE Enter(e)
  BY <1>2 DEF Enter
<1>3. CASE RunNext(e)
  BY <1>3 DEF RunNext
<1>4. CASE Gate(e)
  BY <1>4 DEF Gate
<1>5. CASE EnterLoop(e)
  BY <1>5 DEF EnterLoop
<1>6. ASSUME NEW a \in Texts, Answered(e, a)
      PROVE  Frame
  BY <1>6 DEF Answered
<1>7. ASSUME NEW v \in Value, Judged(e, v)
      PROVE  Frame
  BY <1>7 DEF Judged
<1>8. ASSUME NEW err \in InnerErrors, Failed(e, err)
      PROVE  Frame
  BY <1>8 DEF Failed
<1>9. CASE Panicked(e)
  BY <1>9 DEF Panicked
<1>10. CASE Wake(e)
  BY <1>10 DEF Wake
<1>11. CASE Interrupted(e)
  BY <1>11 DEF Interrupted
<1>12. CASE Lookup(e)
  BY <1>12 DEF Lookup
<1>13. CASE Store(e)
  BY <1>13 DEF Store
<1>14. CASE Report(e)
  BY <1>14 DEF Report
<1>15. CASE Record(e)
  BY <1>15 DEF Record
<1> QED
  BY <1>1, <1>2, <1>3, <1>4, <1>5, <1>6, <1>7, <1>8, <1>9, <1>10, <1>11, <1>12, <1>13,
     <1>14, <1>15 DEF Worker

\* A worker keeps what its place says of its own example.
LEMMA OwnUnderway ==
    ASSUME TypeOK, Stored, NEW e \in Example, Underway(e), Worker(e)
    PROVE  Underway(e)'
<1> USE DEF Goto, workerVars, sharedVars, runVars, seenVars, TypeOK, Underway, Genuine, JudgeKey
<1>1. CASE Skip(e)
  BY <1>1 DEF Skip
<1>2. CASE Enter(e)
  BY <1>2 DEF Enter
<1>3. CASE RunNext(e)
  BY <1>3 DEF RunNext
<1>4. CASE Gate(e)
  BY <1>4 DEF Gate
<1>5. CASE EnterLoop(e)
  BY <1>5 DEF EnterLoop
<1>6. ASSUME NEW a \in Texts, Answered(e, a)
      PROVE  Underway(e)'
  BY <1>6 DEF Answered
<1>7. ASSUME NEW v \in Value, Judged(e, v)
      PROVE  Underway(e)'
  <2>1. pc[e] = "try" /\ judging /\ judging' = judging
    BY <1>7 DEF Judged
  <2>2. verdict'[e] = {v} /\ given' = given \cup {<<JudgeKey(e)', v>>}
    BY <1>7 DEF Judged
  <2>3. Genuine(e, v)'
    BY <2>1, <2>2
  <2>4. \A w \in verdict'[e] : Genuine(e, w)'
    BY <2>2, <2>3
  <2>5. /\ pc'[e] = "put" /\ error'[e] = error[e] /\ attempt'[e] = attempt[e]
        /\ progress'[e] = progress[e] /\ results'[e] = results[e]
        /\ settled'[e] = settled[e] /\ stage'[e] = stage[e]
    BY <1>7 DEF Judged
  <2> QED
    BY <2>1, <2>2, <2>4, <2>5
<1>8. ASSUME NEW err \in InnerErrors, Failed(e, err)
      PROVE  Underway(e)'
  <2>1. /\ pc[e] = "try" /\ attempt'[e] = attempt[e] /\ verdict'[e] = verdict[e]
        /\ progress'[e] = progress[e] /\ results'[e] = results[e]
        /\ settled'[e] = settled[e] /\ stage'[e] = stage[e] /\ answer' = answer
        /\ given' = given /\ judging' = judging /\ parallel' = parallel
    BY <1>8 DEF Failed
  <2>2. CASE attempt[e] = MaxAttempts - 1 \/ err = "permanent"
    <3>1. pc'[e] = "report" /\ error'[e] = {err}
      BY <1>8, <2>2 DEF Failed
    <3>2. "transient" \in error'[e] => attempt'[e] = MaxAttempts - 1
      BY <2>1, <2>2, <3>1
    <3> QED
      BY <2>1, <3>1, <3>2
  <2>3. CASE ~(attempt[e] = MaxAttempts - 1 \/ err = "permanent")
    <3>1. pc'[e] = "sleep" /\ error'[e] = error[e]
      BY <1>8, <2>3 DEF Failed
    <3> QED
      BY <2>1, <3>1
  <2> QED
    BY <2>2, <2>3
<1>9. CASE Panicked(e)
  BY <1>9 DEF Panicked
<1>10. CASE Wake(e)
  BY <1>10 DEF Wake
<1>11. CASE Interrupted(e)
  BY <1>11 DEF Interrupted
<1>12. CASE Lookup(e)
  <2>1. pc[e] = "lookup" /\ judging /\ judging' = judging /\ JudgeKey(e)' = JudgeKey(e)
        /\ given' = given
    BY <1>12 DEF Lookup
  <2>2. /\ error'[e] = error[e] /\ attempt'[e] = attempt[e]
        /\ progress'[e] = progress[e] /\ results'[e] = results[e]
        /\ settled'[e] = settled[e] /\ stage'[e] = stage[e]
    BY <1>12 DEF Lookup
  <2>3. CASE Holds(cache, JudgeKey(e))
    <3>1. verdict'[e] = {cache.byKey[JudgeKey(e)]} /\ pc'[e] = "report"
      BY <1>12, <2>3 DEF Lookup
    <3>2. <<JudgeKey(e), cache.byKey[JudgeKey(e)]>> \in given
      BY <2>3 DEF Holds, Stored
    <3> QED
      BY <2>1, <2>2, <3>1, <3>2
  <2>4. CASE ~Holds(cache, JudgeKey(e))
    <3>1. verdict'[e] = verdict[e] /\ pc'[e] = "enter"
      BY <1>12, <2>4 DEF Lookup
    <3> QED
      BY <2>1, <2>2, <3>1
  <2> QED
    BY <2>3, <2>4
<1>13. CASE Store(e)
  BY <1>13 DEF Store
<1>14. CASE Report(e)
  BY <1>14 DEF Report
<1>15. CASE Record(e)
  BY <1>15 DEF Record
<1> QED
  BY <1>1, <1>2, <1>3, <1>4, <1>5, <1>6, <1>7, <1>8, <1>9, <1>10, <1>11, <1>12, <1>13,
     <1>14, <1>15 DEF Worker

LEMMA OwnEnded ==
    ASSUME TypeOK, NEW e \in Example, Underway(e), Ended(e), Worker(e)
    PROVE  Ended(e)'
<1> USE DEF Goto, workerVars, sharedVars, runVars, seenVars, TypeOK, Underway, Ended, Scored
<1>1. CASE Skip(e)
  BY <1>1 DEF Skip
<1>2. CASE Enter(e)
  BY <1>2 DEF Enter
<1>3. CASE RunNext(e)
  BY <1>3 DEF RunNext
<1>4. CASE Gate(e)
  BY <1>4 DEF Gate
<1>5. CASE EnterLoop(e)
  BY <1>5 DEF EnterLoop
<1>6. ASSUME NEW a \in Texts, Answered(e, a)
      PROVE  Ended(e)'
  BY <1>6 DEF Answered
<1>7. ASSUME NEW v \in Value, Judged(e, v)
      PROVE  Ended(e)'
  BY <1>7 DEF Judged
<1>8. ASSUME NEW err \in InnerErrors, Failed(e, err)
      PROVE  Ended(e)'
  BY <1>8 DEF Failed
<1>9. CASE Panicked(e)
  BY <1>9 DEF Panicked
<1>10. CASE Wake(e)
  BY <1>10 DEF Wake
<1>11. CASE Interrupted(e)
  BY <1>11 DEF Interrupted
<1>12. CASE Lookup(e)
  BY <1>12 DEF Lookup
<1>13. CASE Store(e)
  BY <1>13 DEF Store
<1>14. CASE Report(e)
  BY <1>14 DEF Report
<1>15. CASE Record(e)
  BY <1>15 DEF Record
<1> QED
  BY <1>1, <1>2, <1>3, <1>4, <1>5, <1>6, <1>7, <1>8, <1>9, <1>10, <1>11, <1>12, <1>13,
     <1>14, <1>15 DEF Worker

\* Where a worker goes: one that is done stays so; a sequential one starts after
\* those before it, a parallel one when there is a slot; a recorded error turns
\* away those at the gate, and whoever records it, or ends the run, is done.
LEMMA WorkerMoves ==
    ASSUME TypeOK, NEW e \in Example, Worker(e)
    PROVE  /\ pc[e] # "done" /\ pc'[e] # "waiting"
           /\ pc[e] = "waiting" /\ ~parallel =>
                 returned = "no" /\ \A d \in 1..(e - 1) : pc[d] = "done"
           /\ pc[e] = "waiting" /\ parallel =>
                 pc'[e] = "done" \/ (pc'[e] = "gate" /\ Cardinality(Busy) < Workers)
           /\ pc[e] = "gate" /\ firstErr # {} => pc'[e] = "done"
           /\ pc[e] # "waiting" => pc'[e] # "gate"
           /\ firstErr' # firstErr => pc[e] = "record" /\ pc'[e] = "done"
           /\ returned' # returned => pc[e] # "waiting" /\ pc'[e] = "done"
           /\ error'[e] # error[e] => pc[e] # "waiting"
           /\ settled' = settled \/ \E a \in {"ok", "err", "panic"} : settled' = [settled EXCEPT ![e] = a]
              \/ (cancelled /\ settled' = [settled EXCEPT ![e] = "skipped"])
  BY DEF Worker, Skip, Enter, RunNext, Gate, EnterLoop, Answered, Judged, Failed, Panicked,
         Wake, Interrupted, Lookup, Store, Report, Record, Goto, TypeOK,
         workerVars, sharedVars, runVars, seenVars

\* What is true of the example of one worker, stays true through the steps of
\* the others.
LEMMA OthersKeep ==
    ASSUME NEW d \in Example, Underway(d), Ended(d), SharedKept, SameEntries(d)
    PROVE  Underway(d)' /\ Ended(d)'
<1> USE DEF SharedKept, SameEntries
<1>1. \A v : Genuine(d, v) => Genuine(d, v)'
  BY DEF Genuine, JudgeKey
<1>2. Underway(d)'
  BY <1>1 DEF Underway
<1>3. Ended(d)'
  BY DEF Ended, Scored
<1> QED
  BY <1>2, <1>3

LEMMA WorkersStep ==
    ASSUME TypeOK, Stored, \A e \in Example : Underway(e) /\ Ended(e), [Next]_vars
    PROVE  \A e \in Example : Underway(e)' /\ Ended(e)'
<1>1. ASSUME NEW e \in Example, Worker(e)
      PROVE  \A d \in Example : Underway(d)' /\ Ended(d)'
  <2>1. Underway(e)' /\ Ended(e)'
    BY <1>1, OwnUnderway, OwnEnded
  <2>2. ASSUME NEW d \in Example \ {e}
        PROVE  Underway(d)' /\ Ended(d)'
    BY <1>1, WorkerFrame, OthersKeep
  <2> QED
    BY <2>1, <2>2
<1>2. CASE Gather \/ Return \/ ReturnAll \/ Cancel \/ UNCHANGED vars
  <2>1. /\ UNCHANGED <<workerVars, sharedVars, seenVars, parallel, judging>>
        /\ returned' = "no" => returned = "no"
    BY <1>2 DEF Gather, Return, ReturnAll, Cancel, vars, runVars
  <2>2. ASSUME NEW d \in Example
        PROVE  Underway(d)' /\ Ended(d)'
    BY <2>1 DEF workerVars, sharedVars, seenVars, Underway, Ended, Scored, Genuine, JudgeKey
  <2> QED
    BY <2>2
<1> QED
  BY <1>1, <1>2 DEF Next, Finished

\* Sequential examples run in order, and Run returns when all tasks are through
\* or, of a sequential run, when one stopped it.
LEMMA OrderStep ==
    ASSUME TypeOK, \A e \in Example : Underway(e), InOrder, [Next]_vars
    PROVE  InOrder'
<1>1. ASSUME NEW e \in Example, Worker(e)
      PROVE  InOrder'
  <2>1. SharedKept /\ \A d \in Example \ {e} : pc'[d] = pc[d]
    BY <1>1, WorkerFrame DEF SameEntries
  <2>2. /\ pc[e] # "done" /\ pc'[e] # "waiting"
        /\ pc[e] = "waiting" /\ ~parallel =>
              returned = "no" /\ \A d \in 1..(e - 1) : pc[d] = "done"
        /\ firstErr' # firstErr => pc[e] = "record"
    BY <1>1, WorkerMoves
  <2>3. ~parallel => firstErr' = {} /\ fanned' = "no"
    BY <2>1, <2>2 DEF SharedKept, InOrder, Underway
  <2>4. ASSUME ~parallel, NEW x \in Example, pc'[x] # "waiting", NEW d \in 1..(x - 1)
        PROVE  pc'[d] = "done"
    <3>1. d \in Example /\ d # x
      BY <2>4, BenchmarkAssumption DEF BenchmarkAssumption, Example
    <3>2. CASE x = e
      BY <2>1, <2>2, <2>4, <3>1, <3>2 DEF InOrder
    <3>3. CASE x # e
      <4>1. pc[d] = "done"
        BY <2>1, <2>4, <3>3 DEF InOrder
      <4> QED
        BY <2>1, <2>2, <3>1, <4>1
    <3> QED
      BY <3>2, <3>3
  <2>5. ~(fanned' # "no" \/ returned' = "ok")
    BY <2>1, <2>2 DEF SharedKept, InOrder
  <2>6. parallel' /\ returned' # "no" => fanned' # "no"
    BY <2>1 DEF SharedKept, InOrder
  <2> QED
    BY <2>1, <2>3, <2>4, <2>5, <2>6 DEF InOrder, SharedKept
<1>2. CASE Gather \/ Return \/ ReturnAll \/ Cancel \/ UNCHANGED vars
  BY <1>2 DEF Gather, Return, ReturnAll, Cancel, vars, workerVars, sharedVars, runVars,
              seenVars, InOrder
<1> QED
  BY <1>1, <1>2 DEF Next, Finished

\* The cache stays in step with the recency, and holds only verdicts that were
\* given for their key.
LEMMA CacheStep ==
    ASSUME TypeOK, Stored, Mirrors(cache, recency), \A e \in Example : Underway(e),
           [Next]_vars
    PROVE  Stored' /\ Mirrors(cache, recency)'
<1>1. ASSUME NEW e \in Example, Lookup(e)
      PROVE  Stored' /\ Mirrors(cache, recency)'
  <2> DEFINE k == JudgeKey(e)
  <2>1. k \in Key
    BY JudgeKeyType
  <2>2. /\ cache' = Touch(cache, k) /\ given' = given
        /\ Holds(cache, k) => recency' = MoveToFront(recency, k)
        /\ ~Holds(cache, k) => recency' = recency
    BY <1>1 DEF Lookup
  <2> HIDE DEF k
  <2>3. /\ Holds(cache, k) => Mirrors(cache', MoveToFront(recency, k))
        /\ ~Holds(cache, k) => Mirrors(cache', recency)
        /\ cache'.byKey = cache.byKey
    BY <2>1, <2>2, TouchMirrors
  <2>4. Mirrors(cache', recency')
    BY <2>2, <2>3
  <2>5. Stored'
    BY <2>2, <2>3 DEF Stored
  <2> QED
    BY <2>4, <2>5 DEF Mirrors
<1>2. ASSUME NEW e \in Example, Store(e)
      PROVE  Stored' /\ Mirrors(cache, recency)'
  <2> DEFINE k == JudgeKey(e)
  <2>1. k \in Key
    BY JudgeKeyType
  <2>2. PICK v \in verdict[e] : cache' = Put(cache, k, v)
    BY <1>2 DEF Store
  <2>3. recency' = MoveToFront(recency, k) /\ given' = given /\ pc[e] = "put"
    BY <1>2 DEF Store
  <2>4. <<k, v>> \in given
    BY <2>3 DEF Underway, Genuine
  <2>5. v \in Value
    BY <2>4 DEF TypeOK
  <2> HIDE DEF k
  <2>6. /\ Mirrors(cache', recency')
        /\ \A x \in DOMAIN cache'.byKey : cache'.byKey[x] = IF x = k THEN v ELSE cache.byKey[x]
        /\ DOMAIN cache'.byKey \subseteq DOMAIN cache.byKey \cup {k}
    BY <2>1, <2>2, <2>3, <2>5, PutMirrors
  <2>7. Stored'
    BY <2>3, <2>4, <2>6 DEF Stored
  <2> QED
    BY <2>6, <2>7 DEF Mirrors
<1>3. ASSUME UNCHANGED <<cache, recency>>, given \subseteq given'
      PROVE  Stored' /\ Mirrors(cache, recency)'
  BY <1>3 DEF Stored, Mirrors
<1>4. ASSUME NEW e \in Example, Worker(e)
      PROVE  Stored' /\ Mirrors(cache, recency)'
  <2>1. given \subseteq given'
    BY <1>4, WorkerFrame DEF SharedKept
  <2>2. Lookup(e) \/ Store(e) \/ UNCHANGED <<cache, recency>>
    BY <1>4 DEF Worker, Skip, Enter, RunNext, Gate, EnterLoop, Answered, Judged, Failed,
                Panicked, Wake, Interrupted, Report, Record, sharedVars, seenVars
  <2> QED
    BY <1>1, <1>2, <1>3, <2>1, <2>2
<1>5. CASE Gather \/ Return \/ ReturnAll \/ Cancel \/ UNCHANGED vars
  <2>1. UNCHANGED <<cache, recency, given>>
    BY <1>5 DEF Gather, Return, ReturnAll, Cancel, vars, sharedVars, seenVars
  <2> QED
    BY <1>3, <2>1
<1> QED
  BY <1>4, <1>5 DEF Next, Finished

-----------------------------------------------------------------------------
\* The inductive invariant.
IInv ==
    /\ TypeOK
    /\ Stored
    /\ Mirrors(cache, recency)
    /\ \A e \in Example : Underway(e) /\ Ended(e)
    /\ InOrder

THEOREM Invariant == Spec => []IInv
<1>1. ASSUME Init
      PROVE  IInv
  <2>1. TypeOK
    BY <1>1, TypeInit
  <2>2. Mirrors(cache, recency)
    BY <1>1, EmptyMirrors DEF Init
  <2>3. Stored
    BY <1>1 DEF Init, EmptyCache, Stored
  <2>4. \A e \in Example : Underway(e) /\ Ended(e)
    BY <1>1 DEF Init, Underway, Ended
  <2>5. InOrder
    BY <1>1 DEF Init, InOrder
  <2> QED
    BY <2>1, <2>2, <2>3, <2>4, <2>5 DEF IInv
<1>2. ASSUME IInv, [Next]_vars
      PROVE  IInv'
  <2>1. /\ TypeOK /\ Stored /\ Mirrors(cache, recency)
        /\ (\A e \in Example : Underway(e) /\ Ended(e)) /\ InOrder
    BY <1>2 DEF IInv
  <2>2. TypeOK'
    BY <1>2, <2>1, TypeStep
  <2>3. Stored' /\ Mirrors(cache, recency)'
    BY <1>2, <2>1, CacheStep
  <2>4. \A e \in Example : Underway(e)' /\ Ended(e)'
    BY <1>2, <2>1, WorkersStep
  <2>5. InOrder'
    BY <1>2, <2>1, OrderStep
  <2> QED
    BY <2>2, <2>3, <2>4, <2>5 DEF IInv
<1> QED
  BY <1>1, <1>2, PTL DEF Spec

\* However lookups and stores of the workers interleave, the list and the map of
\* the shared cache agree and hold exactly the Cap most recently used keys, in
\* that order; whatever left was counted (Get and Put of MemoryJudgeCache).
THEOREM CacheKeepsTheRecent == Spec => []CacheIsLRU
<1>1. IInv => CacheIsLRU
  BY DEF IInv, Mirrors, Size, CacheIsLRU
<1> QED
  BY <1>1, Invariant, PTL

\* A verdict in the results is one the inner judge gave for this query and this
\* answer, whether it came from the judge or from the cache.
THEOREM VerdictsCameFromTheJudge == Spec => []VerdictsAreGenuine
<1>1. IInv => VerdictsAreGenuine
  <2> SUFFICES ASSUME IInv
               PROVE  VerdictsAreGenuine
    OBVIOUS
  <2>1. ASSUME NEW e \in Example, NEW v \in results[e]
        PROVE  IF judging THEN <<<<Query[e], answer[e]>>, v>> \in given ELSE v = NoVerdict
    BY DEF IInv, Underway, Genuine, JudgeKey
  <2> QED
    BY <2>1 DEF IInv, Stored, VerdictsAreGenuine
<1> QED
  BY <1>1, Invariant, PTL

\* Run returns results only if every example was asked, judged and reported once.
THEOREM SuccessIsComplete == Spec => []SuccessScoresAll
<1>1. Init => SuccessScoresAll
  BY DEF Init, SuccessScoresAll
<1>2. ASSUME IInv, SuccessScoresAll, [Next]_vars
      PROVE  SuccessScoresAll'
  <2>1. (\A e \in Example : Underway(e) /\ Ended(e)) /\ InOrder /\ TypeOK
    BY <1>2 DEF IInv
  <2>2. ASSUME NEW e \in Example, Worker(e)
        PROVE  SuccessScoresAll'
    <3>1. pc[e] # "done"
      BY <2>1, <2>2, WorkerMoves
    <3>2. returned' # "ok"
      BY <2>1, <2>2, <3>1, WorkerFrame DEF SharedKept, InOrder
    <3> QED
      BY <3>2 DEF SuccessScoresAll
  <2>3. CASE Return
    <3>1. results' = results /\ progress' = progress
      BY <2>3 DEF Return, sharedVars, seenVars
    <3>2. ASSUME returned' = "ok", NEW e \in Example
          PROVE  results[e] # {} /\ progress[e] = 1
      <4>1. fanned # "no" /\ firstErr = {} /\ settled[e] = "ok"
        BY <2>3, <3>2 DEF Return
      <4>2. parallel /\ pc[e] = "done"
        BY <2>1, <4>1 DEF InOrder
      <4> QED
        BY <2>1, <4>1, <4>2 DEF Ended, Scored
    <3> QED
      BY <3>1, <3>2 DEF SuccessScoresAll
  <2>4. CASE ReturnAll
    <3>1. results' = results /\ progress' = progress
      BY <2>4 DEF ReturnAll, sharedVars, seenVars
    <3>2. \A e \in Example : results[e] # {} /\ progress[e] = 1
      BY <2>1, <2>4 DEF ReturnAll, Ended, Scored
    <3> QED
      BY <3>1, <3>2 DEF SuccessScoresAll
  <2>5. CASE Gather \/ Cancel \/ UNCHANGED vars
    BY <1>2, <2>5 DEF Gather, Cancel, vars, sharedVars, seenVars, runVars, SuccessScoresAll
  <2> QED
    BY <1>2, <2>2, <2>3, <2>4, <2>5 DEF Next, Finished
<1> QED
  BY <1>1, <1>2, Invariant, PTL DEF Spec

-----------------------------------------------------------------------------
\* Sets of examples are finite.
LEMMA ExampleSets ==
    ASSUME NEW S \in SUBSET Example
    PROVE  IsFiniteSet(S) /\ Cardinality(S) \in Nat
<1>1. IsFiniteSet(Example)
  BY BenchmarkAssumption, FS_Interval DEF BenchmarkAssumption, Example
<1> QED
  BY <1>1, FS_Subset, FS_CardinalityType

\* Nothing runs on after the return.
Quiet == returned # "no" => Busy = {}

\* A sequential run has not run the examples after the failing one.
Stopped ==
    ~parallel => \A e \in Example : error[e] # {} => \A d \in (e + 1)..N : pc[d] = "waiting"

\* A recorded error leaves at least one slot to nobody but those at the gate.
GateHolds == firstErr # {} => Cardinality(Committed) < Workers

LEMMA QuietStep == IInv /\ Quiet /\ [Next]_vars => Quiet'
<1> SUFFICES ASSUME IInv, Quiet, [Next]_vars
             PROVE  Quiet'
  OBVIOUS
<1>1. (\A e \in Example : Underway(e) /\ Ended(e)) /\ InOrder /\ TypeOK
  BY DEF IInv
<1>2. ASSUME NEW e \in Example, Worker(e)
      PROVE  Quiet'
  <2>1. /\ pc[e] # "done"
        /\ pc[e] = "waiting" /\ ~parallel => returned = "no"
        /\ returned' # returned => pc[e] # "waiting" /\ pc'[e] = "done"
    BY <1>1, <1>2, WorkerMoves
  <2>2. returned = "no"
    <3>1. CASE pc[e] = "waiting"
      BY <1>1, <2>1, <3>1 DEF InOrder
    <3>2. CASE pc[e] # "waiting"
      BY <2>1, <3>2 DEF Quiet, Busy
    <3> QED
      BY <3>1, <3>2
  <2>3. SharedKept /\ \A d \in Example \ {e} : pc'[d] = pc[d]
    BY <1>1, <1>2, WorkerFrame DEF SameEntries
  <2>4. ASSUME returned' # "no", NEW d \in Example
        PROVE  pc'[d] \in {"waiting", "done"}
    <3>1. ~parallel /\ pc[e] # "waiting" /\ pc'[e] = "done"
      BY <2>1, <2>2, <2>3, <2>4 DEF SharedKept
    <3>2. CASE d < e
      <4>1. d \in 1..(e - 1)
        BY <3>2, BenchmarkAssumption DEF BenchmarkAssumption, Example
      <4> QED
        BY <1>1, <2>3, <3>1, <3>2, <4>1 DEF InOrder, Example
    <3>3. CASE d > e
      <4>1. e \in 1..(d - 1)
        BY <3>3, BenchmarkAssumption DEF BenchmarkAssumption, Example
      <4>2. pc[d] = "waiting"
        BY <1>1, <2>1, <3>1, <4>1 DEF InOrder
      <4> QED
        BY <2>3, <3>3, <4>2 DEF Example
    <3> QED
      BY <3>1, <3>2, <3>3, BenchmarkAssumption DEF BenchmarkAssumption, Example
  <2> QED
    BY <2>4 DEF Quiet, Busy
<1>3. CASE Gather \/ Return \/ ReturnAll \/ Cancel \/ UNCHANGED vars
  BY <1>1, <1>3 DEF Gather, Return, ReturnAll, Cancel, vars, workerVars, runVars, Quiet, Busy,
                    InOrder
<1> QED
  BY <1>2, <1>3 DEF Next, Finished

LEMMA StoppedStep == IInv /\ Stopped /\ [Next]_vars => Stopped'
<1> SUFFICES ASSUME IInv, Stopped, [Next]_vars
             PROVE  Stopped'
  OBVIOUS
<1>1. (\A e \in Example : Underway(e) /\ Ended(e)) /\ InOrder /\ TypeOK
  BY DEF IInv
<1>2. ASSUME NEW e \in Example, Worker(e)
      PROVE  Stopped'
  <2>1. SharedKept /\ \A d \in Example \ {e} : pc'[d] = pc[d] /\ error'[d] = error[d]
    BY <1>1, <1>2, WorkerFrame DEF SameEntries
  <2>2. /\ pc[e] # "done"
        /\ pc[e] = "waiting" /\ ~parallel =>
              returned = "no" /\ \A d \in 1..(e - 1) : pc[d] = "done"
        /\ error'[e] # error[e] => pc[e] # "waiting"
    BY <1>1, <1>2, WorkerMoves
  <2>3. ASSUME ~parallel, NEW x \in Example, error'[x] # {}, NEW d \in (x + 1)..N
        PROVE  pc'[d] = "waiting"
    <3>1. d \in Example /\ d # x /\ x \in 1..(d - 1)
      BY BenchmarkAssumption DEF BenchmarkAssumption, Example
    <3>2. CASE x = e
      <4>1. pc[d] = "waiting"
        BY <1>1, <2>2, <2>3, <3>1, <3>2 DEF InOrder, Stopped
      <4> QED
        BY <2>1, <3>1, <3>2, <4>1
    <3>3. CASE x # e
      <4>1. error[x] # {} /\ pc[d] = "waiting"
        BY <2>1, <2>3, <3>3 DEF Stopped
      <4>2. d # e
        <5> SUFFICES ASSUME d = e
                     PROVE  FALSE
          OBVIOUS
        <5>1. returned = "no" /\ pc[x] = "done"
          BY <2>2, <2>3, <3>1, <4>1
        <5> QED
          BY <1>1, <2>3, <4>1, <5>1 DEF Ended
      <4> QED
        BY <2>1, <3>1, <4>1, <4>2
    <3> QED
      BY <3>2, <3>3
  <2> QED
    BY <2>1, <2>3 DEF Stopped, SharedKept
<1>3. CASE Gather \/ Return \/ ReturnAll \/ Cancel \/ UNCHANGED vars
  BY <1>3 DEF Gather, Return, ReturnAll, Cancel, vars, workerVars, runVars, Stopped
<1> QED
  BY <1>2, <1>3 DEF Next, Finished

\* The pool hands out no more slots than it has.
LEMMA SlottedStep == IInv /\ Slotted /\ [Next]_vars => Slotted'
<1> SUFFICES ASSUME IInv, Slotted, [Next]_vars
             PROVE  Slotted'
  OBVIOUS
<1>1. TypeOK /\ Busy \in SUBSET Example /\ Workers \in Nat
  BY BenchmarkAssumption DEF IInv, Busy, BenchmarkAssumption
<1>2. ASSUME NEW e \in Example, Worker(e), parallel
      PROVE  Cardinality(Busy') <= Workers
  <2>1. \A d \in Example \ {e} : pc'[d] = pc[d]
    BY <1>1, <1>2, WorkerFrame DEF SameEntries
  <2>2. CASE pc[e] = "waiting" /\ pc'[e] # "done"
    <3>1. Cardinality(Busy) < Workers
      BY <1>1, <1>2, <2>2, WorkerMoves
    <3>2. Busy' \in SUBSET (Busy \cup {e})
      BY <2>1 DEF Busy
    <3>3. IsFiniteSet(Busy \cup {e}) /\ Cardinality(Busy \cup {e}) <= Cardinality(Busy) + 1
      BY <1>1, ExampleSets, FS_AddElement
    <3>4. Cardinality(Busy') <= Cardinality(Busy \cup {e})
      BY <3>2, <3>3, FS_Subset
    <3>5. Cardinality(Busy) \in Nat /\ Cardinality(Busy') \in Nat /\ Cardinality(Busy \cup {e}) \in Nat
      BY <1>1, <3>2, ExampleSets
    <3> QED
      BY <1>1, <3>1, <3>3, <3>4, <3>5
  <2>3. CASE ~(pc[e] = "waiting" /\ pc'[e] # "done")
    <3>1. Busy' \in SUBSET Busy
      BY <1>1, <1>2, <2>1, <2>3, WorkerMoves DEF Busy
    <3>2. Cardinality(Busy') <= Cardinality(Busy)
      BY <1>1, <3>1, ExampleSets, FS_Subset
    <3>3. Cardinality(Busy) \in Nat /\ Cardinality(Busy') \in Nat
      BY <1>1, <3>1, ExampleSets
    <3> QED
      BY <1>1, <1>2, <3>2, <3>3 DEF Slotted
  <2> QED
    BY <2>2, <2>3
<1>3. CASE Gather \/ Return \/ ReturnAll \/ Cancel \/ UNCHANGED vars
  BY <1>3 DEF Gather, Return, ReturnAll, Cancel, vars, workerVars, runVars, Slotted, Busy
<1>4. ASSUME NEW e \in Example, Worker(e)
      PROVE  parallel' = parallel
  BY <1>1, <1>4, WorkerFrame DEF SharedKept
<1> QED
  BY <1>2, <1>3, <1>4 DEF Next, Finished, Slotted

\* The one that records the first error gives up its slot, and no example passes
\* the gate afterwards.
LEMMA GateStep == IInv /\ Slotted /\ GateHolds /\ [Next]_vars => GateHolds'
<1> SUFFICES ASSUME IInv, Slotted, GateHolds, [Next]_vars, firstErr' # {}
             PROVE  Cardinality(Committed') < Workers
  BY DEF GateHolds
<1>1. /\ TypeOK /\ (\A e \in Example : Underway(e)) /\ InOrder
      /\ Busy \in SUBSET Example /\ Committed \in SUBSET Example /\ Workers \in Nat
  BY BenchmarkAssumption DEF IInv, Busy, Committed, BenchmarkAssumption
<1>2. ASSUME NEW e \in Example, Worker(e)
      PROVE  Cardinality(Committed') < Workers
  <2>1. \A d \in Example \ {e} : pc'[d] = pc[d]
    BY <1>1, <1>2, WorkerFrame DEF SameEntries
  <2>2. CASE firstErr = {}
    <3>1. pc[e] = "record" /\ pc'[e] = "done"
      BY <1>1, <1>2, <2>2, WorkerMoves
    <3>2. parallel /\ e \in Busy
      BY <1>1, <3>1 DEF Underway, Busy
    <3>3. Committed' \in SUBSET (Busy \ {e})
      BY <2>1, <3>1 DEF Committed, Busy
    <3>4. IsFiniteSet(Busy \ {e}) /\ Cardinality(Busy \ {e}) = Cardinality(Busy) - 1
      BY <1>1, <3>2, ExampleSets, FS_RemoveElement
    <3>5. Cardinality(Committed') <= Cardinality(Busy \ {e})
      BY <3>3, <3>4, FS_Subset
    <3>6. Cardinality(Busy) \in Nat /\ Cardinality(Committed') \in Nat
      BY <1>1, <3>3, ExampleSets
    <3> QED
      BY <1>1, <3>2, <3>4, <3>5, <3>6 DEF Slotted
  <2>3. CASE firstErr # {}
    <3>1. parallel
      BY <1>1, <2>3 DEF InOrder
    <3>2. Committed' \in SUBSET Committed
      BY <1>1, <1>2, <2>1, <2>3, <3>1, WorkerMoves DEF Committed, Busy
    <3>3. Cardinality(Committed') <= Cardinality(Committed)
      BY <1>1, <3>2, ExampleSets, FS_Subset
    <3>4. Cardinality(Committed) \in Nat /\ Cardinality(Committed') \in Nat
      BY <1>1, <3>2, ExampleSets
    <3> QED
      BY <1>1, <2>3, <3>3, <3>4 DEF GateHolds
  <2> QED
    BY <2>2, <2>3
<1>3. CASE Gather \/ Return \/ ReturnAll \/ Cancel \/ UNCHANGED vars
  BY <1>3 DEF Gather, Return, ReturnAll, Cancel, vars, workerVars, sharedVars, GateHolds,
              Committed, Busy
<1> QED
  BY <1>2, <1>3 DEF Next, Finished

\* An error is recorded when nothing is left to try, and then stops the run.
THEOREM ErrorsStopTheRun == Spec => []ErrorsAreFinal
<1> DEFINE Stops == Quiet /\ Stopped /\ Slotted /\ GateHolds
<1>1. Init => Stops
  <2> SUFFICES ASSUME Init
               PROVE  Stops
    OBVIOUS
  <2>1. Busy = {}
    BY DEF Init, Busy
  <2>2. Cardinality(Busy) = 0 /\ Workers \in Nat
    BY <2>1, FS_EmptySet, BenchmarkAssumption DEF BenchmarkAssumption
  <2>3. Slotted
    BY <2>2 DEF Slotted
  <2>4. Quiet /\ Stopped /\ GateHolds
    BY DEF Init, Quiet, Stopped, GateHolds
  <2> QED
    BY <2>3, <2>4
<1>2. IInv /\ Stops /\ [Next]_vars => Stops'
  BY QuietStep, StoppedStep, SlottedStep, GateStep
<1>3. IInv /\ Stops => ErrorsAreFinal
  <2> SUFFICES ASSUME IInv, Stops
               PROVE  ErrorsAreFinal
    OBVIOUS
  <2>1. \A e \in Example : "transient" \in error[e] => attempt[e] = MaxAttempts - 1
    BY DEF IInv, Underway
  <2>2. firstErr # {} => Cardinality(Busy \ {e \in Example : pc[e] = "gate"}) < Workers
    BY DEF GateHolds, Committed
  <2>3. returned # "no" => Busy = {}
    BY DEF Quiet
  <2>4. ~parallel => \A e \in Example : error[e] # {} => \A d \in (e + 1)..N : pc[d] = "waiting"
    BY DEF Stopped
  <2> QED
    BY <2>1, <2>2, <2>3, <2>4 DEF ErrorsAreFinal
<1> HIDE DEF Stops
<1> QED
  BY <1>1, <1>2, <1>3, Invariant, PTL DEF Spec

-----------------------------------------------------------------------------
\* The tasks of Run use the pool as Scatter describes it: every step is a step
\* of Scatter or leaves what Scatter sees alone.
THEOREM RunUsesThePool == Spec => TasksFollowScatter
<1>1. Init => Pool!Init
  BY DEF Init, Pool!Init, Example
<1>2. IInv /\ [Next]_vars => [Pool!Next]_(Pool!vars)
  <2> SUFFICES ASSUME IInv, [Next]_vars
               PROVE  [Pool!Next]_(Pool!vars)
    OBVIOUS
  <2> USE DEF Pool!vars
  <2>1. TypeOK /\ (\A e \in Example : Underway(e) /\ Ended(e)) /\ InOrder
    BY DEF IInv
  <2>2. ASSUME NEW e \in Example, Worker(e)
        PROVE  [Pool!Next]_(Pool!vars)
    <3>1. e \in 1..N /\ settled[e] = "none"
      BY <2>1, <2>2, WorkerMoves DEF Example, Underway
    <3>2. cancelled' = cancelled /\ fanned' = fanned
      BY <2>1, <2>2, WorkerFrame DEF SharedKept
    <3>3. \/ settled' = settled
          \/ \E a \in {"ok", "err", "panic"} : settled' = [settled EXCEPT ![e] = a]
          \/ (cancelled /\ settled' = [settled EXCEPT ![e] = "skipped"])
      BY <2>1, <2>2, WorkerMoves
    <3>4. ASSUME NEW a \in {"ok", "err", "panic"}, settled' = [settled EXCEPT ![e] = a]
          PROVE  Pool!Next
      <4>1. Pool!Answer(e, a)
        BY <3>1, <3>2, <3>4 DEF Pool!Answer
      <4>2. a \in Pool!Answers
        BY DEF Pool!Answers, Pool!Failures
      <4> QED
        BY <3>1, <4>1, <4>2 DEF Pool!Next
    <3>5. ASSUME cancelled, settled' = [settled EXCEPT ![e] = "skipped"]
          PROVE  Pool!Next
      <4>1. Pool!Skip(e)
        BY <3>1, <3>2, <3>5 DEF Pool!Skip, Pool!CalledOff
      <4> QED
        BY <3>1, <4>1 DEF Pool!Next
    <3> QED
      BY <3>2, <3>3, <3>4, <3>5
  <2>3. CASE Gather
    <3>1. \A e \in 1..N : settled[e] # "none"
      BY <2>1, <2>3 DEF Gather, Ended, Example
    <3>2. Pool!Return
      BY <2>3, <3>1 DEF Gather, Pool!Return, sharedVars
    <3> QED
      BY <3>2 DEF Pool!Next
  <2>4. CASE Cancel
    BY <2>4 DEF Cancel, Pool!Next, Pool!Cancel, sharedVars
  <2>5. CASE Return \/ ReturnAll \/ UNCHANGED vars
    BY <2>5 DEF Return, ReturnAll, vars, sharedVars, runVars
  <2> QED
    BY <2>2, <2>3, <2>4, <2>5 DEF Next, Finished
<1> QED
  BY <1>1, <1>2, Invariant, PTL DEF Spec, TasksFollowScatter, Pool!Spec

==============================================================================
