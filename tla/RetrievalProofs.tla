--------------------------- MODULE RetrievalProofs ---------------------------
(***************************************************************************)
(* Theorems about a retrieval, for all chunks, sections, queries, requests *)
(* and scores, and any number of changes of the store under it.            *)
(***************************************************************************)
EXTENDS Retrieval, FiniteSetTheorems, SequenceTheorems, TLAPS

-----------------------------------------------------------------------------
\* Lists.

\* A finite set has a list of each order: a listing holds each element once.
LEMMA ListingProperties ==
    ASSUME NEW S, IsFiniteSet(S), NEW s \in Listings(S)
    PROVE  /\ Cardinality(S) \in Nat
           /\ s \in Seq(S)
           /\ Len(s) = Cardinality(S)
           /\ DOMAIN s = 1..Len(s)
           /\ \A i, j \in DOMAIN s : s[i] = s[j] => i = j
           /\ \A x \in S : \E i \in DOMAIN s : s[i] = x
<1> DEFINE n == Cardinality(S)
<1>1. n \in Nat
  BY FS_CardinalityType
<1>2. s \in [1..n -> S] /\ \A i, j \in 1..n : s[i] = s[j] => i = j
  BY DEF Listings, IsInjective
<1>3. IsFiniteSet(1..n) /\ Cardinality(1..n) = n
  BY <1>1, FS_Interval
<1>4. s \in Injection(1..n, S)
  BY <1>2 DEF Injection, IsInjective
<1>5. s \in Surjection(1..n, S)
  BY <1>3, <1>4, FS_Injection
<1>6. \A x \in S : \E i \in 1..n : s[i] = x
  BY <1>5 DEF Surjection
<1>7. s \in Seq(S) /\ Len(s) = n
  BY <1>1, <1>2
<1> QED
  BY <1>1, <1>2, <1>6, <1>7

LEMMA CutProperties ==
    ASSUME NEW T, NEW s \in Seq(T), NEW n \in Nat
    PROVE  /\ Cut(s, n) \in Seq(T)
           /\ DOMAIN Cut(s, n) = 1..Len(Cut(s, n))
           /\ Len(Cut(s, n)) = IF n <= Len(s) THEN n ELSE Len(s)
           /\ \A i \in 1..Len(Cut(s, n)) : i \in 1..Len(s) /\ Cut(s, n)[i] = s[i]
<1> DEFINE m == IF n <= Len(s) THEN n ELSE Len(s)
<1>1. Len(s) \in Nat /\ m \in 0..Len(s)
  OBVIOUS
<1>2. m \in {n, Len(s)} /\ \A y \in {n, Len(s)} : m <= y
  BY <1>1
<1>3. Min({n, Len(s)}) = m
  BY <1>1, <1>2 DEF Min
<1>4. \A i \in 1..m : s[i] \in T
  BY <1>1
<1>5. /\ SubSeq(s, 1, m) \in Seq(T)
      /\ Len(SubSeq(s, 1, m)) = IF 1 <= m THEN m - 1 + 1 ELSE 0
      /\ \A i \in 1..(m - 1 + 1) : SubSeq(s, 1, m)[i] = s[1 + i - 1]
  <2> HIDE DEF m
  <2>1. m \in Int /\ 1 \in Int
    BY <1>1
  <2> QED
    BY <1>4, <2>1, SubSeqProperties
<1>6. Cut(s, n) = SubSeq(s, 1, m)
  BY <1>3 DEF Cut
<1> HIDE DEF m
<1>7. Len(Cut(s, n)) = m
  BY <1>1, <1>5, <1>6
<1>8. \A i \in 1..m : i \in 1..Len(s) /\ Cut(s, n)[i] = s[i]
  BY <1>1, <1>5, <1>6
<1>9. DOMAIN Cut(s, n) = 1..Len(Cut(s, n))
  BY <1>5, <1>6
<1> QED
  BY <1>5, <1>6, <1>7, <1>8, <1>9 DEF m

LEMMA ImageFinite ==
    ASSUME NEW f, IsFiniteSet(DOMAIN f)
    PROVE  IsFiniteSet({f[x] : x \in DOMAIN f})
<1> DEFINE T == {f[x] : x \in DOMAIN f}
           g == [x \in DOMAIN f |-> f[x]]
<1>1. g \in [DOMAIN f -> T] /\ \A t \in T : \E x \in DOMAIN f : g[x] = t
  OBVIOUS
<1>2. g \in Surjection(DOMAIN f, T)
  BY <1>1 DEF Surjection
<1> HIDE DEF g, T
<1>3. IsFiniteSet(T)
  BY <1>2, FS_Surjection
<1> QED
  BY <1>3 DEF T

LEMMA RangeFinite ==
    ASSUME NEW T, NEW s \in Seq(T)
    PROVE  IsFiniteSet(DOMAIN s) /\ IsFiniteSet(Range(s)) /\ Range(s) \subseteq T
<1>1. DOMAIN s = 1..Len(s) /\ Len(s) \in Nat
  OBVIOUS
<1>2. IsFiniteSet(DOMAIN s)
  BY <1>1, FS_Interval
<1>3. IsFiniteSet({s[i] : i \in DOMAIN s})
  BY <1>2, ImageFinite
<1> QED
  BY <1>1, <1>2, <1>3 DEF Range

\* Among the first elements of a list no more are distinct than there are.
LEMMA DistinctBound ==
    ASSUME NEW n \in Nat, NEW s \in Seq(1..n), \A i, j \in DOMAIN s : s[i] = s[j] => i = j
    PROVE  Len(s) <= n
<1>1. PICK m \in Nat : m = Len(s)
  OBVIOUS
<1>2. IsFiniteSet(1..n) /\ Cardinality(1..n) = n
  BY FS_Interval
<1>3. IsFiniteSet(1..m) /\ Cardinality(1..m) = m
  BY FS_Interval
<1>4. s \in [1..m -> 1..n] /\ DOMAIN s = 1..m
  BY <1>1
<1>5. s \in Injection(1..m, 1..n)
  BY <1>4 DEF Injection, IsInjective
<1> QED
  BY <1>1, <1>2, <1>3, <1>5, FS_Injection

-----------------------------------------------------------------------------
\* Hits and their scores.

Hit == [chunk : Chunk, num : Nat, den : Nat \ {0}]

\* Lists of hits of distinct chunks.
HitList == {s \in Seq(Hit) : \A i, j \in DOMAIN s : s[i].chunk = s[j].chunk => i = j}

\* The list holds the chunk of hit x, with no lower score.
Covered(x, list) == \E i \in DOMAIN list : list[i].chunk = x.chunk /\ ~Above(x, list[i])

LEMMA Scaled ==
    ASSUME NEW a \in Nat, NEW b \in Nat, NEW c \in Nat, a <= b
    PROVE  a * c <= b * c
  BY Z3

LEMMA Unscaled ==
    ASSUME NEW a \in Nat, NEW b \in Nat, NEW c \in Nat \ {0}, a * c <= b * c
    PROVE  a <= b
<1> SUFFICES ASSUME b < a PROVE FALSE
  OBVIOUS
<1>1. (b + 1) * c <= a * c
  BY Scaled
<1>2. (b + 1) * c = b * c + c
  BY Z3
<1>3. a * c \in Nat /\ b * c \in Nat
  OBVIOUS
<1> HIDE <1>3
<1> QED
  BY <1>1, <1>2, <1>3

LEMMA Products ==
    ASSUME NEW a \in Nat, NEW b \in Nat, NEW c \in Nat
    PROVE  a * b \in Nat /\ a * b = b * a /\ (a * b) * c = (a * c) * b /\ (a * b) * c = a * (b * c)
  BY Z3

\* Scores are ordered.
LEMMA AboveIsOrdered ==
    ASSUME NEW x \in Hit, NEW y \in Hit
    PROVE  ~Above(x, x) /\ (Above(x, y) => ~Above(y, x))
<1>1. /\ x.num * x.den \in Nat
      /\ x.num * y.den \in Nat
      /\ y.num * x.den \in Nat
  BY Products DEF Hit
<1> QED
  BY <1>1 DEF Above

LEMMA NotAboveIsTransitive ==
    ASSUME NEW x \in Hit, NEW y \in Hit, NEW z \in Hit, ~Above(x, y), ~Above(y, z)
    PROVE  ~Above(x, z)
<1> DEFINE a == x.num  b == x.den  c == y.num  d == y.den  e == z.num  f == z.den
<1>1. a \in Nat /\ b \in Nat \ {0} /\ c \in Nat /\ d \in Nat \ {0} /\ e \in Nat /\ f \in Nat \ {0}
  BY DEF Hit
<1>2. a * d \in Nat /\ c * b \in Nat /\ c * f \in Nat /\ e * d \in Nat /\ a * f \in Nat /\ e * b \in Nat
  BY <1>1, Products
<1>3. a * d <= c * b /\ c * f <= e * d
  BY <1>2 DEF Above
<1> HIDE DEF a, b, c, d, e, f
<1>4. (a * d) * f <= (c * b) * f
  BY <1>1, <1>2, <1>3, Scaled
<1>5. (c * f) * b <= (e * d) * b
  BY <1>1, <1>2, <1>3, Scaled
<1>6. (a * d) * f = (a * f) * d /\ (c * b) * f = (c * f) * b /\ (e * d) * b = (e * b) * d
  BY <1>1, Products
<1>7. (a * f) * d \in Nat /\ (c * f) * b \in Nat /\ (e * b) * d \in Nat
  BY <1>1, <1>2, Products
<1>8. (a * f) * d <= (e * b) * d
  BY <1>4, <1>5, <1>6, <1>7
<1>9. a * f <= e * b
  BY <1>1, <1>2, <1>8, Unscaled
<1> QED
  BY <1>2, <1>9 DEF Above, a, b, e, f

\* What a merge makes of a hit that was seen before.
LEMMA BetterProperties ==
    ASSUME NEW seen \in Hit, NEW hits \in HitList
    PROVE  /\ Better(seen, hits) \in Hit
           /\ Better(seen, hits).chunk = seen.chunk
           /\ Better(seen, hits) \in {seen} \cup Range(hits)
           /\ ~Above(seen, Better(seen, hits))
           /\ \A h \in Range(hits) : h.chunk = seen.chunk => ~Above(h, Better(seen, hits))
<1>0. hits \in Seq(Hit) /\ Range(hits) \subseteq Hit
  BY RangeFinite DEF HitList
<1>1. CASE HitsOf(hits, seen.chunk) = {}
  <2>1. Better(seen, hits) = seen
    BY <1>1 DEF Better
  <2> QED
    BY <1>1, <2>1, AboveIsOrdered DEF HitsOf
<1>2. CASE HitsOf(hits, seen.chunk) # {}
  <2>1. PICK x \in HitsOf(hits, seen.chunk) : Better(seen, hits) = MergeHit(seen, x)
    BY <1>2 DEF Better
  <2>2. x \in Range(hits) /\ x \in Hit /\ x.chunk = seen.chunk
    BY <1>0, <2>1 DEF HitsOf
  <2>3. \A h \in Range(hits) : h.chunk = seen.chunk => h = x
    BY <2>2 DEF HitList, Range
  <2>4. CASE Above(x, seen)
    <3>1. Better(seen, hits) = x
      BY <2>1, <2>4 DEF MergeHit
    <3> QED
      BY <2>2, <2>3, <2>4, <3>1, AboveIsOrdered
  <2>5. CASE ~Above(x, seen)
    <3>1. Better(seen, hits) = seen
      BY <2>1, <2>5 DEF MergeHit
    <3> QED
      BY <2>2, <2>3, <2>5, <3>1, AboveIsOrdered
  <2> QED
    BY <2>4, <2>5
<1> QED
  BY <1>1, <1>2

\* A merge holds each chunk of the two lists once, with a score one of them
\* gave it and neither exceeds.
LEMMA MergeProperties ==
    ASSUME NEW list \in HitList, NEW hits \in HitList, NEW merged \in Merge(list, hits)
    PROVE  /\ merged \in HitList
           /\ \A i \in DOMAIN merged : merged[i] \in Range(list) \cup Range(hits)
           /\ \A x \in Range(list) \cup Range(hits) : Covered(x, merged)
           /\ \A x \in Range(list) : \E i \in DOMAIN merged :
                 merged[i].chunk = x.chunk /\ ~Above(x, merged[i])
<1> DEFINE new == {i \in DOMAIN hits : HitsOf(list, hits[i].chunk) = {}}
<1>1. PICK places \in Listings(new) :
        merged = [i \in DOMAIN list |-> Better(list[i], hits)] \o [n \in DOMAIN places |-> hits[places[n]]]
  BY DEF Merge, Orders
<1>3. /\ list \in Seq(Hit) /\ hits \in Seq(Hit)
      /\ IsFiniteSet(DOMAIN hits) /\ Range(list) \subseteq Hit /\ Range(hits) \subseteq Hit
  BY RangeFinite DEF HitList
<1>4. IsFiniteSet(new)
  BY <1>3, FS_Subset
<1>5. /\ places \in Seq(new) /\ DOMAIN places = 1..Len(places)
      /\ \A i, j \in DOMAIN places : places[i] = places[j] => i = j
      /\ \A x \in new : \E i \in DOMAIN places : places[i] = x
  <2> HIDE DEF new
  <2> QED
    BY <1>4, ListingProperties
<1> DEFINE kept  == [i \in DOMAIN list |-> Better(list[i], hits)]
           added == [n \in DOMAIN places |-> hits[places[n]]]
<1>6. PICK k \in Nat, a \in Nat : Len(list) = k /\ Len(places) = a
  <2>1. Len(list) \in Nat
    BY <1>3
  <2>2. Len(places) \in Nat
    <3> HIDE DEF new
    <3> QED
      BY <1>5
  <2> QED
    BY <2>1, <2>2
<1>7. kept \in Seq(Hit) /\ Len(kept) = k /\ \A i \in 1..k : kept[i] = Better(list[i], hits)
  <2>1. DOMAIN list = 1..k /\ \A i \in 1..k : list[i] \in Hit
    BY <1>3, <1>6
  <2>2. \A i \in 1..k : Better(list[i], hits) \in Hit
    BY <2>1, BetterProperties
  <2> QED
    BY <2>1, <2>2
<1>8. added \in Seq(Hit) /\ Len(added) = a /\ \A n \in 1..a : added[n] = hits[places[n]]
  <2>1. DOMAIN places = 1..a
    BY <1>5, <1>6
  <2>2. \A n \in 1..a : places[n] \in DOMAIN hits
    BY <1>5, <2>1
  <2>3. \A n \in 1..a : hits[places[n]] \in Hit
    BY <1>3, <2>2
  <2> QED
    BY <2>1, <2>3
<1>9. merged = kept \o added
  BY <1>1
<1> HIDE DEF kept, added
<1>10. /\ merged \in Seq(Hit) /\ Len(merged) = k + a
       /\ \A i \in 1..(k + a) : merged[i] = IF i <= k THEN kept[i] ELSE added[i - k]
  <2>1. /\ kept \o added \in Seq(Hit)
        /\ Len(kept \o added) = Len(kept) + Len(added)
        /\ \A i \in 1..(Len(kept) + Len(added)) :
              (kept \o added)[i] = IF i <= Len(kept) THEN kept[i] ELSE added[i - Len(kept)]
    BY <1>7, <1>8, ConcatProperties
  <2> QED
    BY <1>7, <1>8, <1>9, <2>1
<1>11. DOMAIN merged = 1..(k + a)
  BY <1>10
<1>12. ASSUME NEW i \in 1..k
       PROVE  /\ i \in 1..(k + a) /\ list[i] \in Hit /\ list[i] \in Range(list)
              /\ merged[i] = Better(list[i], hits)
              /\ merged[i].chunk = list[i].chunk
              /\ merged[i] \in Range(list) \cup Range(hits)
              /\ ~Above(list[i], merged[i])
              /\ \A h \in Range(hits) : h.chunk = list[i].chunk => ~Above(h, merged[i])
  <2>1. i \in 1..(k + a) /\ i <= k
    BY <1>6
  <2>2. merged[i] = Better(list[i], hits)
    BY <1>7, <1>10, <2>1
  <2>3. i \in DOMAIN list /\ list[i] \in Hit /\ list[i] \in Range(list)
    BY <1>3, <1>6 DEF Range
  <2> QED
    BY <2>1, <2>2, <2>3, BetterProperties
<1>13. ASSUME NEW i \in 1..a
       PROVE  /\ k + i \in 1..(k + a)
              /\ merged[k + i] = hits[places[i]]
              /\ places[i] \in DOMAIN hits
              /\ merged[k + i] \in Range(hits)
              /\ \A j \in 1..k : list[j].chunk # merged[k + i].chunk
  <2>1. k + i \in 1..(k + a) /\ ~(k + i <= k) /\ (k + i) - k = i
    BY <1>6
  <2>2. merged[k + i] = hits[places[i]]
    BY <1>8, <1>10, <2>1
  <2>3. places[i] \in new
    <3> HIDE DEF new
    <3> QED
      BY <1>5, <1>6
  <2>4. HitsOf(list, merged[k + i].chunk) = {}
    BY <2>2, <2>3
  <2>5. \A j \in 1..k : list[j] \in Range(list)
    BY <1>12
  <2> QED
    BY <2>1, <2>2, <2>3, <2>4, <2>5 DEF HitsOf, Range
<1>14. ASSUME NEW i \in 1..(k + a)
       PROVE  i \in 1..k \/ \E j \in 1..a : i = k + j
  <2>1. i \in 1..k \/ (i - k \in 1..a /\ i = k + (i - k))
    BY <1>6
  <2> QED
    BY <2>1
<1>15. \A i \in 1..(k + a) : merged[i] \in Range(list) \cup Range(hits)
  BY <1>12, <1>13, <1>14
<1>16. ASSUME NEW i \in 1..(k + a), NEW j \in 1..(k + a), merged[i].chunk = merged[j].chunk
       PROVE  i = j
  <2>1. CASE i \in 1..k /\ j \in 1..k
    <3>1. list[i].chunk = list[j].chunk /\ i \in DOMAIN list /\ j \in DOMAIN list
      BY <1>3, <1>6, <1>12, <1>16, <2>1
    <3> QED
      BY <3>1 DEF HitList
  <2>2. ASSUME NEW m \in 1..a, i = k + m, j \in 1..k
        PROVE  FALSE
    BY <1>12, <1>13, <1>16, <2>2
  <2>3. ASSUME NEW m \in 1..a, j = k + m, i \in 1..k
        PROVE  FALSE
    BY <1>12, <1>13, <1>16, <2>3
  <2>4. ASSUME NEW m \in 1..a, NEW n \in 1..a, i = k + m, j = k + n
        PROVE  i = j
    <3>1. places[m] \in DOMAIN hits /\ places[n] \in DOMAIN hits /\ hits[places[m]].chunk = hits[places[n]].chunk
      BY <1>13, <1>16, <2>4
    <3>2. places[m] = places[n]
      BY <3>1 DEF HitList
    <3>3. m \in DOMAIN places /\ n \in DOMAIN places
      BY <1>5, <1>6
    <3>4. m = n
      BY <1>5, <3>2, <3>3
    <3> QED
      BY <2>4, <3>4
  <2> QED
    BY <1>14, <2>1, <2>2, <2>3, <2>4
<1>17. ASSUME NEW x \in Range(list)
       PROVE  \E i \in DOMAIN merged : merged[i].chunk = x.chunk /\ ~Above(x, merged[i])
  <2>1. PICK i \in 1..k : x = list[i]
    BY <1>3, <1>6 DEF Range
  <2> QED
    BY <1>11, <1>12, <2>1
<1>18. ASSUME NEW x \in Range(hits)
       PROVE  \E i \in DOMAIN merged : merged[i].chunk = x.chunk /\ ~Above(x, merged[i])
  <2>1. PICK p \in DOMAIN hits : x = hits[p]
    BY DEF Range
  <2>2. CASE p \in new
    <3>1. PICK n \in 1..a : places[n] = p
      BY <1>5, <1>6, <2>2
    <3>2. merged[k + n] = x /\ k + n \in DOMAIN merged
      BY <1>11, <1>13, <2>1, <3>1
    <3> QED
      BY <1>3, <3>2, AboveIsOrdered
  <2>3. CASE p \notin new
    <3>1. PICK y \in Range(list) : y.chunk = x.chunk
      BY <2>1, <2>3 DEF HitsOf
    <3>2. PICK i \in 1..k : y = list[i]
      BY <1>3, <1>6, <3>1 DEF Range
    <3> QED
      BY <1>11, <1>12, <3>1, <3>2
  <2> QED
    BY <2>2, <2>3
<1> QED
  BY <1>10, <1>11, <1>15, <1>16, <1>17, <1>18 DEF HitList, Covered

LEMMA CutHits ==
    ASSUME NEW list \in HitList, NEW n \in Nat
    PROVE  /\ Cut(list, n) \in HitList
           /\ Len(Cut(list, n)) = IF n <= Len(list) THEN n ELSE Len(list)
           /\ \A i \in DOMAIN Cut(list, n) : i \in DOMAIN list /\ Cut(list, n)[i] = list[i]
<1>1. list \in Seq(Hit) /\ DOMAIN list = 1..Len(list)
  BY DEF HitList
<1>2. PICK short \in Seq(Hit) : short = Cut(list, n)
  BY <1>1, CutProperties
<1>3. /\ DOMAIN short = 1..Len(short)
      /\ Len(short) = IF n <= Len(list) THEN n ELSE Len(list)
      /\ \A i \in 1..Len(short) : i \in DOMAIN list /\ short[i] = list[i]
  BY <1>1, <1>2, CutProperties
<1> QED
  BY <1>2, <1>3 DEF HitList

\* A ranking keeps the hits, and none comes after one it exceeds.
LEMMA RankedProperties ==
    ASSUME NEW list \in HitList, NEW ranked \in Ranked(list)
    PROVE  /\ ranked \in HitList
           /\ Len(ranked) = Len(list)
           /\ \A i \in DOMAIN ranked : ranked[i] \in Range(list)
           /\ \A x \in Range(list) : \E i \in DOMAIN ranked : ranked[i] = x
           /\ \A i, j \in DOMAIN ranked : i < j => ~Above(ranked[j], ranked[i])
<1>1. PICK places \in Listings(DOMAIN list) :
        /\ ranked = [n \in DOMAIN list |-> list[places[n]]]
        /\ \A j \in DOMAIN places : \A i \in 1..(j - 1) :
              \/ Above(list[places[i]], list[places[j]])
              \/ ~Above(list[places[j]], list[places[i]]) /\ places[i] < places[j]
  BY DEF Ranked, Orders
<1>3. list \in Seq(Hit) /\ IsFiniteSet(DOMAIN list)
  BY RangeFinite DEF HitList
<1>4. PICK n \in Nat : Len(list) = n /\ DOMAIN list = 1..n /\ Cardinality(1..n) = n
  <2>1. PICK n \in Nat : Len(list) = n
    BY <1>3
  <2> QED
    BY <1>3, <2>1, FS_Interval
<1>5. /\ places \in Seq(1..n) /\ DOMAIN places = 1..n
      /\ \A i, j \in 1..n : places[i] = places[j] => i = j
      /\ \A x \in 1..n : \E i \in 1..n : places[i] = x
  <2>1. places \in Listings(1..n) /\ IsFiniteSet(1..n)
    BY <1>3, <1>4
  <2>2. /\ places \in Seq(1..n) /\ Len(places) = Cardinality(1..n) /\ DOMAIN places = 1..Len(places)
        /\ \A i, j \in DOMAIN places : places[i] = places[j] => i = j
        /\ \A x \in 1..n : \E i \in DOMAIN places : places[i] = x
    BY <2>1, ListingProperties
  <2> QED
    BY <1>4, <2>2
<1>6. \A i \in 1..n : places[i] \in 1..n /\ list[places[i]] \in Hit
  BY <1>3, <1>4, <1>5
<1>7. ranked = [i \in 1..n |-> list[places[i]]]
  BY <1>1, <1>4
<1>8. ranked \in Seq(Hit) /\ Len(ranked) = n /\ DOMAIN ranked = 1..n /\ \A i \in 1..n : ranked[i] = list[places[i]]
  BY <1>6, <1>7
<1>9. \A i \in 1..n : ranked[i] \in Range(list)
  BY <1>4, <1>6, <1>8 DEF Range
<1>10. ASSUME NEW i \in 1..n, NEW j \in 1..n, ranked[i].chunk = ranked[j].chunk
       PROVE  i = j
  <2>1. places[i] = places[j]
    BY <1>4, <1>6, <1>8, <1>10 DEF HitList
  <2> QED
    BY <1>5, <2>1
<1>11. \A x \in Range(list) : \E i \in 1..n : ranked[i] = x
  BY <1>4, <1>5, <1>8 DEF Range
<1>12. ASSUME NEW i \in 1..n, NEW j \in 1..n, i < j
       PROVE  ~Above(ranked[j], ranked[i])
  <2>1. i \in 1..(j - 1)
    BY <1>12
  <2>2. Above(list[places[i]], list[places[j]]) \/ ~Above(list[places[j]], list[places[i]])
    BY <1>1, <1>5, <2>1
  <2>3. list[places[i]] \in Hit /\ list[places[j]] \in Hit
    BY <1>6
  <2> QED
    BY <1>8, <2>2, <2>3, AboveIsOrdered
<1> QED
  BY <1>4, <1>8, <1>9, <1>10, <1>11, <1>12 DEF HitList

-----------------------------------------------------------------------------
\* Signals and slots.

LEMMA SignalIs == Signal = {"dense", "lexical", "structure", "graph"}
<1>1. DOMAIN Signals = 1..4
  BY DEF Signals
<1>2. Signal = {Signals[i] : i \in 1..4}
  BY <1>1 DEF Signal, Range
<1> QED
  BY <1>2 DEF Signals

\* An empty slot is that of a signal that does not take part.
LEMMA NoSlotsProperties ==
    /\ DOMAIN NoSlots = Signal
    /\ \A s \in Signal : NoSlots[s] = Off
  BY DEF NoSlots

\* The first of the failed signals.
LEMMA FirstFailedProperties ==
    ASSUME NEW s \in Signal, Failed(s)
    PROVE  \E j \in 1..4 : /\ FirstFailed = Signals[j] /\ Failed(Signals[j])
                           /\ \A i \in 1..4 : Failed(Signals[i]) => j <= i
<1> DEFINE F == {i \in 1..4 : Failed(Signals[i])}
<1>1. \E i \in 1..4 : i \in F
  BY SignalIs DEF Signals
<1>2. \E j \in F : \A i \in F : j <= i
  <2>1. CASE 1 \in F
    BY <2>1
  <2>2. CASE 1 \notin F /\ 2 \in F
    BY <2>2
  <2>3. CASE 1 \notin F /\ 2 \notin F /\ 3 \in F
    BY <2>3
  <2>4. CASE 1 \notin F /\ 2 \notin F /\ 3 \notin F
    BY <1>1, <2>4
  <2> QED
    BY <2>1, <2>2, <2>3, <2>4
<1>3. Min(F) \in F /\ \A i \in F : Min(F) <= i
  BY <1>2 DEF Min
<1> QED
  BY <1>3 DEF FirstFailed

-----------------------------------------------------------------------------
\* What the operators of a retrieval return.

Candidate == [path : Sections, score : Nat \ {0}]
Planned   == [path : Sections, score : Nat \ {0}, best : Nat \ {0}]

\* A slot: a routing's candidates, distinct chunks found, chunks left to fetch.
SlotTyped(x) ==
    /\ DOMAIN x = {"at", "route", "candidates", "hits", "left"}
    /\ x.route \in Seq(STRING)
    /\ x.candidates \in Seq(Candidate)
    /\ x.hits \in Seq(Chunk)
    /\ \A i, j \in DOMAIN x.hits : x.hits[i] = x.hits[j] => i = j
    /\ x.left \in SUBSET Chunk
    /\ \A i \in DOMAIN x.hits : x.hits[i] \notin x.left

\* Only the graph signal fetches chunk by chunk, and it links before it fetches.
SlotsTyped ==
    /\ DOMAIN slot = Signal
    /\ \A s \in Signal : /\ SlotTyped(slot[s])
                         /\ s # "graph" => slot[s].left = {}
                         /\ s = "graph" /\ slot[s].at = "link" => slot[s].hits = <<>>

LEMMA SectionsAreLists ==
    /\ \A c \in Chunk : SectionOf[c] \in Sections
    /\ Sections \subseteq Seq(STRING)
<1>1. ASSUME NEW c \in Chunk
      PROVE  SectionOf[c] \in Sections
  <2>1. SectionOf[c] \in Seq(STRING)
    BY RetrievalAssumption
  <2>2. SubSeq(SectionOf[c], 1, Len(SectionOf[c])) = SectionOf[c] /\ Len(SectionOf[c]) \in 0..Len(SectionOf[c])
    BY <2>1, SubSeqFull
  <2> QED
    BY <2>2 DEF Sections
<1>2. ASSUME NEW path \in Sections
      PROVE  path \in Seq(STRING)
  <2>0. PICK c \in Chunk : \E n \in 0..Len(SectionOf[c]) : path = SubSeq(SectionOf[c], 1, n)
    BY DEF Sections
  <2>1. PICK n \in 0..Len(SectionOf[c]) : path = SubSeq(SectionOf[c], 1, n)
    BY <2>0
  <2>2. SectionOf[c] \in Seq(STRING)
    BY RetrievalAssumption
  <2>3. \A i \in 1..n : SectionOf[c][i] \in STRING
    BY <2>2
  <2>4. n \in Int /\ 1 \in Int
    BY <2>2
  <2> QED
    BY <2>1, <2>3, <2>4, SubSeqProperties
<1> QED
  BY <1>1, <1>2

LEMMA StoredFinite ==
    ASSUME NEW S \in SUBSET Chunk
    PROVE  IsFiniteSet(S)
<1>1. IsFiniteSet(1..ChunkCount)
  BY RetrievalAssumption, FS_Interval
<1> QED
  BY <1>1, FS_Subset DEF Chunk

LEMMA TopKTyped ==
    ASSUME request \in Requests
    PROVE  TopK \in Nat \ {0}
<1>1. request.topK \in Nat \ {0}
  BY RetrievalAssumption
<1>2. PICK m \in {request.topK, 8} : \A y \in {request.topK, 8} : m >= y
  BY <1>1
<1>3. Max({request.topK, 8}) \in {request.topK, 8}
  BY <1>2 DEF Max
<1> QED
  BY <1>1, <1>3 DEF TopK

LEMMA NowTyped ==
    ASSUME request \in Requests, turn \in 1..Len(request.queries)
    PROVE  Now \in Query
<1>1. request.queries \in Seq(Query)
  BY RetrievalAssumption
<1> QED
  BY <1>1 DEF Now

\* What a signal finds are distinct chunks of its route.
LEMMA FoundProperties ==
    ASSUME request \in Requests, stored \in SUBSET Chunk, NEW s \in Signal, NEW list \in Found(s)
    PROVE  /\ list \in Seq(Chunk)
           /\ \A i, j \in DOMAIN list : list[i] = list[j] => i = j
           /\ \A i \in DOMAIN list : InRoute(list[i], slot[s].route)
<1> DEFINE S == {c \in stored : InRoute(c, slot[s].route)}
           score == CASE s = "dense"     -> [c \in S |-> Similarity[Now][c]]
                      [] s = "structure" -> StructureHits(Now, S, request.depth)
                      [] OTHER           -> [c \in {d \in S : Terms[Now][d] > 0} |-> 0]
<1>1. DOMAIN SectionHits(Now, S, request.depth) \subseteq S
  BY DEF SectionHits
<1>2. DOMAIN StructureHits(Now, S, request.depth) \subseteq S
  <2> HIDE DEF S
  <2> QED
    BY <1>1 DEF StructureHits
<1>3. DOMAIN score \subseteq S
  <2> HIDE DEF S
  <2>1. CASE s = "dense"
    BY <2>1
  <2>2. CASE s = "structure"
    BY <1>2, <2>2
  <2>3. CASE s \notin {"dense", "structure"}
    BY <2>3
  <2> QED
    BY <2>1, <2>2, <2>3
<1>4. PICK whole \in Listings(DOMAIN score) : list = Cut(whole, TopK)
  BY DEF Found, Sorted, Orders
<1> HIDE DEF score
<1>5. DOMAIN score \subseteq Chunk /\ IsFiniteSet(DOMAIN score)
  BY <1>3, StoredFinite
<1>6. /\ whole \in Seq(DOMAIN score) /\ DOMAIN whole = 1..Len(whole)
      /\ \A i, j \in DOMAIN whole : whole[i] = whole[j] => i = j
  BY <1>5, ListingProperties
<1>7. TopK \in Nat
  BY TopKTyped
<1>8. /\ list \in Seq(DOMAIN score) /\ DOMAIN list = 1..Len(list)
      /\ \A i \in 1..Len(list) : i \in 1..Len(whole) /\ list[i] = whole[i]
  BY <1>4, <1>6, <1>7, CutProperties
<1>9. \A i \in DOMAIN list : list[i] \in S
  BY <1>3, <1>8
<1>10. list \in Seq(Chunk)
  BY <1>5, <1>8
<1> QED
  BY <1>6, <1>8, <1>9, <1>10

\* The candidates of one routing: lists of the same length, of sections that score.
LEMMA ProposalsProperties ==
    ASSUME stored \in SUBSET Chunk, NEW q \in Query, NEW s \in Proposals(q), NEW t \in Proposals(q)
    PROVE  s \in Seq(Candidate) /\ t \in Seq(Candidate) /\ Len(s) = Len(t)
<1> DEFINE paths == {SectionOf[c] : c \in stored} \ {<<>>}
           all   == {[path |-> p, score |-> RouteScore[q][p]] : p \in paths}
           X     == {x \in all : x.score >= request.minScore /\ x.score > 0}
<1>1. IsFiniteSet(paths) /\ paths \subseteq Sections
  <2>1. IsFiniteSet({SectionOf[c] : c \in stored})
    <3> DEFINE f == [c \in stored |-> SectionOf[c]]
    <3>1. {f[c] : c \in DOMAIN f} = {SectionOf[c] : c \in stored} /\ DOMAIN f = stored
      OBVIOUS
    <3>2. IsFiniteSet(DOMAIN f)
      BY <3>1, StoredFinite
    <3> HIDE DEF f
    <3> QED
      BY <3>1, <3>2, ImageFinite
  <2> QED
    BY <2>1, SectionsAreLists, FS_Subset
<1> HIDE DEF paths
<1>2. IsFiniteSet(all)
  <2> DEFINE f == [p \in paths |-> [path |-> p, score |-> RouteScore[q][p]]]
  <2>1. {f[p] : p \in DOMAIN f} = all /\ DOMAIN f = paths
    OBVIOUS
  <2> HIDE DEF f, all
  <2> QED
    BY <1>1, <2>1, ImageFinite
<1>3. X \subseteq Candidate
  BY <1>1, RouteScoreAssumption DEF Candidate
<1>4. IsFiniteSet(X)
  BY <1>2, FS_Subset
<1>5. ASSUME NEW r \in Proposals(q)
      PROVE  \E whole \in Listings(X) : r = Cut(whole, 3)
  BY <1>5 DEF Proposals, CandidateLists, Orders, paths
<1> HIDE DEF X
<1>6. ASSUME NEW r \in Proposals(q)
      PROVE  r \in Seq(Candidate) /\ Len(r) = IF 3 <= Cardinality(X) THEN 3 ELSE Cardinality(X)
  <2>1. PICK whole \in Listings(X) : r = Cut(whole, 3)
    BY <1>5
  <2>2. whole \in Seq(X) /\ Len(whole) = Cardinality(X)
    BY <1>4, ListingProperties
  <2>3. whole \in Seq(Candidate)
    BY <1>3, <2>2
  <2> QED
    BY <2>1, <2>2, <2>3, CutProperties
<1> QED
  BY <1>6

LEMMA MergedCandidatesTyped ==
    ASSUME NEW dst \in Seq(Candidate), NEW src \in Seq(Candidate), NEW list \in MergedCandidates(dst, src)
    PROVE  list \in Seq(Candidate)
<1> DEFINE Same(x, s)  == {y \in Range(s) : y.path = x.path}
           Added(x, s) == IF Same(x, s) = {} THEN x ELSE [x EXCEPT !.score = @ + (CHOOSE y \in Same(x, s) : TRUE).score]
           X == {Added(x, src) : x \in Range(dst)}
           Y == {x \in Range(src) : Same(x, dst) = {}}
<1>1. PICK whole \in Listings(X \cup Y) : list = whole
  BY DEF MergedCandidates, CandidateLists, Orders
<1>2. IsFiniteSet(Range(dst)) /\ Range(dst) \subseteq Candidate /\ IsFiniteSet(Range(src)) /\ Range(src) \subseteq Candidate
  BY RangeFinite
<1>3. ASSUME NEW x \in Range(dst)
      PROVE  Added(x, src) \in Candidate
  <2>1. CASE Same(x, src) = {}
    BY <1>2, <2>1
  <2>2. CASE Same(x, src) # {}
    <3>1. PICK y \in Same(x, src) : Added(x, src) = [x EXCEPT !.score = @ + y.score]
      BY <2>2
    <3>2. x \in Candidate /\ y \in Candidate
      BY <1>2
    <3>3. x.score + y.score \in Nat \ {0}
      BY <3>2 DEF Candidate
    <3> QED
      BY <3>1, <3>2, <3>3 DEF Candidate
  <2> QED
    BY <2>1, <2>2
<1>4. IsFiniteSet(X)
  <2> DEFINE f == [x \in Range(dst) |-> Added(x, src)]
  <2>1. {f[x] : x \in DOMAIN f} = X /\ DOMAIN f = Range(dst)
    OBVIOUS
  <2> HIDE DEF f, X
  <2> QED
    BY <1>2, <2>1, ImageFinite
<1>5. X \subseteq Candidate
  BY <1>3
<1>6. IsFiniteSet(Y) /\ Y \subseteq Candidate
  BY <1>2, FS_Subset
<1> HIDE DEF X, Y
<1>7. IsFiniteSet(X \cup Y) /\ X \cup Y \subseteq Candidate
  BY <1>4, <1>5, <1>6, FS_Union
<1>8. whole \in Seq(X \cup Y)
  BY <1>7, ListingProperties
<1> QED
  BY <1>1, <1>7, <1>8

\* A plan fans out to one of the candidates at least.
LEMMA PlanTyped ==
    ASSUME request \in Requests, request.fanout > 1,
           NEW list \in Seq(Candidate), list # <<>>
    PROVE  Plan(list) \in Seq(Planned) \ {<<>>}
<1> DEFINE best      == list[1].score
           threshold == IF request.threshold <= 0 THEN 60 ELSE request.threshold
           kept      == {i \in DOMAIN list : 100 * list[i].score >= threshold * best}
           number    == IF kept = {} THEN 1 ELSE Cardinality(kept)
           filtered  == Cut(list, number)
           converges == /\ request.gap > 0 /\ Len(filtered) >= 2
                        /\ 100 * (filtered[1].score - filtered[2].score) >= request.gap * best
           selected  == Cut(filtered, IF converges THEN 1 ELSE request.fanout)
<1>1. Plan(list) = [i \in DOMAIN selected |->
                       [path |-> selected[i].path, score |-> selected[i].score, best |-> best]]
  BY DEF Plan
<1>2. Len(list) \in Nat \ {0} /\ list[1] \in Candidate
  <2>1. Len(list) \in Nat \ {0}
    BY EmptySeq
  <2>2. 1 \in 1..Len(list)
    BY <2>1
  <2> QED
    BY <2>1, <2>2, ElementOfSeq
<1>3. best \in Nat \ {0}
  BY <1>2 DEF Candidate
<1>4. number \in Nat \ {0}
  <2>1. IsFiniteSet(kept)
    BY RangeFinite, FS_Subset
  <2> HIDE DEF kept
  <2> QED
    BY <2>1, FS_CardinalityType, FS_EmptySet
<1>5. request.fanout \in Nat \ {0}
  BY RetrievalAssumption
<1> HIDE DEF best, number
<1>6. filtered \in Seq(Candidate) /\ Len(filtered) \in Nat \ {0}
  BY <1>2, <1>4, CutProperties
<1> HIDE DEF filtered, converges
<1>7. selected \in Seq(Candidate) /\ Len(selected) \in Nat \ {0}
  <2>1. (IF converges THEN 1 ELSE request.fanout) \in Nat \ {0}
    BY <1>5
  <2> HIDE DEF converges
  <2> QED
    BY <1>6, <2>1, CutProperties
<1> HIDE DEF selected
<1>8. PICK n \in Nat \ {0} : DOMAIN selected = 1..n
  BY <1>7
<1>9. \A i \in 1..n : [path |-> selected[i].path, score |-> selected[i].score, best |-> best] \in Planned
  <2>1. \A i \in 1..n : selected[i] \in Candidate
    BY <1>7, <1>8
  <2> HIDE DEF converges
  <2> QED
    BY <1>3, <2>1 DEF Candidate, Planned
<1> QED
  BY <1>1, <1>8, <1>9

\* A chunk that a signal found has a place among its hits.
LEMMA RankProperties ==
    ASSUME SlotsTyped, NEW s \in Signal, NEW c
    PROVE  /\ Rank(s, c) \in 0..ChunkCount
           /\ Rank(s, c) # 0 <=> c \in Range(slot[s].hits)
           /\ Rank(s, c) # 0 => slot[s].hits[Rank(s, c)] = c
<1>1. slot[s].hits \in Seq(Chunk) /\ \A i, j \in DOMAIN slot[s].hits : slot[s].hits[i] = slot[s].hits[j] => i = j
  BY DEF SlotsTyped, SlotTyped
<1>2. PICK hits \in Seq(Chunk) : hits = slot[s].hits
  BY <1>1
<1>3. Len(hits) <= ChunkCount
  BY <1>1, <1>2, RetrievalAssumption, DistinctBound DEF Chunk
<1>4. DOMAIN hits = 1..Len(hits) /\ Len(hits) \in Nat
  OBVIOUS
<1>5. CASE c \in Range(hits)
  <2>1. PICK i \in DOMAIN hits : Rank(s, c) = i /\ hits[i] = c
    BY <1>2, <1>5 DEF Rank, Range
  <2>2. i \in 1..ChunkCount
    BY <1>3, <1>4, RetrievalAssumption
  <2> QED
    BY <1>2, <1>5, <2>1, <2>2
<1>6. CASE c \notin Range(hits)
  BY <1>2, <1>6, RetrievalAssumption DEF Rank
<1> QED
  BY <1>5, <1>6

LEMMA HeardTyped ==
    ASSUME SlotsTyped
    PROVE  Heard \subseteq Chunk
<1>1. \A s \in Signal : slot[s].hits \in Seq(Chunk)
  BY DEF SlotsTyped, SlotTyped
<1>2. \A s \in Signal : Range(slot[s].hits) \subseteq Chunk
  BY <1>1, RangeFinite
<1> QED
  BY <1>2 DEF Heard

\* A better rank is worth more.
LEMMA WorthProperties ==
    ASSUME SlotsTyped, NEW s \in Signal, NEW c
    PROVE  /\ Worth(s, c) \in Nat
           /\ Rank(s, c) = 0 => Worth(s, c) = 0
           /\ Rank(s, c) # 0 => Worth(s, c) > 0 /\ Worth(s, c) * (RRFConstant + Rank(s, c)) = Unit
<1>1. CASE Rank(s, c) = 0
  BY <1>1 DEF Worth
<1>2. CASE Rank(s, c) # 0
  <2>1. Rank(s, c) \in Chunk
    BY <1>2, RankProperties DEF Chunk
  <2>2. PICK d \in Nat \ {0} : d = RRFConstant + Rank(s, c)
    BY <2>1, RetrievalAssumption DEF Chunk
  <2>3. Unit % d = 0 /\ Unit \in Nat \ {0}
    BY <2>1, <2>2, RetrievalAssumption
  <2>4. Unit = d * (Unit \div d) + (Unit % d) /\ Unit \div d \in Int
    BY ONLY <2>2, <2>3, Z3
  <2>5. PICK w \in Int : w = Unit \div d
    BY <2>4
  <2>6. d * w = Unit
    BY <2>3, <2>4, <2>5
  <2>7. w > 0
    BY ONLY d \in Nat \ {0}, w \in Int, <2>3, <2>6, Z3
  <2>8. Worth(s, c) = w
    BY <1>2, <2>2, <2>5 DEF Worth
  <2>9. d * w = w * d
    BY ONLY d \in Nat \ {0}, w \in Int, Z3
  <2> QED
    BY <1>2, <2>2, <2>6, <2>7, <2>8, <2>9
<1> QED
  BY <1>1, <1>2

LEMMA FusedScoreTyped ==
    ASSUME SlotsTyped, NEW c
    PROVE  FusedScore(c) \in Nat
<1>1. \A s \in Signal : Worth(s, c) \in Nat
  BY WorthProperties
<1> QED
  BY <1>1, SignalIs DEF FusedScore

\* The fusion of what was heard holds each chunk once.
LEMMA FusedProperties ==
    ASSUME SlotsTyped
    PROVE  /\ IsFiniteSet(Fused) /\ Fused \subseteq Hit
           /\ \A x \in Fused : x.chunk \in Heard /\ x = [chunk |-> x.chunk, num |-> FusedScore(x.chunk), den |-> 1]
<1>1. Heard \subseteq Chunk /\ IsFiniteSet(Heard)
  BY HeardTyped, StoredFinite
<1>2. \A c \in Heard : [chunk |-> c, num |-> FusedScore(c), den |-> 1] \in Hit
  BY <1>1, FusedScoreTyped DEF Hit
<1>3. IsFiniteSet(Fused)
  <2> DEFINE f == [c \in Heard |-> [chunk |-> c, num |-> FusedScore(c), den |-> 1]]
  <2>1. {f[c] : c \in DOMAIN f} = Fused /\ DOMAIN f = Heard
    BY DEF Fused
  <2> HIDE DEF f
  <2> QED
    BY <1>1, <2>1, ImageFinite
<1> QED
  BY <1>2, <1>3 DEF Fused

LEMMA FusionTyped ==
    ASSUME SlotsTyped, NEW n \in Nat, NEW whole \in Listings(Fused)
    PROVE  /\ Cut(whole, n) \in HitList
           /\ \A i \in DOMAIN Cut(whole, n) : Cut(whole, n)[i].chunk \in Heard
<1>1. /\ whole \in Seq(Fused) /\ DOMAIN whole = 1..Len(whole)
      /\ \A i, j \in DOMAIN whole : whole[i] = whole[j] => i = j
  BY FusedProperties, ListingProperties
<1>2. whole \in Seq(Hit)
  BY <1>1, FusedProperties
<1>3. PICK list \in Seq(Hit) : list = Cut(whole, n)
  BY <1>2, CutProperties
<1>4. DOMAIN list = 1..Len(list) /\ \A i \in 1..Len(list) : i \in DOMAIN whole /\ list[i] = whole[i]
  BY <1>1, <1>2, <1>3, CutProperties
<1>5. \A i \in DOMAIN list : list[i] \in Fused
  BY <1>1, <1>4
<1>6. ASSUME NEW i \in DOMAIN list, NEW j \in DOMAIN list, list[i].chunk = list[j].chunk
      PROVE  i = j
  <2>1. list[i] = list[j]
    BY <1>5, <1>6, FusedProperties
  <2> QED
    BY <1>1, <1>4, <2>1
<1> QED
  BY <1>3, <1>5, <1>6, FusedProperties DEF HitList

LEMMA BoostedProperties ==
    ASSUME NEW hits \in HitList, routes \in Seq(Planned) \ {<<>>}
    PROVE  /\ Boosted(hits) \in HitList
           /\ DOMAIN Boosted(hits) = DOMAIN hits
           /\ \A i \in DOMAIN hits : Boosted(hits)[i].chunk = hits[i].chunk
<1>1. routes[1] \in Planned
  <2>1. Len(routes) \in Nat \ {0}
    BY EmptySeq
  <2>2. 1 \in 1..Len(routes)
    BY <2>1
  <2> QED
    BY <2>2, ElementOfSeq
<1>2. PICK p \in Nat \ {0}, q \in Nat : p = routes[1].best /\ q = routes[1].score
  BY <1>1 DEF Planned
<1>3. hits \in Seq(Hit)
  BY DEF HitList
<1>4. PICK n \in Nat : DOMAIN hits = 1..n /\ Len(hits) = n
  BY <1>3
<1> DEFINE b(i) == [hits[i] EXCEPT !.num = @ * p + hits[i].den * Unit * q, !.den = @ * p]
<1>5. Boosted(hits) = [i \in 1..n |-> b(i)]
  BY <1>2, <1>4 DEF Boosted
<1>6. ASSUME NEW i \in 1..n
      PROVE  b(i) \in Hit /\ b(i).chunk = hits[i].chunk
  <2>1. PICK c \in Chunk, a \in Nat, d \in Nat \ {0} : hits[i] = [chunk |-> c, num |-> a, den |-> d]
    <3>1. hits[i] \in Hit
      BY <1>3, <1>4
    <3> QED
      BY <3>1 DEF Hit
  <2>2. a * p \in Nat /\ d * Unit \in Nat
    BY RetrievalAssumption, Products
  <2>3. (d * Unit) * q \in Nat
    BY <2>2, Products
  <2>4. d * p \in Nat \ {0}
    <3>1. 1 * p <= d * p
      BY Scaled
    <3>2. d * p \in Nat /\ 1 * p = p
      BY Products
    <3> QED
      BY <3>1, <3>2
  <2>5. PICK x \in Nat, y \in Nat \ {0} : x = a * p + (d * Unit) * q /\ y = d * p
    BY <2>2, <2>3, <2>4
  <2>6. b(i) = [hits[i] EXCEPT !.num = x, !.den = y]
    <3>1. hits[i].num = a /\ hits[i].den = d
      BY <2>1
    <3>2. hits[i].num * p + hits[i].den * Unit * q = x /\ hits[i].den * p = y
      BY <2>5, <3>1, Zenon
    <3> QED
      BY <3>2, Zenon
  <2>7. b(i) = [chunk |-> c, num |-> x, den |-> y]
    <3> DEFINE h == [hits[i] EXCEPT !.num = x]
    <3>1. h = [chunk |-> c, num |-> x, den |-> d]
      BY <2>1
    <3>2. b(i) = [h EXCEPT !.den = y]
      BY <2>6, Zenon
    <3> HIDE DEF h, b
    <3> QED
      BY <3>1, <3>2
  <2> QED
    BY <2>1, <2>7 DEF Hit
<1> HIDE DEF b
<1>7. /\ Boosted(hits) \in Seq(Hit) /\ DOMAIN Boosted(hits) = 1..n
      /\ \A i \in 1..n : Boosted(hits)[i].chunk = hits[i].chunk
  BY <1>5, <1>6
<1> QED
  BY <1>4, <1>7 DEF HitList

-----------------------------------------------------------------------------
\* The type invariant.

TypeInv ==
    /\ request \in Requests
    /\ stored \in SUBSET Chunk
    /\ turn \in 1..Len(request.queries)
    /\ phase \in {"single", "probe", "route"}
    /\ phase = "probe" => request.fanout > 1
    /\ SlotsTyped
    /\ fused \in HitList
    /\ perRoute \in HitList
    /\ perQuery \in HitList
    /\ (stage \in {"ask", "signals", "fused"} /\ phase = "route") => routes \in Seq(Planned) \ {<<>>}

LEMMA NoSlotsTyped ==
    /\ DOMAIN NoSlots = Signal /\ \A s \in Signal : NoSlots[s] = Off
    /\ SlotTyped(Off) /\ Off.left = {} /\ Off.hits = <<>>
    /\ <<>> \in HitList
<1>1. SlotTyped(Off) /\ Off.left = {} /\ Off.hits = <<>>
  <2>1. <<>> \in Seq(STRING) /\ <<>> \in Seq(Candidate) /\ <<>> \in Seq(Chunk)
    BY EmptySeq
  <2>2. DOMAIN <<>> = {}
    OBVIOUS
  <2> QED
    BY <2>1, <2>2 DEF Off, SlotTyped
<1>2. DOMAIN NoSlots = Signal /\ \A s \in Signal : NoSlots[s] = Off
  BY DEF NoSlots
<1> QED
  BY <1>1, <1>2 DEF HitList

LEMMA RouteHeadTyped ==
    ASSUME NEW list \in Seq(Planned), list # <<>>
    PROVE  list[1] \in Planned /\ list[1].path \in Seq(STRING)
<1>1. Len(list) \in Nat \ {0}
  BY EmptySeq
<1>2. list[1] \in Planned
  <2>1. 1 \in 1..Len(list)
    BY <1>1
  <2> QED
    BY <2>1, ElementOfSeq
<1> QED
  BY <1>2, SectionsAreLists DEF Planned

LEMMA CandidateHeadTyped ==
    ASSUME NEW list \in Seq(Candidate), list # <<>>
    PROVE  list[1].path \in Seq(STRING)
<1>1. Len(list) \in Nat \ {0}
  BY EmptySeq
<1>2. list[1] \in Candidate
  <2>1. 1 \in 1..Len(list)
    BY <1>1
  <2> QED
    BY <2>1, ElementOfSeq
<1> QED
  BY <1>2, SectionsAreLists DEF Candidate

\* A set of chunks has a smallest one.
LEMMA SmallestOf ==
    ASSUME NEW S \in SUBSET Chunk, S # {}
    PROVE  \E x \in S : \A y \in S : x <= y
<1> DEFINE R == {ss \in Nat \X Nat : ss[1] < ss[2]}
<1>1. S \subseteq Nat
  BY RetrievalAssumption DEF Chunk
<1>2. IsWellFoundedOn(R, Nat)
  BY NatLessThanWellFounded DEF OpToRel
<1>3. PICK x \in S : \A y \in S : ~(<<y, x>> \in R)
  <2> HIDE DEF R
  <2> QED
    BY <1>1, <1>2, WFMin
<1>4. ASSUME NEW y \in S, y < x
      PROVE  FALSE
  <2>1. <<y, x>> \in Nat \X Nat /\ <<y, x>>[1] < <<y, x>>[2]
    BY <1>1, <1>4
  <2>2. <<y, x>> \in R
    BY <2>1
  <2> QED
    BY <1>3, <2>2
<1> HIDE DEF R
<1> QED
  BY <1>1, <1>4

LEMMA SearchedPathTyped ==
    ASSUME TypeInv, stage \in {"ask", "signals", "fused"}
    PROVE  SearchedPath \in Seq(STRING)
<1>1. request.path \in Seq(STRING)
  BY RetrievalAssumption DEF TypeInv
<1>2. phase = "route" => routes[1].path \in Seq(STRING)
  BY RouteHeadTyped DEF TypeInv
<1> QED
  BY <1>1, <1>2 DEF SearchedPath

\* The slot a step of a goroutine leaves.
LEMMA SteppingIsTyped ==
    ASSUME TypeInv, NEW s \in Signal, NEW new, SlotTyped(new), Step(s, new),
           s # "graph" => new.left = {},
           s = "graph" /\ new.at = "link" => new.hits = <<>>
    PROVE  TypeInv'
<1>1. slot' = [slot EXCEPT ![s] = new]
  BY DEF Step
<1>2. DOMAIN slot' = Signal /\ \A t \in Signal : slot'[t] = IF t = s THEN new ELSE slot[t]
  BY <1>1 DEF TypeInv, SlotsTyped
<1>3. SlotsTyped'
  BY <1>2 DEF TypeInv, SlotsTyped, SlotTyped
<1>4. UNCHANGED <<stored, request, stage, turn, phase, routes, fused, perRoute, perQuery>>
  BY DEF Step
<1> QED
  BY <1>3, <1>4 DEF TypeInv

LEMMA SlotFields ==
    ASSUME TypeInv, NEW s \in Signal
    PROVE  /\ SlotTyped(slot[s])
           /\ s # "graph" => slot[s].left = {}
           /\ s = "graph" /\ slot[s].at = "link" => slot[s].hits = <<>>
  BY DEF TypeInv, SlotsTyped

\* Every list that the graph signal's chunks are ranked to.
LEMMA FetchedProperties ==
    ASSUME TypeInv, NEW n \in Nat, NEW whole \in Listings(Range(slot["graph"].hits))
    PROVE  /\ Cut(whole, n) \in Seq(Chunk)
           /\ \A i, j \in DOMAIN Cut(whole, n) : Cut(whole, n)[i] = Cut(whole, n)[j] => i = j
<1>1. slot["graph"].hits \in Seq(Chunk)
  BY SignalIs, SlotFields DEF SlotTyped
<1>2. IsFiniteSet(Range(slot["graph"].hits)) /\ Range(slot["graph"].hits) \subseteq Chunk
  BY <1>1, RangeFinite
<1>3. /\ whole \in Seq(Range(slot["graph"].hits)) /\ DOMAIN whole = 1..Len(whole)
      /\ \A i, j \in DOMAIN whole : whole[i] = whole[j] => i = j
  BY <1>2, ListingProperties
<1>4. whole \in Seq(Chunk)
  BY <1>2, <1>3
<1> QED
  BY <1>3, <1>4, CutProperties

LEMMA GoroutineTyped ==
    ASSUME TypeInv, NEW s \in Signal, Goroutine(s) \/ SignalFails(s)
    PROVE  TypeInv'
<1>0. Now \in Query /\ TopK \in Nat
  BY NowTyped, TopKTyped DEF TypeInv
<1> USE SlotFields DEF SlotTyped
<1>1. CASE Route(s)
  <2>1. PICK list \in Proposals(Now) :
          Step(s, [slot[s] EXCEPT !.at = "search", !.candidates = list,
                                  !.route = IF list = <<>> THEN <<>> ELSE list[1].path])
    BY <1>1 DEF Route
  <2>2. list \in Seq(Candidate)
    BY <1>0, ProposalsProperties DEF TypeInv
  <2>3. (IF list = <<>> THEN <<>> ELSE list[1].path) \in Seq(STRING)
    BY <2>2, CandidateHeadTyped
  <2>4. PICK route \in Seq(STRING) : route = IF list = <<>> THEN <<>> ELSE list[1].path
    BY <2>3
  <2> DEFINE new == [slot[s] EXCEPT !.at = "search", !.candidates = list, !.route = route]
  <2>5. SlotTyped(new) /\ new.at = "search" /\ new.left = slot[s].left
    BY <2>2
  <2>6. Step(s, new)
    BY <2>1, <2>4
  <2> HIDE DEF new
  <2> QED
    BY <2>5, <2>6, SteppingIsTyped
<1>2. CASE RouteUnlisted(s)
  BY <1>2, SteppingIsTyped DEF RouteUnlisted
<1>3. CASE Search(s)
  <2>1. PICK list \in Found(s) : Step(s, [slot[s] EXCEPT !.at = "done", !.hits = list])
    BY <1>3 DEF Search
  <2>2. list \in Seq(Chunk) /\ \A i, j \in DOMAIN list : list[i] = list[j] => i = j
    BY FoundProperties DEF TypeInv
  <2>3. s # "graph"
    BY <1>3 DEF Search
  <2> QED
    BY <2>1, <2>2, <2>3, SteppingIsTyped
<1>4. CASE s = "graph" /\ Link
  <2>1. DOMAIN Hops[Now] \subseteq Chunk
    BY <1>0, RetrievalAssumption
  <2>2. slot[s].hits = <<>> /\ DOMAIN <<>> = {}
    BY <1>4 DEF Link
  <2> DEFINE new == [slot[s] EXCEPT !.at = "search", !.left = DOMAIN Hops[Now]]
  <2>3. SlotTyped(new) /\ new.at = "search"
    BY <2>1, <2>2
  <2>4. Step(s, new)
    BY <1>4 DEF Link
  <2> HIDE DEF new
  <2> QED
    BY <1>4, <2>3, <2>4, SteppingIsTyped
<1>5. CASE s = "graph" /\ Fetch
  <2> DEFINE c == Min(slot[s].left)
  <2>1. /\ Step(s, [slot[s] EXCEPT !.left = @ \ {c}, !.hits = IF c \in stored THEN Append(@, c) ELSE @])
        /\ slot[s].at = "search"
    BY <1>5 DEF Fetch
  <2>2. PICK hits \in Seq(Chunk), left \in SUBSET Chunk :
          /\ hits = slot[s].hits /\ left = slot[s].left
          /\ \A i, j \in DOMAIN hits : hits[i] = hits[j] => i = j
          /\ \A i \in DOMAIN hits : hits[i] \notin left
    OBVIOUS
  <2>3. left # {}
    BY <1>5, <2>2 DEF Fetch
  <2>4. PICK d \in Chunk : d = c /\ d \in left
    <3>1. \E x \in left : \A y \in left : x <= y
      BY <2>3, SmallestOf
    <3> QED
      BY <2>2, <3>1 DEF Min
  <2>5. /\ Append(hits, d) \in Seq(Chunk)
        /\ Len(hits) \in Nat /\ DOMAIN hits = 1..Len(hits) /\ DOMAIN Append(hits, d) = 1..(Len(hits) + 1)
        /\ \A i \in 1..Len(hits) : Append(hits, d)[i] = hits[i]
        /\ Append(hits, d)[Len(hits) + 1] = d
    OBVIOUS
  <2>6. PICK after \in Seq(Chunk) :
          /\ after = IF d \in stored THEN Append(hits, d) ELSE hits
          /\ \A i, j \in DOMAIN after : after[i] = after[j] => i = j
          /\ \A i \in DOMAIN after : after[i] \notin left \ {d}
    <3>1. CASE d \in stored
      <4>1. ASSUME NEW i \in 1..(Len(hits) + 1)
            PROVE  (i \in 1..Len(hits) /\ Append(hits, d)[i] = hits[i]) \/ (i = Len(hits) + 1 /\ Append(hits, d)[i] = d)
        BY <2>5
      <4>2. \A i \in DOMAIN hits : hits[i] # d
        BY <2>2, <2>4
      <4>3. \A i, j \in DOMAIN Append(hits, d) : Append(hits, d)[i] = Append(hits, d)[j] => i = j
        BY <2>2, <2>5, <4>1, <4>2
      <4>4. \A i \in DOMAIN Append(hits, d) : Append(hits, d)[i] \notin left \ {d}
        BY <2>2, <2>5, <4>1
      <4> QED
        BY <2>5, <3>1, <4>3, <4>4
    <3>2. CASE d \notin stored
      BY <2>2, <3>2
    <3> QED
      BY <3>1, <3>2
  <2> DEFINE new == [slot[s] EXCEPT !.left = left \ {d}, !.hits = after]
  <2>7. Step(s, new)
    BY <2>1, <2>2, <2>4, <2>6
  <2> HIDE DEF c
  <2>8. SlotTyped(new) /\ new.at = "search"
    BY <2>1, <2>6
  <2> HIDE DEF new
  <2> QED
    BY <1>5, <2>7, <2>8, SteppingIsTyped
<1>6. CASE s = "graph" /\ RankByHops
  <2>1. PICK whole \in Listings(Range(slot["graph"].hits)) :
          Step("graph", [slot["graph"] EXCEPT !.at = "done", !.hits = Cut(whole, TopK)])
    BY <1>6 DEF RankByHops, Orders
  <2>2. slot[s].left = {}
    BY <1>6 DEF RankByHops
  <2>3. PICK list \in Seq(Chunk) :
          list = Cut(whole, TopK) /\ \A i, j \in DOMAIN list : list[i] = list[j] => i = j
    BY <1>0, FetchedProperties
  <2>4. Step(s, [slot[s] EXCEPT !.at = "done", !.hits = list])
    BY <1>6, <2>1, <2>3
  <2> QED
    BY <2>2, <2>3, <2>4, SteppingIsTyped
<1>7. CASE SignalFails(s)
  <2>1. <<>> \in Seq(Chunk) /\ DOMAIN <<>> = {}
    OBVIOUS
  <2>2. Step(s, [slot[s] EXCEPT !.at = "failed", !.hits = <<>>])
    BY <1>7 DEF SignalFails
  <2> QED
    BY <2>1, <2>2, SteppingIsTyped
<1> QED
  BY <1>1, <1>2, <1>3, <1>4, <1>5, <1>6, <1>7 DEF Goroutine

\* The end of a query.
LEMMA EndQueryTyped ==
    ASSUME TypeInv, NEW hits \in HitList, NEW bound, EndQuery(hits, bound), UNCHANGED request
    PROVE  /\ perQuery' \in HitList
           /\ turn' \in 1..Len(request'.queries)
           /\ phase' \in {"single", "probe", "route"}
           /\ phase' = "probe" => request'.fanout > 1
           /\ (stage' = "ask" /\ phase' # "route") \/ stage' = "returned"
<1>1. perQuery' \in HitList
  <2>1. PICK merged \in Merge(perQuery, hits) : perQuery' = merged
    BY DEF EndQuery
  <2> QED
    BY <2>1, MergeProperties DEF TypeInv
<1>2. request.queries \in Seq(Query)
  BY RetrievalAssumption DEF TypeInv
<1>3. PICK n \in Nat : n = Len(request.queries)
  BY <1>2
<1>4. CASE turn < Len(request.queries)
  <2>1. stage' = "ask" /\ turn' = turn + 1 /\ phase' = FirstPhase(request)
    BY <1>4 DEF EndQuery
  <2>2. turn + 1 \in 1..n
    BY <1>3, <1>4 DEF TypeInv
  <2> QED
    BY <1>1, <1>3, <2>1, <2>2 DEF FirstPhase
<1>5. CASE ~(turn < Len(request.queries))
  <2>1. stage' = "returned" /\ UNCHANGED <<turn, phase>>
    BY <1>5 DEF EndQuery
  <2> QED
    BY <1>1, <2>1 DEF TypeInv
<1> QED
  BY <1>4, <1>5

LEMMA LaunchTyped ==
    ASSUME TypeInv, Launch
    PROVE  TypeInv'
<1>1. SearchedPath \in Seq(STRING)
  BY SearchedPathTyped DEF Launch
<1>2. SlotTyped(Off) /\ Off.left = {} /\ Off.hits = <<>>
  BY NoSlotsTyped
<1>3. ASSUME NEW s \in Signal
      PROVE  SlotTyped(slot'[s]) /\ slot'[s].left = {} /\ slot'[s].hits = <<>>
  <2>1. CASE ~Enabled(s)
    <3>1. slot'[s] = Off
      BY <2>1 DEF Launch
    <3> QED
      BY <1>2, <3>1
  <2>2. CASE Enabled(s)
    <3>1. PICK at : slot'[s] = [Off EXCEPT !.route = SearchedPath, !.at = at]
      BY <2>2 DEF Launch
    <3> QED
      BY <1>1, <1>2, <3>1 DEF SlotTyped
  <2> QED
    BY <2>1, <2>2
<1>4. DOMAIN slot' = Signal
  BY DEF Launch
<1>5. SlotsTyped'
  BY <1>3, <1>4 DEF SlotsTyped, SlotTyped
<1>6. UNCHANGED <<stored, request, turn, phase, routes, fused, perRoute, perQuery>> /\ stage = "ask"
  BY DEF Launch
<1> QED
  BY <1>5, <1>6 DEF TypeInv

LEMMA JoinTyped ==
    ASSUME TypeInv, Join
    PROVE  TypeInv'
<1>1. UNCHANGED <<stored, request, turn, phase, routes, slot, perRoute, perQuery>> /\ stage = "signals"
  BY DEF Join, JoinWhen
<1>2. fused' \in HitList
  <2>1. CASE UNCHANGED fused
    BY <2>1 DEF TypeInv
  <2>2. CASE \E list \in Listings(Fused) : fused' = Cut(list, TopK)
    BY <2>2, FusionTyped, TopKTyped DEF TypeInv
  <2> QED
    BY <2>1, <2>2 DEF Join, JoinWhen, Orders
<1>3. SlotsTyped'
  BY <1>1 DEF TypeInv, SlotsTyped, SlotTyped
<1> QED
  BY <1>1, <1>2, <1>3 DEF TypeInv

\* The slots are empty after a retrieval of the signals was taken.
LEMMA TakenTyped ==
    ASSUME TakeHits
    PROVE  SlotsTyped' /\ fused' \in HitList /\ stage = "fused"
<1>1. slot' = NoSlots /\ fused' = <<>>
  BY DEF TakeHits
<1> QED
  BY <1>1, NoSlotsTyped DEF TakeHits, SlotsTyped, SlotTyped

LEMMA TakeSingleTyped ==
    ASSUME TypeInv, TakeSingle
    PROVE  TypeInv'
<1>1. TakeHits /\ UNCHANGED <<stored, request, routes, perRoute>>
  BY DEF TakeSingle
<1>2. PICK bound : EndQuery(fused, bound)
  BY DEF TakeSingle
<1>3. fused \in HitList /\ UNCHANGED request
  BY <1>1 DEF TypeInv
<1> QED
  BY <1>1, <1>2, <1>3, EndQueryTyped, TakenTyped DEF TypeInv

LEMMA TakeProbeTyped ==
    ASSUME TypeInv, TakeProbe
    PROVE  TypeInv'
<1>1. TakeHits /\ UNCHANGED <<stored, request>> /\ phase = "probe"
  BY DEF TakeProbe
<1>2. PICK list \in MergedCandidates(slot["dense"].candidates, slot["structure"].candidates) :
        IF list = <<>>
        THEN EndQuery(fused, {<<>>}) /\ UNCHANGED <<routes, perRoute>>
        ELSE /\ routes' = Plan(list)
             /\ perRoute' = <<>>
             /\ phase' = "route"
             /\ UNCHANGED <<turn, perQuery>>
  BY DEF TakeProbe
<1>3. CASE list = <<>>
  <2>1. fused \in HitList /\ EndQuery(fused, {<<>>}) /\ UNCHANGED <<request, perRoute>>
    BY <1>1, <1>2, <1>3 DEF TypeInv
  <2> QED
    BY <1>1, <2>1, EndQueryTyped, TakenTyped DEF TypeInv
<1>4. CASE list # <<>>
  <2>1. slot["dense"].candidates \in Seq(Candidate) /\ slot["structure"].candidates \in Seq(Candidate)
    BY SignalIs DEF TypeInv, SlotsTyped, SlotTyped
  <2>2. list \in Seq(Candidate)
    BY <2>1, MergedCandidatesTyped
  <2>3. Plan(list) \in Seq(Planned) \ {<<>>}
    BY <1>1, <1>4, <2>2, PlanTyped DEF TypeInv
  <2>4. routes' \in Seq(Planned) \ {<<>>} /\ perRoute' \in HitList /\ phase' = "route" /\ UNCHANGED <<turn, perQuery>>
    BY <1>2, <1>4, <2>3, NoSlotsTyped
  <2> QED
    BY <1>1, <2>4, TakenTyped DEF TypeInv
<1> QED
  BY <1>3, <1>4

LEMMA TakeRouteTyped ==
    ASSUME TypeInv, TakeRoute
    PROVE  TypeInv'
<1>1. TakeHits /\ UNCHANGED <<stored, request>> /\ phase = "route" /\ stage = "fused"
  BY DEF TakeRoute, TakeHits
<1>2. perRoute' \in Merge(perRoute, Boosted(fused)) /\ routes' = Tail(routes)
  BY DEF TakeRoute
<1>3. routes \in Seq(Planned) \ {<<>>}
  BY <1>1 DEF TypeInv
<1>4. Boosted(fused) \in HitList
  BY <1>3, BoostedProperties DEF TypeInv
<1>5. PICK seen \in HitList : perRoute' = seen
  BY <1>2, <1>4, MergeProperties DEF TypeInv
<1>6. CASE Len(routes) > 1
  <2>1. stage' = "ask" /\ UNCHANGED <<turn, phase, perQuery>>
    BY <1>6 DEF TakeRoute
  <2>2. Tail(routes) \in Seq(Planned) \ {<<>>}
    <3>1. Tail(routes) \in Seq(Planned) /\ Len(Tail(routes)) = Len(routes) - 1 /\ Len(routes) \in Nat
      BY <1>3, HeadTailProperties
    <3>2. Len(Tail(routes)) # 0
      BY <1>6, <3>1
    <3>3. Len(<<>>) = 0
      BY EmptySeq
    <3> QED
      BY <3>1, <3>2, <3>3
  <2> QED
    BY <1>1, <1>2, <1>5, <2>1, <2>2, TakenTyped DEF TypeInv
<1>7. CASE ~(Len(routes) > 1)
  <2>1. PICK list \in Ranked(seen) : EndQuery(Cut(list, request.topK), {})
    BY <1>5, <1>7 DEF TakeRoute
  <2>2. list \in HitList
    BY <2>1, RankedProperties
  <2>3. Cut(list, request.topK) \in HitList
    BY <2>2, CutHits, RetrievalAssumption DEF TypeInv
  <2>4. UNCHANGED request
    BY <1>1
  <2> QED
    BY <1>1, <1>5, <2>1, <2>3, <2>4, EndQueryTyped, TakenTyped DEF TypeInv
<1> QED
  BY <1>6, <1>7

LEMMA TypeStep == TypeInv /\ [Next]_vars => TypeInv'
<1> SUFFICES ASSUME TypeInv, [Next]_vars PROVE TypeInv'
  OBVIOUS
<1>1. CASE UNCHANGED vars
  BY <1>1 DEF vars, searchVars, TypeInv, SlotsTyped, SlotTyped
<1>2. ASSUME NEW s \in Signal, Goroutine(s) \/ SignalFails(s)
      PROVE  TypeInv'
  BY <1>2, GoroutineTyped
<1>3. ASSUME NEW s \in Signal, Panic(s)
      PROVE  TypeInv'
  <2>1. /\ slot' = NoSlots /\ stage' = "crashed"
        /\ UNCHANGED <<stored, request, turn, phase, routes, fused, perRoute, perQuery>>
    BY <1>3 DEF Panic
  <2>2. SlotsTyped'
    BY <2>1, NoSlotsTyped DEF SlotsTyped
  <2> QED
    BY <2>1, <2>2 DEF TypeInv
<1>4. CASE Change
  <2>1. stored' \in SUBSET Chunk
    BY <1>4 DEF Change, TypeInv
  <2> QED
    BY <1>4, <2>1 DEF Change, searchVars, TypeInv, SlotsTyped, SlotTyped
<1>5. CASE Launch
  BY <1>5, LaunchTyped
<1>6. CASE Join
  BY <1>6, JoinTyped
<1>7. CASE TakeSingle
  BY <1>7, TakeSingleTyped
<1>8. CASE TakeProbe
  BY <1>8, TakeProbeTyped
<1>9. CASE TakeRoute
  BY <1>9, TakeRouteTyped
<1> QED
  BY <1>1, <1>2, <1>3, <1>4, <1>5, <1>6, <1>7, <1>8, <1>9 DEF Next, Run, Caller

LEMMA TypeInit == Init => TypeInv
<1> SUFFICES ASSUME Init PROVE TypeInv
  OBVIOUS
<1>1. slot = NoSlots /\ fused = <<>> /\ perRoute = <<>> /\ perQuery = <<>> /\ turn = 1
  BY DEF Init
<1>2. SlotsTyped
  BY <1>1, NoSlotsTyped DEF SlotsTyped
<1>3. stored \in SUBSET Chunk /\ request \in Requests
  BY DEF Init
<1>4. request.queries \in Seq(Query) /\ request.queries # <<>>
  BY <1>3, RetrievalAssumption
<1>5. 1 \in 1..Len(request.queries)
  BY <1>4, EmptySeq
<1>6. phase = FirstPhase(request)
  BY DEF Init
<1> QED
  BY <1>1, <1>2, <1>3, <1>5, <1>6, NoSlotsTyped DEF TypeInv, FirstPhase

-----------------------------------------------------------------------------
\* Fusion respects the ranks.

LEMMA WorthOrder ==
    ASSUME SlotsTyped, NEW s \in Signal, NEW c, NEW d, Place(s, c) <= Place(s, d)
    PROVE  /\ Worth(s, d) <= Worth(s, c)
           /\ Place(s, c) < Place(s, d) => Worth(s, d) < Worth(s, c)
<1>1. /\ Worth(s, c) \in Nat /\ Worth(s, d) \in Nat
      /\ Rank(s, c) \in 0..ChunkCount /\ Rank(s, d) \in 0..ChunkCount
      /\ ChunkCount \in Nat /\ RRFConstant \in Nat
  BY WorthProperties, RankProperties, RetrievalAssumption
<1>2. CASE Rank(s, d) = 0
  <2>1. Worth(s, d) = 0 /\ Place(s, d) = ChunkCount + 1
    BY <1>2, WorthProperties DEF Place
  <2>2. Place(s, c) < Place(s, d) => Rank(s, c) # 0
    BY <1>1, <2>1 DEF Place
  <2> QED
    BY <1>1, <2>1, <2>2, WorthProperties
<1>3. CASE Rank(s, d) # 0
  <2>1. Rank(s, c) # 0 /\ Rank(s, c) <= Rank(s, d) /\ (Place(s, c) < Place(s, d) <=> Rank(s, c) < Rank(s, d))
    BY <1>1, <1>3 DEF Place
  <2>2. PICK v \in Nat, w \in Nat, a \in Nat, b \in Nat :
          /\ v = Worth(s, c) /\ w = Worth(s, d)
          /\ a = RRFConstant + Rank(s, c) /\ b = RRFConstant + Rank(s, d)
    BY <1>1
  <2>3. v > 0 /\ v * a = Unit /\ w * b = Unit
    BY <1>3, <2>1, <2>2, WorthProperties
  <2>4. a <= b /\ b > 0 /\ (Place(s, c) < Place(s, d) <=> a < b)
    BY <1>1, <1>3, <2>1, <2>2
  <2>5. v * a \in Nat /\ v * b \in Nat /\ w * b \in Nat /\ a * v = v * a /\ b * v = v * b
    BY Products
  <2>6. a * v <= b * v
    BY <2>4, Scaled
  <2>7. ASSUME v < w
        PROVE  FALSE
    <3>1. (v + 1) * b <= w * b
      BY <2>7, Scaled
    <3>2. (v + 1) * b = v * b + b
      BY Z3
    <3> QED
      BY <2>3, <2>4, <2>5, <2>6, <3>1, <3>2
  <2>8. ASSUME a < b, v <= w
        PROVE  FALSE
    <3>1. (a + 1) * v <= b * v
      BY <2>8, Scaled
    <3>2. (a + 1) * v = a * v + v
      BY Z3
    <3>3. v * b <= w * b
      BY <2>8, Scaled
    <3> QED
      BY <2>3, <2>5, <3>1, <3>2, <3>3
  <2> QED
    BY <2>2, <2>4, <2>7, <2>8
<1> QED
  BY <1>2, <1>3

LEMMA LeadersScoreMore ==
    ASSUME SlotsTyped, NEW c, NEW d, Leads(c, d)
    PROVE  FusedScore(d) < FusedScore(c)
<1>1. \A s \in Signal : /\ Worth(s, c) \in Nat /\ Worth(s, d) \in Nat
                        /\ Worth(s, d) <= Worth(s, c)
                        /\ Place(s, c) < Place(s, d) => Worth(s, d) < Worth(s, c)
  BY WorthProperties, WorthOrder DEF Leads
<1>2. \E s \in Signal : Worth(s, d) < Worth(s, c)
  BY <1>1 DEF Leads
<1> QED
  BY <1>1, <1>2, SignalIs DEF FusedScore

\* The best of what was heard, in order.
LEMMA FusedInOrder ==
    ASSUME SlotsTyped, NEW n \in Nat, NEW whole \in Listings(Fused),
           \A j \in DOMAIN whole : \A i \in 1..(j - 1) : whole[i].num >= whole[j].num,
           NEW j \in DOMAIN Cut(whole, n), NEW c \in Heard, Leads(c, Cut(whole, n)[j].chunk)
    PROVE  \E i \in 1..(j - 1) : Cut(whole, n)[i].chunk = c
<1>1. /\ whole \in Seq(Fused) /\ DOMAIN whole = 1..Len(whole)
      /\ \A x \in Fused : \E i \in DOMAIN whole : whole[i] = x
  BY FusedProperties, ListingProperties
<1>2. PICK list \in Seq(Fused) :
        /\ list = Cut(whole, n) /\ DOMAIN list = 1..Len(list)
        /\ Len(list) = IF n <= Len(whole) THEN n ELSE Len(whole)
        /\ \A i \in 1..Len(list) : i \in 1..Len(whole) /\ list[i] = whole[i]
  BY <1>1, CutProperties
<1>3. PICK d : d = list[j].chunk /\ list[j] = [chunk |-> d, num |-> FusedScore(d), den |-> 1]
  BY <1>2, FusedProperties
<1>4. FusedScore(d) < FusedScore(c)
  BY <1>2, <1>3, LeadersScoreMore
<1>5. PICK i \in DOMAIN whole : whole[i] = [chunk |-> c, num |-> FusedScore(c), den |-> 1]
  BY <1>1 DEF Fused
<1>6. PICK p \in Nat, q \in Nat : p = FusedScore(c) /\ q = FusedScore(d)
  BY FusedScoreTyped
<1>7. whole[i].num = p /\ whole[j].num = q /\ j \in 1..Len(whole) /\ q < p
  <2>1. j \in 1..Len(whole) /\ whole[j] = list[j]
    BY <1>2
  <2>2. whole[i].num = FusedScore(c)
    BY <1>5
  <2>3. whole[j].num = FusedScore(d)
    BY <1>3, <2>1
  <2> QED
    BY <1>4, <1>6, <2>1, <2>2, <2>3
<1>8. i < j
  <2>1. SUFFICES ASSUME ~(i < j) PROVE FALSE
    OBVIOUS
  <2>2. i # j
    BY <1>7
  <2>3. j \in 1..(i - 1) /\ i \in DOMAIN whole
    BY <1>1, <1>7, <2>1, <2>2
  <2>4. q >= p
    BY <1>7, <2>3
  <2> QED
    BY <1>7, <2>4
<1>9. i \in 1..(j - 1) /\ i \in 1..Len(list)
  BY <1>1, <1>2, <1>8
<1> QED
  BY <1>2, <1>5, <1>9

LEMMA FusionStep == TypeInv /\ FusionRespectsRanks /\ [Next]_vars => FusionRespectsRanks'
<1> SUFFICES ASSUME TypeInv, FusionRespectsRanks, [Next]_vars, stage' = "fused"
             PROVE  FusionRespectsRanks'
  BY DEF FusionRespectsRanks
<1>1. CASE UNCHANGED <<stage, slot, fused>>
  <2>1. Heard' = Heard /\ \A c, d : Leads(c, d)' <=> Leads(c, d)
    BY <1>1 DEF Heard, Leads, Place, Rank
  <2> QED
    BY <1>1, <2>1 DEF FusionRespectsRanks
<1>2. CASE Join
  <2>1. UNCHANGED slot
    BY <1>2 DEF Join, JoinWhen
  <2>2. PICK whole \in Listings(Fused) :
          /\ \A j \in DOMAIN whole : \A i \in 1..(j - 1) : whole[i].num >= whole[j].num
          /\ fused' = Cut(whole, TopK)
    BY <1>2 DEF Join, JoinWhen, Orders
  <2>3. TopK \in Nat /\ SlotsTyped
    BY TopKTyped DEF TypeInv
  <2>4. \A j \in DOMAIN fused' : \A c \in Heard :
           Leads(c, fused'[j].chunk) => \E i \in 1..(j - 1) : fused'[i].chunk = c
    BY <2>2, <2>3, FusedInOrder
  <2>5. Heard' = Heard /\ \A c, d : Leads(c, d)' <=> Leads(c, d)
    BY <2>1 DEF Heard, Leads, Place, Rank
  <2> QED
    BY <2>4, <2>5 DEF FusionRespectsRanks
<1>3. ASSUME NEW s \in Signal, Goroutine(s) \/ SignalFails(s)
      PROVE  FALSE
  BY <1>3 DEF Goroutine, SignalFails, Route, RouteUnlisted, Search, Link, Fetch, RankByHops, Step
<1>4. ASSUME NEW s \in Signal, Panic(s)
      PROVE  FALSE
  BY <1>4 DEF Panic
<1>5. CASE Change
  BY <1>1, <1>5 DEF Change, searchVars
<1>6. CASE Launch
  BY <1>6 DEF Launch
<1>7. CASE TakeSingle
  BY <1>7 DEF TakeSingle, EndQuery
<1>8. CASE TakeProbe
  BY <1>8 DEF TakeProbe, EndQuery
<1>9. CASE TakeRoute
  BY <1>9 DEF TakeRoute, EndQuery
<1> QED
  BY <1>1, <1>2, <1>3, <1>4, <1>5, <1>6, <1>7, <1>8, <1>9 DEF Next, Run, Caller, vars, searchVars

-----------------------------------------------------------------------------
\* The best scores win.

\* Every hit found so far is held by the merged list of the queries, which holds
\* nothing else.
OfferedAreCovered ==
    /\ offered \subseteq Hit
    /\ Range(perQuery) \subseteq offered
    /\ \A x \in offered : Covered(x, perQuery)

BestInv == OfferedAreCovered /\ BestScoresWin

\* What BestScoresWin asks of an answer of at most n hits, out of those in S.
IsBest(best, S, n) ==
    /\ IsInjective([i \in DOMAIN best |-> best[i].chunk])
    /\ Range(best) \subseteq S
    /\ \A x \in S : \E i \in DOMAIN best :
          (~Above(x, best[i])
           /\ (best[i].chunk = x.chunk \/ (Len(best) = n /\ ~Above(best[i], Last(best)))))
    /\ \A i, j \in DOMAIN best : i < j => ~Above(best[j], best[i])

\* What an answer cut from a ranked list leaves out is no better.
LEMMA AnswerIsBest ==
    ASSUME NEW list \in HitList, NEW ranked \in Ranked(list), NEW n \in Nat \ {0},
           NEW S \in SUBSET Hit, Range(list) \subseteq S, \A x \in S : Covered(x, list),
           NEW best, best = Cut(ranked, n)
    PROVE  IsBest(best, S, n)
<1>1. /\ ranked \in HitList
      /\ \A i \in DOMAIN ranked : ranked[i] \in Range(list)
      /\ \A x \in Range(list) : \E i \in DOMAIN ranked : ranked[i] = x
      /\ \A i, j \in DOMAIN ranked : i < j => ~Above(ranked[j], ranked[i])
  BY RankedProperties
<1>2. /\ best \in HitList
      /\ Len(best) = IF n <= Len(ranked) THEN n ELSE Len(ranked)
      /\ \A i \in DOMAIN best : i \in DOMAIN ranked /\ best[i] = ranked[i]
  BY <1>1, CutHits
<1>3. PICK m \in Nat, k \in Nat :
        /\ m = Len(ranked) /\ DOMAIN ranked = 1..m /\ k = Len(best) /\ DOMAIN best = 1..k
        /\ k = IF n <= m THEN n ELSE m
  BY <1>1, <1>2 DEF HitList
<1>4. \A i \in 1..m : ranked[i] \in Hit
  BY <1>1, <1>3 DEF HitList
<1>5. IsInjective([i \in DOMAIN best |-> best[i].chunk])
  BY <1>2 DEF IsInjective, HitList
<1>6. Range(best) \subseteq S
  BY <1>1, <1>2 DEF Range
<1>7. \A i, j \in DOMAIN best : i < j => ~Above(best[j], best[i])
  BY <1>1, <1>2
<1>8. ASSUME NEW x \in S
      PROVE  \E i \in DOMAIN best :
               (~Above(x, best[i])
                /\ (best[i].chunk = x.chunk \/ (Len(best) = n /\ ~Above(best[i], Last(best)))))
  <2>1. PICK j \in DOMAIN list : list[j].chunk = x.chunk /\ ~Above(x, list[j])
    BY DEF Covered
  <2>2. PICK p \in 1..m : ranked[p] = list[j]
    BY <1>1, <1>3 DEF Range
  <2>3. CASE p <= k
    BY <1>2, <1>3, <2>1, <2>2, <2>3
  <2>4. CASE ~(p <= k)
    <3>1. k = n /\ n \in 1..m /\ n \in 1..k /\ n < p
      BY <1>3, <2>4
    <3>2. ~Above(ranked[p], ranked[n])
      BY <1>1, <1>3, <3>1
    <3>3. x \in Hit /\ ranked[p] \in Hit /\ ranked[n] \in Hit
      BY <1>4, <3>1
    <3>4. ~Above(x, ranked[n])
      BY <2>1, <2>2, <3>2, <3>3, NotAboveIsTransitive
    <3>5. best[n] = ranked[n] /\ Last(best) = best[n] /\ Len(best) = n
      BY <1>2, <1>3, <3>1 DEF Last
    <3>6. ~Above(best[n], Last(best))
      BY <3>3, <3>5, AboveIsOrdered
    <3> QED
      BY <1>3, <3>1, <3>4, <3>5, <3>6
  <2> QED
    BY <2>3, <2>4
<1> QED
  BY <1>5, <1>6, <1>7, <1>8 DEF IsBest

\* Merging the hits of a query keeps all that was offered covered.
LEMMA MergingCovers ==
    ASSUME NEW list \in HitList, NEW hits \in HitList, NEW merged \in Merge(list, hits),
           NEW S \in SUBSET Hit, Range(list) \subseteq S, \A x \in S : Covered(x, list)
    PROVE  /\ merged \in HitList
           /\ S \cup Range(hits) \subseteq Hit
           /\ Range(merged) \subseteq S \cup Range(hits)
           /\ \A x \in S \cup Range(hits) : Covered(x, merged)
<1>1. /\ merged \in HitList
      /\ \A i \in DOMAIN merged : merged[i] \in Range(list) \cup Range(hits)
      /\ \A x \in Range(list) \cup Range(hits) : Covered(x, merged)
  BY MergeProperties
<1>2. Range(hits) \subseteq Hit
  BY RangeFinite DEF HitList
<1>3. Range(merged) \subseteq S \cup Range(hits)
  BY <1>1 DEF Range
<1>4. ASSUME NEW x \in S
      PROVE  Covered(x, merged)
  <2>1. PICK i \in DOMAIN list : list[i].chunk = x.chunk /\ ~Above(x, list[i])
    BY DEF Covered
  <2>2. list[i] \in Range(list)
    BY DEF Range
  <2>3. PICK j \in DOMAIN merged : merged[j].chunk = list[i].chunk /\ ~Above(list[i], merged[j])
    BY <1>1, <2>2 DEF Covered
  <2>4. x \in Hit /\ list[i] \in Hit /\ merged[j] \in Hit
    <3>1. merged \in Seq(Hit)
      BY <1>1 DEF HitList
    <3> QED
      BY <2>2, <3>1
  <2>5. ~Above(x, merged[j])
    BY <2>1, <2>3, <2>4, NotAboveIsTransitive
  <2> QED
    BY <2>1, <2>3, <2>5 DEF Covered
<1> QED
  BY <1>1, <1>2, <1>3, <1>4

LEMMA EndQueryIsBest ==
    ASSUME TypeInv, BestInv, NEW hits \in HitList, NEW bound, EndQuery(hits, bound), UNCHANGED request
    PROVE  BestInv'
<1>1. PICK merged \in Merge(perQuery, hits) : perQuery' = merged
  BY DEF EndQuery
<1>2. perQuery \in HitList /\ offered \in SUBSET Hit /\ Range(perQuery) \subseteq offered /\ \A x \in offered : Covered(x, perQuery)
  BY DEF TypeInv, BestInv, OfferedAreCovered
<1>3. offered' = offered \cup Range(hits)
  BY DEF EndQuery
<1>4. PICK S : S = offered'
  OBVIOUS
<1>5. /\ S \subseteq Hit /\ Range(merged) \subseteq S
       /\ merged \in HitList /\ \A x \in S : Covered(x, merged)
  <2> DEFINE all == offered \cup Range(hits)
  <2>1. /\ merged \in HitList /\ all \subseteq Hit /\ Range(merged) \subseteq all
        /\ \A x \in all : Covered(x, merged)
    BY <1>1, <1>2, MergingCovers
  <2>2. S = all
    BY <1>3, <1>4
  <2> HIDE DEF all
  <2> QED
    BY ONLY <2>1, <2>2
<1>6. OfferedAreCovered'
  BY <1>1, <1>4, <1>5 DEF OfferedAreCovered, Covered, Above
<1>7. CASE turn < Len(request.queries)
  <2>1. stage' = "ask"
    BY <1>7 DEF EndQuery
  <2> QED
    BY <1>6, <2>1 DEF BestInv, BestScoresWin
<1>8. CASE ~(turn < Len(request.queries))
  <2>1. PICK n \in Nat \ {0} : n = request.topK
    BY RetrievalAssumption DEF TypeInv
  <2>2. PICK ranked \in Ranked(merged) : answer' = Cut(ranked, n)
    BY <1>1, <1>8, <2>1 DEF EndQuery
  <2>3. PICK best : best = Cut(ranked, n)
    OBVIOUS
  <2>4. IsBest(best, S, n)
    <3>1. S \in SUBSET Hit /\ merged \in HitList
      BY <1>5
    <3> QED
      BY <3>1, <1>5, <2>2, <2>3, AnswerIsBest
  <2>5. answer' = best /\ offered' = S /\ request'.topK = n
    BY <1>4, <2>1, <2>2, <2>3
  <2>6. BestScoresWin'
    BY <2>4, <2>5 DEF BestScoresWin, IsBest, Above
  <2> QED
    BY <1>6, <2>6 DEF BestInv
<1> QED
  BY <1>7, <1>8

LEMMA UncutIsBest ==
    ASSUME BestInv, UNCHANGED <<offered, perQuery>>, stage' # "returned" \/ failure' # "none"
    PROVE  BestInv'
<1>1. OfferedAreCovered'
  BY DEF BestInv, OfferedAreCovered, Covered
<1> QED
  BY <1>1 DEF BestInv, BestScoresWin

LEMMA BestStep == TypeInv /\ BestInv /\ [Next]_vars => BestInv'
<1> SUFFICES ASSUME TypeInv, BestInv, [Next]_vars PROVE BestInv'
  OBVIOUS
<1>0. perQuery \in HitList /\ fused \in HitList
  BY DEF TypeInv
<1>1. CASE UNCHANGED vars
  BY <1>1 DEF vars, searchVars, BestInv, OfferedAreCovered, Covered, BestScoresWin
<1>2. ASSUME NEW s \in Signal, Goroutine(s) \/ SignalFails(s)
      PROVE  BestInv'
  <2>1. UNCHANGED <<offered, perQuery, stage>> /\ stage = "signals"
    BY <1>2 DEF Goroutine, SignalFails, Route, RouteUnlisted, Search, Link, Fetch, RankByHops, Step
  <2> QED
    BY <2>1, UncutIsBest
<1>3. ASSUME NEW s \in Signal, Panic(s)
      PROVE  BestInv'
  BY <1>3, UncutIsBest DEF Panic
<1>4. CASE Change
  <2>1. UNCHANGED <<offered, perQuery, stage>> /\ stage # "returned"
    BY <1>4 DEF Change, searchVars
  <2> QED
    BY <2>1, UncutIsBest
<1>5. CASE Launch
  BY <1>5, UncutIsBest DEF Launch
<1>6. CASE Join
  <2>1. UNCHANGED <<offered, perQuery>>
    BY <1>6 DEF Join, JoinWhen
  <2>2. CASE \E s \in Signal : Failed(s)
    <3>1. \E j \in 1..4 : FirstFailed = Signals[j]
      BY <2>2, FirstFailedProperties
    <3>2. failure' # "none"
      <4>1. failure' = FirstFailed
        BY <1>6, <2>2 DEF Join, JoinWhen
      <4>2. \A j \in 1..4 : Signals[j] # "none"
        BY DEF Signals
      <4> QED
        BY <3>1, <4>1, <4>2
    <3> QED
      BY <2>1, <3>2, UncutIsBest
  <2>3. CASE ~\E s \in Signal : Failed(s)
    <3>1. stage' = "fused"
      BY <1>6, <2>3 DEF Join, JoinWhen
    <3> QED
      BY <2>1, <3>1, UncutIsBest
  <2> QED
    BY <2>2, <2>3
<1>7. CASE TakeSingle
  <2>1. UNCHANGED request /\ \E bound : EndQuery(fused, bound)
    BY <1>7 DEF TakeSingle
  <2> QED
    BY <1>0, <2>1, EndQueryIsBest
<1>8. CASE TakeProbe
  <2>1. UNCHANGED request
    BY <1>8 DEF TakeProbe
  <2>2. CASE EndQuery(fused, {<<>>})
    BY <1>0, <2>1, <2>2, EndQueryIsBest
  <2>3. CASE UNCHANGED <<offered, perQuery>> /\ stage' = "ask"
    BY <2>3, UncutIsBest
  <2> QED
    BY <1>8, <2>2, <2>3 DEF TakeProbe
<1>9. CASE TakeRoute
  <2>1. UNCHANGED request
    BY <1>9 DEF TakeRoute
  <2>2. CASE UNCHANGED <<offered, perQuery>> /\ stage' = "ask"
    BY <2>2, UncutIsBest
  <2>3. CASE ~(Len(routes) > 1)
    <3>1. PICK list \in Ranked(perRoute') : EndQuery(Cut(list, request.topK), {})
      BY <1>9, <2>3 DEF TakeRoute
    <3>2. perRoute' \in HitList
      BY <1>9, TakeRouteTyped DEF TypeInv
    <3>3. Cut(list, request.topK) \in HitList
      <4>1. PICK seen \in HitList : seen = perRoute'
        BY <3>2
      <4>2. list \in HitList
        BY <3>1, <4>1, RankedProperties
      <4> QED
        BY <4>2, CutHits, RetrievalAssumption DEF TypeInv
    <3> QED
      BY <2>1, <3>1, <3>3, EndQueryIsBest
  <2> QED
    BY <1>9, <2>2, <2>3 DEF TakeRoute
<1> QED
  BY <1>1, <1>2, <1>3, <1>4, <1>5, <1>6, <1>7, <1>8, <1>9 DEF Next, Run, Caller

-----------------------------------------------------------------------------
\* Every signal is heard.

\* What the goroutines have, and what is returned.
SlotsKept ==
    /\ DOMAIN slot = Signal
    /\ \A s \in Signal : DOMAIN slot[s] = {"at", "route", "candidates", "hits", "left"}

HeardInv == SlotsKept /\ EverySignalIsHeard

\* With every slot empty nothing has failed.
LEMMA NoneFailed ==
    ASSUME slot' = NoSlots
    PROVE  HeardInv'
<1>1. \A s \in Signal : slot'[s] = Off
  BY NoSlotsProperties
<1>2. SlotsKept'
  BY <1>1, NoSlotsProperties DEF SlotsKept, Off
<1>3. \A s \in Signal : Ended(s)' /\ ~Failed(s)'
  BY <1>1 DEF Ended, Failed, Off
<1>4. \A i \in 1..4 : Signals[i] \in Signal
  BY SignalIs DEF Signals
<1> QED
  BY <1>2, <1>3, <1>4 DEF HeardInv, EverySignalIsHeard

\* A step of a goroutine.
LEMMA SteppingIsHeard ==
    ASSUME HeardInv, NEW s \in Signal, NEW new, Step(s, new), stage = "signals",
           DOMAIN new = DOMAIN Off
    PROVE  HeardInv'
<1>1. slot' = [slot EXCEPT ![s] = new] /\ stage' = "signals"
  BY DEF Step
<1>2. SlotsKept'
  BY <1>1 DEF HeardInv, SlotsKept, Off
<1> QED
  BY <1>1, <1>2 DEF HeardInv, EverySignalIsHeard

LEMMA HeardStep == HeardInv /\ [Next]_vars => HeardInv'
<1> SUFFICES ASSUME HeardInv, [Next]_vars PROVE HeardInv'
  OBVIOUS
<1>0. \A s \in Signal : DOMAIN slot[s] = DOMAIN Off
  BY DEF HeardInv, SlotsKept, Off
<1>1. CASE UNCHANGED vars
  BY <1>1 DEF vars, searchVars, HeardInv, SlotsKept, EverySignalIsHeard, Ended, Failed
<1>2. CASE Launch
  <2>1. SlotsKept'
    BY <1>2 DEF Launch, SlotsKept, Off
  <2>2. stage' = "signals"
    BY <1>2 DEF Launch
  <2> QED
    BY <2>1, <2>2 DEF HeardInv, EverySignalIsHeard
<1>3. ASSUME NEW s \in Signal, Goroutine(s) \/ SignalFails(s)
      PROVE  HeardInv'
  <2>1. CASE Route(s)
    BY <1>0, <2>1, SteppingIsHeard DEF Route
  <2>2. CASE RouteUnlisted(s) \/ Search(s) \/ SignalFails(s)
    BY <1>0, <2>2, SteppingIsHeard DEF RouteUnlisted, Search, SignalFails
  <2>3. CASE s = "graph" /\ (Link \/ Fetch \/ RankByHops)
    BY <1>0, <2>3, SteppingIsHeard DEF Link, Fetch, RankByHops
  <2> QED
    BY <1>3, <2>1, <2>2, <2>3 DEF Goroutine
<1>4. ASSUME NEW s \in Signal, Panic(s)
      PROVE  HeardInv'
  BY <1>4, NoneFailed DEF Panic
<1>5. CASE Join
  <2>1. UNCHANGED slot /\ \A s \in Signal : Ended(s)
    BY <1>5 DEF Join, JoinWhen
  <2>2. SlotsKept' /\ \A s \in Signal : Ended(s)' /\ (Failed(s)' <=> Failed(s))
    BY <2>1 DEF HeardInv, SlotsKept, Ended, Failed
  <2>3. \A i \in 1..4 : Signals[i] \in Signal
    BY SignalIs DEF Signals
  <2>4. CASE \E s \in Signal : Failed(s)
    <3>1. stage' = "returned" /\ failure' = FirstFailed
      BY <1>5, <2>4 DEF Join, JoinWhen
    <3>2. PICK j \in 1..4 : /\ FirstFailed = Signals[j] /\ Failed(Signals[j])
                            /\ \A i \in 1..4 : Failed(Signals[i]) => j <= i
      BY <2>4, FirstFailedProperties
    <3>3. ASSUME NEW i \in 1..4, Failed(Signals[i])
          PROVE  j \in 1..i
      BY <3>2, <3>3
    <3> QED
      BY <2>2, <2>3, <3>1, <3>2, <3>3 DEF HeardInv, EverySignalIsHeard
  <2>5. CASE ~\E s \in Signal : Failed(s)
    <3>1. stage' = "fused"
      BY <1>5, <2>5 DEF Join, JoinWhen
    <3> QED
      BY <2>2, <2>5, <3>1 DEF HeardInv, EverySignalIsHeard
  <2> QED
    BY <2>4, <2>5
<1>6. CASE TakeSingle \/ TakeProbe \/ TakeRoute
  BY <1>6, NoneFailed DEF TakeSingle, TakeProbe, TakeRoute, TakeHits
<1>7. CASE Change
  BY <1>7 DEF Change, searchVars, HeardInv, SlotsKept, EverySignalIsHeard, Ended, Failed
<1> QED
  BY <1>1, <1>2, <1>3, <1>4, <1>5, <1>6, <1>7 DEF Next, Run, Caller

\* Nothing is used or returned before every signal has ended, and the error that
\* is returned is that of the first signal that failed.
THEOREM SignalsAreAlwaysHeard == Spec => []EverySignalIsHeard
<1>1. Init => HeardInv
  <2> SUFFICES ASSUME Init PROVE HeardInv
    OBVIOUS
  <2>1. \A s \in Signal : slot[s] = Off
    BY NoSlotsProperties DEF Init
  <2>2. SlotsKept
    BY <2>1, NoSlotsProperties DEF Init, SlotsKept, Off
  <2>3. stage = "ask" /\ \A s \in Signal : Ended(s)
    BY <2>1 DEF Init, Ended, Off
  <2> QED
    BY <2>2, <2>3 DEF HeardInv, EverySignalIsHeard
<1>2. HeardInv => EverySignalIsHeard
  BY DEF HeardInv
<1> QED
  BY <1>1, <1>2, HeardStep, PTL DEF Spec
-----------------------------------------------------------------------------
\* Hits stay on a route.

\* Every hit of a list lies on one of some routes.
OnRoutes(list, R) == \A i \in DOMAIN list : \E route \in R : InRoute(list[i].chunk, route)

\* The route a signal takes from the candidates it proposes.
Chosen(list) == IF list = <<>> THEN <<>> ELSE list[1].path

\* Where a signal searches: a routing that nothing disturbed has chosen from the
\* proposals of this moment, and without a routing it is the path of the request.
SearchesOnRoute(s) ==
    IF ~Routing THEN slot[s].at # "route" /\ slot[s].route = SearchedPath
    ELSE (calm /\ slot[s].at # "route") => \E list \in Proposals(Now) : slot[s].route = Chosen(list)

SlotOnRoute(s) ==
    /\ s = "graph" => slot[s].at = "off"
    /\ slot[s].at \in {"off", "route"} => slot[s].hits = <<>>
    /\ \A i \in DOMAIN slot[s].hits : InRoute(slot[s].hits[i], slot[s].route)
    /\ stage \in {"signals", "fused"} =>
         /\ s = "dense" => slot[s].at # "off"
         /\ slot[s].at # "off" => SearchesOnRoute(s)

RoutesAreBound ==
    (stage \in {"ask", "signals", "fused"} /\ phase = "route") =>
        \A i \in DOMAIN routes : routes[i].path \in binding

ListsOnRoutes == OnRoutes(perRoute, binding) /\ OnRoutes(perQuery, binding) /\ OnRoutes(answer, binding)

RouteInv ==
    ~request.graph =>
        /\ \A s \in Signal : SlotOnRoute(s)
        /\ stage = "fused" => \A i \in DOMAIN fused : fused[i].chunk \in Heard
        /\ RoutesAreBound
        /\ ListsOnRoutes

LEMMA EmptyRoute == ASSUME NEW c \in Chunk PROVE InRoute(c, <<>>)
<1>1. SectionOf[c] \in Seq(STRING)
  BY RetrievalAssumption
<1>2. Len(SectionOf[c]) \in Nat
  BY <1>1
<1> QED
  BY <1>1, <1>2 DEF InRoute, IsPrefix

LEMMA MoreRoutes ==
    ASSUME NEW list, NEW R, NEW R2, R \subseteq R2, OnRoutes(list, R)
    PROVE  OnRoutes(list, R2)
  BY DEF OnRoutes

LEMMA MergeOnRoutes ==
    ASSUME NEW list \in HitList, NEW hits \in HitList, NEW merged \in Merge(list, hits), NEW R,
           OnRoutes(list, R), OnRoutes(hits, R)
    PROVE  OnRoutes(merged, R)
<1>1. \A i \in DOMAIN merged : merged[i] \in Range(list) \cup Range(hits)
  BY MergeProperties
<1> QED
  BY <1>1 DEF OnRoutes, Range

LEMMA AnswerOnRoutes ==
    ASSUME NEW list \in HitList, NEW ranked \in Ranked(list), NEW n \in Nat, NEW R, OnRoutes(list, R)
    PROVE  OnRoutes(Cut(ranked, n), R)
<1>1. ranked \in HitList /\ \A i \in DOMAIN ranked : ranked[i] \in Range(list)
  BY RankedProperties
<1>2. \A i \in DOMAIN Cut(ranked, n) : Cut(ranked, n)[i] \in Range(list)
  BY <1>1, CutHits
<1> QED
  BY <1>2 DEF OnRoutes, Range

LEMMA EndQueryOnRoutes ==
    ASSUME TypeInv, NEW hits \in HitList, NEW bound, EndQuery(hits, bound),
           OnRoutes(perQuery, binding), OnRoutes(answer, binding), OnRoutes(hits, binding \cup bound)
    PROVE  /\ OnRoutes(perQuery', binding') /\ OnRoutes(answer', binding')
           /\ binding \subseteq binding'
           /\ (stage' = "ask" /\ phase' # "route") \/ stage' = "returned"
<1>1. binding' = binding \cup bound
  BY DEF EndQuery
<1>2. PICK merged \in Merge(perQuery, hits) : perQuery' = merged
  BY DEF EndQuery
<1>3. OnRoutes(perQuery, binding') /\ OnRoutes(answer, binding') /\ OnRoutes(hits, binding')
  BY <1>1, MoreRoutes
<1>4. OnRoutes(merged, binding')
  BY <1>2, <1>3, MergeOnRoutes DEF TypeInv
<1>5. CASE turn < Len(request.queries)
  <2>1. UNCHANGED answer /\ stage' = "ask" /\ phase' = FirstPhase(request)
    BY <1>5 DEF EndQuery
  <2> QED
    BY <1>1, <1>2, <1>3, <1>4, <2>1 DEF FirstPhase
<1>6. CASE ~(turn < Len(request.queries))
  <2>1. PICK ranked \in Ranked(merged) : answer' = Cut(ranked, request.topK)
    BY <1>2, <1>6 DEF EndQuery
  <2>2. merged \in HitList /\ request.topK \in Nat
    BY <1>2, MergeProperties, RetrievalAssumption DEF TypeInv
  <2>3. OnRoutes(answer', binding')
    BY <1>4, <2>1, <2>2, AnswerOnRoutes
  <2>4. stage' = "returned"
    BY <1>6 DEF EndQuery
  <2> QED
    BY <1>1, <1>2, <1>4, <2>3, <2>4
<1> QED
  BY <1>5, <1>6

\* A fused hit lies on the route of a signal that found it.
LEMMA FusedHitIsOnRoute ==
    ASSUME RouteInv, ~request.graph, stage = "fused", NEW i \in DOMAIN fused
    PROVE  \E s \in Signal : /\ slot[s].at # "off" /\ SearchesOnRoute(s)
                             /\ InRoute(fused[i].chunk, slot[s].route)
<1>1. fused[i].chunk \in Heard
  BY DEF RouteInv
<1>2. PICK s \in Signal : fused[i].chunk \in Range(slot[s].hits)
  BY <1>1 DEF Heard
<1>3. PICK j \in DOMAIN slot[s].hits : slot[s].hits[j] = fused[i].chunk
  BY <1>2 DEF Range
<1>4. SlotOnRoute(s)
  BY DEF RouteInv
<1>5. slot[s].at # "off"
  <2>1. slot[s].hits # <<>>
    BY <1>3
  <2> QED
    BY <1>4, <2>1 DEF SlotOnRoute
<1> QED
  BY <1>3, <1>4, <1>5 DEF SlotOnRoute

\* Two signals that saw the same chunks and had no tie to break chose one route.
LEMMA OneChoice ==
    ASSUME stored \in SUBSET Chunk, NEW q \in Query, ~Tied(q), NEW s \in Proposals(q), NEW t \in Proposals(q)
    PROVE  Chosen(s) = Chosen(t)
<1>1. s \in Seq(Candidate) /\ t \in Seq(Candidate) /\ Len(s) = Len(t)
  BY ProposalsProperties
<1>2. Head(s) = Head(t)
  BY DEF Tied
<1>3. CASE Len(s) = 0
  <2>1. s = <<>> /\ t = <<>>
    BY <1>1, <1>3, EmptySeq
  <2> QED
    BY <2>1
<1>4. CASE Len(s) # 0
  <2>1. s # <<>> /\ t # <<>>
    BY <1>1, <1>4, EmptySeq
  <2>2. s[1] = t[1]
    BY <1>1, <1>2, <2>1
  <2> QED
    BY <2>1, <2>2 DEF Chosen
<1> QED
  BY <1>3, <1>4

\* The hits of a retrieval without a fan-out.
LEMMA SingleOnRoutes ==
    ASSUME TypeInv, EverySignalIsHeard, RouteInv, ~request.graph, stage = "fused"
    PROVE  OnRoutes(fused, IF Routing /\ (~calm \/ Tied(Now)) THEN {<<>>} ELSE {slot["dense"].route})
<1>1. \A i \in DOMAIN fused : fused[i].chunk \in Chunk
  <2>1. fused \in Seq(Hit)
    BY DEF TypeInv, HitList
  <2>2. \A i \in DOMAIN fused : fused[i] \in Hit
    BY <2>1
  <2> QED
    BY <2>2 DEF Hit
<1>2. CASE Routing /\ (~calm \/ Tied(Now))
  BY <1>1, <1>2, EmptyRoute DEF OnRoutes
<1>3. CASE ~(Routing /\ (~calm \/ Tied(Now)))
  <2> SUFFICES ASSUME NEW i \in DOMAIN fused
               PROVE  InRoute(fused[i].chunk, slot["dense"].route)
    BY <1>3 DEF OnRoutes
  <2>1. PICK s \in Signal : /\ slot[s].at # "off" /\ SearchesOnRoute(s)
                            /\ InRoute(fused[i].chunk, slot[s].route)
    BY FusedHitIsOnRoute
  <2>2. SearchesOnRoute("dense")
    BY SignalIs DEF RouteInv, SlotOnRoute
  <2>3. CASE ~Routing
    BY <2>1, <2>2, <2>3 DEF SearchesOnRoute
  <2>4. CASE Routing
    <3>1. calm /\ ~Tied(Now)
      BY <1>3, <2>4
    <3>2. slot[s].at # "route" /\ slot["dense"].at # "route"
      BY SignalIs DEF EverySignalIsHeard, Ended
    <3>3. PICK l1 \in Proposals(Now) : slot[s].route = Chosen(l1)
      BY <2>1, <2>4, <3>1, <3>2 DEF SearchesOnRoute
    <3>4. PICK l2 \in Proposals(Now) : slot["dense"].route = Chosen(l2)
      BY <2>2, <2>4, <3>1, <3>2 DEF SearchesOnRoute
    <3>5. Now \in Query /\ stored \in SUBSET Chunk
      BY NowTyped DEF TypeInv
    <3>6. Chosen(l1) = Chosen(l2)
      BY <3>1, <3>5, OneChoice
    <3> QED
      BY <2>1, <3>3, <3>4, <3>6
  <2> QED
    BY <2>3, <2>4
<1> QED
  BY <1>2, <1>3
LEMMA SameSearch ==
    ASSUME UNCHANGED <<request, phase, routes>>
    PROVE  (Routing' <=> Routing) /\ SearchedPath' = SearchedPath
  BY DEF Routing, SearchedPath

LEMMA SameProposals ==
    ASSUME UNCHANGED <<stored, request, turn>>
    PROVE  Proposals(Now)' = Proposals(Now)
  BY DEF Proposals, Now

\* With every slot empty only the lists matter.
LEMMA EmptyOnRoutes ==
    ASSUME slot' = NoSlots, stage' \notin {"signals", "fused"}, RoutesAreBound', ListsOnRoutes'
    PROVE  RouteInv'
<1>1. \A s \in Signal : slot'[s].at = "off" /\ slot'[s].hits = <<>>
  BY NoSlotsProperties DEF Off
<1>2. \A s \in Signal : SlotOnRoute(s)'
  BY <1>1 DEF SlotOnRoute
<1> QED
  BY <1>2 DEF RouteInv

\* A step of a goroutine.
LEMMA SteppingOnRoutes ==
    ASSUME TypeInv, RouteInv, ~request.graph, NEW s \in Signal, NEW new, Step(s, new), stage = "signals",
           new.at \notin {"off", "route"}, s # "graph", calm' => calm,
           \A i \in DOMAIN new.hits : InRoute(new.hits[i], new.route),
           ~Routing => new.route = slot[s].route, slot[s].at # "off",
           (Routing /\ calm') => \E list \in Proposals(Now) : new.route = Chosen(list)
    PROVE  RouteInv'
<1>1. /\ slot' = [slot EXCEPT ![s] = new]
      /\ UNCHANGED <<stored, request, stage, turn, phase, routes, fused, perRoute, perQuery, answer, binding>>
  BY DEF Step
<1>2. slot'[s] = new /\ \A t \in Signal : t # s => slot'[t] = slot[t]
  BY <1>1 DEF TypeInv, SlotsTyped
<1>3. (Routing' <=> Routing) /\ SearchedPath' = SearchedPath /\ Proposals(Now)' = Proposals(Now)
  BY <1>1, SameSearch, SameProposals
<1>4. \A t \in Signal : SlotOnRoute(t)
  BY DEF RouteInv
<1>5. ASSUME NEW t \in Signal, t # s
      PROVE  SlotOnRoute(t)'
  BY <1>1, <1>2, <1>3, <1>4, <1>5 DEF SlotOnRoute, SearchesOnRoute
<1>6. SearchesOnRoute(s)'
  <2>1. ~Routing => new.route = SearchedPath
    BY <1>4 DEF SlotOnRoute, SearchesOnRoute
  <2> QED
    BY <1>2, <1>3, <2>1 DEF SearchesOnRoute
<1>7. SlotOnRoute(s)'
  BY <1>1, <1>2, <1>6 DEF SlotOnRoute
<1>8. RoutesAreBound' /\ ListsOnRoutes'
  BY <1>1 DEF RouteInv, RoutesAreBound, ListsOnRoutes, OnRoutes
<1> QED
  BY <1>1, <1>5, <1>7, <1>8 DEF RouteInv

LEMMA GoroutineOnRoutes ==
    ASSUME TypeInv, RouteInv, ~request.graph, NEW s \in Signal, Goroutine(s) \/ SignalFails(s)
    PROVE  RouteInv'
<1>0. /\ DOMAIN slot[s] = {"at", "route", "candidates", "hits", "left"}
      /\ \A i \in DOMAIN slot[s].hits : InRoute(slot[s].hits[i], slot[s].route)
      /\ slot["graph"].at = "off"
      /\ (stage = "signals" /\ slot[s].at # "off") => SearchesOnRoute(s)
  BY SignalIs DEF RouteInv, SlotOnRoute, TypeInv, SlotsTyped, SlotTyped
<1>1. CASE Route(s)
  <2>1. PICK list \in Proposals(Now) : Step(s, [slot[s] EXCEPT !.at = "search", !.candidates = list, !.route = Chosen(list)])
    BY <1>1 DEF Route, Chosen
  <2>2. UNCHANGED calm /\ stage = "signals" /\ slot[s].at = "route" /\ s # "graph"
    BY <1>0, <1>1 DEF Route
  <2> DEFINE new == [slot[s] EXCEPT !.at = "search", !.candidates = list, !.route = Chosen(list)]
  <2>3. new.at = "search" /\ new.hits = slot[s].hits /\ new.route = Chosen(list)
    BY <1>0
  <2>4. slot[s].hits = <<>>
    BY <2>2 DEF RouteInv, SlotOnRoute
  <2>5. DOMAIN <<>> = {}
    OBVIOUS
  <2>6. Step(s, new)
    BY <2>1
  <2>7. Routing
    BY <1>0, <2>2 DEF SearchesOnRoute
  <2>8. \A i \in DOMAIN new.hits : InRoute(new.hits[i], new.route)
    BY <2>3, <2>4, <2>5
  <2> HIDE DEF new
  <2> QED
    BY <2>2, <2>3, <2>6, <2>7, <2>8, SteppingOnRoutes
<1>2. CASE RouteUnlisted(s)
  <2>1. Step(s, [slot[s] EXCEPT !.at = "search"]) /\ ~calm' /\ stage = "signals" /\ slot[s].at = "route" /\ s # "graph"
    BY <1>0, <1>2 DEF RouteUnlisted
  <2> QED
    BY <1>0, <2>1, SteppingOnRoutes
<1>3. CASE Search(s)
  <2>1. PICK list \in Found(s) : Step(s, [slot[s] EXCEPT !.at = "done", !.hits = list])
    BY <1>3 DEF Search
  <2>2. UNCHANGED calm /\ stage = "signals" /\ slot[s].at = "search" /\ s # "graph"
    BY <1>3 DEF Search
  <2>3. \A i \in DOMAIN list : InRoute(list[i], slot[s].route)
    BY FoundProperties DEF TypeInv
  <2>4. (Routing /\ calm) => \E l \in Proposals(Now) : slot[s].route = Chosen(l)
    BY <1>0, <2>2 DEF SearchesOnRoute
  <2> QED
    BY <1>0, <2>1, <2>2, <2>3, <2>4, SteppingOnRoutes
<1>4. CASE SignalFails(s)
  <2>1. Step(s, [slot[s] EXCEPT !.at = "failed", !.hits = <<>>])
    BY <1>4 DEF SignalFails
  <2>2. UNCHANGED calm /\ stage = "signals" /\ slot[s].at \in {"search", "link"} /\ s # "graph"
    BY <1>0, <1>4 DEF SignalFails
  <2>3. (Routing /\ calm) => \E l \in Proposals(Now) : slot[s].route = Chosen(l)
    BY <1>0, <2>2 DEF SearchesOnRoute
  <2>4. DOMAIN <<>> = {}
    OBVIOUS
  <2> QED
    BY <1>0, <2>1, <2>2, <2>3, <2>4, SteppingOnRoutes
<1>5. CASE s = "graph" /\ (Link \/ Fetch \/ RankByHops)
  BY <1>0, <1>5 DEF Link, Fetch, RankByHops
<1> QED
  BY <1>1, <1>2, <1>3, <1>4, <1>5 DEF Goroutine

LEMMA LaunchOnRoutes ==
    ASSUME RouteInv, ~request.graph, Launch
    PROVE  RouteInv'
<1>1. /\ UNCHANGED <<stored, request, turn, phase, routes, fused, perRoute, perQuery, answer, binding>>
      /\ stage = "ask" /\ stage' = "signals"
  BY DEF Launch
<1>2. (Routing' <=> Routing) /\ SearchedPath' = SearchedPath
  BY <1>1, SameSearch
<1>3. ASSUME NEW s \in Signal
      PROVE  SlotOnRoute(s)'
  <2>1. CASE ~Enabled(s)
    <3>1. slot'[s] = Off
      BY <2>1 DEF Launch
    <3>2. s # "dense"
      BY <2>1 DEF Enabled
    <3> QED
      BY <3>1, <3>2 DEF SlotOnRoute, Off
  <2>2. CASE Enabled(s)
    <3>1. s # "graph"
      BY <2>2 DEF Enabled
    <3>2. slot'[s] = [Off EXCEPT !.route = SearchedPath, !.at = IF Routing THEN "route" ELSE "search"]
      BY <2>2, <3>1 DEF Launch
    <3>3. slot'[s].route = SearchedPath /\ slot'[s].hits = <<>> /\ slot'[s].at = IF Routing THEN "route" ELSE "search"
      BY <3>2 DEF Off
    <3>4. SearchesOnRoute(s)'
      BY <1>2, <3>3 DEF SearchesOnRoute
    <3> QED
      BY <3>1, <3>3, <3>4 DEF SlotOnRoute
  <2> QED
    BY <2>1, <2>2
<1>4. RoutesAreBound' /\ ListsOnRoutes'
  BY <1>1 DEF RouteInv, RoutesAreBound, ListsOnRoutes, OnRoutes
<1> QED
  BY <1>1, <1>3, <1>4 DEF RouteInv

LEMMA JoinOnRoutes ==
    ASSUME TypeInv, RouteInv, ~request.graph, Join
    PROVE  RouteInv'
<1>1. /\ UNCHANGED <<stored, request, turn, phase, routes, slot, perRoute, perQuery, answer, binding, calm>>
      /\ stage = "signals" /\ stage' \in {"fused", "returned"}
  BY DEF Join, JoinWhen
<1>2. (Routing' <=> Routing) /\ SearchedPath' = SearchedPath /\ Proposals(Now)' = Proposals(Now)
  BY <1>1, SameSearch, SameProposals
<1>3. \A s \in Signal : SlotOnRoute(s)'
  BY <1>1, <1>2 DEF RouteInv, SlotOnRoute, SearchesOnRoute
<1>4. stage' = "fused" => \A i \in DOMAIN fused' : fused'[i].chunk \in Heard'
  <2>1. SUFFICES ASSUME stage' = "fused"
                 PROVE  \A i \in DOMAIN fused' : fused'[i].chunk \in Heard'
    OBVIOUS
  <2>2. PICK whole \in Listings(Fused) : fused' = Cut(whole, TopK)
    BY <2>1 DEF Join, JoinWhen, Orders
  <2>3. Heard' = Heard
    BY <1>1 DEF Heard
  <2> QED
    BY <2>2, <2>3, FusionTyped, TopKTyped DEF TypeInv
<1>5. RoutesAreBound' /\ ListsOnRoutes'
  BY <1>1 DEF RouteInv, RoutesAreBound, ListsOnRoutes, OnRoutes
<1> QED
  BY <1>1, <1>3, <1>4, <1>5 DEF RouteInv
LEMMA TakeSingleOnRoutes ==
    ASSUME TypeInv, EverySignalIsHeard, RouteInv, ~request.graph, TakeSingle
    PROVE  RouteInv'
<1> DEFINE bound == IF Routing /\ (~calm \/ Tied(Now)) THEN {<<>>} ELSE {slot["dense"].route}
<1>1. /\ stage = "fused" /\ slot' = NoSlots /\ EndQuery(fused, bound) /\ UNCHANGED <<routes, perRoute>>
      /\ fused \in HitList
  BY DEF TakeSingle, TakeHits, TypeInv
<1>2. OnRoutes(fused, bound)
  BY <1>1, SingleOnRoutes
<1> HIDE DEF bound
<1>3. OnRoutes(fused, binding \cup bound)
  BY <1>2, MoreRoutes
<1>4. /\ OnRoutes(perQuery', binding') /\ OnRoutes(answer', binding') /\ binding \subseteq binding'
      /\ (stage' = "ask" /\ phase' # "route") \/ stage' = "returned"
  BY <1>1, <1>3, EndQueryOnRoutes DEF RouteInv, ListsOnRoutes
<1>5. OnRoutes(perRoute', binding')
  BY <1>1, <1>4, MoreRoutes DEF RouteInv, ListsOnRoutes
<1> QED
  BY <1>1, <1>4, <1>5, EmptyOnRoutes DEF RoutesAreBound, ListsOnRoutes

LEMMA TakeProbeOnRoutes ==
    ASSUME TypeInv, RouteInv, ~request.graph, TakeProbe
    PROVE  RouteInv'
<1>1. stage = "fused" /\ slot' = NoSlots /\ fused \in HitList
  BY DEF TakeProbe, TakeHits, TypeInv
<1>2. CASE EndQuery(fused, {<<>>}) /\ UNCHANGED <<routes, perRoute>>
  <2>1. OnRoutes(fused, {<<>>})
    <3>1. fused \in Seq(Hit)
      BY <1>1 DEF HitList
    <3>2. \A i \in DOMAIN fused : fused[i] \in Hit
      BY <3>1
    <3>3. \A i \in DOMAIN fused : fused[i].chunk \in Chunk
      BY <3>2 DEF Hit
    <3> QED
      BY <3>3, EmptyRoute DEF OnRoutes
  <2>2. OnRoutes(fused, binding \cup {<<>>})
    BY <2>1, MoreRoutes
  <2>3. /\ OnRoutes(perQuery', binding') /\ OnRoutes(answer', binding') /\ binding \subseteq binding'
        /\ (stage' = "ask" /\ phase' # "route") \/ stage' = "returned"
    BY <1>1, <1>2, <2>2, EndQueryOnRoutes DEF RouteInv, ListsOnRoutes
  <2>4. OnRoutes(perRoute', binding')
    BY <1>2, <2>3, MoreRoutes DEF RouteInv, ListsOnRoutes
  <2> QED
    BY <1>1, <2>3, <2>4, EmptyOnRoutes DEF RoutesAreBound, ListsOnRoutes
<1>3. CASE \E list : /\ routes' = Plan(list) /\ perRoute' = <<>> /\ stage' = "ask"
                     /\ binding' = binding \cup {x.path : x \in Range(Plan(list))}
                     /\ UNCHANGED <<perQuery, answer>>
  <2>1. PICK list : /\ routes' = Plan(list) /\ perRoute' = <<>> /\ stage' = "ask"
                    /\ binding' = binding \cup {x.path : x \in Range(Plan(list))}
                    /\ UNCHANGED <<perQuery, answer>>
    BY <1>3
  <2>2. \A i \in DOMAIN routes' : routes'[i].path \in binding'
    BY <2>1 DEF Range
  <2>3. OnRoutes(perRoute', binding')
    BY <2>1 DEF OnRoutes
  <2>4. OnRoutes(perQuery', binding') /\ OnRoutes(answer', binding')
    BY <2>1, MoreRoutes DEF RouteInv, ListsOnRoutes
  <2> QED
    BY <1>1, <2>1, <2>2, <2>3, <2>4, EmptyOnRoutes DEF RoutesAreBound, ListsOnRoutes
<1> QED
  BY <1>2, <1>3 DEF TakeProbe

LEMMA TakeRouteOnRoutes ==
    ASSUME TypeInv, RouteInv, ~request.graph, TakeRoute
    PROVE  RouteInv'
<1>1. stage = "fused" /\ phase = "route" /\ slot' = NoSlots /\ fused \in HitList
  BY DEF TakeRoute, TakeHits, TypeInv
<1>2. routes \in Seq(Planned) \ {<<>>}
  BY <1>1 DEF TypeInv
<1>3. \A i \in DOMAIN routes : routes[i].path \in binding
  BY <1>1 DEF RouteInv, RoutesAreBound
<1>4. Len(routes) \in Nat \ {0}
  BY <1>2, EmptySeq
<1>5. routes[1].path \in binding
  BY <1>2, <1>3, <1>4
<1>6. OnRoutes(fused, binding)
  <2> SUFFICES ASSUME NEW i \in DOMAIN fused
               PROVE  InRoute(fused[i].chunk, routes[1].path)
    BY <1>5 DEF OnRoutes
  <2>1. ~Routing /\ SearchedPath = routes[1].path
    BY <1>1 DEF Routing, SearchedPath
  <2> QED
    BY <1>1, <2>1, FusedHitIsOnRoute DEF SearchesOnRoute
<1>7. PICK hits \in HitList : hits = Boosted(fused)
  BY <1>1, <1>2, BoostedProperties
<1>8. OnRoutes(hits, binding)
  <2>1. DOMAIN hits = DOMAIN fused /\ \A i \in DOMAIN fused : hits[i].chunk = fused[i].chunk
    BY <1>1, <1>2, <1>7, BoostedProperties
  <2> QED
    BY <1>6, <2>1 DEF OnRoutes
<1>9. PICK seen \in Merge(perRoute, hits) : perRoute' = seen
  BY <1>7 DEF TakeRoute
<1>10. seen \in HitList /\ OnRoutes(seen, binding)
  BY <1>8, <1>9, MergeProperties, MergeOnRoutes DEF TypeInv, RouteInv, ListsOnRoutes
<1>11. CASE Len(routes) > 1
  <2>1. stage' = "ask" /\ routes' = Tail(routes) /\ UNCHANGED <<phase, perQuery, answer, binding>>
    BY <1>11 DEF TakeRoute
  <2>2. \A i \in DOMAIN Tail(routes) : i + 1 \in DOMAIN routes /\ Tail(routes)[i] = routes[i + 1]
    BY <1>2, <1>4
  <2>3. RoutesAreBound'
    BY <1>3, <2>1, <2>2 DEF RoutesAreBound
  <2>4. ListsOnRoutes'
    BY <1>9, <1>10, <2>1 DEF RouteInv, ListsOnRoutes
  <2> QED
    BY <1>1, <2>1, <2>3, <2>4, EmptyOnRoutes
<1>12. CASE ~(Len(routes) > 1)
  <2>1. PICK list \in Ranked(seen) : EndQuery(Cut(list, request.topK), {})
    BY <1>9, <1>12 DEF TakeRoute
  <2>2. request.topK \in Nat
    BY RetrievalAssumption DEF TypeInv
  <2>3. list \in HitList
    BY <1>10, <2>1, RankedProperties
  <2>4. PICK best \in HitList : best = Cut(list, request.topK)
    BY <2>2, <2>3, CutHits
  <2>5. OnRoutes(best, binding)
    BY <1>10, <2>1, <2>2, <2>4, AnswerOnRoutes
  <2>6. EndQuery(best, {}) /\ OnRoutes(best, binding \cup {})
    BY <2>1, <2>4, <2>5, MoreRoutes
  <2>7. /\ OnRoutes(perQuery', binding') /\ OnRoutes(answer', binding') /\ binding \subseteq binding'
        /\ (stage' = "ask" /\ phase' # "route") \/ stage' = "returned"
    BY <2>6, EndQueryOnRoutes DEF RouteInv, ListsOnRoutes
  <2>8. OnRoutes(perRoute', binding')
    BY <1>9, <1>10, <2>7, MoreRoutes
  <2> QED
    BY <1>1, <2>7, <2>8, EmptyOnRoutes DEF RoutesAreBound, ListsOnRoutes
<1> QED
  BY <1>11, <1>12

LEMMA RouteStep == TypeInv /\ EverySignalIsHeard /\ RouteInv /\ [Next]_vars => RouteInv'
<1> SUFFICES ASSUME TypeInv, EverySignalIsHeard, RouteInv, [Next]_vars PROVE RouteInv'
  OBVIOUS
<1>1. UNCHANGED request
  BY DEF Next, Run, Caller, vars, Goroutine, SignalFails, Panic, Change, Launch, Join, JoinWhen,
         TakeSingle, TakeProbe, TakeRoute, Route, RouteUnlisted, Search, Link, Fetch, RankByHops, Step
<1>2. CASE request.graph
  BY <1>1, <1>2 DEF RouteInv
<1>3. CASE ~request.graph
  <2>1. CASE UNCHANGED vars
    <3>1. /\ UNCHANGED <<stored, request, stage, turn, phase, routes, fused, slot>>
          /\ UNCHANGED <<perRoute, perQuery, answer, binding, calm>>
      BY <2>1 DEF vars, searchVars
    <3>2. (Routing' <=> Routing) /\ SearchedPath' = SearchedPath /\ Proposals(Now)' = Proposals(Now) /\ Heard' = Heard
      BY <3>1, SameSearch, SameProposals DEF Heard
    <3> QED
      BY <3>1, <3>2 DEF RouteInv, SlotOnRoute, SearchesOnRoute, RoutesAreBound, ListsOnRoutes, OnRoutes
  <2>2. ASSUME NEW s \in Signal, Goroutine(s) \/ SignalFails(s)
        PROVE  RouteInv'
    BY <1>3, <2>2, GoroutineOnRoutes
  <2>3. ASSUME NEW s \in Signal, Panic(s)
        PROVE  RouteInv'
    <3>1. stage' = "crashed" /\ slot' = NoSlots /\ UNCHANGED <<perRoute, perQuery, answer, binding>>
      BY <2>3 DEF Panic
    <3>2. RoutesAreBound' /\ ListsOnRoutes'
      BY <1>3, <3>1 DEF RouteInv, RoutesAreBound, ListsOnRoutes, OnRoutes
    <3> QED
      BY <3>1, <3>2, EmptyOnRoutes
  <2>4. CASE Change
    <3>1. /\ UNCHANGED <<request, stage, turn, phase, routes, fused, slot>> /\ ~calm'
          /\ UNCHANGED <<perRoute, perQuery, answer, binding>>
      BY <2>4 DEF Change, searchVars
    <3>2. (Routing' <=> Routing) /\ SearchedPath' = SearchedPath /\ Heard' = Heard
      BY <3>1, SameSearch DEF Heard
    <3> QED
      BY <1>3, <3>1, <3>2 DEF RouteInv, SlotOnRoute, SearchesOnRoute, RoutesAreBound, ListsOnRoutes, OnRoutes
  <2>5. CASE Launch
    BY <1>3, <2>5, LaunchOnRoutes
  <2>6. CASE Join
    BY <1>3, <2>6, JoinOnRoutes
  <2>7. CASE TakeSingle
    BY <1>3, <2>7, TakeSingleOnRoutes
  <2>8. CASE TakeProbe
    BY <1>3, <2>8, TakeProbeOnRoutes
  <2>9. CASE TakeRoute
    BY <1>3, <2>9, TakeRouteOnRoutes
  <2> QED
    BY <2>1, <2>2, <2>3, <2>4, <2>5, <2>6, <2>7, <2>8, <2>9 DEF Next, Run, Caller
<1> QED
  BY <1>2, <1>3
-----------------------------------------------------------------------------
\* What holds of every retrieval.

\* Every list of hits holds distinct chunks with positive denominators, and every
\* slot what its goroutine may have found, through fusion, plan and merge.
THEOREM RetrievalTypesCorrect == Spec => []TypeInv
  BY TypeInit, TypeStep, PTL DEF Spec

\* reciprocal rank fusion: the score of a hit falls strictly with each rank, so
\* the fused list keeps every order that all of the signals agree on.
THEOREM FusionKeepsAgreedOrder == Spec => []FusionRespectsRanks
<1>1. Init => FusionRespectsRanks
  BY DEF Init, FusionRespectsRanks
<1> QED
  BY <1>1, RetrievalTypesCorrect, FusionStep, PTL DEF Spec

\* The merges of routes and queries: what is returned holds each chunk once, with
\* the best score any query gave it, and leaves out nothing that is better.
THEOREM TheBestIsReturned == Spec => []BestScoresWin
<1>1. Init => BestInv
  <2> SUFFICES ASSUME Init PROVE BestInv
    OBVIOUS
  <2>1. offered = {} /\ perQuery = <<>> /\ stage = "ask" /\ DOMAIN <<>> = {}
    BY DEF Init
  <2> QED
    BY <2>1 DEF BestInv, OfferedAreCovered, BestScoresWin, Range
<1>2. BestInv => BestScoresWin
  BY DEF BestInv
<1> QED
  BY <1>1, <1>2, RetrievalTypesCorrect, BestStep, PTL DEF Spec

\* Routes bind: whatever routes are given, chosen by the signals, or planned for
\* the fan-out, what is returned lies on one of them.
THEOREM RoutesBindTheAnswer == Spec => []HitsStayOnRoute
<1>1. Init => RouteInv
  <2> SUFFICES ASSUME Init PROVE RouteInv
    OBVIOUS
  <2>1. /\ stage = "ask" /\ slot = NoSlots /\ phase # "route" /\ DOMAIN <<>> = {}
        /\ perRoute = <<>> /\ perQuery = <<>> /\ answer = <<>>
    BY DEF Init, FirstPhase
  <2>2. \A s \in Signal : slot[s].at = "off" /\ slot[s].hits = <<>>
    BY <2>1, NoSlotsProperties DEF Off
  <2>3. \A s \in Signal : SlotOnRoute(s)
    BY <2>1, <2>2 DEF SlotOnRoute
  <2>4. RoutesAreBound /\ ListsOnRoutes
    BY <2>1 DEF RoutesAreBound, ListsOnRoutes, OnRoutes
  <2> QED
    BY <2>1, <2>3, <2>4 DEF RouteInv
<1>2. RouteInv => HitsStayOnRoute
  BY DEF RouteInv, ListsOnRoutes, OnRoutes, HitsStayOnRoute
<1> QED
  BY <1>1, <1>2, RetrievalTypesCorrect, SignalsAreAlwaysHeard, RouteStep, PTL DEF Spec
=============================================================================
