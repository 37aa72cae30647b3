-------------------------- MODULE ComputationsProofs --------------------------
(***************************************************************************)
(* What the computations give back, for all their inputs.                  *)
(***************************************************************************)
EXTENDS Computations, FiniteSetTheorems, SequenceTheorems, TLAPS

-----------------------------------------------------------------------------
\* Numbers, orders, iterations and sums.

\* A set of numbers has a smallest one.
LEMMA LeastNumber ==
    ASSUME NEW S \in SUBSET Nat, S # {}
    PROVE  \E x \in S : \A y \in S : x <= y
<1> DEFINE R == {ss \in Nat \X Nat : ss[1] < ss[2]}
<1>1. IsWellFoundedOn(R, Nat)
  BY NatLessThanWellFounded DEF OpToRel
<1>2. PICK x \in S : \A y \in S : ~(<<y, x>> \in R)
  <2> HIDE DEF R
  <2> QED
    BY <1>1, WFMin
<1>3. ASSUME NEW y \in S, y < x
      PROVE  FALSE
  <2>1. <<y, x>> \in Nat \X Nat /\ <<y, x>>[1] < <<y, x>>[2]
    BY <1>3
  <2> QED
    BY <1>2, <2>1
<1> HIDE DEF R
<1> QED
  BY <1>2, <1>3

\* What holds at 0, and at n if it does before n, holds up to N.
LEMMA CountingUp ==
    ASSUME NEW N \in Nat, NEW Holds \in SUBSET (0..N), 0 \in Holds,
           \A n \in 1..N : n - 1 \in Holds => n \in Holds
    PROVE  Holds = 0..N
<1> SUFFICES ASSUME 0..N \ Holds # {} PROVE FALSE
  OBVIOUS
<1>1. (0..N \ Holds) \in SUBSET Nat
  OBVIOUS
<1>2. PICK m \in 0..N \ Holds : \A k \in 0..N \ Holds : m <= k
  BY <1>1, LeastNumber
<1>3. m \in 1..N /\ m - 1 \in 0..N /\ ~(m <= m - 1)
  BY <1>2
<1>4. m - 1 \in Holds
  BY <1>2, <1>3
<1> QED
  BY <1>2, <1>3, <1>4

\* f iterates G on A from a, up to N.
Iterates(f, N, A, a, G) ==
    /\ f \in [0..N -> A]
    /\ f[0] = a
    /\ \A n \in 1..N : f[n] = G[n, f[n - 1]]

\* Iterating a step from a first value gives a function.
LEMMA IterationExists ==
    ASSUME NEW N \in Nat, NEW A, NEW a \in A, NEW G \in [(1..N) \X A -> A]
    PROVE  \E f : Iterates(f, N, A, a, G)
<1> DEFINE Upto(f, m) == /\ f \in [0..m -> A]
                         /\ f[0] = a
                         /\ \A n \in 1..m : f[n] = G[n, f[n - 1]]
           Holds == {m \in 0..N : \E f : Upto(f, m)}
<1>1. 0 \in Holds
  <2> DEFINE h == [n \in 0..0 |-> a]
  <2>1. 0 \in 0..0 /\ 0 \in 0..N /\ 1..0 = {}
    OBVIOUS
  <2>2. h \in [0..0 -> A] /\ h[0] = a
    BY <2>1
  <2> HIDE DEF h
  <2>3. Upto(h, 0)
    BY <2>1, <2>2
  <2> HIDE DEF Upto
  <2> QED
    BY <2>1, <2>3
<1>2. ASSUME NEW m \in 1..N, m - 1 \in Holds
      PROVE  m \in Holds
  <2>1. PICK f : Upto(f, m - 1)
    BY <1>2
  <2>2. m - 1 \in 0..(m - 1) /\ m \in Nat /\ 0 \in 0..(m - 1) /\ m \in 0..N /\ 0 \in 0..m /\ 0 # m
    OBVIOUS
  <2>3. f[m - 1] \in A
    BY <2>1, <2>2
  <2>4. G[m, f[m - 1]] \in A
    BY <2>3
  <2> DEFINE g == [n \in 0..m |-> IF n = m THEN G[m, f[m - 1]] ELSE f[n]]
  <2>5. \A n \in 0..m : n # m => n \in 0..(m - 1)
    BY <2>2
  <2>6. g \in [0..m -> A]
    BY <2>1, <2>4, <2>5
  <2>7. g[0] = a
    BY <2>1, <2>2
  <2>8. ASSUME NEW n \in 1..m
        PROVE  g[n] = G[n, g[n - 1]]
    <3>1. n \in 0..m /\ n - 1 \in 0..m /\ n - 1 # m
      BY <2>2
    <3>2. g[n - 1] = f[n - 1]
      BY <3>1
    <3>3. CASE n = m
      BY <3>1, <3>2, <3>3
    <3>4. CASE n # m
      <4>1. n \in 1..(m - 1)
        BY <2>2, <3>4
      <4>2. f[n] = G[n, f[n - 1]]
        BY <2>1, <4>1
      <4>3. g[n] = f[n]
        BY <3>1, <3>4
      <4> QED
        BY <3>2, <4>2, <4>3
    <3> QED
      BY <3>3, <3>4
  <2> HIDE DEF g
  <2>9. Upto(g, m)
    BY <2>6, <2>7, <2>8
  <2> HIDE DEF Upto
  <2> QED
    BY <2>2, <2>9
<1>3. Holds \in SUBSET (0..N)
  OBVIOUS
<1>4. Holds = 0..N
  <2> HIDE DEF Holds
  <2> QED
    BY <1>1, <1>2, <1>3, CountingUp
<1>5. PICK f : Upto(f, N)
  <2>1. N \in 0..N
    OBVIOUS
  <2> HIDE DEF Upto
  <2> QED
    BY <1>4, <2>1
<1> QED
  BY <1>5 DEF Iterates

\* An iteration stays in a set that its step does not leave.
LEMMA IterationStaysIn ==
    ASSUME NEW N \in Nat, NEW A, NEW f, f[0] \in A,
           \A n \in 1..N : f[n - 1] \in A => f[n] \in A
    PROVE  \A n \in 0..N : f[n] \in A
<1> DEFINE Holds == {n \in 0..N : f[n] \in A}
<1>1. Holds \in SUBSET (0..N) /\ 0 \in Holds
  OBVIOUS
<1>2. \A n \in 1..N : n - 1 \in Holds => n \in Holds
  OBVIOUS
<1>3. Holds = 0..N
  <2> HIDE DEF Holds
  <2> QED
    BY <1>1, <1>2, CountingUp
<1> QED
  BY <1>3

\* R is a strict total order on S.
Orders(R, S) ==
    /\ \A x \in S : <<x, x>> \notin R
    /\ \A x, y, z \in S : <<x, y>> \in R /\ <<y, z>> \in R => <<x, z>> \in R
    /\ \A x, y \in S : x = y \/ <<x, y>> \in R \/ <<y, x>> \in R

\* A list of all elements of S, each once.
Lists(list, S) ==
    /\ list \in [1..Cardinality(S) -> S]
    /\ \A i, j \in 1..Cardinality(S) : list[i] = list[j] => i = j
    /\ \A x \in S : \E i \in 1..Cardinality(S) : list[i] = x

\* What InOrder gives.
Placed(list, R, S) ==
    /\ list = [k \in 1..Cardinality(S) |-> list[k]]
    /\ \A k \in 1..Cardinality(S) :
          list[k] = CHOOSE x \in S : Cardinality({y \in S : <<y, x>> \in R}) = k - 1

\* The elements of a finite set at the places that their predecessors leave them.
LEMMA PlacedInOrder ==
    ASSUME NEW S, IsFiniteSet(S), NEW R, Orders(R, S),
           NEW list,
           Placed(list, R, S)
    PROVE  /\ Lists(list, S)
           /\ \A i, j \in 1..Cardinality(S) : i < j => <<list[i], list[j]>> \in R
<1> DEFINE N        == Cardinality(S)
           Below(x) == {y \in S : <<y, x>> \in R}
           Place     == [x \in S |-> Cardinality(Below(x)) + 1]
<1>1. N \in Nat
  BY FS_CardinalityType
<1>2. ASSUME NEW x \in S
      PROVE  IsFiniteSet(Below(x)) /\ Cardinality(Below(x)) \in 0..(N - 1)
  <2>1. IsFiniteSet(S \ {x}) /\ Cardinality(S \ {x}) = N - 1
    BY FS_RemoveElement
  <2>2. Below(x) \in SUBSET (S \ {x})
    BY DEF Orders
  <2> HIDE DEF Below
  <2>3. IsFiniteSet(Below(x)) /\ Cardinality(Below(x)) <= Cardinality(S \ {x})
    BY <2>1, <2>2, FS_Subset
  <2>4. Cardinality(Below(x)) \in Nat
    BY <2>3, FS_CardinalityType
  <2> QED
    BY <1>1, <2>1, <2>3, <2>4
<1>3. ASSUME NEW x \in S, NEW y \in S, <<x, y>> \in R
      PROVE  Cardinality(Below(x)) < Cardinality(Below(y))
  <2>1. Below(x) \in SUBSET Below(y)
    BY <1>3 DEF Orders
  <2>2. x \in Below(y) /\ x \notin Below(x)
    BY <1>3 DEF Orders
  <2>3. IsFiniteSet(Below(y))
    BY <1>2
  <2>4. Cardinality(Below(x)) \in Int /\ Cardinality(Below(y)) \in Int
    BY <1>1, <1>2
  <2> HIDE DEF Below
  <2>5. /\ Cardinality(Below(x)) <= Cardinality(Below(y))
        /\ Cardinality(Below(x)) = Cardinality(Below(y)) => Below(x) = Below(y)
    BY <2>1, <2>3, FS_Subset
  <2> QED
    BY <2>2, <2>4, <2>5
<1>4. \A x, y \in S : Cardinality(Below(x)) = Cardinality(Below(y)) => x = y
  <2>1. \A x \in S : Cardinality(Below(x)) \in Int
    BY <1>1, <1>2
  <2>2. ASSUME NEW x \in S, NEW y \in S, <<x, y>> \in R
        PROVE  Cardinality(Below(x)) # Cardinality(Below(y))
    <3>1. \A m, n \in Int : m < n => m # n
      OBVIOUS
    <3> HIDE DEF Below
    <3> QED
      BY <1>3, <2>1, <2>2, <3>1
  <2> HIDE DEF Below
  <2> QED
    BY <2>2 DEF Orders
<1>5. Place \in Injection(S, 1..N)
  <2> HIDE DEF Below, N
  <2>1. \A x \in S : Cardinality(Below(x)) + 1 \in 1..N /\ Cardinality(Below(x)) \in Int
    BY <1>1, <1>2
  <2>2. Place \in [S -> 1..N]
    BY <2>1
  <2>3. \A x, y \in S : Place[x] = Place[y] => x = y
    BY <1>4, <2>1
  <2> QED
    BY <2>2, <2>3 DEF Injection, IsInjective
<1>6. Place \in Surjection(S, 1..N)
  <2>1. IsFiniteSet(1..N) /\ Cardinality(1..N) = N
    BY <1>1, FS_Interval
  <2> HIDE DEF Place
  <2> QED
    BY <1>5, <2>1, FS_Injection
<1>7. \A k \in 1..N : \E x \in S : Cardinality(Below(x)) = k - 1
  <2> TAKE k \in 1..N
  <2> HIDE DEF Below
  <2>0. \A x \in S : Place[x] = Cardinality(Below(x)) + 1
    OBVIOUS
  <2> HIDE DEF Place, N
  <2>1. PICK x \in S : Place[x] = k
    BY <1>6 DEF Surjection
  <2>2. Cardinality(Below(x)) \in Int /\ Cardinality(Below(x)) + 1 = k
    BY <1>2, <1>1, <2>0, <2>1
  <2> QED
    BY <2>2
<1>8. \A k \in 1..N : list[k] \in S /\ Cardinality(Below(list[k])) = k - 1
  <2> TAKE k \in 1..N
  <2>1. list[k] = CHOOSE x \in S : Cardinality(Below(x)) = k - 1
    BY DEF Placed
  <2> HIDE DEF Below
  <2> QED
    BY <1>7, <2>1
<1>9. list \in [1..N -> S]
  <2>1. list = [k \in 1..N |-> list[k]]
    BY DEF Placed
  <2> HIDE DEF Below, N
  <2> QED
    BY <1>8, <2>1
<1> HIDE DEF Below
<1>10. ASSUME NEW i \in 1..N, NEW j \in 1..N, list[i] = list[j]
       PROVE  i = j
  <2>1. i - 1 = j - 1
    BY <1>8, <1>10
  <2> QED
    BY <2>1
<1>11. \A x \in S : \E i \in 1..N : list[i] = x
  <2> TAKE x \in S
  <2> DEFINE k == Cardinality(Below(x)) + 1
  <2>1. k \in 1..N /\ k - 1 = Cardinality(Below(x))
    BY <1>1, <1>2
  <2>2. list[k] \in S /\ Cardinality(Below(list[k])) = Cardinality(Below(x))
    BY <1>8, <2>1
  <2> QED
    BY <1>4, <2>1, <2>2
<1>12. ASSUME NEW i \in 1..N, NEW j \in 1..N, i < j
       PROVE  <<list[i], list[j]>> \in R
  <2>1. /\ list[i] \in S /\ Cardinality(Below(list[i])) = i - 1
        /\ list[j] \in S /\ Cardinality(Below(list[j])) = j - 1
    BY <1>8
  <2>2. list[i] # list[j]
    BY <1>10, <1>12
  <2>3. <<list[j], list[i]>> \notin R
    BY <1>1, <1>3, <1>12, <2>1
  <2> QED
    BY <2>1, <2>2, <2>3 DEF Orders
<1> QED
  BY <1>9, <1>10, <1>11, <1>12 DEF Lists

-----------------------------------------------------------------------------
\* Lists of anything.

IsList(s) == \E S : s \in Seq(S)

LEMMA ListFacts ==
    ASSUME NEW s, IsList(s)
    PROVE  /\ Len(s) \in Nat
           /\ DOMAIN s = 1..Len(s)
           /\ s = <<>> <=> Len(s) = 0
<1>1. PICK S : s \in Seq(S)
  BY DEF IsList
<1> QED
  BY <1>1, LenProperties, EmptySeq

LEMMA ListAppend ==
    ASSUME NEW s, IsList(s), NEW x
    PROVE  /\ IsList(Append(s, x))
           /\ Len(Append(s, x)) = Len(s) + 1
           /\ \A i \in 1..Len(s) : Append(s, x)[i] = s[i]
           /\ Append(s, x)[Len(s) + 1] = x
<1>1. PICK S : s \in Seq(S)
  BY DEF IsList
<1>2. s \in Seq(S \cup {x}) /\ x \in S \cup {x}
  BY <1>1, SeqMonotonic
<1> HIDE <1>1
<1> DEFINE T == S \cup {x}
<1> HIDE DEF T
<1>3. s \in Seq(T) /\ x \in T
  BY <1>2 DEF T
<1> QED
  BY <1>3, AppendProperties DEF IsList

LEMMA ListExcept ==
    ASSUME NEW s, IsList(s), NEW n \in 1..Len(s), NEW x
    PROVE  /\ IsList([s EXCEPT ![n] = x])
           /\ Len([s EXCEPT ![n] = x]) = Len(s)
           /\ \A i \in 1..Len(s) : [s EXCEPT ![n] = x][i] = IF i = n THEN x ELSE s[i]
<1>1. PICK S : s \in Seq(S)
  BY DEF IsList
<1>2. s \in Seq(S \cup {x}) /\ x \in S \cup {x}
  BY <1>1, SeqMonotonic
<1> HIDE <1>1
<1> DEFINE T == S \cup {x}
<1> HIDE DEF T
<1>3. s \in Seq(T) /\ x \in T
  BY <1>2 DEF T
<1> QED
  BY <1>3, ExceptSeq DEF IsList

LEMMA ListTail ==
    ASSUME NEW s, IsList(s), s # <<>>
    PROVE  /\ IsList(Tail(s))
           /\ Len(Tail(s)) = Len(s) - 1
           /\ \A i \in 1..Len(Tail(s)) : Tail(s)[i] = s[i + 1]
           /\ Head(s) = s[1]
<1>1. PICK S : s \in Seq(S)
  BY DEF IsList
<1> QED
  BY <1>1, HeadTailProperties DEF IsList

LEMMA ListFront ==
    ASSUME NEW s, IsList(s), s # <<>>
    PROVE  /\ IsList(Front(s))
           /\ Len(Front(s)) = Len(s) - 1
           /\ \A i \in 1..(Len(s) - 1) : Front(s)[i] = s[i]
           /\ Last(s) = s[Len(s)]
<1>1. PICK S : s \in Seq(S)
  BY DEF IsList
<1>2. Len(s) \in Nat \ {0}
  BY ListFacts
<1> DEFINE m == Len(s) - 1
<1>3. /\ m \in Nat /\ 1 \in Int /\ m \in Int /\ m - 1 + 1 = m
      /\ \A i \in 1..m : i \in 1..Len(s)
      /\ IF 1 <= m THEN m # 0 ELSE m = 0
  <2>1. m \in Nat
    BY <1>2
  <2>2. \A i \in 1..m : i \in 1..Len(s)
    BY <1>2
  <2>3. IF 1 <= m THEN m # 0 ELSE m = 0
    <3> HIDE DEF m
    <3> QED
      BY <2>1
  <2>4. m \in Int /\ m - 1 + 1 = m
    <3> HIDE DEF m
    <3> QED
      BY <2>1
  <2> HIDE DEF m
  <2> QED
    BY <2>1, <2>2, <2>3, <2>4
<1>4. \A i \in 1..m : s[i] \in S /\ 1 + i - 1 = i
  BY <1>1, <1>2, ElementOfSeq
<1> HIDE DEF m
<1>5. /\ SubSeq(s, 1, m) \in Seq(S)
      /\ Len(SubSeq(s, 1, m)) = IF 1 <= m THEN m - 1 + 1 ELSE 0
      /\ \A i \in 1..(m - 1 + 1) : SubSeq(s, 1, m)[i] = s[1 + i - 1]
  BY <1>3, <1>4, SubSeqProperties
<1>6. Front(s) = SubSeq(s, 1, m) /\ Last(s) = s[Len(s)]
  BY DEF Front, Last, m
<1>7. Len(Front(s)) = m
  BY <1>3, <1>5, <1>6
<1>8. \A i \in 1..m : Front(s)[i] = s[i]
  BY <1>3, <1>4, <1>5, <1>6
<1> QED
  BY <1>5, <1>6, <1>7, <1>8 DEF IsList, m

\* A function from the numbers up to n is a list of length n.
LEMMA ListOfFunction ==
    ASSUME NEW n \in Nat, NEW S, NEW f \in [1..n -> S]
    PROVE  f \in Seq(S) /\ Len(f) = n /\ IsList(f)
<1>1. f \in Seq(S)
  BY SeqDef
<1>2. 1..Len(f) = 1..n /\ Len(f) \in Nat
  BY <1>1, LenProperties
<1>3. Len(f) = n
  BY <1>2
<1> QED
  BY <1>1, <1>3 DEF IsList

-----------------------------------------------------------------------------
\* The paths between the seeds.  What the operators of Paths say of the
\* neighborhood is said here of any one, g.

EndsIn(g, r) == {g.relations[r].source, g.relations[r].target}

\* The edges of g at an entity.
EdgesIn(g, e) ==
    {x \in g.entities \X DOMAIN g.relations :
        /\ LET rel == g.relations[x[2]]
           IN  rel.source # rel.target /\ {rel.source, rel.target} \subseteq g.entities
        /\ EndsIn(g, x[2]) = {e, x[1]}}

\* A way of n relations from an entity, that visits no entity twice.
IsWalk(g, p, n, from) ==
    /\ p = [entities |-> p.entities, relations |-> p.relations]
    /\ p.entities \in [1..(n + 1) -> g.entities]
    /\ p.relations \in [1..n -> DOMAIN g.relations]
    /\ p.entities[1] = from
    /\ IsInjective(p.entities)
    /\ \A i \in 1..n : {p.entities[i], p.entities[i + 1]} = EndsIn(g, p.relations[i])

\* A simple path that connects a pair.
Connects(g, p, q) ==
    \E n \in 1..MaxPathLen : IsWalk(g, p, n, q[1]) /\ p.entities[n + 1] = q[2]

\* Two ways are one up to the d-th entity.
Agree(p, q, d) ==
    /\ \A i \in 1..d : p.entities[i] = q.entities[i]
    /\ \A i \in 1..(d - 1) : p.relations[i] = q.relations[i]

\* p goes on from the path of the d-th call over one of the edges left there.
AwaitedAt(c, d, p) ==
    /\ d \in DOMAIN p.relations
    /\ Agree(p, c.path, d)
    /\ <<p.entities[d + 1], p.relations[d]>> \in Range(c.edges)

Pending(st, p) == \E d \in 1..Len(st) : AwaitedAt(st[d], d, p)

\* What the d-th call of enumPaths holds.
CallOf(g, c, d, q) ==
    /\ c = [path |-> c.path, edges |-> c.edges]
    /\ IsWalk(g, c.path, d - 1, q[1])
    /\ \A i \in 1..d : c.path.entities[i] # q[2]
    /\ c.edges \in Seq(EdgesIn(g, c.path.entities[d]))
    /\ IsInjective(c.edges)
    /\ c.edges # <<>> => d <= MaxPathLen

\* A path that went on from the e-th call, over an edge that is not left there.
Beyond(p, c, e) ==
    /\ Agree(p, c.path, e)
    /\ <<p.entities[e + 1], p.relations[e]>> \notin Range(c.edges)

StackOf(g, st, pr, vis) ==
    /\ IsList(st)
    /\ st # <<>> =>
        /\ pr # <<>>
        /\ pr[1][1] \in g.entities /\ pr[1][2] \in g.entities /\ pr[1][1] # pr[1][2]
        /\ \A d \in 1..Len(st) : CallOf(g, st[d], d, pr[1])
        /\ \A d \in 1..Len(st) : \A e \in 1..(d - 1) : Beyond(st[d].path, st[e], e)
        /\ vis = Range(st[Len(st)].path.entities)

\* The pairs of seeds, and of those that are in the neighborhood.
AllPairs(g)  == {p \in g.seeds \X g.seeds : p[1] < p[2]}
Connected(g) == {p \in AllPairs(g) : p[1] \in g.entities /\ p[2] \in g.entities}

PairsOf(g, pr) == pr \in Seq(AllPairs(g)) /\ IsInjective(pr)

\* What is found connects a pair, that is done or under way; there the search is
\* past it.
Rightly(g, p, pr, st) ==
    \E q \in Connected(g) :
        /\ Connects(g, p, q)
        /\ q \in Range(pr) => st # <<>> /\ q = pr[1] /\ ~Pending(st, p)

\* Every path of the pairs that are done is found, and of the present pair those
\* that no edge left leads to; nothing is found twice.
FoundOf(g, fnd, pr, st) ==
    /\ IsList(fnd) /\ IsInjective(fnd)
    /\ \A i \in 1..Len(fnd) : Rightly(g, fnd[i], pr, st)
    /\ \A q \in Connected(g) : q \notin Range(pr) =>
          \A p : Connects(g, p, q) => p \in Range(fnd)
    /\ st # <<>> => \A p : Connects(g, p, pr[1]) => p \in Range(fnd) \/ Pending(st, p)

\* The paths ranked are those that connect the pairs, each once.
Complete(g, fnd) ==
    /\ \A p : p \in Range(fnd) <=> \E q \in Connected(g) : Connects(g, p, q)
    /\ IsInjective(fnd)

PathInv ==
    /\ ranker \in {"idle", "search", "ranked"}
    /\ ranker = "idle" => pairs = <<>> /\ stack = <<>> /\ found = <<>>
    /\ ranker = "search" =>
        /\ subgraph \in PathInputs
        /\ PairsOf(subgraph, pairs)
        /\ StackOf(subgraph, stack, pairs, visited)
        /\ FoundOf(subgraph, found, pairs, stack)
    /\ ranker = "ranked" => stack = <<>> /\ Complete(subgraph, found)

LEMMA EdgesAtIn == ASSUME NEW e PROVE EdgesAt(e) = EdgesIn(subgraph, e)
  BY DEF EdgesAt, EdgesIn, Edge, Ends, EndsIn

\* Facts about the neighborhoods handed in.
IsNeighborhood(g) ==
    /\ g.entities \subseteq Nat /\ g.seeds \subseteq Nat
    /\ IsFiniteSet(g.seeds)
    /\ IsList(g.relations)
    /\ \A r \in DOMAIN g.relations : g.relations[r].source \in Nat /\ g.relations[r].target \in Nat

LEMMA InputsAreNeighborhoods ==
    ASSUME NEW g \in PathInputs PROVE IsNeighborhood(g)
<1>1. g.relations \in Seq(Range(g.relations))
  BY PathAssumption
<1>2. IsList(g.relations)
  BY <1>1 DEF IsList
<1> QED
  BY <1>2, PathAssumption DEF IsNeighborhood

\* What simple paths are.
LEMMA SimplePathsConnect ==
    ASSUME NEW q, MaxPathLen \in Nat
    PROVE  \A p : p \in SimplePaths(q[1], q[2]) <=> Connects(subgraph, p, q)
<1> TAKE p
<1> DEFINE ofLength(n) ==
            {x \in [entities  : [1..(n + 1) -> subgraph.entities],
                    relations : [1..n -> DOMAIN subgraph.relations]] :
                /\ x.entities[1] = q[1] /\ x.entities[n + 1] = q[2]
                /\ IsInjective(x.entities)
                /\ \A i \in 1..n :
                      LET rel == subgraph.relations[x.relations[i]]
                      IN  {x.entities[i], x.entities[i + 1]} = {rel.source, rel.target}}
<1>1. SimplePaths(q[1], q[2]) = UNION {ofLength(n) : n \in 1..MaxPathLen}
  BY DEF SimplePaths
<1>2. ASSUME NEW n \in 1..MaxPathLen
      PROVE  p \in ofLength(n) <=> IsWalk(subgraph, p, n, q[1]) /\ p.entities[n + 1] = q[2]
  <2>1. p \in ofLength(n) => IsWalk(subgraph, p, n, q[1]) /\ p.entities[n + 1] = q[2]
    <3> SUFFICES ASSUME p \in ofLength(n) PROVE IsWalk(subgraph, p, n, q[1]) /\ p.entities[n + 1] = q[2]
      OBVIOUS
    <3>1. \A i \in 1..n : {p.entities[i], p.entities[i + 1]} = EndsIn(subgraph, p.relations[i])
      BY DEF EndsIn
    <3> QED
      BY <3>1 DEF IsWalk
  <2>2. IsWalk(subgraph, p, n, q[1]) /\ p.entities[n + 1] = q[2] => p \in ofLength(n)
    <3> SUFFICES ASSUME IsWalk(subgraph, p, n, q[1]), p.entities[n + 1] = q[2]
                 PROVE  p \in ofLength(n)
      OBVIOUS
    <3>1. p \in [entities  : [1..(n + 1) -> subgraph.entities],
                 relations : [1..n -> DOMAIN subgraph.relations]]
      BY DEF IsWalk
    <3>2. \A i \in 1..n :
             LET rel == subgraph.relations[p.relations[i]]
             IN  {p.entities[i], p.entities[i + 1]} = {rel.source, rel.target}
      BY DEF IsWalk, EndsIn
    <3> QED
      BY <3>1, <3>2 DEF IsWalk
  <2> QED
    BY <2>1, <2>2
<1> HIDE DEF ofLength
<1> QED
  BY <1>1, <1>2 DEF Connects

LEMMA PairsInOrder ==
    ASSUME NEW S, IsFiniteSet(S), S \subseteq Nat \X Nat
    PROVE  Lists(InOrder(S, PairBefore), S)
<1> DEFINE R == {z \in S \X S : PairBefore(z[1], z[2])}
           list == InOrder(S, PairBefore)
<1>1. Orders(R, S)
  <2>1. \A x, y \in S : <<x, y>> \in R <=> PairBefore(x, y)
    OBVIOUS
  <2>2. \A x \in S : x = <<x[1], x[2]>> /\ x[1] \in Nat /\ x[2] \in Nat
    OBVIOUS
  <2> HIDE DEF R
  <2>3. \A x \in S : ~PairBefore(x, x)
    BY <2>2 DEF PairBefore
  <2>4. ASSUME NEW x \in S, NEW y \in S, NEW z \in S, PairBefore(x, y), PairBefore(y, z)
        PROVE  PairBefore(x, z)
    BY <2>2, <2>4 DEF PairBefore
  <2>5. ASSUME NEW x \in S, NEW y \in S, x # y
        PROVE  PairBefore(x, y) \/ PairBefore(y, x)
    <3>1. x[1] # y[1] \/ x[2] # y[2]
      BY <2>2, <2>5
    <3> QED
      BY <2>2, <3>1 DEF PairBefore
  <2> QED
    BY <2>1, <2>3, <2>4, <2>5 DEF Orders
<1>2. \A k \in 1..Cardinality(S) :
         list[k] = CHOOSE x \in S : Cardinality({y \in S : <<y, x>> \in R}) = k - 1
  <2>1. \A x \in S : {y \in S : PairBefore(y, x)} = {y \in S : <<y, x>> \in R}
    OBVIOUS
  <2>2. \A k \in 1..Cardinality(S) :
           (CHOOSE x \in S : Cardinality({y \in S : PairBefore(y, x)}) = k - 1)
         = (CHOOSE x \in S : Cardinality({y \in S : <<y, x>> \in R}) = k - 1)
    BY <2>1
  <2>3. \A k \in 1..Cardinality(S) :
           list[k] = CHOOSE x \in S : Cardinality({y \in S : PairBefore(y, x)}) = k - 1
    BY DEF InOrder
  <2> HIDE DEF list, R
  <2> QED
    BY <2>2, <2>3
<1>3. list = [k \in 1..Cardinality(S) |-> list[k]]
  BY DEF InOrder
<1> HIDE DEF R, list
<1>4. Placed(list, R, S)
  BY <1>2, <1>3 DEF Placed
<1>5. Lists(list, S)
  BY <1>1, <1>4, PlacedInOrder
<1> QED
  BY <1>5 DEF list

\* What lists the elements of a set is a list of them, without repetition.
LEMMA ListsProperties ==
    ASSUME NEW S, IsFiniteSet(S), NEW list, Lists(list, S)
    PROVE  /\ list \in Seq(S) /\ IsList(list) /\ Len(list) = Cardinality(S)
           /\ IsInjective(list) /\ Range(list) = S
<1>1. Cardinality(S) \in Nat
  BY FS_CardinalityType
<1>2. list \in [1..Cardinality(S) -> S]
  BY DEF Lists
<1>3. list \in Seq(S) /\ IsList(list) /\ Len(list) = Cardinality(S)
  BY <1>1, <1>2, ListOfFunction
<1>4. IsInjective(list) /\ Range(list) = S
  BY <1>2 DEF Lists, IsInjective, Range
<1> QED
  BY <1>3, <1>4

LEMMA EdgesAreFinite ==
    ASSUME NEW g, IsNeighborhood(g), NEW e
    PROVE  IsFiniteSet(EdgesIn(g, e)) /\ EdgesIn(g, e) \subseteq Nat \X Nat
<1> DEFINE E == EdgesIn(g, e)
           D == DOMAIN g.relations
           f == [x \in E |-> x[2]]
<1>1. D = 1..Len(g.relations) /\ Len(g.relations) \in Nat
  BY ListFacts DEF IsNeighborhood
<1>2. IsFiniteSet(D)
  BY <1>1, FS_Interval
<1>3. \A x \in E : /\ x = <<x[1], x[2]>> /\ x[1] \in g.entities /\ x[2] \in D
                   /\ g.relations[x[2]].source # g.relations[x[2]].target
                   /\ EndsIn(g, x[2]) = {e, x[1]}
  BY DEF EdgesIn
<1> HIDE DEF E
<1>4. \A x \in E : x[1] # e
  BY <1>3 DEF EndsIn
<1>5. ASSUME NEW x \in E, NEW y \in E, x[2] = y[2]
      PROVE  x = y
  <2>1. {e, x[1]} = {e, y[1]}
    BY <1>3, <1>5
  <2>2. x[1] = y[1]
    BY <1>4, <2>1
  <2> QED
    BY <1>3, <1>5, <2>2
<1>6. f \in Injection(E, D)
  BY <1>3, <1>5 DEF Injection, IsInjective
<1> HIDE DEF f, D
<1>7. IsFiniteSet(E)
  BY <1>2, <1>6, FS_Injection
<1>8. E \subseteq Nat \X Nat
  <2>1. D \subseteq Nat
    BY <1>1
  <2> QED
    BY <1>3, <2>1 DEF IsNeighborhood
<1> QED
  BY <1>7, <1>8 DEF E

\* The calls of enumPaths start with every edge of the entity they are at.
LEMMA CallEdges ==
    ASSUME NEW g, IsNeighborhood(g), subgraph = g, NEW p, NEW e, Last(p.entities) = e
    PROVE  LET c == Call(p)
           IN  /\ c = [path |-> p, edges |-> c.edges]
               /\ c.edges \in Seq(EdgesIn(g, e)) /\ IsInjective(c.edges)
               /\ IF Len(p.relations) >= MaxPathLen THEN c.edges = <<>>
                  ELSE Range(c.edges) = EdgesIn(g, e)
<1> DEFINE c == Call(p)
<1>1. c.path = p /\ c.edges = (IF Len(p.relations) >= MaxPathLen THEN <<>> ELSE InOrder(EdgesIn(g, e), PairBefore))
      /\ c = [path |-> c.path, edges |-> c.edges]
  BY EdgesAtIn DEF Call, Adjacent
<1> HIDE DEF c
<1>2. CASE Len(p.relations) >= MaxPathLen
  <2>1. DOMAIN <<>> = {}
    OBVIOUS
  <2>2. <<>> \in Seq(EdgesIn(g, e)) /\ IsInjective(<<>>)
    BY <2>1, EmptySeq DEF IsInjective
  <2> QED
    BY <1>1, <1>2, <2>2 DEF c
<1>3. CASE ~(Len(p.relations) >= MaxPathLen)
  <2>1. Lists(InOrder(EdgesIn(g, e), PairBefore), EdgesIn(g, e))
    BY EdgesAreFinite, PairsInOrder
  <2> DEFINE list == InOrder(EdgesIn(g, e), PairBefore)
  <2> HIDE DEF list
  <2>2. Lists(list, EdgesIn(g, e)) /\ c.edges = list
    BY <1>1, <1>3, <2>1 DEF list
  <2>3. list \in Seq(EdgesIn(g, e)) /\ IsInjective(list) /\ Range(list) = EdgesIn(g, e)
    BY <2>2, EdgesAreFinite, ListsProperties
  <2> QED
    BY <1>1, <1>3, <2>2, <2>3 DEF c
<1> QED
  BY <1>2, <1>3

\* A relation on the way is an edge there.
LEMMA WalkEdge ==
    ASSUME NEW g, NEW p, NEW n \in Nat, NEW from, IsWalk(g, p, n, from), NEW i \in 1..n
    PROVE  <<p.entities[i + 1], p.relations[i]>> \in EdgesIn(g, p.entities[i])
<1> DEFINE a == p.entities[i]
           b == p.entities[i + 1]
           r == p.relations[i]
<1>1. i \in 1..(n + 1) /\ i + 1 \in 1..(n + 1) /\ i # i + 1
  OBVIOUS
<1>2. a \in g.entities /\ b \in g.entities /\ a # b /\ r \in DOMAIN g.relations
  BY <1>1 DEF IsWalk, IsInjective
<1>3. {a, b} = EndsIn(g, r)
  BY DEF IsWalk
<1> HIDE DEF a, b, r
<1>4. g.relations[r].source # g.relations[r].target
      /\ {g.relations[r].source, g.relations[r].target} \subseteq g.entities
  BY <1>2, <1>3 DEF EndsIn
<1>5. <<b, r>> \in EdgesIn(g, a)
  BY <1>2, <1>3, <1>4 DEF EdgesIn
<1> QED
  BY <1>5 DEF a, b, r

\* A way continued over an edge.
Continued(p, x) ==
    [entities  |-> Append(p.entities, x[1]), relations |-> Append(p.relations, x[2])]

LeadsOn(g, p, n, from, x) ==
    /\ IsWalk(g, Continued(p, x), n + 1, from)
    /\ Len(Continued(p, x).relations) = n + 1
    /\ Last(Continued(p, x).entities) = x[1]
    /\ \A i \in 1..(n + 1) : Continued(p, x).entities[i] = p.entities[i]
    /\ \A i \in 1..n : Continued(p, x).relations[i] = p.relations[i]
    /\ Continued(p, x).entities[n + 2] = x[1]
    /\ Continued(p, x).relations[n + 1] = x[2]
    /\ Range(Continued(p, x).entities) = Range(p.entities) \cup {x[1]}

LEMMA WalkContinues ==
    ASSUME NEW g, NEW p, NEW n \in Nat, NEW from, IsWalk(g, p, n, from),
           NEW x \in EdgesIn(g, p.entities[n + 1]), x[1] \notin Range(p.entities)
    PROVE  LeadsOn(g, p, n, from, x)
<1> DEFINE es == p.entities
           rs == p.relations
           es2 == Append(es, x[1])
           rs2 == Append(rs, x[2])
<1>1. /\ es \in [1..(n + 1) -> g.entities] /\ rs \in [1..n -> DOMAIN g.relations]
      /\ IsInjective(es) /\ es[1] = from
  BY DEF IsWalk
<1>2. \A i \in 1..n : {es[i], es[i + 1]} = EndsIn(g, rs[i])
  BY DEF IsWalk
<1>3. x[1] \in g.entities /\ x[2] \in DOMAIN g.relations /\ EndsIn(g, x[2]) = {es[n + 1], x[1]}
  BY DEF EdgesIn
<1>4. Continued(p, x) = [entities |-> es2, relations |-> rs2]
  BY DEF Continued
<1>5. x[1] \notin Range(es)
  OBVIOUS
<1> HIDE DEF es, rs
<1>6. es \in Seq(g.entities) /\ Len(es) = n + 1 /\ rs \in Seq(DOMAIN g.relations) /\ Len(rs) = n
  <2>1. n + 1 \in Nat
    OBVIOUS
  <2> QED
    BY <1>1, <2>1, ListOfFunction
<1>7. /\ es2 \in Seq(g.entities) /\ Len(es2) = n + 2
      /\ \A i \in 1..(n + 1) : es2[i] = es[i]
      /\ es2[n + 2] = x[1]
  <2>1. /\ es2 \in Seq(g.entities) /\ Len(es2) = (n + 1) + 1
        /\ \A i \in 1..(n + 1) : es2[i] = es[i]
        /\ es2[(n + 1) + 1] = x[1]
    <3> DEFINE S == g.entities
               y == x[1]
    <3>1. /\ es2 \in Seq(S) /\ Len(es2) = Len(es) + 1
          /\ \A i \in 1..Len(es) : es2[i] = es[i]
          /\ es2[Len(es) + 1] = y
      <4>1. es \in Seq(S) /\ y \in S /\ es2 = Append(es, y)
        BY <1>3, <1>6
      <4> HIDE DEF S, y, es2
      <4>2. /\ Append(es, y) \in Seq(S) /\ Len(Append(es, y)) = Len(es) + 1
            /\ \A i \in 1..Len(es) : Append(es, y)[i] = es[i]
            /\ Append(es, y)[Len(es) + 1] = y
        BY <4>1, AppendProperties
      <4> QED
        BY <4>1, <4>2
    <3> HIDE DEF es2
    <3> QED
      BY <1>6, <3>1
  <2>2. (n + 1) + 1 = n + 2
    OBVIOUS
  <2> QED
    BY <2>1, <2>2
<1>8. /\ rs2 \in Seq(DOMAIN g.relations) /\ Len(rs2) = n + 1
      /\ \A i \in 1..n : rs2[i] = rs[i]
      /\ rs2[n + 1] = x[2]
  <2>1. /\ rs2 \in Seq(DOMAIN g.relations) /\ Len(rs2) = Len(rs) + 1
        /\ \A i \in 1..Len(rs) : rs2[i] = rs[i]
        /\ rs2[Len(rs) + 1] = x[2]
    <3> DEFINE S == DOMAIN g.relations
               y == x[2]
    <3>1. /\ rs2 \in Seq(S) /\ Len(rs2) = Len(rs) + 1
          /\ \A i \in 1..Len(rs) : rs2[i] = rs[i]
          /\ rs2[Len(rs) + 1] = y
      <4>1. rs \in Seq(S) /\ y \in S /\ rs2 = Append(rs, y)
        BY <1>3, <1>6
      <4> HIDE DEF S, y, rs2
      <4>2. /\ Append(rs, y) \in Seq(S) /\ Len(Append(rs, y)) = Len(rs) + 1
            /\ \A i \in 1..Len(rs) : Append(rs, y)[i] = rs[i]
            /\ Append(rs, y)[Len(rs) + 1] = y
        BY <4>1, AppendProperties
      <4> QED
        BY <4>1, <4>2
    <3> QED
      BY <3>1
  <2> HIDE DEF rs2
  <2> QED
    BY <1>6, <2>1
<1> HIDE DEF es2, rs2
<1>9. es2 \in [1..(n + 2) -> g.entities] /\ rs2 \in [1..(n + 1) -> DOMAIN g.relations]
  BY <1>7, <1>8, LenProperties
<1>10. ASSUME NEW i \in 1..(n + 2), NEW j \in 1..(n + 2), es2[i] = es2[j]
       PROVE  i = j
  <2>1. \A k \in 1..(n + 1) : es[k] # x[1]
    BY <1>1, <1>5 DEF Range
  <2>2. (i = n + 2 \/ i \in 1..(n + 1)) /\ (j = n + 2 \/ j \in 1..(n + 1))
    OBVIOUS
  <2>3. CASE i = n + 2
    BY <1>7, <1>10, <2>1, <2>2, <2>3
  <2>4. CASE j = n + 2
    BY <1>7, <1>10, <2>1, <2>2, <2>4
  <2>5. CASE i \in 1..(n + 1) /\ j \in 1..(n + 1)
    BY <1>1, <1>7, <1>10, <2>5 DEF IsInjective
  <2> QED
    BY <2>2, <2>3, <2>4, <2>5
<1>11. IsInjective(es2)
  BY <1>9, <1>10 DEF IsInjective
<1>12. ASSUME NEW i \in 1..(n + 1)
       PROVE  {es2[i], es2[i + 1]} = EndsIn(g, rs2[i])
  <2>1. CASE i = n + 1
    <3>1. i + 1 = n + 2
      BY <2>1
    <3>2. es2[i] = es[n + 1] /\ es2[i + 1] = x[1] /\ rs2[i] = x[2]
      BY <1>7, <1>8, <2>1, <3>1
    <3> QED
      BY <1>3, <3>2
  <2>2. CASE i # n + 1
    <3>1. i \in 1..n /\ i \in 1..(n + 1) /\ i + 1 \in 1..(n + 1)
      BY <2>2
    <3>2. es2[i] = es[i] /\ es2[i + 1] = es[i + 1] /\ rs2[i] = rs[i]
      BY <1>7, <1>8, <3>1
    <3> QED
      BY <1>2, <3>1, <3>2
  <2> QED
    BY <2>1, <2>2
<1>13. es2[1] = from
  BY <1>1, <1>7
<1>14. IsWalk(g, Continued(p, x), n + 1, from)
  <2>1. (n + 1) + 1 = n + 2
    OBVIOUS
  <2> QED
    BY <1>4, <1>9, <1>11, <1>12, <1>13, <2>1 DEF IsWalk
<1>15. Range(es2) = Range(es) \cup {x[1]}
  <2>1. \A i \in 1..(n + 2) : i = n + 2 \/ i \in 1..(n + 1)
    OBVIOUS
  <2>2. \A i \in 1..(n + 1) : i \in 1..(n + 2)
    OBVIOUS
  <2>3. n + 2 \in 1..(n + 2)
    OBVIOUS
  <2> QED
    BY <1>1, <1>7, <1>9, <2>1, <2>2, <2>3 DEF Range
<1>16. Last(es2) = x[1]
  BY <1>7 DEF Last
<1> QED
  BY <1>4, <1>7, <1>8, <1>14, <1>15, <1>16 DEF es, rs, LeadsOn

LEMMA SameFunction ==
    ASSUME NEW D, NEW S, NEW f \in [D -> S], NEW h \in [D -> S], \A x \in D : f[x] = h[x]
    PROVE  f = h
  OBVIOUS

\* A way that reaches the goal of another one on its way is that one.
LEMMA ArrivesOnce ==
    ASSUME NEW g, NEW from, NEW to, NEW p, NEW n \in Nat, NEW r, NEW m \in Nat,
           IsWalk(g, p, n, from), p.entities[n + 1] = to,
           IsWalk(g, r, m, from), r.entities[m + 1] = to,
           m <= n, Agree(p, r, m + 1)
    PROVE  p = r
<1>1. m + 1 \in 1..(n + 1) /\ n + 1 \in 1..(n + 1) /\ m + 1 \in 1..(m + 1)
  OBVIOUS
<1>2. p.entities[m + 1] = r.entities[m + 1]
  BY <1>1 DEF Agree
<1>3. m + 1 = n + 1
  BY <1>1, <1>2 DEF IsWalk, IsInjective
<1>4. m = n /\ (m + 1) - 1 = m
  BY <1>3
<1>5. \A i \in 1..(n + 1) : p.entities[i] = r.entities[i]
  BY <1>4 DEF Agree
<1>6. \A i \in 1..n : p.relations[i] = r.relations[i]
  BY <1>4 DEF Agree
<1>7. p.entities = r.entities
  <2>1. p.entities \in [1..(n + 1) -> g.entities] /\ r.entities \in [1..(n + 1) -> g.entities]
    BY <1>4 DEF IsWalk
  <2> QED
    BY <1>5, <2>1, SameFunction
<1>8. p.relations = r.relations
  <2>1. p.relations \in [1..n -> DOMAIN g.relations] /\ r.relations \in [1..n -> DOMAIN g.relations]
    BY <1>4 DEF IsWalk
  <2> QED
    BY <1>6, <2>1, SameFunction
<1> QED
  BY <1>7, <1>8 DEF IsWalk

\* A path connects one pair.
LEMMA ConnectsOne ==
    ASSUME NEW g, NEW p, NEW q \in AllPairs(g), NEW r \in AllPairs(g), MaxPathLen \in Nat,
           Connects(g, p, q), Connects(g, p, r)
    PROVE  q = r
<1>1. PICK n \in 1..MaxPathLen : IsWalk(g, p, n, q[1]) /\ p.entities[n + 1] = q[2]
  BY DEF Connects
<1>2. PICK m \in 1..MaxPathLen : IsWalk(g, p, m, r[1]) /\ p.entities[m + 1] = r[2]
  BY DEF Connects
<1>3. DOMAIN p.relations = 1..n /\ DOMAIN p.relations = 1..m
  BY <1>1, <1>2 DEF IsWalk
<1>4. n = m
  BY <1>3
<1>5. q[1] = r[1] /\ q[2] = r[2]
  BY <1>1, <1>2, <1>4 DEF IsWalk
<1>6. q = <<q[1], q[2]>> /\ r = <<r[1], r[2]>>
  BY DEF AllPairs
<1> QED
  BY <1>5, <1>6

\* p goes over edge x from where the way of d - 1 relations is.
Through(p, walked, d, x) ==
    /\ d \in DOMAIN p.relations
    /\ Agree(p, walked, d)
    /\ p.entities[d + 1] = x[1] /\ p.relations[d] = x[2]

\* The stack with the first edge of the last call taken.
Taken(st) == [st EXCEPT ![Len(st)].edges = Tail(@)]

\* What is left of an injective list after its first element.
LEMMA TailLeaves ==
    ASSUME NEW S, NEW s \in Seq(S), s # <<>>, IsInjective(s)
    PROVE  /\ Head(s) \in S /\ Head(s) \in Range(s) /\ Head(s) = s[1]
           /\ Tail(s) \in Seq(S)
           /\ IsInjective(Tail(s))
           /\ \A x : x \in Range(s) <=> x = Head(s) \/ x \in Range(Tail(s))
           /\ Head(s) \notin Range(Tail(s))
<1>1. Len(s) \in Nat \ {0} /\ DOMAIN s = 1..Len(s)
  BY EmptySeq, LenProperties
<1>2. /\ Tail(s) \in Seq(S) /\ Len(Tail(s)) = Len(s) - 1
      /\ \A i \in 1..Len(Tail(s)) : Tail(s)[i] = s[i + 1]
      /\ Head(s) = s[1] /\ Head(s) \in S
  BY HeadTailProperties
<1> DEFINE t == Tail(s)
           n == Len(s)
<1>3. DOMAIN t = 1..(n - 1) /\ t \in Seq(S)
  <2>1. DOMAIN t = 1..Len(t)
    BY <1>2, LenProperties
  <2> QED
    BY <1>2, <2>1
<1>4. \A i \in 1..(n - 1) : t[i] = s[i + 1] /\ i + 1 \in 1..n /\ i + 1 # 1
  BY <1>1, <1>2
<1>5. \A i \in 1..n : i = 1 \/ (i - 1 \in 1..(n - 1) /\ (i - 1) + 1 = i)
  BY <1>1
<1>6. n \in Nat \ {0} /\ DOMAIN s = 1..n /\ 1 \in 1..n /\ Head(s) = s[1] /\ Head(s) \in S
  BY <1>1, <1>2
<1> HIDE DEF t, n
<1>7. IsInjective(t)
  <2> SUFFICES ASSUME NEW i \in 1..(n - 1), NEW j \in 1..(n - 1), t[i] = t[j] PROVE i = j
    BY <1>3 DEF IsInjective
  <2>1. i + 1 = j + 1
    BY <1>4, <1>6 DEF IsInjective
  <2> QED
    BY <2>1
<1>8. ASSUME NEW x
      PROVE  x \in Range(s) <=> x = Head(s) \/ x \in Range(t)
  <2>1. ASSUME x \in Range(s)
        PROVE  x = Head(s) \/ x \in Range(t)
    <3>1. PICK i \in 1..n : s[i] = x
      BY <1>6, <2>1 DEF Range
    <3>2. CASE i = 1
      BY <1>6, <3>1, <3>2
    <3>3. CASE i # 1
      <4>1. i - 1 \in 1..(n - 1) /\ t[i - 1] = s[i]
        BY <1>4, <1>5, <3>3
      <4> QED
        BY <1>3, <3>1, <4>1 DEF Range
    <3> QED
      BY <3>2, <3>3
  <2>2. ASSUME x \in Range(t)
        PROVE  x \in Range(s)
    BY <1>3, <1>4, <1>6, <2>2 DEF Range
  <2>3. Head(s) \in Range(s)
    BY <1>6 DEF Range
  <2> QED
    BY <2>1, <2>2, <2>3
<1>9. Head(s) \notin Range(t)
  <2> SUFFICES ASSUME NEW i \in 1..(n - 1), t[i] = s[1] PROVE FALSE
    BY <1>3, <1>6 DEF Range
  <2> QED
    BY <1>4, <1>6 DEF IsInjective
<1> QED
  BY <1>2, <1>6, <1>7, <1>8, <1>9 DEF t, Range

LEMMA EdgeTaken ==
    ASSUME NEW g, NEW st, NEW pr, NEW vis, StackOf(g, st, pr, vis),
           st # <<>>, st[Len(st)].edges # <<>>
    PROVE  LET x    == Head(st[Len(st)].edges)
               walked == st[Len(st)].path
               d    == Len(st)
           IN  /\ StackOf(g, Taken(st), pr, vis)
               /\ Len(Taken(st)) = d
               /\ Taken(st)[d].path = walked
               /\ Taken(st) # <<>>
               /\ x \notin Range(Taken(st)[d].edges)
               /\ \A p : Pending(Taken(st), p) => Pending(st, p)
               /\ \A p : Pending(st, p) => Pending(Taken(st), p) \/ Through(p, walked, d, x)
               /\ \A p : Through(p, walked, d, x) => Pending(st, p) /\ ~Pending(Taken(st), p)
<1> DEFINE d    == Len(st)
           c    == st[d]
           x    == Head(c.edges)
           walked == c.path
           left == Tail(c.edges)
           back == Taken(st)
           E    == EdgesIn(g, walked.entities[d])
<1>1. IsList(st) /\ d \in Nat \ {0} /\ d \in 1..d /\ DOMAIN st = 1..d
  BY ListFacts DEF StackOf
<1>2. /\ \A e \in 1..d : CallOf(g, st[e], e, pr[1])
      /\ \A e \in 1..d : \A k \in 1..(e - 1) : Beyond(st[e].path, st[k], k)
  BY DEF StackOf
<1>3. /\ c = [path |-> c.path, edges |-> c.edges]
      /\ c.edges \in Seq(E) /\ IsInjective(c.edges) /\ c.edges # <<>>
  BY <1>1, <1>2 DEF CallOf
<1>4. /\ x \in E /\ x \in Range(c.edges)
      /\ left \in Seq(E) /\ IsInjective(left)
      /\ \A y : y \in Range(c.edges) <=> y = x \/ y \in Range(left)
      /\ x \notin Range(left)
  <2> DEFINE s == c.edges
  <2>1. s \in Seq(E) /\ IsInjective(s) /\ s # <<>>
    BY <1>3
  <2> HIDE DEF s, E
  <2>2. /\ Head(s) \in E /\ Head(s) \in Range(s)
        /\ Tail(s) \in Seq(E) /\ IsInjective(Tail(s))
        /\ \A y : y \in Range(s) <=> y = Head(s) \/ y \in Range(Tail(s))
        /\ Head(s) \notin Range(Tail(s))
    BY <2>1, TailLeaves
  <2> QED
    BY <2>2 DEF s
<1>5. x = <<x[1], x[2]>>
  BY <1>4 DEF EdgesIn
<1> DEFINE c2 == [path |-> walked, edges |-> left]
<1>6. back = [st EXCEPT ![d] = c2]
  <2>1. [c EXCEPT !.edges = Tail(c.edges)] = c2
    <3> DEFINE cc == c
    <3>1. cc = [path |-> cc.path, edges |-> cc.edges]
      BY <1>3
    <3> HIDE DEF cc
    <3>2. \A t : [cc EXCEPT !.edges = t] = [path |-> cc.path, edges |-> t]
      BY <3>1
    <3> QED
      BY <3>2 DEF cc
  <2> QED
    BY <1>1, <2>1 DEF Taken
<1>7. c2.path = walked /\ c2.edges = left /\ c2 = [path |-> c2.path, edges |-> c2.edges]
  OBVIOUS
<1>7a. st[d] = c /\ c.path = walked
  OBVIOUS
<1> HIDE DEF c2, back, x, left, E, d, walked, c
<1>8. IsList(back) /\ Len(back) = d /\ \A e \in 1..d : back[e] = IF e = d THEN c2 ELSE st[e]
  BY <1>1, <1>6, ListExcept DEF d
<1>9. back[d] = c2 /\ \A e \in 1..d : e # d => back[e] = st[e]
  BY <1>1, <1>8
<1>10. \A e \in 1..d : back[e].path = st[e].path
  BY <1>7, <1>7a, <1>9
<1>11. \A e \in 1..d : \A y : y \in Range(back[e].edges) => y \in Range(st[e].edges)
  BY <1>4, <1>7, <1>7a, <1>9
<1>12. CallOf(g, back[d], d, pr[1])
  <2>1. CallOf(g, c, d, pr[1])
    BY <1>1, <1>2, <1>7a
  <2>2. left \in Seq(EdgesIn(g, walked.entities[d]))
    BY <1>4 DEF E
  <2>3. d <= MaxPathLen
    BY <1>3, <2>1 DEF CallOf
  <2>4. CallOf(g, c2, d, pr[1])
    BY <1>4, <1>7, <1>7a, <2>1, <2>2, <2>3 DEF CallOf
  <2> QED
    BY <1>9, <2>4
<1>13. \A e \in 1..d : CallOf(g, back[e], e, pr[1])
  BY <1>2, <1>9, <1>12
<1>14. \A e \in 1..d : \A k \in 1..(e - 1) : Beyond(back[e].path, back[k], k)
  <2> TAKE e \in 1..d
  <2> TAKE k \in 1..(e - 1)
  <2>1. k \in 1..d
    BY <1>1
  <2>2. Beyond(st[e].path, st[k], k)
    BY <1>2
  <2> QED
    BY <1>10, <1>11, <2>1, <2>2 DEF Beyond
<1>15. back # <<>>
  BY <1>1, <1>8, ListFacts
<1>16. StackOf(g, back, pr, vis)
  <2>1. back[Len(back)].path = st[d].path
    BY <1>1, <1>8, <1>10
  <2>2. st[Len(st)].path = st[d].path
    BY DEF d
  <2>3. \A e \in 1..Len(back) : CallOf(g, back[e], e, pr[1])
    BY <1>8, <1>13
  <2>4. \A e \in 1..Len(back) : \A k \in 1..(e - 1) : Beyond(back[e].path, back[k], k)
    BY <1>8, <1>14
  <2> QED
    BY <1>8, <2>1, <2>2, <2>3, <2>4 DEF StackOf
<1>17. ASSUME NEW p, Pending(back, p)
       PROVE  Pending(st, p)
  <2>1. PICK e \in 1..d : AwaitedAt(back[e], e, p)
    BY <1>8, <1>17 DEF Pending
  <2>2. AwaitedAt(st[e], e, p)
    BY <1>10, <1>11, <2>1 DEF AwaitedAt
  <2> QED
    BY <2>2 DEF Pending, d
<1>18. ASSUME NEW p, Pending(st, p)
       PROVE  Pending(back, p) \/ Through(p, walked, d, x)
  <2>1. PICK e \in 1..d : AwaitedAt(st[e], e, p)
    BY <1>18 DEF Pending, d
  <2>2. CASE e # d
    <3>1. AwaitedAt(back[e], e, p)
      BY <1>9, <2>1, <2>2
    <3> QED
      BY <1>8, <3>1 DEF Pending
  <2>3. CASE e = d
    <3>1. /\ d \in DOMAIN p.relations /\ Agree(p, walked, d)
          /\ <<p.entities[d + 1], p.relations[d]>> \in Range(c.edges)
      BY <1>7a, <2>1, <2>3 DEF AwaitedAt
    <3>2. CASE <<p.entities[d + 1], p.relations[d]>> = x
      <4>1. p.entities[d + 1] = x[1] /\ p.relations[d] = x[2]
        BY <1>5, <3>2
      <4> QED
        BY <3>1, <4>1 DEF Through
    <3>3. CASE <<p.entities[d + 1], p.relations[d]>> \in Range(left)
      <4>1. AwaitedAt(c2, d, p)
        BY <1>7, <3>1, <3>3 DEF AwaitedAt
      <4> QED
        BY <1>1, <1>8, <1>9, <4>1 DEF Pending
    <3> QED
      BY <1>4, <3>1, <3>2, <3>3
  <2> QED
    BY <2>2, <2>3
<1>19. ASSUME NEW p, Through(p, walked, d, x)
       PROVE  Pending(st, p) /\ ~Pending(back, p)
  <2>1. <<p.entities[d + 1], p.relations[d]>> = x
    BY <1>5, <1>19 DEF Through
  <2>2. AwaitedAt(st[d], d, p)
    BY <1>4, <1>7a, <1>19, <2>1 DEF Through, AwaitedAt
  <2>3. Pending(st, p)
    BY <1>1, <2>2 DEF Pending, d
  <2>4. ASSUME NEW e \in 1..d, AwaitedAt(back[e], e, p)
        PROVE  FALSE
    <3>1. CASE e = d
      BY <1>4, <1>7, <1>9, <2>1, <2>4, <3>1 DEF AwaitedAt
    <3>2. CASE e # d
      <4>1. e \in 1..(d - 1) /\ d \in 1..d /\ e + 1 \in 1..d
        BY <1>1, <3>2
      <4>2. Beyond(walked, st[e], e)
        BY <1>2, <1>7a, <4>1
      <4>3. p.entities[e + 1] = walked.entities[e + 1] /\ p.relations[e] = walked.relations[e]
        BY <1>19, <4>1 DEF Through, Agree
      <4>4. <<p.entities[e + 1], p.relations[e]>> \in Range(st[e].edges)
        BY <1>9, <2>4, <3>2 DEF AwaitedAt
      <4> QED
        BY <4>2, <4>3, <4>4 DEF Beyond
    <3> QED
      BY <3>1, <3>2
  <2> QED
    BY <1>8, <2>3, <2>4 DEF Pending
<1>20. x \notin Range(back[d].edges) /\ back[d].path = walked
  BY <1>4, <1>7, <1>9
<1> QED
  BY <1>8, <1>15, <1>16, <1>17, <1>18, <1>19, <1>20 DEF back, d, c, x, walked

\* The last call, and the way over the first edge left there.
LEMMA EdgeLeads ==
    ASSUME NEW g, NEW st, NEW pr, NEW vis, StackOf(g, st, pr, vis),
           st # <<>>, st[Len(st)].edges # <<>>, MaxPathLen \in Nat,
           Head(st[Len(st)].edges)[1] \notin vis
    PROVE  LET x    == Head(st[Len(st)].edges)
               walked == st[Len(st)].path
               way  == Continued(walked, x)
               d    == Len(st)
           IN  /\ d \in 1..MaxPathLen /\ x = <<x[1], x[2]>>
               /\ vis = Range(walked.entities)
               /\ IsWalk(g, walked, d - 1, pr[1][1])
               /\ \A i \in 1..d : walked.entities[i] # pr[1][2]
               /\ IsWalk(g, way, d, pr[1][1])
               /\ Len(way.relations) = d /\ Last(way.entities) = x[1]
               /\ \A i \in 1..d : way.entities[i] = walked.entities[i]
               /\ \A i \in 1..(d - 1) : way.relations[i] = walked.relations[i]
               /\ way.entities[d + 1] = x[1] /\ way.relations[d] = x[2]
               /\ Range(way.entities) = vis \cup {x[1]}
<1> DEFINE d    == Len(st)
           c    == st[d]
           x    == Head(c.edges)
           walked == c.path
           E    == EdgesIn(g, walked.entities[d])
<1>1. d \in Nat \ {0} /\ d \in 1..d
  BY ListFacts DEF StackOf
<1>2. CallOf(g, c, d, pr[1]) /\ vis = Range(walked.entities)
  BY <1>1 DEF StackOf
<1>3. c.edges \in Seq(E) /\ c.edges # <<>>
  BY <1>2 DEF CallOf
<1>4. x \in E
  <2> HIDE DEF E, c
  <2> QED
    BY <1>3, HeadTailProperties
<1>5. x = <<x[1], x[2]>>
  BY <1>4 DEF EdgesIn
<1>6. d <= MaxPathLen /\ IsWalk(g, walked, d - 1, pr[1][1]) /\ \A i \in 1..d : walked.entities[i] # pr[1][2]
  BY <1>2, <1>3 DEF CallOf
<1>7. d - 1 \in Nat /\ (d - 1) + 1 = d /\ (d - 1) + 2 = d + 1 /\ d \in 1..MaxPathLen
  BY <1>1, <1>6
<1>8. x[1] \notin Range(walked.entities)
  BY <1>2
<1> HIDE DEF x, walked, c, d
<1>9. x \in EdgesIn(g, walked.entities[(d - 1) + 1])
  BY <1>4, <1>7 DEF E
<1> DEFINE k == d - 1
<1>10. k \in Nat /\ IsWalk(g, walked, k, pr[1][1]) /\ x \in EdgesIn(g, walked.entities[k + 1])
       /\ k + 1 = d /\ k + 2 = d + 1
  BY <1>6, <1>7, <1>9
<1> HIDE DEF k, E
<1>11. /\ IsWalk(g, Continued(walked, x), k + 1, pr[1][1])
       /\ Len(Continued(walked, x).relations) = k + 1
       /\ Last(Continued(walked, x).entities) = x[1]
       /\ \A i \in 1..(k + 1) : Continued(walked, x).entities[i] = walked.entities[i]
       /\ \A i \in 1..k : Continued(walked, x).relations[i] = walked.relations[i]
       /\ Continued(walked, x).entities[k + 2] = x[1]
       /\ Continued(walked, x).relations[k + 1] = x[2]
       /\ Range(Continued(walked, x).entities) = Range(walked.entities) \cup {x[1]}
  <2> DEFINE from == pr[1][1]
  <2>1. IsWalk(g, walked, k, from) /\ k \in Nat /\ x \in EdgesIn(g, walked.entities[k + 1])
    BY <1>10
  <2> HIDE DEF from
  <2>2. LeadsOn(g, walked, k, from, x)
    BY <1>8, <2>1, WalkContinues
  <2> QED
    BY <2>2 DEF from, LeadsOn
<1> DEFINE way == Continued(walked, x)
<1> HIDE DEF way
<1>12. /\ IsWalk(g, way, d, pr[1][1])
       /\ Len(way.relations) = d /\ Last(way.entities) = x[1]
       /\ \A i \in 1..d : way.entities[i] = walked.entities[i]
       /\ \A i \in 1..(d - 1) : way.relations[i] = walked.relations[i]
       /\ way.entities[d + 1] = x[1] /\ way.relations[d] = x[2]
       /\ Range(way.entities) = Range(walked.entities) \cup {x[1]}
  <2>1. d - 1 = k
    BY DEF k
  <2> QED
    BY <1>10, <1>11, <2>1 DEF way
<1>13. vis = Range(walked.entities)
  BY <1>2
<1> QED
  BY <1>5, <1>6, <1>7, <1>12, <1>13 DEF x, walked, c, d, way

\* No simple path goes back to where the search has been.
LEMMA NoWayBack ==
    ASSUME NEW g, NEW st, NEW pr, NEW vis, StackOf(g, st, pr, vis),
           st # <<>>, NEW x, x[1] \in vis,
           NEW p, Connects(g, p, pr[1]), MaxPathLen \in Nat
    PROVE  ~Through(p, st[Len(st)].path, Len(st), x)
<1> DEFINE d    == Len(st)
           walked == st[d].path
<1> SUFFICES ASSUME Through(p, walked, d, x) PROVE FALSE
  OBVIOUS
<1>1. d \in Nat \ {0} /\ d \in 1..d
  BY ListFacts DEF StackOf
<1>2. CallOf(g, st[d], d, pr[1]) /\ vis = Range(walked.entities)
  BY <1>1 DEF StackOf
<1>3. (d - 1) + 1 = d
  BY <1>1
<1>4. DOMAIN walked.entities = 1..d
  BY <1>2, <1>3 DEF CallOf, IsWalk
<1>5. PICK j \in 1..d : walked.entities[j] = x[1]
  BY <1>2, <1>4 DEF Range
<1>6. PICK n \in 1..MaxPathLen : IsWalk(g, p, n, pr[1][1])
  BY DEF Connects
<1> HIDE DEF d, walked
<1>7. d \in 1..n
  BY <1>6 DEF Through, IsWalk
<1>8. p.entities[j] = p.entities[d + 1]
  BY <1>5 DEF Through, Agree
<1>9. j \in 1..(n + 1) /\ d + 1 \in 1..(n + 1) /\ j # d + 1
  BY <1>1, <1>7
<1> QED
  BY <1>6, <1>8, <1>9 DEF IsWalk, IsInjective

\* Over an edge that arrives goes one path only.
LEMMA Arrival ==
    ASSUME NEW g, NEW st, NEW pr, NEW vis, StackOf(g, st, pr, vis),
           st # <<>>, st[Len(st)].edges # <<>>, MaxPathLen \in Nat,
           Head(st[Len(st)].edges)[1] \notin vis,
           Head(st[Len(st)].edges)[1] = pr[1][2]
    PROVE  LET x    == Head(st[Len(st)].edges)
               walked == st[Len(st)].path
               d    == Len(st)
           IN  /\ Connects(g, Continued(walked, x), pr[1])
               /\ Through(Continued(walked, x), walked, d, x)
               /\ \A p : Connects(g, p, pr[1]) /\ Through(p, walked, d, x) => p = Continued(walked, x)
<1> DEFINE d    == Len(st)
           x    == Head(st[d].edges)
           walked == st[d].path
           way  == Continued(walked, x)
<1>1. /\ d \in 1..MaxPathLen /\ x = <<x[1], x[2]>>
      /\ IsWalk(g, way, d, pr[1][1])
      /\ \A i \in 1..d : way.entities[i] = walked.entities[i]
      /\ \A i \in 1..(d - 1) : way.relations[i] = walked.relations[i]
      /\ way.entities[d + 1] = x[1] /\ way.relations[d] = x[2]
  BY EdgeLeads
<1>2. x[1] = pr[1][2]
  OBVIOUS
<1> HIDE DEF d, x, walked, way
<1>3. d \in Nat /\ d \in 1..d
  BY <1>1
<1>4. Connects(g, way, pr[1])
  BY <1>1, <1>2 DEF Connects
<1>5. Through(way, walked, d, x)
  BY <1>1, <1>3 DEF Through, Agree, IsWalk
<1>6. ASSUME NEW p, Connects(g, p, pr[1]), Through(p, walked, d, x)
      PROVE  p = way
  <2>1. PICK n \in 1..MaxPathLen : IsWalk(g, p, n, pr[1][1]) /\ p.entities[n + 1] = pr[1][2]
    BY <1>6 DEF Connects
  <2>2. d \in 1..n /\ n \in Nat
    BY <1>6, <2>1 DEF Through, IsWalk
  <2>3. d <= n
    BY <2>2
  <2>4. \A i \in 1..(d + 1) : p.entities[i] = way.entities[i]
    <3> TAKE i \in 1..(d + 1)
    <3>1. CASE i = d + 1
      BY <1>1, <1>6, <3>1 DEF Through
    <3>2. CASE i # d + 1
      <4>1. i \in 1..d
        BY <1>3, <3>2
      <4> QED
        BY <1>1, <1>6, <4>1 DEF Through, Agree
    <3> QED
      BY <3>1, <3>2
  <2>5. \A i \in 1..((d + 1) - 1) : p.relations[i] = way.relations[i]
    <3> TAKE i \in 1..((d + 1) - 1)
    <3>1. CASE i = d
      BY <1>1, <1>6, <3>1 DEF Through
    <3>2. CASE i # d
      <4>1. i \in 1..(d - 1)
        BY <1>3, <3>2
      <4> QED
        BY <1>1, <1>6, <4>1 DEF Through, Agree
    <3> QED
      BY <3>1, <3>2
  <2>6. Agree(p, way, d + 1)
    BY <2>4, <2>5 DEF Agree
  <2>7. way.entities[d + 1] = pr[1][2]
    BY <1>1, <1>2
  <2> DEFINE from == pr[1][1]
             to == pr[1][2]
  <2>8. /\ IsWalk(g, p, n, from) /\ p.entities[n + 1] = to
        /\ IsWalk(g, way, d, from) /\ way.entities[d + 1] = to
    BY <1>1, <2>1, <2>7
  <2> HIDE DEF from, to
  <2> QED
    BY <1>3, <2>2, <2>3, <2>6, <2>8, ArrivesOnce
<1> QED
  BY <1>4, <1>5, <1>6 DEF d, x, walked, way

\* A call goes on from the last one.
LEMMA CallPushed ==
    ASSUME NEW g, IsNeighborhood(g), subgraph = g,
           NEW st, NEW pr, NEW vis, StackOf(g, st, pr, vis),
           st # <<>>, st[Len(st)].edges # <<>>, MaxPathLen \in Nat,
           Head(st[Len(st)].edges)[1] \notin vis,
           Head(st[Len(st)].edges)[1] # pr[1][2]
    PROVE  LET x   == Head(st[Len(st)].edges)
               st2 == Append(Taken(st), Call(Continued(st[Len(st)].path, x)))
           IN  /\ StackOf(g, st2, pr, vis \cup {x[1]}) /\ st2 # <<>>
               /\ \A p, q : Connects(g, p, q) /\ Pending(st2, p) => Pending(st, p)
               /\ \A p : Connects(g, p, pr[1]) /\ Pending(st, p) => Pending(st2, p)
<1> DEFINE d    == Len(st)
           x    == Head(st[d].edges)
           walked == st[d].path
           way  == Continued(walked, x)
           back == Taken(st)
           c    == Call(way)
           st2  == Append(back, c)
           to   == pr[1][2]
<1>1. /\ d \in 1..MaxPathLen /\ x = <<x[1], x[2]>>
      /\ IsWalk(g, way, d, pr[1][1])
      /\ \A i \in 1..d : walked.entities[i] # to
      /\ Len(way.relations) = d /\ Last(way.entities) = x[1]
      /\ \A i \in 1..d : way.entities[i] = walked.entities[i]
      /\ \A i \in 1..(d - 1) : way.relations[i] = walked.relations[i]
      /\ way.entities[d + 1] = x[1] /\ way.relations[d] = x[2]
      /\ Range(way.entities) = vis \cup {x[1]}
  BY EdgeLeads
<1>2. /\ StackOf(g, back, pr, vis)
      /\ Len(back) = d
      /\ back[d].path = walked
      /\ x \notin Range(back[d].edges)
      /\ \A p : Pending(back, p) => Pending(st, p)
      /\ \A p : Pending(st, p) => Pending(back, p) \/ Through(p, walked, d, x)
      /\ \A p : Through(p, walked, d, x) => Pending(st, p) /\ ~Pending(back, p)
  BY EdgeTaken
<1>3. x[1] # to /\ pr # <<>> /\ pr[1][1] \in g.entities /\ to \in g.entities /\ pr[1][1] # to
  BY DEF StackOf
<1> HIDE DEF d, x, walked, way, back
<1>4. /\ c = [path |-> way, edges |-> c.edges]
      /\ c.edges \in Seq(EdgesIn(g, x[1])) /\ IsInjective(c.edges)
      /\ IF Len(way.relations) >= MaxPathLen THEN c.edges = <<>>
         ELSE Range(c.edges) = EdgesIn(g, x[1])
  <2> DEFINE e == x[1]
  <2>1. Last(way.entities) = e
    BY <1>1
  <2> HIDE DEF e
  <2>2. /\ c = [path |-> way, edges |-> c.edges]
        /\ c.edges \in Seq(EdgesIn(g, e)) /\ IsInjective(c.edges)
        /\ IF Len(way.relations) >= MaxPathLen THEN c.edges = <<>>
           ELSE Range(c.edges) = EdgesIn(g, e)
    BY <2>1, CallEdges
  <2> QED
    BY <2>2 DEF e
<1> HIDE DEF c
<1>5. d \in Nat \ {0} /\ d + 1 \in Nat /\ (d + 1) - 1 = d /\ d \in 1..d
  BY <1>1
<1>6. /\ IsList(st2) /\ Len(st2) = d + 1
      /\ \A e \in 1..d : st2[e] = back[e]
      /\ st2[d + 1] = c
  BY <1>2, ListAppend DEF StackOf
<1>7. c.path = way /\ c = [path |-> c.path, edges |-> c.edges]
  BY <1>4
<1> HIDE DEF st2
<1>8. CallOf(g, c, d + 1, pr[1])
  <2>1. \A i \in 1..(d + 1) : way.entities[i] # to
    <3> TAKE i \in 1..(d + 1)
    <3>1. i = d + 1 \/ i \in 1..d
      BY <1>5
    <3> QED
      BY <1>1, <1>3, <3>1
  <2>2. c.edges # <<>> => d + 1 <= MaxPathLen
    <3>1. c.edges # <<>> => ~(d >= MaxPathLen)
      BY <1>1, <1>4
    <3> QED
      BY <1>5, <3>1
  <2>3. c.edges \in Seq(EdgesIn(g, way.entities[d + 1])) /\ IsInjective(c.edges)
    BY <1>1, <1>4
  <2> QED
    BY <1>1, <1>5, <1>7, <2>1, <2>2, <2>3 DEF CallOf
<1>9. \A e \in 1..d : Beyond(way, back[e], e)
  <2> TAKE e \in 1..d
  <2>1. CASE e = d
    <3>1. Agree(way, walked, d)
      BY <1>1 DEF Agree
    <3>2. <<way.entities[d + 1], way.relations[d]>> = x
      BY <1>1
    <3> QED
      BY <1>2, <2>1, <3>1, <3>2 DEF Beyond
  <2>2. CASE e # d
    <3>1. e \in 1..(d - 1) /\ e + 1 \in 1..d /\ e \in 1..d
          /\ (\A i \in 1..e : i \in 1..d) /\ (\A i \in 1..(e - 1) : i \in 1..(d - 1))
      BY <1>5, <2>2
    <3>2. Beyond(walked, back[e], e)
      BY <1>2, <1>5, <3>1 DEF StackOf
    <3>3. Agree(way, back[e].path, e)
      BY <1>1, <3>1, <3>2 DEF Beyond, Agree
    <3>4. way.entities[e + 1] = walked.entities[e + 1] /\ way.relations[e] = walked.relations[e]
      BY <1>1, <3>1
    <3> QED
      BY <3>2, <3>3, <3>4 DEF Beyond
  <2> QED
    BY <2>1, <2>2
<1>10. \A e \in 1..(d + 1) : e = d + 1 \/ e \in 1..d
  BY <1>5
<1>11. \A e \in 1..(d + 1) : CallOf(g, st2[e], e, pr[1])
  <2>1. \A e \in 1..d : CallOf(g, back[e], e, pr[1])
    BY <1>2, <1>5, ListFacts DEF StackOf
  <2> QED
    BY <1>6, <1>8, <1>10, <2>1
<1>12. \A e \in 1..(d + 1) : \A k \in 1..(e - 1) : Beyond(st2[e].path, st2[k], k)
  <2> TAKE e \in 1..(d + 1)
  <2> TAKE k \in 1..(e - 1)
  <2>1. k \in 1..d
    BY <1>5
  <2>2. CASE e = d + 1
    BY <1>6, <1>7, <1>9, <2>1, <2>2
  <2>3. CASE e \in 1..d
    BY <1>2, <1>6, <2>1, <2>3 DEF StackOf
  <2> QED
    BY <1>10, <2>2, <2>3
<1>13. st2 # <<>>
  BY <1>5, <1>6, ListFacts
<1>14. StackOf(g, st2, pr, vis \cup {x[1]})
  <2>1. st2[Len(st2)].path = way
    BY <1>6, <1>7
  <2> QED
    BY <1>1, <1>3, <1>6, <1>11, <1>12, <2>1 DEF StackOf
<1>15. ASSUME NEW p, NEW q, Connects(g, p, q), Pending(st2, p)
       PROVE  Pending(st, p)
  <2>1. PICK e \in 1..(d + 1) : AwaitedAt(st2[e], e, p)
    BY <1>6, <1>15 DEF Pending
  <2>2. CASE e \in 1..d
    <3>1. AwaitedAt(back[e], e, p)
      BY <1>6, <2>1, <2>2
    <3> QED
      BY <1>2, <2>2, <3>1 DEF Pending
  <2>3. CASE e = d + 1
    <3>1. d + 1 \in DOMAIN p.relations /\ Agree(p, way, d + 1)
      BY <1>6, <1>7, <2>1, <2>3 DEF AwaitedAt
    <3>2. PICK n \in 1..MaxPathLen : IsWalk(g, p, n, q[1])
      BY <1>15 DEF Connects
    <3>3. DOMAIN p.relations = 1..n
      BY <3>2 DEF IsWalk
    <3>4. d \in DOMAIN p.relations
      BY <1>5, <3>1, <3>3
    <3>5. (\A i \in 1..(d + 1) : p.entities[i] = way.entities[i])
          /\ (\A i \in 1..d : p.relations[i] = way.relations[i])
      BY <1>5, <3>1 DEF Agree
    <3>6. (\A i \in 1..d : i \in 1..(d + 1)) /\ (\A i \in 1..(d - 1) : i \in 1..d) /\ d + 1 \in 1..(d + 1)
      BY <1>5
    <3>7. Agree(p, walked, d)
      BY <1>1, <3>5, <3>6 DEF Agree
    <3>8. p.entities[d + 1] = x[1] /\ p.relations[d] = x[2]
      BY <1>1, <1>5, <3>5, <3>6
    <3>9. Through(p, walked, d, x)
      BY <3>4, <3>7, <3>8 DEF Through
    <3> QED
      BY <1>2, <3>9
  <2> QED
    BY <1>10, <2>2, <2>3
<1>16. ASSUME NEW p, Connects(g, p, pr[1]), Pending(st, p)
       PROVE  Pending(st2, p)
  <2>1. CASE Pending(back, p)
    <3>1. PICK e \in 1..d : AwaitedAt(back[e], e, p)
      BY <1>2, <2>1 DEF Pending
    <3>2. e \in 1..(d + 1) /\ AwaitedAt(st2[e], e, p)
      BY <1>5, <1>6, <3>1
    <3> QED
      BY <1>6, <3>2 DEF Pending
  <2>2. CASE Through(p, walked, d, x)
    <3>1. PICK n \in 1..MaxPathLen : IsWalk(g, p, n, pr[1][1]) /\ p.entities[n + 1] = to
      BY <1>16 DEF Connects
    <3>2. d \in 1..n /\ p.entities[d + 1] = x[1] /\ p.relations[d] = x[2] /\ Agree(p, walked, d)
      BY <2>2, <3>1 DEF Through, IsWalk
    <3>3. d # n
      BY <1>3, <3>1, <3>2
    <3>4. d + 1 \in 1..n /\ ~(d >= MaxPathLen)
      <4>1. d < n
        BY <3>2, <3>3
      <4> QED
        BY <1>5, <3>1, <4>1
    <3>5. Range(c.edges) = EdgesIn(g, x[1])
      BY <1>1, <1>4, <3>4
    <3>6. <<p.entities[(d + 1) + 1], p.relations[d + 1]>> \in EdgesIn(g, p.entities[d + 1])
      <4> DEFINE from == pr[1][1]
                 k == d + 1
      <4>1. IsWalk(g, p, n, from) /\ n \in Nat /\ k \in 1..n
        BY <3>1, <3>4
      <4> HIDE DEF from, k
      <4>2. <<p.entities[k + 1], p.relations[k]>> \in EdgesIn(g, p.entities[k])
        BY <4>1, WalkEdge
      <4> QED
        BY <4>2 DEF k
    <3>7. Agree(p, way, d + 1)
      <4>1. \A i \in 1..(d + 1) : p.entities[i] = way.entities[i]
        <5> TAKE i \in 1..(d + 1)
        <5>1. CASE i = d + 1
          BY <1>1, <3>2, <5>1
        <5>2. CASE i \in 1..d
          BY <1>1, <3>2, <5>2 DEF Agree
        <5> QED
          BY <1>10, <5>1, <5>2
      <4>2. \A i \in 1..d : p.relations[i] = way.relations[i]
        <5> TAKE i \in 1..d
        <5>1. CASE i = d
          BY <1>1, <3>2, <5>1
        <5>2. CASE i # d
          <6>1. i \in 1..(d - 1)
            BY <1>5, <5>2
          <6> QED
            BY <1>1, <3>2, <6>1 DEF Agree
        <5> QED
          BY <5>1, <5>2
      <4> QED
        BY <1>5, <4>1, <4>2 DEF Agree
    <3>8. d + 1 \in DOMAIN p.relations
      BY <3>1, <3>4 DEF IsWalk
    <3>9. AwaitedAt(c, d + 1, p)
      BY <1>7, <3>2, <3>5, <3>6, <3>7, <3>8 DEF AwaitedAt
    <3>10. d + 1 \in 1..(d + 1)
      BY <1>5
    <3> QED
      BY <1>6, <3>9, <3>10 DEF Pending
  <2> QED
    BY <1>2, <1>16, <2>1, <2>2
<1> QED
  BY <1>13, <1>14, <1>15, <1>16 DEF st2, back, c, way, walked, x, d

LEMMA FoundKept ==
    ASSUME NEW g, NEW fnd, NEW pr, NEW st, NEW st2, FoundOf(g, fnd, pr, st),
           st # <<>>, st2 # <<>>,
           \A p, q : Connects(g, p, q) /\ Pending(st2, p) => Pending(st, p),
           \A p : Connects(g, p, pr[1]) /\ Pending(st, p) => Pending(st2, p)
    PROVE  FoundOf(g, fnd, pr, st2)
<1>1. \A i \in 1..Len(fnd) : Rightly(g, fnd[i], pr, st2)
  BY DEF FoundOf, Rightly
<1> QED
  BY <1>1 DEF FoundOf

LEMMA PairIsConnected ==
    ASSUME NEW g, NEW pr, PairsOf(g, pr), pr # <<>>
    PROVE  /\ pr[1] \in AllPairs(g) /\ pr[1] \in Range(pr)
           /\ pr[1] = <<pr[1][1], pr[1][2]>> /\ pr[1][1] < pr[1][2]
           /\ pr[1][1] \in g.entities /\ pr[1][2] \in g.entities => pr[1] \in Connected(g)
<1>1. Len(pr) \in Nat \ {0} /\ DOMAIN pr = 1..Len(pr)
  BY EmptySeq, LenProperties DEF PairsOf
<1>2. 1 \in 1..Len(pr)
  BY <1>1
<1>3. pr[1] \in AllPairs(g)
  BY <1>2, ElementOfSeq DEF PairsOf
<1>4. pr[1] = <<pr[1][1], pr[1][2]>> /\ pr[1][1] < pr[1][2]
  BY <1>3 DEF AllPairs
<1> QED
  BY <1>1, <1>2, <1>3, <1>4 DEF Range, Connected

LEMMA FoundAdded ==
    ASSUME NEW g, NEW fnd, NEW pr, NEW st, NEW vis, MaxPathLen \in Nat,
           PairsOf(g, pr), StackOf(g, st, pr, vis), FoundOf(g, fnd, pr, st),
           st # <<>>, st[Len(st)].edges # <<>>,
           Head(st[Len(st)].edges)[1] \notin vis,
           Head(st[Len(st)].edges)[1] = pr[1][2]
    PROVE  FoundOf(g, Append(fnd, Continued(st[Len(st)].path, Head(st[Len(st)].edges))), pr, Taken(st))
<1> DEFINE d    == Len(st)
           x    == Head(st[d].edges)
           walked == st[d].path
           way  == Continued(walked, x)
           back == Taken(st)
           fnd2 == Append(fnd, way)
           n    == Len(fnd)
<1>1. /\ StackOf(g, back, pr, vis) /\ back # <<>>
      /\ \A p : Pending(back, p) => Pending(st, p)
      /\ \A p : Pending(st, p) => Pending(back, p) \/ Through(p, walked, d, x)
      /\ \A p : Through(p, walked, d, x) => Pending(st, p) /\ ~Pending(back, p)
  BY EdgeTaken
<1>2. /\ Connects(g, way, pr[1])
      /\ Through(way, walked, d, x)
      /\ \A p : Connects(g, p, pr[1]) /\ Through(p, walked, d, x) => p = way
  BY Arrival
<1>3. pr[1] \in Connected(g) /\ pr[1] \in Range(pr)
  <2>1. pr # <<>> /\ pr[1][1] \in g.entities /\ pr[1][2] \in g.entities
    BY DEF StackOf
  <2> QED
    BY <2>1, PairIsConnected
<1>4. IsList(fnd) /\ IsInjective(fnd) /\ \A i \in 1..n : Rightly(g, fnd[i], pr, st)
  BY DEF FoundOf
<1> HIDE DEF way, back, walked, x, d
<1>5. /\ IsList(fnd2) /\ Len(fnd2) = n + 1 /\ n \in Nat /\ DOMAIN fnd = 1..n
      /\ \A i \in 1..n : fnd2[i] = fnd[i]
      /\ fnd2[n + 1] = way
  BY <1>4, ListAppend, ListFacts
<1> HIDE DEF fnd2, n
<1>6. DOMAIN fnd2 = 1..(n + 1)
  BY <1>5, ListFacts
<1>7. \A i \in 1..(n + 1) : i = n + 1 \/ i \in 1..n
  BY <1>5
<1>8. ASSUME NEW i \in 1..n
      PROVE  fnd[i] # way /\ Rightly(g, fnd[i], pr, back)
  <2>1. PICK q \in Connected(g) : /\ Connects(g, fnd[i], q)
                                  /\ q \in Range(pr) => q = pr[1] /\ ~Pending(st, fnd[i])
    BY <1>4 DEF Rightly
  <2>2. Rightly(g, fnd[i], pr, back)
    BY <1>1, <2>1 DEF Rightly
  <2>3. ASSUME fnd[i] = way
        PROVE  FALSE
    <3>1. q \in AllPairs(g) /\ pr[1] \in AllPairs(g)
      BY <1>3 DEF Connected
    <3> DEFINE r == pr[1]
    <3>2. Connects(g, way, q) /\ Connects(g, way, r) /\ r \in AllPairs(g)
      BY <1>2, <2>1, <2>3, <3>1
    <3> HIDE DEF r
    <3>3. q = r
      BY <3>1, <3>2, ConnectsOne
    <3>4. ~Pending(st, way)
      BY <1>3, <2>1, <2>3, <3>3 DEF r
    <3> QED
      BY <1>1, <1>2, <3>4
  <2> QED
    BY <2>2, <2>3
<1>9. Rightly(g, way, pr, back)
  BY <1>1, <1>2, <1>3 DEF Rightly
<1>10. \A i \in 1..(n + 1) : Rightly(g, fnd2[i], pr, back)
  BY <1>5, <1>7, <1>8, <1>9
<1>11. IsInjective(fnd2)
  <2> SUFFICES ASSUME NEW i \in 1..(n + 1), NEW j \in 1..(n + 1), fnd2[i] = fnd2[j]
               PROVE  i = j
    BY <1>6 DEF IsInjective
  <2>1. CASE i \in 1..n /\ j \in 1..n
    BY <1>4, <1>5, <2>1 DEF IsInjective
  <2>2. CASE i = n + 1 /\ j \in 1..n
    BY <1>5, <1>8, <2>2
  <2>3. CASE j = n + 1 /\ i \in 1..n
    BY <1>5, <1>8, <2>3
  <2> QED
    BY <1>7, <2>1, <2>2, <2>3
<1>12. Range(fnd2) = Range(fnd) \cup {way}
  <2>1. n + 1 \in 1..(n + 1) /\ \A i \in 1..n : i \in 1..(n + 1)
    BY <1>5
  <2> QED
    BY <1>5, <1>6, <1>7, <2>1 DEF Range
<1>13. \A q \in Connected(g) : q \notin Range(pr) =>
          \A p : Connects(g, p, q) => p \in Range(fnd2)
  BY <1>12 DEF FoundOf
<1>14. \A p : Connects(g, p, pr[1]) => p \in Range(fnd2) \/ Pending(back, p)
  <2> TAKE p
  <2> HAVE Connects(g, p, pr[1])
  <2>1. p \in Range(fnd) \/ Pending(st, p)
    BY DEF FoundOf
  <2> QED
    BY <1>1, <1>2, <1>12, <2>1
<1>15. FoundOf(g, fnd2, pr, back)
  BY <1>5, <1>10, <1>11, <1>13, <1>14 DEF FoundOf
<1> QED
  BY <1>15 DEF fnd2, way, back, walked, x, d

\* A pair is done when all that connects it is found.
LEMMA PairDone ==
    ASSUME NEW g, NEW fnd, NEW pr, NEW st, PairsOf(g, pr), FoundOf(g, fnd, pr, st), pr # <<>>,
           pr[1] \in Connected(g) => \A p : Connects(g, p, pr[1]) => p \in Range(fnd)
    PROVE  PairsOf(g, Tail(pr)) /\ FoundOf(g, fnd, Tail(pr), <<>>)
<1> DEFINE t == Tail(pr)
<1>1. /\ t \in Seq(AllPairs(g)) /\ IsInjective(t)
      /\ \A q : q \in Range(pr) <=> q = pr[1] \/ q \in Range(t)
      /\ pr[1] \notin Range(t)
  <2> DEFINE S == AllPairs(g)
  <2>1. pr \in Seq(S) /\ IsInjective(pr)
    BY DEF PairsOf
  <2> HIDE DEF S
  <2>2. /\ Head(pr) = pr[1] /\ Tail(pr) \in Seq(S) /\ IsInjective(Tail(pr))
        /\ \A q : q \in Range(pr) <=> q = Head(pr) \/ q \in Range(Tail(pr))
        /\ Head(pr) \notin Range(Tail(pr))
    BY <2>1, TailLeaves
  <2> QED
    BY <2>2 DEF S
<1> HIDE DEF t
<1>2. \A i \in 1..Len(fnd) : Rightly(g, fnd[i], t, <<>>)
  <2> TAKE i \in 1..Len(fnd)
  <2>1. PICK q \in Connected(g) : /\ Connects(g, fnd[i], q)
                                  /\ q \in Range(pr) => q = pr[1]
    BY DEF FoundOf, Rightly
  <2> QED
    BY <1>1, <2>1 DEF Rightly
<1>3. \A q \in Connected(g) : q \notin Range(t) =>
          \A p : Connects(g, p, q) => p \in Range(fnd)
  BY <1>1 DEF FoundOf
<1>4. FoundOf(g, fnd, t, <<>>)
  BY <1>2, <1>3 DEF FoundOf
<1> QED
  BY <1>1, <1>4 DEF t, PairsOf

\* The last call returns.
LEMMA CallLeft ==
    ASSUME NEW g, NEW st, NEW pr, NEW vis, StackOf(g, st, pr, vis),
           st # <<>>, Last(st).edges = <<>>
    PROVE  /\ IsList(Front(st)) /\ Len(Front(st)) = Len(st) - 1
           /\ \A p : Pending(st, p) <=> Pending(Front(st), p)
           /\ Len(st) = 1 => Front(st) = <<>> /\ \A p : ~Pending(st, p)
           /\ Len(st) # 1 => /\ Front(st) # <<>>
                             /\ StackOf(g, Front(st), pr, vis \ {Last(Last(st).path.entities)})
<1> DEFINE d == Len(st)
           f == Front(st)
           c == st[d]
<1>1. IsList(st) /\ d \in Nat \ {0} /\ d \in 1..d
  BY ListFacts DEF StackOf
<1>2. /\ IsList(f) /\ Len(f) = d - 1
      /\ \A i \in 1..(d - 1) : f[i] = st[i]
      /\ Last(st) = c
  BY <1>1, ListFront
<1>3. /\ \A e \in 1..d : CallOf(g, st[e], e, pr[1])
      /\ \A e \in 1..d : \A k \in 1..(e - 1) : Beyond(st[e].path, st[k], k)
      /\ vis = Range(c.path.entities)
  BY <1>1 DEF StackOf
<1>4. \A e \in 1..d : e = d \/ e \in 1..(d - 1)
  BY <1>1
<1>5. \A e \in 1..(d - 1) : e \in 1..d
  BY <1>1
<1>5a. c.edges = <<>> /\ st[d] = c
  BY <1>2
<1>5b. pr # <<>> /\ pr[1][1] \in g.entities /\ pr[1][2] \in g.entities /\ pr[1][1] # pr[1][2]
  BY DEF StackOf
<1> HIDE DEF f, c
<1>6. ASSUME NEW p
      PROVE  Pending(st, p) <=> Pending(f, p)
  <2>1. ~AwaitedAt(st[d], d, p)
    <3>1. Range(<<>>) = {}
      <4>1. DOMAIN <<>> = {}
        OBVIOUS
      <4> QED
        BY <4>1 DEF Range
    <3> QED
      BY <1>5a, <3>1 DEF AwaitedAt
  <2>2. Pending(st, p) <=> \E e \in 1..(d - 1) : AwaitedAt(st[e], e, p)
    BY <1>4, <1>5, <2>1 DEF Pending
  <2>3. Pending(f, p) <=> \E e \in 1..(d - 1) : AwaitedAt(f[e], e, p)
    BY <1>2 DEF Pending
  <2> QED
    BY <1>2, <2>2, <2>3
<1>7. d = 1 => f = <<>> /\ \A p : ~Pending(st, p)
  <2> SUFFICES ASSUME d = 1 PROVE f = <<>> /\ \A p : ~Pending(st, p)
    OBVIOUS
  <2>1. Len(f) = 0
    BY <1>2
  <2>2. f = <<>>
    BY <1>2, <2>1, ListFacts
  <2>3. \A p : ~Pending(f, p)
    BY <2>1 DEF Pending
  <2> QED
    BY <1>6, <2>2, <2>3
<1>8. ASSUME d # 1
      PROVE  f # <<>> /\ StackOf(g, f, pr, vis \ {Last(c.path.entities)})
  <2> DEFINE k == d - 1
  <2>0. k \in Nat \ {0} /\ k + 1 = d
    <3> HIDE DEF d
    <3> QED
      BY <1>1, <1>8
  <2>1. k \in 1..k /\ k \in 1..d /\ k \in Nat \ {0} /\ k + 1 = d /\ (k - 1) + 1 = k /\ (d - 1) + 1 = d
    <3> HIDE DEF k, d
    <3> QED
      BY <2>0
  <2>2. f # <<>>
    BY <1>2, <2>1, ListFacts
  <2>3. \A e \in 1..k : CallOf(g, f[e], e, pr[1])
    BY <1>2, <1>3, <1>5
  <2>4. \A e \in 1..k : \A j \in 1..(e - 1) : Beyond(f[e].path, f[j], j)
    <3> TAKE e \in 1..k
    <3> TAKE j \in 1..(e - 1)
    <3>1. j \in 1..(d - 1) /\ e \in 1..(d - 1) /\ e \in 1..d
      BY <1>1
    <3> QED
      BY <1>2, <1>3, <3>1
  <2>5. vis \ {Last(c.path.entities)} = Range(f[k].path.entities)
    <3> DEFINE es == c.path.entities
               fs == f[k].path.entities
    <3>1. CallOf(g, c, d, pr[1]) /\ CallOf(g, st[k], k, pr[1]) /\ f[k] = st[k]
      BY <1>1, <1>2, <1>3, <1>5a, <2>1
    <3>2. es \in [1..d -> g.entities] /\ IsInjective(es)
      BY <2>1, <3>1 DEF CallOf, IsWalk
    <3>3. fs \in [1..k -> g.entities]
      BY <2>1, <3>1 DEF CallOf, IsWalk
    <3>4. \A i \in 1..k : es[i] = fs[i]
      <4>1. Beyond(st[d].path, st[k], k)
        BY <1>1, <1>3, <2>1
      <4>2. Agree(c.path, f[k].path, k)
        BY <1>5a, <3>1, <4>1 DEF Beyond
      <4> QED
        BY <4>2 DEF Agree
    <3> HIDE DEF es, fs
    <3>5. Last(es) = es[d]
      <4>1. es \in Seq(g.entities) /\ Len(es) = d
        BY <1>1, <3>2, ListOfFunction
      <4> QED
        BY <4>1 DEF Last
    <3>6. \A i \in 1..k : i \in 1..d /\ i # d
      <4> HIDE DEF k, d
      <4> QED
        BY <2>0
    <3>7. \A i \in 1..d : i = d \/ i \in 1..k
      <4> HIDE DEF k, d
      <4> QED
        BY <2>0
    <3>8. Range(es) \ {es[d]} = Range(fs)
      BY <1>1, <3>2, <3>3, <3>4, <3>6, <3>7 DEF Range, IsInjective
    <3> QED
      BY <1>3, <3>5, <3>8 DEF es, fs
  <2> HIDE DEF k
  <2>6. Len(f) = k
    BY <1>2 DEF k
  <2> QED
    BY <1>2, <1>5b, <2>2, <2>3, <2>4, <2>5, <2>6 DEF StackOf
<1> QED
  BY <1>2, <1>6, <1>7, <1>8 DEF f

\* The search for a pair begins with a call at its first seed.
LEMMA PairStarted ==
    ASSUME NEW g, IsNeighborhood(g), subgraph = g, MaxPathLen \in Nat \ {0},
           NEW pr, NEW fnd, PairsOf(g, pr), pr # <<>>, FoundOf(g, fnd, pr, <<>>),
           pr[1][1] \in g.entities, pr[1][2] \in g.entities
    PROVE  LET st == <<Call([entities |-> <<pr[1][1]>>, relations |-> <<>>])>>
           IN  StackOf(g, st, pr, {pr[1][1]}) /\ FoundOf(g, fnd, pr, st)
<1> DEFINE from  == pr[1][1]
           first == [entities |-> <<from>>, relations |-> <<>>]
           c     == Call(first)
           st    == <<c>>
<1>1. pr[1] \in Connected(g) /\ from # pr[1][2]
  <2>1. AllPairs(g) \subseteq Nat \X Nat
    BY DEF AllPairs, IsNeighborhood
  <2>2. pr[1] \in AllPairs(g) /\ from < pr[1][2] /\ pr[1] \in Connected(g)
    BY PairIsConnected
  <2>3. from \in Nat /\ pr[1][2] \in Nat
    BY <2>1, <2>2
  <2> QED
    BY <2>2, <2>3
<1>2. from \in g.entities /\ pr[1][1] = from
  OBVIOUS
<1>2a. first.entities = <<from>> /\ first.relations = <<>> /\ first = [entities |-> first.entities, relations |-> first.relations]
  OBVIOUS
<1> HIDE DEF from
<1>3. <<from>> \in [1..1 -> g.entities] /\ <<from>>[1] = from /\ Len(<<from>>) = 1
  BY <1>2
<1>4. <<>> \in [1..0 -> DOMAIN g.relations] /\ Len(<<>>) = 0 /\ 1..0 = {}
  <2>1. 1..0 = {} /\ <<>> = [i \in {} |-> i]
    OBVIOUS
  <2> QED
    BY <2>1
<1>5. Last(<<from>>) = from
  BY <1>3 DEF Last
<1>6. /\ c = [path |-> first, edges |-> c.edges]
      /\ c.edges \in Seq(EdgesIn(g, from)) /\ IsInjective(c.edges)
      /\ IF Len(first.relations) >= MaxPathLen THEN c.edges = <<>>
         ELSE Range(c.edges) = EdgesIn(g, from)
  <2>1. Last(first.entities) = from
    BY <1>2a, <1>5
  <2> HIDE DEF first
  <2> QED
    BY <2>1, CallEdges
<1> HIDE DEF c, first
<1>7. c.path = first /\ c = [path |-> c.path, edges |-> c.edges] /\ Range(c.edges) = EdgesIn(g, from)
  <2>1. ~(Len(first.relations) >= MaxPathLen)
    BY <1>2a, <1>4
  <2> QED
    BY <1>6, <2>1
<1>8. IsWalk(g, first, 0, from)
  <2>1. IsInjective(<<from>>)
    BY <1>3 DEF IsInjective
  <2>2. 0 + 1 = 1
    OBVIOUS
  <2> QED
    BY <1>2a, <1>3, <1>4, <2>1, <2>2 DEF IsWalk
<1>9. CallOf(g, c, 1, pr[1])
  <2>1. 1 - 1 = 0 /\ \A i \in 1..1 : i = 1
    OBVIOUS
  <2>2. 1 <= MaxPathLen
    OBVIOUS
  <2>3. \A i \in 1..1 : first.entities[i] # pr[1][2]
    BY <1>1, <1>2a, <1>3, <2>1
  <2>4. c.edges \in Seq(EdgesIn(g, first.entities[1]))
    BY <1>2a, <1>3, <1>6
  <2> QED
    BY <1>2, <1>6, <1>7, <1>8, <2>1, <2>2, <2>3, <2>4 DEF CallOf
<1>10. IsList(st) /\ Len(st) = 1 /\ st[1] = c /\ st # <<>>
  <2>1. st \in Seq({c})
    OBVIOUS
  <2> QED
    BY <2>1 DEF IsList
<1> HIDE DEF st
<1>11. StackOf(g, st, pr, {from})
  <2>1. \A d \in 1..1 : d = 1 /\ 1..(d - 1) = {}
    OBVIOUS
  <2>2. Range(<<from>>) = {from}
    BY <1>3 DEF Range
  <2> QED
    BY <1>1, <1>2, <1>2a, <1>7, <1>9, <1>10, <2>1, <2>2 DEF StackOf
<1>12. ASSUME NEW p, Connects(g, p, pr[1])
       PROVE  Pending(st, p)
  <2>1. PICK n \in 1..MaxPathLen : IsWalk(g, p, n, from)
    BY <1>2, <1>12 DEF Connects
  <2>2. n \in Nat /\ 1 \in 1..n /\ 1 \in 1..1 /\ 1 - 1 = 0
    BY <2>1
  <2>3. <<p.entities[1 + 1], p.relations[1]>> \in EdgesIn(g, p.entities[1])
    BY <2>1, <2>2, WalkEdge
  <2>4. p.entities[1] = from /\ 1 \in DOMAIN p.relations
    BY <2>1, <2>2 DEF IsWalk
  <2>5. \A i \in 1..1 : i = 1
    OBVIOUS
  <2>6. Agree(p, c.path, 1)
    BY <1>2a, <1>3, <1>4, <1>7, <2>2, <2>4, <2>5 DEF Agree
  <2>7. AwaitedAt(c, 1, p)
    BY <1>7, <2>3, <2>4, <2>6 DEF AwaitedAt
  <2> QED
    BY <1>10, <2>2, <2>7 DEF Pending
<1>13. FoundOf(g, fnd, pr, st)
  <2>1. \A i \in 1..Len(fnd) : Rightly(g, fnd[i], pr, st)
    BY DEF FoundOf, Rightly
  <2> QED
    BY <1>12, <2>1 DEF FoundOf
<1> QED
  BY <1>2, <1>11, <1>13 DEF st, c, first

\* One list of entities comes before another, or they are one.
LEMMA KeysOrder ==
    /\ \A s \in Seq(Nat) : ~KeyBefore(s, s)
    /\ \A s, t, u \in Seq(Nat) : KeyBefore(s, t) /\ KeyBefore(t, u) => KeyBefore(s, u)
    /\ \A s, t \in Seq(Nat) : s = t \/ KeyBefore(s, t) \/ KeyBefore(t, s)
<1>1. ASSUME NEW s \in Seq(Nat), NEW t \in Seq(Nat)
      PROVE  KeyBefore(s, t) <=>
               \E k \in 1..Len(t) :
                  /\ \A i \in 1..(k - 1) : i \in 1..Len(s) /\ s[i] = t[i]
                  /\ k \in 1..Len(s) => s[k] < t[k]
  <2>1. DOMAIN s = 1..Len(s) /\ DOMAIN t = 1..Len(t)
    BY LenProperties
  <2> QED
    BY <2>1 DEF KeyBefore
<1>2. ASSUME NEW s \in Seq(Nat)
      PROVE  Len(s) \in Nat /\ \A i \in 1..Len(s) : s[i] \in Nat
  BY LenProperties, ElementOfSeq
<1>3. \A s \in Seq(Nat) : ~KeyBefore(s, s)
  BY <1>1, <1>2
<1>4. ASSUME NEW s \in Seq(Nat), NEW t \in Seq(Nat), NEW u \in Seq(Nat),
             KeyBefore(s, t), KeyBefore(t, u)
      PROVE  KeyBefore(s, u)
  <2> DEFINE ls == Len(s)
             lt == Len(t)
             lu == Len(u)
  <2>1. PICK k \in 1..lt :
            /\ \A i \in 1..(k - 1) : i \in 1..ls /\ s[i] = t[i]
            /\ k \in 1..ls => s[k] < t[k]
    BY <1>1, <1>4
  <2>2. PICK m \in 1..lu :
            /\ \A i \in 1..(m - 1) : i \in 1..lt /\ t[i] = u[i]
            /\ m \in 1..lt => t[m] < u[m]
    BY <1>1, <1>4
  <2>3. ls \in Nat /\ lt \in Nat /\ lu \in Nat
    BY <1>2
  <2>4. (\A i \in 1..ls : s[i] \in Nat) /\ (\A i \in 1..lt : t[i] \in Nat) /\ (\A i \in 1..lu : u[i] \in Nat)
    BY <1>2
  <2> HIDE DEF ls, lt, lu
  <2>5. \E j \in 1..lu : /\ \A i \in 1..(j - 1) : i \in 1..ls /\ s[i] = u[i]
                         /\ j \in 1..ls => s[j] < u[j]
    <3>1. CASE k < m
      <4>1. k \in 1..lu /\ k \in 1..(m - 1)
        BY <2>3, <3>1
      <4>2. \A i \in 1..(k - 1) : i \in 1..(m - 1)
        BY <2>3, <3>1
      <4>3. \A i \in 1..(k - 1) : i \in 1..ls /\ s[i] = u[i]
        BY <2>1, <2>2, <4>2
      <4>4. k \in 1..ls => s[k] < u[k]
        BY <2>1, <2>2, <4>1
      <4> QED
        BY <4>1, <4>3, <4>4
    <3>2. CASE k = m
      <4>1. \A i \in 1..(m - 1) : i \in 1..ls /\ s[i] = u[i]
        BY <2>1, <2>2, <3>2
      <4>2. m \in 1..ls => s[m] < u[m]
        <5> SUFFICES ASSUME m \in 1..ls PROVE s[m] < u[m]
          OBVIOUS
        <5>1. s[m] < t[m] /\ t[m] < u[m]
          BY <2>1, <2>2, <3>2
        <5>2. s[m] \in Nat /\ t[m] \in Nat /\ u[m] \in Nat
          BY <2>4, <3>2
        <5> QED
          BY <5>1, <5>2
      <4> QED
        BY <4>1, <4>2
    <3>3. CASE m < k
      <4>1. m \in 1..(k - 1) /\ m \in 1..lt
        BY <2>3, <3>3
      <4>2. \A i \in 1..(m - 1) : i \in 1..(k - 1)
        BY <2>3, <3>3
      <4>3. \A i \in 1..(m - 1) : i \in 1..ls /\ s[i] = u[i]
        BY <2>1, <2>2, <4>2
      <4>4. m \in 1..ls => s[m] < u[m]
        BY <2>1, <2>2, <4>1
      <4> QED
        BY <4>3, <4>4
    <3>4. k \in Int /\ m \in Int
      BY <2>3
    <3> QED
      BY <3>1, <3>2, <3>3, <3>4
  <2> QED
    BY <1>1, <2>5 DEF ls, lu
<1>5. ASSUME NEW s \in Seq(Nat), NEW t \in Seq(Nat), s # t
      PROVE  KeyBefore(s, t) \/ KeyBefore(t, s)
  <2> DEFINE ls == Len(s)
             lt == Len(t)
             D  == {k \in 1..(ls + lt + 1) :
                       ~(k \in 1..ls /\ k \in 1..lt /\ s[k] = t[k])}
  <2>1. ls \in Nat /\ lt \in Nat
    BY <1>2
  <2>2. (\A i \in 1..ls : s[i] \in Nat) /\ (\A i \in 1..lt : t[i] \in Nat)
    BY <1>2
  <2>3. ls = lt => \E i \in 1..ls : s[i] # t[i]
    BY <1>5, SeqEqual
  <2> HIDE DEF ls, lt
  <2>4. D # {} /\ D \in SUBSET Nat
    <3>1. ls + lt + 1 \in D
      BY <2>1
    <3> QED
      BY <3>1
  <2>5. PICK k \in D : \A j \in D : k <= j
    <3> HIDE DEF D
    <3> QED
      BY <2>4, LeastNumber
  <2>6. \A i \in 1..(k - 1) : i \in 1..ls /\ i \in 1..lt /\ s[i] = t[i]
    <3> TAKE i \in 1..(k - 1)
    <3>1. i \in 1..(ls + lt + 1) /\ ~(k <= i)
      BY <2>1, <2>5
    <3> QED
      BY <2>5, <3>1
  <2>7. k \in Nat \ {0}
    BY <2>1, <2>5
  <2>8. k \in 1..ls \/ k \in 1..lt
    <3> SUFFICES ASSUME k \notin 1..ls, k \notin 1..lt PROVE FALSE
      OBVIOUS
    <3>1. ls < k /\ lt < k
      BY <2>1, <2>7
    <3>2. k - 1 <= ls
      <4>1. CASE k = 1
        BY <2>1, <4>1
      <4>2. CASE k # 1
        <5>1. k - 1 \in 1..(k - 1)
          BY <2>7, <4>2
        <5>2. k - 1 \in 1..ls
          BY <2>6, <5>1
        <5> QED
          BY <2>1, <5>2
      <4> QED
        BY <4>1, <4>2
    <3>3. k - 1 <= lt
      <4>1. CASE k = 1
        BY <2>1, <4>1
      <4>2. CASE k # 1
        <5>1. k - 1 \in 1..(k - 1)
          BY <2>7, <4>2
        <5>2. k - 1 \in 1..lt
          BY <2>6, <5>1
        <5> QED
          BY <2>1, <5>2
      <4> QED
        BY <4>1, <4>2
    <3>4. ls = k - 1 /\ lt = k - 1
      BY <2>1, <2>7, <3>1, <3>2, <3>3
    <3>5. PICK i \in 1..ls : s[i] # t[i]
      BY <2>3, <3>4
    <3> QED
      BY <2>6, <3>4, <3>5
  <2>9. CASE k \in 1..lt /\ (k \in 1..ls => s[k] < t[k])
    <3>1. \E j \in 1..lt : /\ \A i \in 1..(j - 1) : i \in 1..ls /\ s[i] = t[i]
                           /\ j \in 1..ls => s[j] < t[j]
      BY <2>6, <2>9
    <3> QED
      BY <1>1, <3>1 DEF ls, lt
  <2>10. CASE k \in 1..ls /\ (k \in 1..lt => t[k] < s[k])
    <3>1. \E j \in 1..ls : /\ \A i \in 1..(j - 1) : i \in 1..lt /\ t[i] = s[i]
                           /\ j \in 1..lt => t[j] < s[j]
      BY <2>6, <2>10
    <3> QED
      BY <1>1, <3>1 DEF ls, lt
  <2>11. k \in 1..ls /\ k \in 1..lt => s[k] < t[k] \/ t[k] < s[k]
    <3> SUFFICES ASSUME k \in 1..ls, k \in 1..lt PROVE s[k] < t[k] \/ t[k] < s[k]
      OBVIOUS
    <3>1. s[k] # t[k] /\ s[k] \in Nat /\ t[k] \in Nat
      BY <2>2, <2>5
    <3> QED
      BY <3>1
  <2> QED
    BY <2>8, <2>9, <2>10, <2>11
<1> QED
  BY <1>3, <1>4, <1>5

\* A product of whole factors is whole.
LEMMA ScoreType ==
    ASSUME IsNeighborhood(subgraph), subgraph \in PathInputs, NEW rels \in Seq(DOMAIN subgraph.relations),
           MaxPathLen \in Nat
    PROVE  Score(rels) \in Nat
<1> DEFINE N == MaxPathLen
           F == [n \in 1..N |-> Factor(rels, n)]
           Products(f) == [n \in 0..N |-> IF n = 0 THEN 1 ELSE f[n - 1] * Factor(rels, n)]
           Product == CHOOSE f : f = Products(f)
           G == [z \in (1..N) \X Nat |-> z[2] * F[z[1]]]
<1>1. \A n \in 1..N : Factor(rels, n) \in Nat
  <2> TAKE n \in 1..N
  <2>1. Len(rels) \in Nat /\ \A i \in 1..Len(rels) : rels[i] \in DOMAIN subgraph.relations
    BY LenProperties, ElementOfSeq
  <2>2. \A r \in DOMAIN subgraph.relations : Weight(r) \in Nat
    <3>1. \A r \in DOMAIN subgraph.relations : subgraph.relations[r].weight \in Nat
      BY PathAssumption
    <3> QED
      BY <3>1 DEF Weight
  <2>3. CASE n > Len(rels)
    BY <2>3 DEF Factor
  <2>4. CASE ~(n > Len(rels))
    <3>1. n \in 1..Len(rels)
      BY <2>1, <2>4
    <3>2. Weight(rels[n]) \in Nat
      BY <2>1, <2>2, <3>1
    <3>3. CASE n = 1
      BY <2>4, <3>2, <3>3 DEF Factor
    <3>4. CASE n # 1
      <4> DEFINE w == Weight(rels[n])
                 m == IF ShareChunk(rels[n - 1], rels[n]) THEN 11 ELSE 10
      <4>1. Factor(rels, n) = w * m
        BY <2>4, <3>4 DEF Factor
      <4>2. w \in Nat /\ m \in Nat
        BY <3>2
      <4> HIDE DEF w, m
      <4> QED
        BY <4>1, <4>2
    <3> QED
      BY <3>3, <3>4
  <2> QED
    BY <2>3, <2>4
<1>2. N \in Nat /\ 1 \in Nat
  OBVIOUS
<1>3. \A n \in 1..N : F[n] \in Nat /\ F[n] = Factor(rels, n)
  BY <1>1
<1>4. G \in [(1..N) \X Nat -> Nat]
  <2> HIDE DEF F, N
  <2> SUFFICES ASSUME NEW z \in (1..N) \X Nat PROVE z[2] * F[z[1]] \in Nat
    OBVIOUS
  <2>1. z[2] \in Nat /\ F[z[1]] \in Nat
    BY <1>3
  <2> QED
    BY <2>1
<1>5. PICK f \in [0..N -> Nat] : f[0] = 1 /\ \A n \in 1..N : f[n] = G[n, f[n - 1]]
  <2> DEFINE A == Nat
             a == 1
  <2>1. N \in Nat /\ a \in A /\ G \in [(1..N) \X A -> A]
    BY <1>2, <1>4
  <2> HIDE DEF G, N, A, a
  <2>2. \E f : Iterates(f, N, A, a, G)
    BY <2>1, IterationExists
  <2> QED
    BY <2>2 DEF A, a, Iterates
<1>6. f = Products(f)
  <2>1. \A n \in 1..N : f[n] = f[n - 1] * Factor(rels, n)
    <3> TAKE n \in 1..N
    <3>1. n - 1 \in 0..N
      BY <1>2
    <3>2. f[n - 1] \in Nat
      BY <3>1
    <3>3. G[n, f[n - 1]] = f[n - 1] * F[n]
      <4> HIDE DEF F, N
      <4> QED
        BY <3>2
    <3> QED
      BY <1>3, <1>5, <3>3
  <2> HIDE DEF F, G, N
  <2>2. \A n \in 0..N : n # 0 => n \in 1..N
    BY <1>2
  <2>3. \A n \in 0..N : f[n] = IF n = 0 THEN 1 ELSE f[n - 1] * Factor(rels, n)
    BY <1>5, <2>1, <2>2
  <2>4. f = [n \in 0..N |-> f[n]]
    OBVIOUS
  <2> QED
    BY <2>3, <2>4
<1>7. Product = Products(Product)
  <2> HIDE DEF Products
  <2> QED
    BY <1>6
<1>8. Score(rels) = Product[N]
  BY DEF Score
<1> HIDE DEF Product, F, G, N
<1>9. /\ Product[0] = 1
      /\ \A n \in 1..N : Product[n] = Product[n - 1] * Factor(rels, n)
  <2>1. 0 \in 0..N /\ \A n \in 1..N : n \in 0..N /\ n # 0
    BY <1>2
  <2> QED
    BY <1>7, <2>1
<1>10. \A n \in 1..N : Product[n - 1] \in Nat => Product[n] \in Nat
  <2> TAKE n \in 1..N
  <2> HAVE Product[n - 1] \in Nat
  <2> DEFINE a == Product[n - 1]
             b == Factor(rels, n)
  <2>1. a \in Nat /\ b \in Nat /\ Product[n] = a * b
    BY <1>1, <1>9 DEF N
  <2> HIDE DEF a, b
  <2> QED
    BY <2>1
<1>11. \A n \in 0..N : Product[n] \in Nat
  <2> DEFINE A == Nat
  <2>1. Product[0] \in A
    BY <1>9
  <2> QED
    BY <1>2, <1>10, <2>1, IterationStaysIn
<1>12. N \in 0..N
  BY <1>2
<1> QED
  BY <1>8, <1>11, <1>12

RankOrder(fnd) ==
    InOrder(DOMAIN fnd, LAMBDA i, j : \/ Before(fnd[i], fnd[j])
                                      \/ ~Before(fnd[j], fnd[i]) /\ i < j)

\* Ranking puts the paths in an order: it neither loses nor repeats one.
LEMMA RankingKeepsPaths ==
    ASSUME IsNeighborhood(subgraph), subgraph \in PathInputs, MaxPathLen \in Nat,
           NEW fnd, IsList(fnd), IsInjective(fnd),
           \A i \in 1..Len(fnd) : \E q : Connects(subgraph, fnd[i], q)
    PROVE  LET ranked == [k \in DOMAIN fnd |-> fnd[RankOrder(fnd)[k]]]
           IN  IsInjective(ranked) /\ Range(ranked) = Range(fnd)
<1> DEFINE listed == RankOrder(fnd)
           N == Len(fnd)
           S == 1..N
           Ahead(i, j) == \/ Before(fnd[i], fnd[j])
                          \/ ~Before(fnd[j], fnd[i]) /\ i < j
           R == {z \in S \X S : Ahead(z[1], z[2])}
           score == [i \in S |-> Score(fnd[i].relations)]
           key   == [i \in S |-> fnd[i].entities]
           less  == {z \in S \X S : KeyBefore(key[z[1]], key[z[2]])}
<1>1. N \in Nat /\ DOMAIN fnd = S
  BY ListFacts
<1>2. IsFiniteSet(S) /\ Cardinality(S) = N
  <2> HIDE DEF N
  <2>1. 1 \in Int /\ N \in Int
    BY <1>1
  <2>2. IsFiniteSet(1..N) /\ Cardinality(1..N) = IF 1 > N THEN 0 ELSE N - 1 + 1
    BY <2>1, FS_Interval
  <2> QED
    BY <1>1, <2>2
<1>3. ASSUME NEW i \in S
      PROVE  score[i] \in Nat /\ key[i] \in Seq(Nat)
  <2>1. PICK q : Connects(subgraph, fnd[i], q)
    OBVIOUS
  <2>2. PICK n \in 1..MaxPathLen : IsWalk(subgraph, fnd[i], n, q[1])
    BY <2>1 DEF Connects
  <2>3. n \in Nat /\ n + 1 \in Nat
    BY <2>2
  <2> DEFINE rs == fnd[i].relations
             es == fnd[i].entities
             D  == DOMAIN subgraph.relations
             E  == subgraph.entities
  <2>4. rs \in [1..n -> D] /\ es \in [1..(n + 1) -> E]
    BY <2>2 DEF IsWalk
  <2>5. E \subseteq Nat
    BY DEF IsNeighborhood
  <2>6. score[i] = Score(rs) /\ key[i] = es
    OBVIOUS
  <2> HIDE DEF rs, es, D, E, score, key
  <2>7. rs \in Seq(D)
    BY <2>3, <2>4, ListOfFunction
  <2>8. es \in Seq(E)
    BY <2>3, <2>4, ListOfFunction
  <2>9. es \in Seq(Nat)
    BY <2>5, <2>8, SeqMonotonic
  <2>10. Score(rs) \in Nat
    BY <2>7, ScoreType DEF D
  <2> QED
    BY <2>6, <2>9, <2>10
<1>4. ASSUME NEW i \in S, NEW j \in S
      PROVE  /\ <<i, j>> \in R <=> \/ score[i] > score[j]
                                   \/ score[i] = score[j] /\ <<i, j>> \in less
                                   \/ score[i] = score[j] /\ <<j, i>> \notin less /\ i < j
  <2>1. Before(fnd[i], fnd[j]) <=>
          \/ score[i] > score[j]
          \/ score[i] = score[j] /\ <<i, j>> \in less
    BY DEF Before
  <2>2. Before(fnd[j], fnd[i]) <=>
          \/ score[j] > score[i]
          \/ score[j] = score[i] /\ <<j, i>> \in less
    BY DEF Before
  <2>3. <<i, j>> \in R <=> Ahead(i, j)
    OBVIOUS
  <2>4. score[i] \in Nat /\ score[j] \in Nat
    BY <1>3
  <2>5. <<i, j>> \in less => ~(<<j, i>> \in less)
    <3>1. key[i] \in Seq(Nat) /\ key[j] \in Seq(Nat)
      BY <1>3
    <3>2. ~(KeyBefore(key[i], key[j]) /\ KeyBefore(key[j], key[i]))
      <4> HIDE DEF key
      <4> QED
        BY <3>1, KeysOrder
    <3> HIDE DEF key
    <3> QED
      BY <3>2
  <2> HIDE DEF score, key, less, R
  <2>6. Ahead(i, j) <=> \/ score[i] > score[j]
                        \/ score[i] = score[j] /\ <<i, j>> \in less
                        \/ score[i] = score[j] /\ <<j, i>> \notin less /\ i < j
    <3>1. CASE score[i] > score[j]
      BY <2>1, <3>1
    <3>2. CASE score[j] > score[i]
      BY <2>1, <2>2, <2>4, <3>2
    <3>3. CASE score[i] = score[j]
      BY <2>1, <2>2, <2>4, <3>3
    <3> QED
      BY <2>4, <3>1, <3>2, <3>3
  <2> QED
    BY <2>3, <2>6
<1>5. /\ \A i \in S : <<i, i>> \notin less
      /\ \A i, j, k \in S : <<i, j>> \in less /\ <<j, k>> \in less => <<i, k>> \in less
      /\ \A i, j \in S : key[i] = key[j] \/ <<i, j>> \in less \/ <<j, i>> \in less
      /\ \A i, j, k \in S : <<i, j>> \in less /\ <<k, j>> \notin less => <<i, k>> \in less
      /\ \A i, j, k \in S : <<j, i>> \notin less /\ <<j, k>> \in less => <<i, k>> \in less
      /\ \A i, j, k \in S : <<j, i>> \notin less /\ <<k, j>> \notin less => <<k, i>> \notin less
  <2>1. \A i \in S : key[i] \in Seq(Nat)
    BY <1>3
  <2>2. \A i, j \in S : <<i, j>> \in less <=> KeyBefore(key[i], key[j])
    OBVIOUS
  <2> HIDE DEF key, less
  <2>3. \A i \in S : <<i, i>> \notin less
    BY <2>1, <2>2, KeysOrder
  <2>4. \A i, j, k \in S : <<i, j>> \in less /\ <<j, k>> \in less => <<i, k>> \in less
    <3> TAKE i, j, k \in S
    <3>1. key[i] \in Seq(Nat) /\ key[j] \in Seq(Nat) /\ key[k] \in Seq(Nat)
      BY <2>1
    <3>2. KeyBefore(key[i], key[j]) /\ KeyBefore(key[j], key[k]) => KeyBefore(key[i], key[k])
      BY <3>1, KeysOrder
    <3> QED
      BY <2>2, <3>2
  <2>5. \A i, j \in S : key[i] = key[j] \/ <<i, j>> \in less \/ <<j, i>> \in less
    <3> TAKE i, j \in S
    <3>1. key[i] \in Seq(Nat) /\ key[j] \in Seq(Nat)
      BY <2>1
    <3>2. key[i] = key[j] \/ KeyBefore(key[i], key[j]) \/ KeyBefore(key[j], key[i])
      BY <3>1, KeysOrder
    <3> QED
      BY <2>2, <3>2
  <2>6. \A i, j, k \in S : <<i, j>> \in less /\ <<k, j>> \notin less => <<i, k>> \in less
    <3> TAKE i, j, k \in S
    <3>1. key[k] = key[j] => (<<i, j>> \in less <=> <<i, k>> \in less)
      BY <2>2
    <3> QED
      BY <2>4, <2>5, <3>1
  <2>7. \A i, j, k \in S : <<j, i>> \notin less /\ <<j, k>> \in less => <<i, k>> \in less
    <3> TAKE i, j, k \in S
    <3>1. key[i] = key[j] => (<<j, k>> \in less <=> <<i, k>> \in less)
      BY <2>2
    <3> QED
      BY <2>4, <2>5, <3>1
  <2> QED
    BY <2>3, <2>4, <2>5, <2>6, <2>7
<1>6. Orders(R, S)
  <2>0. \A i \in S : score[i] \in Nat /\ i \in Nat
    BY <1>1, <1>3
  <2> HIDE DEF score, key, less, R, N, S
  <2>1. \A i \in S : <<i, i>> \notin R
    <3> TAKE i \in S
    <3>1. score[i] \in Nat /\ i \in Nat /\ <<i, i>> \notin less
      BY <1>5, <2>0
    <3>2. <<i, i>> \in R => score[i] > score[i] \/ <<i, i>> \in less \/ i < i
      BY <1>4
    <3> QED
      BY <3>1, <3>2
  <2>2. ASSUME NEW i \in S, NEW j \in S, NEW k \in S, <<i, j>> \in R, <<j, k>> \in R
        PROVE  <<i, k>> \in R
    <3>1. score[i] >= score[j] /\ score[j] >= score[k]
      <4>1. score[i] > score[j] \/ score[i] = score[j]
        BY <1>4, <2>2
      <4>2. score[j] > score[k] \/ score[j] = score[k]
        BY <1>4, <2>2
      <4> QED
        BY <2>0, <4>1, <4>2
    <3>2. CASE score[i] > score[k]
      BY <1>4, <3>2
    <3>3. CASE score[i] = score[k]
      <4>1. score[i] = score[j] /\ score[j] = score[k]
        BY <2>0, <3>1, <3>3
      <4>2. <<i, j>> \in less \/ (<<j, i>> \notin less /\ i < j)
        BY <1>4, <2>0, <2>2, <4>1
      <4>3. <<j, k>> \in less \/ (<<k, j>> \notin less /\ j < k)
        BY <1>4, <2>0, <2>2, <4>1
      <4>4. <<i, k>> \in less \/ (<<k, i>> \notin less /\ i < k)
        <5>1. i < j /\ j < k => i < k
          BY <2>0
        <5> QED
          BY <1>5, <4>2, <4>3, <5>1
      <4> QED
        BY <1>4, <3>3, <4>4
    <3> QED
      BY <2>0, <3>1, <3>2, <3>3
  <2>3. ASSUME NEW i \in S, NEW j \in S, i # j
        PROVE  <<i, j>> \in R \/ <<j, i>> \in R
    <3>1. i < j \/ j < i
      BY <2>0, <2>3
    <3>2. score[i] > score[j] \/ score[j] > score[i] \/ score[i] = score[j]
      BY <2>0
    <3> QED
      BY <1>4, <3>1, <3>2
  <2> QED
    BY <2>1, <2>2, <2>3 DEF Orders
<1>7. Placed(listed, R, S)
  <2> HIDE DEF N
  <2>1. \A j \in S : {i \in S : Ahead(i, j)} = {i \in S : <<i, j>> \in R}
    OBVIOUS
  <2>2. listed = [k \in 1..Cardinality(S) |->
                    CHOOSE j \in S : Cardinality({i \in S : Ahead(i, j)}) = k - 1]
    BY <1>1 DEF InOrder, RankOrder
  <2>3. \A k \in 1..Cardinality(S) :
           listed[k] = CHOOSE j \in S : Cardinality({i \in S : Ahead(i, j)}) = k - 1
    <3> HIDE DEF Ahead, R, S
    <3> QED
      BY <2>2
  <2>4. \A k \in 1..Cardinality(S) :
           (CHOOSE j \in S : Cardinality({i \in S : Ahead(i, j)}) = k - 1)
         = (CHOOSE j \in S : Cardinality({i \in S : <<i, j>> \in R}) = k - 1)
    <3> HIDE DEF Ahead, R, S
    <3> QED
      BY <2>1
  <2>5. listed = [k \in 1..Cardinality(S) |-> listed[k]]
    <3> HIDE DEF Ahead, R, S
    <3> QED
      BY <2>2
  <2> HIDE DEF Ahead, R, S
  <2> QED
    BY <2>3, <2>4, <2>5 DEF Placed
<1> HIDE DEF R, S, N
<1>8. Lists(listed, S)
  <2> HIDE DEF listed
  <2> QED
    BY <1>2, <1>6, <1>7, PlacedInOrder
<1>9. /\ listed \in [S -> S]
      /\ \A i, j \in S : listed[i] = listed[j] => i = j
      /\ \A x \in S : \E i \in S : listed[i] = x
  <2>1. 1..Cardinality(S) = S
    BY <1>2 DEF S
  <2> QED
    BY <1>8, <2>1 DEF Lists
<1> HIDE DEF listed
<1> DEFINE ranked == [k \in DOMAIN fnd |-> fnd[listed[k]]]
<1>10. IsInjective(ranked)
  BY <1>1, <1>9 DEF IsInjective
<1>11. Range(ranked) = Range(fnd)
  BY <1>1, <1>9 DEF Range
<1> QED
  BY <1>10, <1>11 DEF listed

LEMMA FoundIsComplete ==
    ASSUME NEW g, NEW fnd, FoundOf(g, fnd, <<>>, <<>>)
    PROVE  Complete(g, fnd)
<1>1. DOMAIN fnd = 1..Len(fnd) /\ IsInjective(fnd)
  BY ListFacts DEF FoundOf
<1>2. Range(<<>>) = {}
  <2>1. DOMAIN <<>> = {}
    OBVIOUS
  <2> QED
    BY <2>1 DEF Range
<1>3. ASSUME NEW p, p \in Range(fnd)
      PROVE  \E q \in Connected(g) : Connects(g, p, q)
  <2>1. PICK i \in 1..Len(fnd) : fnd[i] = p
    BY <1>1, <1>3 DEF Range
  <2> QED
    BY <2>1 DEF FoundOf, Rightly
<1>4. ASSUME NEW p, NEW q \in Connected(g), Connects(g, p, q)
      PROVE  p \in Range(fnd)
  BY <1>2, <1>4 DEF FoundOf
<1> QED
  BY <1>1, <1>3, <1>4 DEF Complete

LEMMA CompletePaths ==
    ASSUME Complete(subgraph, found), MaxPathLen \in Nat
    PROVE  PathsAreComplete
<1> DEFINE g     == subgraph
           seeds == g.seeds \cap g.entities
           Q     == {q \in seeds \X seeds : q[1] < q[2]}
<1>1. Q = Connected(g)
  BY DEF Connected, AllPairs
<1>2. \A q : \A p : p \in SimplePaths(q[1], q[2]) <=> Connects(g, p, q)
  BY SimplePathsConnect
<1>3. ToSet(found) = Range(found)
  BY DEF ToSet, Range
<1>4. Range(found) = UNION {SimplePaths(p[1], p[2]) : p \in Q}
  <2>1. \A p : p \in UNION {SimplePaths(q[1], q[2]) : q \in Q} <=> \E q \in Q : p \in SimplePaths(q[1], q[2])
    OBVIOUS
  <2>2. \A p : p \in Range(found) <=> \E q \in Connected(g) : Connects(g, p, q)
    BY DEF Complete
  <2> HIDE DEF Q, g
  <2> QED
    BY <1>1, <1>2, <2>1, <2>2
<1> QED
  BY <1>3, <1>4 DEF PathsAreComplete, Complete

LEMMA PathStarts == PathInit => PathInv
  BY DEF PathInit, PathInv

LEMMA PathStays == ASSUME PathInv, UNCHANGED pathVars PROVE PathInv'
  BY DEF PathInv, pathVars

LEMMA RankPathsInv ==
    ASSUME PathInv, RankPaths
    PROVE  PathInv'
<1>1. PICK s \in PathInputs : subgraph' = s /\ pairs' = SeedPairs(s.seeds)
  BY DEF RankPaths
<1>2. /\ stack = <<>> /\ stack' = <<>> /\ found = <<>> /\ found' = <<>> /\ visited' = visited
      /\ ranker' = "search"
  BY DEF RankPaths, PathInv
<1> DEFINE S == AllPairs(s)
<1>3. IsFiniteSet(S) /\ S \subseteq Nat \X Nat
  <2>1. IsFiniteSet(s.seeds) /\ s.seeds \subseteq Nat
    BY PathAssumption
  <2>2. IsFiniteSet(s.seeds \X s.seeds)
    BY <2>1, FS_Product
  <2>3. S \in SUBSET (s.seeds \X s.seeds)
    BY DEF AllPairs
  <2> HIDE DEF S
  <2>4. IsFiniteSet(S)
    BY <2>2, <2>3, FS_Subset
  <2> QED
    BY <2>1, <2>3, <2>4
<1>4. SeedPairs(s.seeds) = InOrder(S, PairBefore)
  BY DEF SeedPairs, AllPairs
<1> HIDE DEF S
<1> DEFINE list == InOrder(S, PairBefore)
<1>5. Lists(list, S)
  BY <1>3, PairsInOrder
<1> HIDE DEF list
<1>6. list \in Seq(S) /\ IsInjective(list) /\ Range(list) = S
  BY <1>3, <1>5, ListsProperties
<1>7. PairsOf(s, list)
  BY <1>6 DEF PairsOf, S
<1>8. IsList(<<>>) /\ IsInjective(<<>>) /\ Len(<<>>) = 0 /\ Range(<<>>) = {}
  <2>1. DOMAIN <<>> = {}
    OBVIOUS
  <2> QED
    BY <2>1, EmptySeq DEF IsList, IsInjective, Range
<1>9. StackOf(s, <<>>, list, visited)
  BY <1>8 DEF StackOf
<1>10. FoundOf(s, <<>>, list, <<>>)
  <2>1. \A q \in Connected(s) : q \in Range(list)
    BY <1>6 DEF Connected, S
  <2>2. 1..0 = {}
    OBVIOUS
  <2> QED
    BY <1>8, <2>1, <2>2 DEF FoundOf
<1>11. pairs' = list
  BY <1>1, <1>4 DEF list
<1> QED
  BY <1>1, <1>2, <1>7, <1>9, <1>10, <1>11 DEF PathInv

LEMMA StartPairInv ==
    ASSUME PathInv, StartPair
    PROVE  PathInv'
<1>1. /\ ranker = "search" /\ stack = <<>> /\ pairs # <<>>
      /\ subgraph' = subgraph /\ ranker' = ranker /\ found' = found
  BY DEF StartPair
<1>2. /\ subgraph \in PathInputs /\ PairsOf(subgraph, pairs)
      /\ FoundOf(subgraph, found, pairs, <<>>)
  BY <1>1 DEF PathInv
<1>3. IsNeighborhood(subgraph) /\ MaxPathLen \in Nat \ {0}
  BY <1>2, InputsAreNeighborhoods, PathAssumption
<1>4. CASE {pairs[1][1], pairs[1][2]} \subseteq subgraph.entities
  <2> DEFINE st == <<Call([entities |-> <<pairs[1][1]>>, relations |-> <<>>])>>
  <2>1. stack' = st /\ visited' = {pairs[1][1]} /\ pairs' = pairs
    BY <1>4 DEF StartPair
  <2>2. StackOf(subgraph, st, pairs, {pairs[1][1]}) /\ FoundOf(subgraph, found, pairs, st)
    <3>1. pairs[1][1] \in subgraph.entities /\ pairs[1][2] \in subgraph.entities
      BY <1>4
    <3> QED
      BY <1>1, <1>2, <1>3, <3>1, PairStarted
  <2> HIDE DEF st
  <2> QED
    BY <1>1, <1>2, <2>1, <2>2 DEF PathInv
<1>5. CASE ~({pairs[1][1], pairs[1][2]} \subseteq subgraph.entities)
  <2>1. stack' = <<>> /\ visited' = visited /\ pairs' = Tail(pairs)
    BY <1>1, <1>5 DEF StartPair
  <2>2. pairs[1] \notin Connected(subgraph)
    BY <1>5 DEF Connected
  <2>3. PairsOf(subgraph, Tail(pairs)) /\ FoundOf(subgraph, found, Tail(pairs), <<>>)
    BY <1>1, <1>2, <2>2, PairDone
  <2>4. StackOf(subgraph, <<>>, Tail(pairs), visited)
    BY EmptySeq DEF StackOf, IsList
  <2> QED
    BY <1>1, <1>2, <2>1, <2>3, <2>4 DEF PathInv
<1> QED
  BY <1>4, <1>5

LEMMA FollowEdgeInv ==
    ASSUME PathInv, FollowEdge
    PROVE  PathInv'
<1> DEFINE d    == Len(stack)
           x    == Head(stack[d].edges)
           way  == Continued(stack[d].path, x)
           back == Taken(stack)
<1>1. /\ stack # <<>> /\ stack[d].edges # <<>>
      /\ subgraph' = subgraph /\ ranker' = ranker /\ pairs' = pairs
  BY DEF FollowEdge, Last
<1>2. /\ ranker = "search" /\ subgraph \in PathInputs /\ PairsOf(subgraph, pairs)
      /\ StackOf(subgraph, stack, pairs, visited)
      /\ FoundOf(subgraph, found, pairs, stack)
  BY <1>1 DEF PathInv
<1>3. IsNeighborhood(subgraph) /\ MaxPathLen \in Nat
  BY <1>2, InputsAreNeighborhoods, PathAssumption
<1>4. \/ x[1] \in visited /\ stack' = back /\ visited' = visited /\ found' = found
      \/ /\ x[1] \notin visited /\ x[1] = pairs[1][2]
         /\ stack' = back /\ found' = Append(found, way) /\ visited' = visited
      \/ /\ x[1] \notin visited /\ x[1] # pairs[1][2]
         /\ stack' = Append(back, Call(way)) /\ visited' = visited \cup {x[1]} /\ found' = found
  BY DEF FollowEdge, Last, Taken, Continued
<1>5. /\ StackOf(subgraph, back, pairs, visited) /\ back # <<>>
      /\ \A p : Pending(back, p) => Pending(stack, p)
      /\ \A p : Pending(stack, p) => Pending(back, p) \/ Through(p, stack[d].path, d, x)
  BY <1>1, <1>2, EdgeTaken
<1>6. CASE x[1] \in visited /\ stack' = back /\ visited' = visited /\ found' = found
  <2>1. \A p : Connects(subgraph, p, pairs[1]) => ~Through(p, stack[d].path, d, x)
    <3> TAKE p
    <3> HAVE Connects(subgraph, p, pairs[1])
    <3> HIDE DEF x
    <3> QED
      BY <1>1, <1>2, <1>3, <1>6, NoWayBack
  <2>2. FoundOf(subgraph, found, pairs, back)
    <3> HIDE DEF back, x
    <3> QED
      BY <1>1, <1>2, <1>5, <2>1, FoundKept
  <2> HIDE DEF back
  <2> QED
    BY <1>1, <1>2, <1>5, <1>6, <2>2 DEF PathInv
<1>7. CASE /\ x[1] \notin visited /\ x[1] = pairs[1][2]
           /\ stack' = back /\ found' = Append(found, way) /\ visited' = visited
  <2>1. FoundOf(subgraph, Append(found, way), pairs, back)
    BY <1>1, <1>2, <1>3, <1>7, FoundAdded
  <2> HIDE DEF back, way
  <2> QED
    BY <1>1, <1>2, <1>5, <1>7, <2>1 DEF PathInv
<1>8. CASE /\ x[1] \notin visited /\ x[1] # pairs[1][2]
           /\ stack' = Append(back, Call(way)) /\ visited' = visited \cup {x[1]} /\ found' = found
  <2> DEFINE st2 == Append(back, Call(way))
  <2>1. /\ StackOf(subgraph, st2, pairs, visited \cup {x[1]}) /\ st2 # <<>>
        /\ \A p, q : Connects(subgraph, p, q) /\ Pending(st2, p) => Pending(stack, p)
        /\ \A p : Connects(subgraph, p, pairs[1]) /\ Pending(stack, p) => Pending(st2, p)
    BY <1>1, <1>2, <1>3, <1>8, CallPushed
  <2> HIDE DEF st2
  <2>2. FoundOf(subgraph, found, pairs, st2)
    BY <1>1, <1>2, <2>1, FoundKept
  <2> QED
    BY <1>1, <1>2, <1>8, <2>1, <2>2 DEF PathInv, st2
<1> QED
  BY <1>4, <1>6, <1>7, <1>8

LEMMA BacktrackInv ==
    ASSUME PathInv, Backtrack
    PROVE  PathInv'
<1>1. /\ stack # <<>> /\ Last(stack).edges = <<>>
      /\ stack' = Front(stack)
      /\ visited' = visited \ {Last(Last(stack).path.entities)}
      /\ pairs' = IF Len(stack) = 1 THEN Tail(pairs) ELSE pairs
      /\ subgraph' = subgraph /\ ranker' = ranker /\ found' = found
  BY DEF Backtrack, Left
<1>2. /\ ranker = "search" /\ subgraph \in PathInputs /\ PairsOf(subgraph, pairs)
      /\ StackOf(subgraph, stack, pairs, visited)
      /\ FoundOf(subgraph, found, pairs, stack)
  BY <1>1 DEF PathInv
<1> DEFINE st2  == Front(stack)
           vis2 == visited \ {Last(Last(stack).path.entities)}
<1>3. /\ \A p : Pending(stack, p) <=> Pending(st2, p)
      /\ Len(stack) = 1 => st2 = <<>> /\ \A p : ~Pending(stack, p)
      /\ Len(stack) # 1 => st2 # <<>> /\ StackOf(subgraph, st2, pairs, vis2)
  BY <1>1, <1>2, CallLeft
<1> HIDE DEF st2, vis2
<1>4. CASE Len(stack) = 1
  <2>1. pairs # <<>>
    BY <1>1, <1>2 DEF StackOf
  <2>2. \A p : Connects(subgraph, p, pairs[1]) => p \in Range(found)
    BY <1>1, <1>2, <1>3, <1>4 DEF FoundOf
  <2>3. PairsOf(subgraph, Tail(pairs)) /\ FoundOf(subgraph, found, Tail(pairs), <<>>)
    BY <1>2, <2>1, <2>2, PairDone
  <2>4. StackOf(subgraph, <<>>, Tail(pairs), vis2)
    BY EmptySeq DEF StackOf, IsList
  <2> QED
    BY <1>1, <1>2, <1>3, <1>4, <2>3, <2>4 DEF PathInv, st2, vis2
<1>5. CASE Len(stack) # 1
  <2>1. FoundOf(subgraph, found, pairs, st2)
    BY <1>1, <1>2, <1>3, <1>5, FoundKept
  <2> QED
    BY <1>1, <1>2, <1>3, <1>5, <2>1 DEF PathInv, st2, vis2
<1> QED
  BY <1>4, <1>5

LEMMA RankInv ==
    ASSUME PathInv, Rank
    PROVE  PathInv'
<1> DEFINE ranked == [k \in DOMAIN found |-> found[RankOrder(found)[k]]]
<1>1. /\ ranker = "search" /\ stack = <<>> /\ pairs = <<>>
      /\ subgraph' = subgraph /\ ranker' = "ranked" /\ stack' = <<>>
  BY DEF Rank
<1>2. found' = ranked
  BY DEF Rank, RankOrder
<1>3. subgraph \in PathInputs /\ FoundOf(subgraph, found, <<>>, <<>>)
  BY <1>1 DEF PathInv
<1>4. Complete(subgraph, found)
  BY <1>3, FoundIsComplete
<1>5. \A i \in 1..Len(found) : \E q : Connects(subgraph, found[i], q)
  BY <1>3 DEF FoundOf, Rightly
<1>6. IsInjective(ranked) /\ Range(ranked) = Range(found)
  BY <1>3, <1>5, InputsAreNeighborhoods, RankingKeepsPaths, PathAssumption DEF FoundOf
<1> HIDE DEF ranked
<1>7. Complete(subgraph, ranked)
  BY <1>4, <1>6 DEF Complete
<1> QED
  BY <1>1, <1>2, <1>7 DEF PathInv

LEMMA PathSteps ==
    ASSUME PathInv, RankPaths \/ PathStep
    PROVE  PathInv'
  BY RankPathsInv, StartPairInv, FollowEdgeInv, BacktrackInv, RankInv DEF PathStep

LEMMA PathsHeld == PathInv => PathsAreComplete
<1>1. MaxPathLen \in Nat
  BY PathAssumption
<1>2. CASE ranker = "ranked"
  BY <1>1, <1>2, CompletePaths DEF PathInv
<1>3. CASE ranker # "ranked"
  BY <1>3 DEF PathsAreComplete
<1> QED
  BY <1>2, <1>3

-----------------------------------------------------------------------------
\* The prompt.

HitList(hs) == IsList(hs) /\ \A i \in 1..Len(hs) : IsHit(hs[i])
Costs(hs)   == [i \in DOMAIN hs |-> Cost(hs[i])]

\* Nothing is packed yet.
Untouched ==
    /\ next = 1 /\ packed = <<>> /\ cited = <<>> /\ suspects = <<>>
    /\ cut = [selected |-> <<>>, truncated |-> <<>>, dropped |-> <<>>]

\* The first hits are packed and they fit.
PackedSoFar ==
    /\ IsList(packed) /\ Len(packed) <= Len(hits)
    /\ \A i \in 1..Len(packed) : packed[i] = hits[i]
    /\ next = Len(packed) + 1 /\ cited = <<>> /\ suspects = <<>>
    /\ cut = [selected |-> IDs(packed), truncated |-> <<>>, dropped |-> <<>>]
    /\ usedTokens = Count(ask.question) + Total(Costs(packed))
    /\ usedTokens <= Max({Count(ask.question), Budget})

\* What ContextAddsUp says of the hits packed.
Accounted ==
    /\ cut.selected \o cut.dropped = IDs(hits)
    /\ IDs(packed) = cut.selected
    /\ \/ cut.truncated = <<>>
       \/ packed # <<>> /\ cut.truncated = <<Last(packed).id>>
    /\ usedTokens = Count(ask.question) + Total(Costs(packed))
    /\ LET title == IF cut.truncated = <<>> THEN 0 ELSE Count(Last(packed).title) + 2
       IN  usedTokens <= Max({Count(ask.question), Budget + title})

\* A packed hit is cited or suspected.
Seen(h) == h \in Range(cited) \/ h.id \in Range(suspects)

PackInv ==
    /\ phase \in {"idle", "rerank", "compress", "pack", "scan", "cited", "failed"}
    /\ phase = "idle" => Untouched
    /\ phase \in {"rerank", "compress"} => ask \in PackInputs /\ HitList(hits) /\ Untouched
    /\ phase = "pack" => ask \in PackInputs /\ HitList(hits) /\ PackedSoFar
    /\ phase = "scan" =>
        /\ Accounted
        /\ IsList(packed) /\ IsList(cited) /\ IsList(suspects)
        /\ next \in 1..(Len(packed) + 1)
        /\ \A i \in 1..(next - 1) : Seen(packed[i])
    /\ phase = "cited" => ContextAddsUp

-----------------------------------------------------------------------------
\* Totals and counts.

IsTotals(t, ns) ==
    /\ t \in [0..Len(ns) -> Nat]
    /\ t[0] = 0
    /\ \A n \in 1..Len(ns) : t[n] = t[n - 1] + ns[n]

Numbers(ns) == IsList(ns) /\ \A i \in 1..Len(ns) : ns[i] \in Nat

LEMMA TotalIs ==
    ASSUME NEW ns, Numbers(ns)
    PROVE  \E t : IsTotals(t, ns) /\ Total(ns) = t[Len(ns)]
<1> DEFINE N == Len(ns)
           G == [x \in (1..N) \X Nat |-> x[2] + ns[x[1]]]
           Sums(f) == [n \in 0..N |-> IF n = 0 THEN 0 ELSE f[n - 1] + ns[n]]
           total == CHOOSE f : f = Sums(f)
<1>1. N \in Nat /\ \A n \in 1..N : ns[n] \in Nat
  BY ListFacts DEF Numbers
<1>2. G \in [(1..N) \X Nat -> Nat] /\ \A n \in 1..N, a \in Nat : G[n, a] = a + ns[n]
  <2>1. \A x \in (1..N) \X Nat : x[2] + ns[x[1]] \in Nat
    <3> HIDE DEF N
    <3>1. \A x \in (1..N) \X Nat : x[1] \in 1..N /\ x[2] \in Nat
      OBVIOUS
    <3>2. \A x \in (1..N) \X Nat : ns[x[1]] \in Nat
      BY <1>1, <3>1
    <3> QED
      BY <3>1, <3>2
  <2> HIDE DEF N
  <2>2. G \in [(1..N) \X Nat -> Nat]
    BY <2>1
  <2>3. \A n \in 1..N, a \in Nat : <<n, a>> \in (1..N) \X Nat /\ G[<<n, a>>] = a + ns[n]
    OBVIOUS
  <2> QED
    BY <2>2, <2>3
<1>3. Total(ns) = total[N]
  BY DEF Total
<1> HIDE DEF N, G
<1>4. PICK f : Iterates(f, N, Nat, 0, G)
  BY <1>1, <1>2, IterationExists
<1>5. /\ f \in [0..N -> Nat] /\ f[0] = 0
      /\ \A n \in 1..N : n - 1 \in 0..N /\ f[n] = f[n - 1] + ns[n]
  <2>1. f \in [0..N -> Nat] /\ f[0] = 0
    BY <1>4 DEF Iterates
  <2>2. ASSUME NEW n \in 1..N
        PROVE  n - 1 \in 0..N /\ f[n] = f[n - 1] + ns[n]
    <3>1. n - 1 \in 0..N
      BY <1>1
    <3>2. f[n - 1] \in Nat
      BY <2>1, <3>1
    <3>3. f[n] = G[n, f[n - 1]]
      BY <1>4 DEF Iterates
    <3> QED
      BY <1>2, <3>1, <3>2, <3>3
  <2> QED
    BY <2>1, <2>2
<1>6. f = Sums(f)
  <2>1. \A n \in 0..N : f[n] = IF n = 0 THEN 0 ELSE f[n - 1] + ns[n]
    BY <1>1, <1>5
  <2> QED
    BY <1>5, <2>1
<1>7. total = Sums(total)
  <2> HIDE DEF Sums
  <2> QED
    BY <1>6
<1> HIDE DEF total
<1>8. /\ DOMAIN total = 0..N
      /\ total[0] = 0
      /\ \A n \in 1..N : total[n] = total[n - 1] + ns[n]
  <2>1. 0 \in 0..N /\ \A n \in 1..N : n \in 0..N /\ n # 0
    BY <1>1
  <2> QED
    BY <1>7, <2>1
<1>9. \A n \in 0..N : total[n] \in Nat
  <2>1. \A n \in 1..N : total[n - 1] \in Nat => total[n] \in Nat
    BY <1>1, <1>8
  <2>2. total[0] \in Nat
    BY <1>8
  <2> HIDE <1>8
  <2> QED
    BY <1>1, <2>1, <2>2, IterationStaysIn
<1>10. total \in [0..N -> Nat]
  <2>1. total = [n \in 0..N |-> total[n]]
    BY <1>7
  <2> QED
    BY <1>9, <2>1
<1>11. IsTotals(total, ns)
  BY <1>8, <1>10 DEF IsTotals, N
<1> QED
  BY <1>3, <1>11 DEF N

LEMMA TotalType ==
    ASSUME NEW ns, Numbers(ns)
    PROVE  Total(ns) \in Nat
<1>1. PICK t : IsTotals(t, ns) /\ Total(ns) = t[Len(ns)]
  BY TotalIs
<1>2. Len(ns) \in Nat
  BY ListFacts DEF Numbers
<1>3. Len(ns) \in 0..Len(ns)
  BY <1>2
<1> QED
  BY <1>1, <1>3 DEF IsTotals

LEMMA TotalOfNone ==
    ASSUME NEW ns, Numbers(ns), Len(ns) = 0
    PROVE  Total(ns) = 0
<1>1. PICK t : IsTotals(t, ns) /\ Total(ns) = t[Len(ns)]
  BY TotalIs
<1> QED
  BY <1>1 DEF IsTotals

\* The total of a list with one more.
LEMMA TotalGrows ==
    ASSUME NEW ns, Numbers(ns), NEW ms, Numbers(ms), Len(ms) = Len(ns) + 1,
           \A i \in 1..Len(ns) : ms[i] = ns[i]
    PROVE  Total(ms) = Total(ns) + ms[Len(ns) + 1]
<1> DEFINE N == Len(ns)
<1>1. N \in Nat
  BY ListFacts DEF Numbers
<1>2. PICK t : IsTotals(t, ns) /\ Total(ns) = t[N]
  BY TotalIs
<1>3. PICK u : IsTotals(u, ms) /\ Total(ms) = u[N + 1]
  BY TotalIs
<1> DEFINE Same == {n \in 0..N : t[n] = u[n]}
<1>4. Same = 0..N
  <2>1. 0 \in Same
    BY <1>1, <1>2, <1>3 DEF IsTotals
  <2>2. ASSUME NEW n \in 1..N, n - 1 \in Same
        PROVE  n \in Same
    <3>1. n \in 0..N /\ n \in 1..(N + 1) /\ ms[n] = ns[n]
      BY <1>1
    <3>2. t[n] = t[n - 1] + ns[n] /\ u[n] = u[n - 1] + ms[n]
      BY <1>2, <1>3, <3>1 DEF IsTotals
    <3> QED
      BY <2>2, <3>1, <3>2
  <2>3. Same \in SUBSET (0..N)
    OBVIOUS
  <2> HIDE DEF Same
  <2> QED
    BY <1>1, <2>1, <2>2, <2>3, CountingUp
<1>5. N \in 0..N /\ N + 1 \in 1..(N + 1) /\ (N + 1) - 1 = N
  BY <1>1
<1>6. u[N + 1] = u[(N + 1) - 1] + ms[N + 1]
  BY <1>3, <1>5 DEF IsTotals
<1>7. t[N] = u[N]
  BY <1>4, <1>5
<1> HIDE DEF N, Same
<1> QED
  BY <1>2, <1>3, <1>5, <1>6, <1>7 DEF N

LEMMA MaxOfTwo ==
    ASSUME NEW a \in Int, NEW b \in Int
    PROVE  Max({a, b}) = IF a >= b THEN a ELSE b
<1>1. \E x \in {a, b} : \A y \in {a, b} : x >= y
  OBVIOUS
<1>2. Max({a, b}) \in {a, b} /\ \A y \in {a, b} : Max({a, b}) >= y
  BY <1>1 DEF Max
<1> HIDE <1>1
<1> DEFINE m == Max({a, b})
<1>3. (m = a \/ m = b) /\ m >= a /\ m >= b
  BY <1>2
<1> HIDE DEF m
<1>4. m = IF a >= b THEN a ELSE b
  BY <1>3
<1> QED
  BY <1>4 DEF m

LEMMA MinOfTwo ==
    ASSUME NEW a \in Int, NEW b \in Int
    PROVE  Min({a, b}) = IF a <= b THEN a ELSE b
<1>1. \E x \in {a, b} : \A y \in {a, b} : x <= y
  OBVIOUS
<1>2. Min({a, b}) \in {a, b} /\ \A y \in {a, b} : Min({a, b}) <= y
  BY <1>1 DEF Min
<1> HIDE <1>1
<1> DEFINE m == Min({a, b})
<1>3. (m = a \/ m = b) /\ m <= a /\ m <= b
  BY <1>2
<1> HIDE DEF m
<1>4. m = IF a <= b THEN a ELSE b
  BY <1>3
<1> QED
  BY <1>4 DEF m

\* A count is the tenths of the words, one at least.
LEMMA CountIs ==
    ASSUME NEW n \in Nat
    PROVE  /\ Count(n) \in Nat \ {0}
           /\ \E c \in Nat : /\ 10 * c <= 13 * n /\ 13 * n < 10 * c + 10
                             /\ Count(n) = IF 1 >= c THEN 1 ELSE c
<1> DEFINE c == (13 * n) \div 10
<1>1. c \in Nat /\ 10 * c <= 13 * n /\ 13 * n < 10 * c + 10
  OBVIOUS
<1>2. Count(n) = Max({1, c})
  BY DEF Count
<1> HIDE DEF c
<1>3. Count(n) = IF 1 >= c THEN 1 ELSE c
  BY <1>1, <1>2, MaxOfTwo
<1> QED
  BY <1>1, <1>3

\* Rounding takes no more than two from the count of three texts.
LEMMA CountOfThree ==
    ASSUME NEW a \in Nat, NEW b \in Nat, NEW k \in Nat
    PROVE  Count(a + b + k) <= Count(a) + Count(b) + Count(k) + 2
<1> DEFINE n == a + b + k
<1>1. n \in Nat
  OBVIOUS
<1>2. PICK cn \in Nat : /\ 10 * cn <= 13 * n /\ 13 * n < 10 * cn + 10
                        /\ Count(n) = IF 1 >= cn THEN 1 ELSE cn
  BY <1>1, CountIs
<1>3. PICK ca \in Nat : /\ 10 * ca <= 13 * a /\ 13 * a < 10 * ca + 10
                        /\ Count(a) = IF 1 >= ca THEN 1 ELSE ca
  BY CountIs
<1>4. PICK cb \in Nat : /\ 10 * cb <= 13 * b /\ 13 * b < 10 * cb + 10
                        /\ Count(b) = IF 1 >= cb THEN 1 ELSE cb
  BY CountIs
<1>5. PICK ck \in Nat : /\ 10 * ck <= 13 * k /\ 13 * k < 10 * ck + 10
                        /\ Count(k) = IF 1 >= ck THEN 1 ELSE ck
  BY CountIs
<1>6. cn <= ca + cb + ck + 2
  BY <1>2, <1>3, <1>4, <1>5
<1>7. Count(n) <= cn \/ Count(n) = 1
  BY <1>2
<1>8. ca <= Count(a) /\ 1 <= Count(a) /\ Count(a) \in Nat
  BY <1>3
<1>9. cb <= Count(b) /\ 1 <= Count(b) /\ Count(b) \in Nat
  BY <1>4
<1>10. ck <= Count(k) /\ 1 <= Count(k) /\ Count(k) \in Nat
  BY <1>5
<1>11. Count(n) \in Nat
  BY <1>2
<1> HIDE DEF n
<1>12. Count(n) <= Count(a) + Count(b) + Count(k) + 2
  BY <1>6, <1>7, <1>8, <1>9, <1>10, <1>11
<1> QED
  BY <1>12 DEF n

-----------------------------------------------------------------------------
\* Hits.

LEMMA HitCosts ==
    ASSUME NEW h, IsHit(h)
    PROVE  Words(h) \in Nat /\ Cost(h) \in Nat \ {0}
<1>1. h.content \in Seq(Nat) /\ h.name \in Nat /\ h.title \in Nat
  BY DEF IsHit
<1>2. Numbers(h.content)
  <2> DEFINE c == h.content
  <2>1. c \in Seq(Nat)
    BY <1>1
  <2> HIDE DEF c
  <2>2. \A i \in 1..Len(c) : c[i] \in Nat
    BY <2>1, ElementOfSeq
  <2>3. Numbers(c)
    BY <2>1, <2>2 DEF Numbers, IsList
  <2> QED
    BY <2>3 DEF c
<1>3. Words(h) \in Nat
  BY <1>2, TotalType DEF Words
<1> DEFINE n == h.name + h.title + Words(h)
<1>4. n \in Nat
  BY <1>1, <1>3
<1>5. Cost(h) = Count(n)
  BY DEF Cost
<1> HIDE DEF n
<1> QED
  BY <1>3, <1>4, <1>5, CountIs

LEMMA CostsAreNumbers ==
    ASSUME NEW hs, HitList(hs)
    PROVE  Numbers(Costs(hs)) /\ Len(Costs(hs)) = Len(hs) /\ \A i \in 1..Len(hs) : Costs(hs)[i] = Cost(hs[i])
<1>1. Len(hs) \in Nat /\ DOMAIN hs = 1..Len(hs)
  BY ListFacts DEF HitList
<1>2. \A i \in 1..Len(hs) : Cost(hs[i]) \in Nat
  BY HitCosts DEF HitList
<1>3. Costs(hs) \in [1..Len(hs) -> Nat] /\ \A i \in 1..Len(hs) : Costs(hs)[i] = Cost(hs[i])
  BY <1>1, <1>2 DEF Costs
<1>4. IsList(Costs(hs)) /\ Len(Costs(hs)) = Len(hs)
  BY <1>1, <1>3, ListOfFunction
<1> QED
  BY <1>3, <1>4 DEF Numbers

\* The elements of a finite set at their places are elements of it.
LEMMA InOrderStays ==
    ASSUME NEW S, IsFiniteSet(S), NEW R, Orders(R, S), NEW list, Placed(list, R, S)
    PROVE  list \in [1..Cardinality(S) -> S]
  BY PlacedInOrder DEF Lists

LEMMA NumbersAreOrdered ==
    ASSUME NEW S, S \subseteq Int
    PROVE  Orders({z \in S \X S : z[1] < z[2]}, S)
<1> DEFINE R == {z \in S \X S : z[1] < z[2]}
<1>1. \A x, y \in S : (<<x, y>> \in R <=> x < y) /\ x \in Int /\ y \in Int
  OBVIOUS
<1> HIDE DEF R
<1>2. Orders(R, S)
  BY <1>1 DEF Orders
<1> QED
  BY <1>2 DEF R

ScoreOrder(hs, score) ==
    InOrder(DOMAIN hs, LAMBDA i, j : \/ score[i] > score[j]
                                     \/ score[i] = score[j] /\ i < j)

LEMMA ScoreOrderStays ==
    ASSUME NEW hs, IsList(hs), NEW score \in [DOMAIN hs -> Nat]
    PROVE  ScoreOrder(hs, score) \in [DOMAIN hs -> DOMAIN hs]
<1> DEFINE listed == ScoreOrder(hs, score)
           N == Len(hs)
           S == 1..N
           Ahead(i, j) == \/ score[i] > score[j]
                          \/ score[i] = score[j] /\ i < j
           R == {z \in S \X S : Ahead(z[1], z[2])}
<1>1. N \in Nat /\ DOMAIN hs = S
  BY ListFacts
<1>2. IsFiniteSet(S) /\ Cardinality(S) = N
  <2> HIDE DEF N
  <2>1. 1 \in Int /\ N \in Int
    BY <1>1
  <2>2. IsFiniteSet(1..N) /\ Cardinality(1..N) = IF 1 > N THEN 0 ELSE N - 1 + 1
    BY <2>1, FS_Interval
  <2> QED
    BY <1>1, <2>2
<1>3. \A i, j \in S : <<i, j>> \in R <=> Ahead(i, j)
  OBVIOUS
<1>4. Orders(R, S)
  <2>1. \A i \in S : i \in Nat /\ score[i] \in Nat
    BY <1>1
  <2> HIDE DEF R, S, N
  <2>2. \A i \in S : ~Ahead(i, i)
    BY <2>1
  <2>3. \A i, j, k \in S : Ahead(i, j) /\ Ahead(j, k) => Ahead(i, k)
    BY <2>1
  <2>4. \A i, j \in S : i = j \/ Ahead(i, j) \/ Ahead(j, i)
    BY <2>1
  <2> HIDE DEF Ahead
  <2> QED
    BY <1>3, <2>2, <2>3, <2>4 DEF Orders
<1>5. Placed(listed, R, S)
  <2> HIDE DEF N
  <2>1. \A j \in S : {i \in S : Ahead(i, j)} = {i \in S : <<i, j>> \in R}
    OBVIOUS
  <2>2. listed = [k \in 1..Cardinality(S) |->
                    CHOOSE j \in S : Cardinality({i \in S : Ahead(i, j)}) = k - 1]
    BY <1>1 DEF InOrder, ScoreOrder
  <2>3. \A k \in 1..Cardinality(S) :
           listed[k] = CHOOSE j \in S : Cardinality({i \in S : Ahead(i, j)}) = k - 1
    <3> HIDE DEF Ahead, R, S
    <3> QED
      BY <2>2
  <2>4. \A k \in 1..Cardinality(S) :
           (CHOOSE j \in S : Cardinality({i \in S : Ahead(i, j)}) = k - 1)
         = (CHOOSE j \in S : Cardinality({i \in S : <<i, j>> \in R}) = k - 1)
    <3> HIDE DEF Ahead, R, S
    <3> QED
      BY <2>1
  <2>5. listed = [k \in 1..Cardinality(S) |-> listed[k]]
    <3> HIDE DEF Ahead, R, S
    <3> QED
      BY <2>2
  <2> HIDE DEF Ahead, R, S
  <2> QED
    BY <2>3, <2>4, <2>5 DEF Placed
<1> HIDE DEF R, S, N
<1>6. listed \in [1..Cardinality(S) -> S]
  <2> HIDE DEF listed
  <2> QED
    BY <1>2, <1>4, <1>5, InOrderStays
<1>7. 1..Cardinality(S) = S
  BY <1>2 DEF S
<1> QED
  BY <1>1, <1>6, <1>7

\* A hit with another score or content.
LEMMA HitScored ==
    ASSUME NEW h, IsHit(h), NEW s \in Nat
    PROVE  IsHit([h EXCEPT !.score = s])
<1> DEFINE rec(i, n, t, c, sc, m) ==
              [id |-> i, name |-> n, title |-> t, content |-> c, score |-> sc, matches |-> m]
<1>1. PICK i, n, t, c, sc, m : h = rec(i, n, t, c, sc, m)
  BY DEF IsHit
<1>2. [h EXCEPT !.score = s] = rec(i, n, t, c, s, m)
  BY <1>1
<1>3. n \in Nat /\ t \in Nat /\ c \in Seq(Nat) /\ m \in Nat
  BY <1>1 DEF IsHit
<1> DEFINE g == rec(i, n, t, c, s, m)
<1>4. IsHit(g)
  BY <1>3 DEF IsHit
<1> QED
  BY <1>2, <1>4

LEMMA HitShortened ==
    ASSUME NEW h, IsHit(h), NEW c \in Seq(Nat)
    PROVE  LET g == [h EXCEPT !.content = c]
           IN  IsHit(g) /\ g.id = h.id /\ g.name = h.name /\ g.title = h.title /\ g.content = c
<1> DEFINE rec(i, n, t, ct, sc, m) ==
              [id |-> i, name |-> n, title |-> t, content |-> ct, score |-> sc, matches |-> m]
<1>1. PICK i, n, t, ct, sc, m : h = rec(i, n, t, ct, sc, m)
  BY DEF IsHit
<1>2. [h EXCEPT !.content = c] = rec(i, n, t, c, sc, m)
  BY <1>1
<1>3. n \in Nat /\ t \in Nat /\ sc \in Nat /\ m \in Nat
  BY <1>1 DEF IsHit
<1> DEFINE g == rec(i, n, t, c, sc, m)
<1>4. IsHit(g)
  BY <1>3 DEF IsHit
<1>5. g.id = h.id /\ g.name = h.name /\ g.title = h.title /\ g.content = c
  BY <1>1
<1> HIDE DEF g
<1>6. [h EXCEPT !.content = c] = g
  BY <1>2 DEF g
<1> QED
  BY <1>4, <1>5, <1>6

LEMMA RankedKeepsHits ==
    ASSUME NEW hs, HitList(hs), NEW score \in [DOMAIN hs -> Nat]
    PROVE  HitList(Ranked(hs, score))
<1> DEFINE listed == ScoreOrder(hs, score)
           ranked == [p \in DOMAIN hs |-> [hs[listed[p]] EXCEPT !.score = score[listed[p]]]]
<1>1. Ranked(hs, score) = ranked
  BY DEF Ranked, ScoreOrder
<1>2. listed \in [DOMAIN hs -> DOMAIN hs]
  BY ScoreOrderStays DEF HitList
<1>3. Len(hs) \in Nat /\ DOMAIN hs = 1..Len(hs)
  BY ListFacts DEF HitList
<1> HIDE DEF listed
<1>4. ASSUME NEW p \in 1..Len(hs)
      PROVE  IsHit(ranked[p])
  <2>1. listed[p] \in 1..Len(hs)
    BY <1>2, <1>3
  <2>2. IsHit(hs[listed[p]]) /\ score[listed[p]] \in Nat
    BY <1>3, <2>1 DEF HitList
  <2>3. ranked[p] = [hs[listed[p]] EXCEPT !.score = score[listed[p]]]
    BY <1>3
  <2> DEFINE hh == hs[listed[p]]
             ss == score[listed[p]]
  <2>4. ranked[p] = [hh EXCEPT !.score = ss] /\ IsHit(hh) /\ ss \in Nat
    BY <2>2, <2>3
  <2> HIDE DEF hh, ss, ranked
  <2> QED
    BY <2>4, HitScored
<1>5. ranked = [p \in 1..Len(hs) |-> ranked[p]]
  BY <1>3
<1> HIDE DEF ranked
<1>6. IsList(ranked) /\ Len(ranked) = Len(hs)
  <2> DEFINE T == {ranked[p] : p \in 1..Len(hs)}
  <2>1. ranked \in [1..Len(hs) -> T]
    BY <1>5
  <2> HIDE DEF T
  <2> QED
    BY <1>3, <2>1, ListOfFunction
<1> QED
  BY <1>1, <1>4, <1>6 DEF HitList

LEMMA TopKeepsHits ==
    ASSUME NEW hs, HitList(hs), ask.topN \in Nat
    PROVE  HitList(Top(hs))
<1> DEFINE N == Len(hs)
           m == Min({ask.topN, N})
<1>1. N \in Nat
  BY ListFacts DEF HitList
<1>2. m \in 0..N
  <2>1. m = IF ask.topN <= N THEN ask.topN ELSE N
    <3> HIDE DEF N
    <3> QED
      BY <1>1, MinOfTwo
  <2> HIDE DEF m, N
  <2> QED
    BY <1>1, <2>1
<1>3. CASE ask.topN > 0
  <2>1. Top(hs) = SubSeq(hs, 1, m)
    BY <1>3 DEF Top
  <2> HIDE DEF m, N
  <2>2. PICK S : hs \in Seq(S)
    BY DEF HitList, IsList
  <2>3. \A i \in 1..m : i \in 1..N /\ hs[i] \in S
    BY <1>1, <1>2, <2>2, ElementOfSeq DEF N
  <2>4. /\ SubSeq(hs, 1, m) \in Seq(S)
        /\ Len(SubSeq(hs, 1, m)) = IF 1 <= m THEN m - 1 + 1 ELSE 0
        /\ \A i \in 1..(m - 1 + 1) : SubSeq(hs, 1, m)[i] = hs[1 + i - 1]
    <3>1. 1 \in Int /\ m \in Int
      BY <1>1, <1>2
    <3> QED
      BY <2>3, <3>1, SubSeqProperties
  <2>5. Len(SubSeq(hs, 1, m)) = m
    BY <1>1, <1>2, <2>4
  <2>6. \A i \in 1..m : SubSeq(hs, 1, m)[i] = hs[i]
    BY <1>1, <1>2, <2>4
  <2> QED
    BY <2>1, <2>3, <2>4, <2>5, <2>6 DEF HitList, IsList, N
<1>4. CASE ~(ask.topN > 0)
  BY <1>4 DEF Top
<1> QED
  BY <1>3, <1>4

\* A hit with some of its sentences is a hit.
LEMMA KeptAreHits ==
    ASSUME NEW h, IsHit(h), NEW g \in Kept(h)
    PROVE  IsHit(g)
<1> DEFINE n == Len(h.content)
<1>1. h.content \in Seq(Nat)
  BY DEF IsHit
<1>2. n \in Nat /\ \A i \in 1..n : h.content[i] \in Nat
  <2> DEFINE c == h.content
  <2>1. c \in Seq(Nat)
    BY <1>1
  <2> HIDE DEF c
  <2>2. Len(c) \in Nat /\ \A i \in 1..Len(c) : c[i] \in Nat
    BY <2>1, LenProperties, ElementOfSeq
  <2> QED
    BY <2>2 DEF c
<1>3. CASE n <= MaxSentences
  BY <1>3 DEF Kept
<1>4. CASE ~(n <= MaxSentences)
  <2>1. PICK S \in kSubset(MaxSentences, 1..n) :
            g = [h EXCEPT !.content = [k \in 1..MaxSentences |-> h.content[InOrder(S, <)[k]]]]
    BY <1>4 DEF Kept
  <2>2. S \subseteq 1..n /\ Cardinality(S) = MaxSentences /\ MaxSentences \in Nat
    BY <2>1, PackAssumption DEF kSubset
  <2>3. IsFiniteSet(S)
    <3> HIDE DEF n
    <3>1. IsFiniteSet(1..n)
      BY <1>2, FS_Interval
    <3> QED
      BY <2>2, <3>1, FS_Subset
  <2> DEFINE R == {z \in S \X S : z[1] < z[2]}
             listed == InOrder(S, <)
  <2>4. Orders(R, S)
    <3> HIDE DEF R
    <3>1. S \subseteq Int
      BY <2>2
    <3> QED
      BY <3>1, NumbersAreOrdered DEF R
  <2>5. Placed(listed, R, S)
    <3> DEFINE below(j) == {i \in S : i < j}
    <3>1. listed = [k \in 1..Cardinality(S) |->
                      CHOOSE j \in S : Cardinality(below(j)) = k - 1]
      BY DEF InOrder
    <3>2. \A j \in S : below(j) = {i \in S : <<i, j>> \in R}
      OBVIOUS
    <3> HIDE DEF listed, R, below
    <3>3. \A k \in 1..Cardinality(S) :
             listed[k] = CHOOSE j \in S : Cardinality(below(j)) = k - 1
      BY <3>1
    <3>4. \A k \in 1..Cardinality(S) :
             (CHOOSE j \in S : Cardinality(below(j)) = k - 1)
           = (CHOOSE j \in S : Cardinality({i \in S : <<i, j>> \in R}) = k - 1)
      BY <3>2
    <3>5. listed = [k \in 1..Cardinality(S) |-> listed[k]]
      BY <3>1
    <3> QED
      BY <3>3, <3>4, <3>5 DEF Placed
  <2>6. g = [h EXCEPT !.content = [k \in 1..MaxSentences |-> h.content[listed[k]]]]
    BY <2>1
  <2> HIDE DEF listed, R, n
  <2>7. listed \in [1..MaxSentences -> S]
    BY <2>2, <2>3, <2>4, <2>5, InOrderStays
  <2> DEFINE c == [k \in 1..MaxSentences |-> h.content[listed[k]]]
  <2>8. c \in [1..MaxSentences -> Nat]
    <3>1. \A k \in 1..MaxSentences : listed[k] \in 1..n
      BY <2>2, <2>7
    <3> QED
      BY <1>2, <3>1
  <2>9. g = [h EXCEPT !.content = c]
    BY <2>6
  <2> HIDE DEF c
  <2>10. c \in Seq(Nat)
    BY <2>2, <2>8, ListOfFunction
  <2> QED
    BY <2>9, <2>10, HitShortened
<1> QED
  BY <1>3, <1>4

-----------------------------------------------------------------------------
\* Lists once more.

LEMMA SameList ==
    ASSUME NEW s, IsList(s), NEW t, IsList(t), Len(s) = Len(t),
           \A i \in 1..Len(s) : s[i] = t[i]
    PROVE  s = t
<1>1. PICK S : s \in Seq(S)
  BY DEF IsList
<1>2. PICK T : t \in Seq(T)
  BY DEF IsList
<1> DEFINE U == S \cup T
<1>3. s \in Seq(U) /\ t \in Seq(U)
  BY <1>1, <1>2, SeqMonotonic
<1> HIDE DEF U
<1> HIDE <1>1, <1>2
<1> QED
  BY <1>3, SeqEqual

LEMMA ListConcat ==
    ASSUME NEW s, IsList(s), NEW t, IsList(t)
    PROVE  /\ IsList(s \o t)
           /\ Len(s \o t) = Len(s) + Len(t)
           /\ \A i \in 1..Len(s) : (s \o t)[i] = s[i]
           /\ \A i \in 1..Len(t) : (s \o t)[Len(s) + i] = t[i]
<1>1. PICK S : s \in Seq(S)
  BY DEF IsList
<1>2. PICK T : t \in Seq(T)
  BY DEF IsList
<1> DEFINE U == S \cup T
<1>3. s \in Seq(U) /\ t \in Seq(U)
  BY <1>1, <1>2, SeqMonotonic
<1> HIDE DEF U
<1> HIDE <1>1, <1>2
<1>4. /\ s \o t \in Seq(U) /\ Len(s \o t) = Len(s) + Len(t)
      /\ \A i \in 1..(Len(s) + Len(t)) : (s \o t)[i] = IF i <= Len(s) THEN s[i] ELSE t[i - Len(s)]
  BY <1>3, ConcatProperties
<1>5. Len(s) \in Nat /\ Len(t) \in Nat
  BY ListFacts
<1>6. \A i \in 1..Len(s) : (s \o t)[i] = s[i]
  BY <1>4, <1>5
<1>7. ASSUME NEW i \in 1..Len(t)
      PROVE  (s \o t)[Len(s) + i] = t[i]
  <2> DEFINE k == Len(s) + i
  <2>1. k \in 1..(Len(s) + Len(t)) /\ ~(k <= Len(s)) /\ k - Len(s) = i
    BY <1>5
  <2> HIDE DEF k
  <2>2. (s \o t)[k] = t[k - Len(s)]
    BY <1>4, <2>1
  <2> QED
    BY <2>1, <2>2 DEF k
<1> QED
  BY <1>4, <1>6, <1>7 DEF IsList

LEMMA ListOfOne ==
    ASSUME NEW x
    PROVE  IsList(<<x>>) /\ Len(<<x>>) = 1 /\ <<x>>[1] = x
<1>1. <<x>> \in Seq({x})
  OBVIOUS
<1> QED
  BY <1>1 DEF IsList

LEMMA ListOfNone == IsList(<<>>) /\ Len(<<>>) = 0
  BY EmptySeq DEF IsList

\* The end of a list, from m + 1 on.
LEMMA ListRest ==
    ASSUME NEW s, IsList(s), NEW m \in 0..Len(s)
    PROVE  LET others == SubSeq(s, m + 1, Len(s))
           IN  /\ IsList(others) /\ Len(others) = Len(s) - m
               /\ \A i \in 1..(Len(s) - m) : others[i] = s[m + i]
<1> DEFINE N == Len(s)
           others == SubSeq(s, m + 1, N)
<1>1. PICK S : s \in Seq(S)
  BY DEF IsList
<1>2. N \in Nat
  BY ListFacts
<1>3. \A i \in (m + 1)..N : s[i] \in S
  <2>1. \A i \in (m + 1)..N : i \in 1..N
    BY <1>2
  <2>2. \A i \in 1..N : s[i] \in S
    BY <1>1, ElementOfSeq
  <2> QED
    BY <2>1, <2>2
<1>4. m + 1 \in Int /\ N \in Int
  BY <1>2
<1> HIDE DEF N
<1> DEFINE m1 == m + 1
<1>5. m1 \in Int /\ N \in Int /\ \A i \in m1..N : s[i] \in S
  BY <1>3, <1>4
<1> HIDE DEF m1
<1>6. /\ SubSeq(s, m1, N) \in Seq(S)
      /\ Len(SubSeq(s, m1, N)) = IF m1 <= N THEN N - m1 + 1 ELSE 0
      /\ \A i \in 1..(N - m1 + 1) : SubSeq(s, m1, N)[i] = s[m1 + i - 1]
  BY <1>5, SubSeqProperties
<1>7. m \in 0..N
  BY DEF N
<1>8. Len(others) = N - m
  BY <1>2, <1>6, <1>7 DEF m1
<1>9. \A i \in 1..(N - m) : others[i] = s[m + i]
  <2>1. \A i \in 1..(N - m) : i \in 1..(N - m1 + 1) /\ m1 + i - 1 = m + i
    BY <1>2, <1>7 DEF m1
  <2> QED
    BY <1>6, <2>1 DEF m1
<1>10. IsList(others)
  BY <1>6 DEF IsList, m1
<1> QED
  BY <1>8, <1>9, <1>10 DEF N

LEMMA IDsOfList ==
    ASSUME NEW s, IsList(s)
    PROVE  IsList(IDs(s)) /\ Len(IDs(s)) = Len(s) /\ \A i \in 1..Len(s) : IDs(s)[i] = s[i].id
<1>1. Len(s) \in Nat /\ DOMAIN s = 1..Len(s)
  BY ListFacts
<1> DEFINE T == {s[i].id : i \in 1..Len(s)}
<1>2. IDs(s) \in [1..Len(s) -> T] /\ \A i \in 1..Len(s) : IDs(s)[i] = s[i].id
  BY <1>1 DEF IDs
<1> HIDE DEF T
<1> QED
  BY <1>1, <1>2, ListOfFunction

\* A set of numbers up to n has a greatest one.
LEMMA GreatestNumber ==
    ASSUME NEW n \in Nat, NEW S \in SUBSET (0..n), S # {}
    PROVE  Max(S) \in S /\ \A y \in S : Max(S) >= y
<1> DEFINE T == {n - x : x \in S}
<1>1. T \in SUBSET Nat /\ T # {}
  OBVIOUS
<1>2. PICK t \in T : \A y \in T : t <= y
  BY <1>1, LeastNumber
<1>3. PICK x \in S : t = n - x
  BY <1>2
<1>4. \A y \in S : x >= y
  <2> TAKE y \in S
  <2>1. n - y \in T
    OBVIOUS
  <2>2. n - x <= n - y
    BY <1>2, <1>3, <2>1
  <2>3. x \in Int /\ y \in Int
    OBVIOUS
  <2> HIDE DEF T
  <2> QED
    BY <2>2, <2>3
<1>5. \E z \in S : \A y \in S : z >= y
  BY <1>4
<1> QED
  BY <1>5 DEF Max

-----------------------------------------------------------------------------
\* Packing, step by step.

LEMMA PackStarts == PackInit => PackInv
  BY DEF PackInit, PackInv, Untouched

LEMMA PackStays == ASSUME PackInv, UNCHANGED packVars PROVE PackInv'
  BY DEF PackInv, packVars, Untouched, PackedSoFar, Accounted, Seen, ContextAddsUp, HitList,
         Costs, Cost, Budget, Words, IDs

LEMMA AskIs ==
    ASSUME ask \in PackInputs
    PROVE  /\ Count(ask.question) \in Nat \ {0} /\ Budget \in Nat /\ ask.topN \in Nat
           /\ HitList(ask.hits)
<1>1. ask.question \in Nat /\ Budget \in Nat /\ ask.topN \in Nat
  BY PackAssumption DEF Budget
<1>2. ask.hits \in Seq(Range(ask.hits)) /\ \A h \in Range(ask.hits) : IsHit(h)
  BY PackAssumption
<1> DEFINE hs == ask.hits
<1>3. hs \in Seq(Range(hs)) /\ \A h \in Range(hs) : IsHit(h)
  BY <1>2
<1> HIDE DEF hs
<1>4. \A i \in 1..Len(hs) : hs[i] \in Range(hs)
  BY <1>3, ElementOfSeq
<1>5. HitList(hs)
  BY <1>3, <1>4 DEF HitList, IsList
<1> QED
  BY <1>1, <1>5, CountIs DEF hs

LEMMA AskRoundInv ==
    ASSUME PackInv, AskRound
    PROVE  PackInv'
<1>1. Untouched /\ phase' = "rerank" /\ UNCHANGED <<next, packed, usedTokens, cut, cited, suspects>>
  BY DEF AskRound, PackInv
<1>2. ask' \in PackInputs /\ hits' = ask'.hits
  BY DEF AskRound
<1>3. HitList(ask'.hits)
  <2>1. \A a \in PackInputs : HitList(a.hits)
    <3> TAKE a \in PackInputs
    <3> DEFINE hs == a.hits
    <3>1. hs \in Seq(Range(hs)) /\ \A h \in Range(hs) : IsHit(h)
      BY PackAssumption
    <3> HIDE DEF hs
    <3>2. \A i \in 1..Len(hs) : hs[i] \in Range(hs)
      BY <3>1, ElementOfSeq
    <3>3. HitList(hs)
      BY <3>1, <3>2 DEF HitList, IsList
    <3> QED
      BY <3>3 DEF hs
  <2> QED
    BY <1>2, <2>1
<1>4. HitList(hits') /\ Untouched'
  BY <1>1, <1>2, <1>3 DEF Untouched
<1> QED
  BY <1>1, <1>2, <1>4 DEF PackInv, HitList

LEMMA RerankInv ==
    ASSUME PackInv, Rerank
    PROVE  PackInv'
<1>1. /\ ask \in PackInputs /\ HitList(hits) /\ Untouched /\ phase' = "compress"
      /\ UNCHANGED <<ask, next, packed, usedTokens, cut, cited, suspects>>
  BY DEF Rerank, PackInv
<1>2. Untouched' /\ ask' \in PackInputs
  BY <1>1 DEF Untouched
<1>3. HitList(hits')
  <2>1. CASE UNCHANGED hits
    BY <1>1, <2>1
  <2>2. CASE hits' = Ranked(hits, [i \in DOMAIN hits |-> hits[i].score + hits[i].matches])
    <3> DEFINE score == [i \in DOMAIN hits |-> hits[i].score + hits[i].matches]
    <3>1. DOMAIN hits = 1..Len(hits)
      BY <1>1, ListFacts DEF HitList
    <3>2. \A i \in DOMAIN hits : hits[i].score \in Nat /\ hits[i].matches \in Nat
      BY <1>1, <3>1 DEF HitList, IsHit
    <3>3. score \in [DOMAIN hits -> Nat]
      BY <3>2
    <3> HIDE DEF score
    <3>4. HitList(Ranked(hits, score))
      BY <1>1, <3>3, RankedKeepsHits
    <3> QED
      BY <2>2, <3>4 DEF score
  <2>3. CASE \E score \in [DOMAIN hits -> ModelScores] : hits' = Top(Ranked(hits, score))
    <3>1. PICK score \in [DOMAIN hits -> ModelScores] : hits' = Top(Ranked(hits, score))
      BY <2>3
    <3>2. score \in [DOMAIN hits -> Nat]
      BY PackAssumption
    <3>3. HitList(Ranked(hits, score))
      BY <1>1, <3>2, RankedKeepsHits
    <3> DEFINE hs == Ranked(hits, score)
    <3>4. HitList(hs) /\ hits' = Top(hs)
      BY <3>1, <3>3
    <3> HIDE DEF hs
    <3> QED
      BY <1>1, <3>4, AskIs, TopKeepsHits
  <2> QED
    BY <2>1, <2>2, <2>3 DEF Rerank
<1>4. HitList(hits)'
  BY <1>3 DEF HitList
<1> QED
  BY <1>1, <1>2, <1>4 DEF PackInv

LEMMA CompressInv ==
    ASSUME PackInv, Compress
    PROVE  PackInv'
<1>1. /\ ask \in PackInputs /\ HitList(hits) /\ Untouched /\ phase' = "pack"
      /\ UNCHANGED <<ask, next, packed, cut, cited, suspects>>
      /\ usedTokens' = Count(ask.question)
  BY DEF Compress, PackInv
<1>2. HitList(hits')
  <2>1. CASE UNCHANGED hits
    BY <1>1, <2>1
  <2>2. CASE \E short \in [DOMAIN hits -> UNION {Kept(h) : h \in Range(hits)}] :
                /\ \A i \in DOMAIN hits : short[i] \in Kept(hits[i])
                /\ hits' = short
    <3> DEFINE U == UNION {Kept(h) : h \in Range(hits)}
    <3>1. hits' \in [DOMAIN hits -> U] /\ \A i \in DOMAIN hits : hits'[i] \in Kept(hits[i])
      BY <2>2
    <3> HIDE DEF U
    <3>2. Len(hits) \in Nat /\ DOMAIN hits = 1..Len(hits)
      BY <1>1, ListFacts DEF HitList
    <3>3. IsList(hits') /\ Len(hits') = Len(hits)
      BY <3>1, <3>2, ListOfFunction
    <3>4. \A i \in 1..Len(hits) : IsHit(hits'[i])
      BY <1>1, <3>1, <3>2, KeptAreHits DEF HitList
    <3> QED
      BY <3>3, <3>4 DEF HitList
  <2> QED
    BY <2>1, <2>2 DEF Compress
<1>3. HitList(hits)'
  BY <1>2 DEF HitList
<1>4. PackedSoFar'
  <2>1. packed' = <<>> /\ IsList(<<>>) /\ Len(<<>>) = 0 /\ Len(hits') \in Nat /\ DOMAIN <<>> = {}
    BY <1>1, <1>2, ListOfNone, ListFacts DEF Untouched, HitList
  <2>2. IDs(<<>>) = <<>>
    BY <2>1 DEF IDs
  <2>3. Total(Costs(packed))' = 0
    <3> DEFINE c == Costs(packed)'
    <3>1. c = [i \in DOMAIN <<>> |-> Cost(<<>>[i])]
      BY <2>1 DEF Costs
    <3>2. c \in [1..0 -> Nat]
      <4>1. 1..0 = {} /\ DOMAIN <<>> = {}
        OBVIOUS
      <4>2. c = [i \in 1..0 |-> Cost(<<>>[i])]
        BY <3>1, <4>1
      <4> HIDE DEF c
      <4> QED
        BY <4>1, <4>2
    <3> HIDE DEF c
    <3>3. IsList(c) /\ Len(c) = 0
      BY <3>2, ListOfFunction
    <3>4. Numbers(c)
      BY <3>3 DEF Numbers
    <3>5. Total(c) = 0
      BY <3>3, <3>4, TotalOfNone
    <3> QED
      BY <3>5 DEF c
  <2>4. Count(ask.question) \in Nat /\ Budget \in Nat /\ Budget' = Budget
    BY <1>1, AskIs DEF Budget
  <2>5. Count(ask.question) <= Max({Count(ask.question), Budget})
    BY <2>4, MaxOfTwo
  <2>6. (usedTokens <= Max({Count(ask.question), Budget}))'
    BY <1>1, <2>4, <2>5
  <2>7. (usedTokens = Count(ask.question) + Total(Costs(packed)))'
    BY <1>1, <2>3, <2>4
  <2>8. (cut = [selected |-> IDs(packed), truncated |-> <<>>, dropped |-> <<>>])'
    BY <1>1, <2>1, <2>2 DEF Untouched
  <2>9. (IsList(packed) /\ Len(packed) <= Len(hits) /\ \A i \in 1..Len(packed) : packed[i] = hits[i])'
    BY <2>1
  <2>10. (next = Len(packed) + 1 /\ cited = <<>> /\ suspects = <<>>)'
    BY <1>1, <2>1 DEF Untouched
  <2> QED
    BY <2>6, <2>7, <2>8, <2>9, <2>10 DEF PackedSoFar
<1> QED
  BY <1>1, <1>3, <1>4 DEF PackInv

\* One more hit in the prompt.
LEMMA OneMoreHit ==
    ASSUME NEW ps, HitList(ps), NEW h, IsHit(h)
    PROVE  /\ HitList(Append(ps, h))
           /\ IDs(Append(ps, h)) = Append(IDs(ps), h.id)
           /\ Total(Costs(Append(ps, h))) = Total(Costs(ps)) + Cost(h)
           /\ Total(Costs(ps)) \in Nat /\ Cost(h) \in Nat
           /\ Last(Append(ps, h)) = h /\ Append(ps, h) # <<>>
<1> DEFINE qs == Append(ps, h)
           N  == Len(ps)
<1>1. /\ N \in Nat /\ IsList(qs) /\ Len(qs) = N + 1
      /\ \A i \in 1..N : qs[i] = ps[i]
      /\ qs[N + 1] = h
  BY ListFacts, ListAppend DEF HitList
<1> HIDE DEF qs
<1>2. HitList(qs)
  <2>1. \A i \in 1..(N + 1) : i \in 1..N \/ i = N + 1
    BY <1>1
  <2> QED
    BY <1>1, <2>1 DEF HitList
<1>3. IDs(qs) = Append(IDs(ps), h.id)
  <2> DEFINE ids == IDs(qs)
             more == Append(IDs(ps), h.id)
  <2>1. IsList(ids) /\ Len(ids) = N + 1 /\ \A i \in 1..(N + 1) : ids[i] = qs[i].id
    BY <1>1, IDsOfList
  <2>2. IsList(IDs(ps)) /\ Len(IDs(ps)) = N /\ \A i \in 1..N : IDs(ps)[i] = ps[i].id
    BY IDsOfList DEF HitList
  <2>3. IsList(more) /\ Len(more) = N + 1 /\ (\A i \in 1..N : more[i] = IDs(ps)[i]) /\ more[N + 1] = h.id
    BY <2>2, ListAppend
  <2>4. \A i \in 1..(N + 1) : i \in 1..N \/ i = N + 1
    BY <1>1
  <2> HIDE DEF ids, more
  <2>5. \A i \in 1..(N + 1) : ids[i] = more[i]
    BY <1>1, <2>1, <2>2, <2>3, <2>4
  <2>6. ids = more
    BY <2>1, <2>3, <2>5, SameList
  <2> QED
    BY <2>6 DEF ids, more
<1>4. Total(Costs(qs)) = Total(Costs(ps)) + Cost(h)
  <2> DEFINE ns == Costs(ps)
             ms == Costs(qs)
  <2>1. Numbers(ns) /\ Len(ns) = N /\ \A i \in 1..N : ns[i] = Cost(ps[i])
    BY CostsAreNumbers
  <2>2. Numbers(ms) /\ Len(ms) = N + 1 /\ \A i \in 1..(N + 1) : ms[i] = Cost(qs[i])
    BY <1>1, <1>2, CostsAreNumbers
  <2>3. N + 1 \in 1..(N + 1) /\ \A i \in 1..N : i \in 1..(N + 1)
    BY <1>1
  <2> HIDE DEF ns, ms, N
  <2>4. \A i \in 1..N : ms[i] = ns[i]
    BY <1>1, <2>1, <2>2, <2>3
  <2>5. Total(ms) = Total(ns) + ms[N + 1]
    BY <2>1, <2>2, <2>4, TotalGrows
  <2> QED
    BY <1>1, <2>2, <2>3, <2>5 DEF ns, ms
<1>5. Total(Costs(ps)) \in Nat /\ Cost(h) \in Nat
  BY CostsAreNumbers, TotalType, HitCosts
<1>6. qs # <<>> /\ Last(qs) = h
  <2>1. qs # <<>>
    BY <1>1, ListFacts
  <2> QED
    BY <1>1, <2>1, ListFront
<1> QED
  BY <1>2, <1>3, <1>4, <1>5, <1>6 DEF qs

LEMMA PackWholeInv ==
    ASSUME PackInv, PackWhole
    PROVE  PackInv'
<1> DEFINE h == hits[next]
<1>1. /\ ask \in PackInputs /\ HitList(hits) /\ PackedSoFar
      /\ phase = "pack" /\ next <= Len(hits) /\ Cost(h) <= Remaining
      /\ packed' = Append(packed, h)
      /\ cut' = [cut EXCEPT !.selected = Append(@, h.id)]
      /\ usedTokens' = usedTokens + Cost(h)
      /\ next' = next + 1
      /\ UNCHANGED <<ask, phase, hits, cited, suspects>>
  BY DEF PackWhole, PackInv
<1>2. /\ IsList(packed) /\ Len(packed) \in Nat /\ Len(hits) \in Nat /\ next = Len(packed) + 1
      /\ next \in 1..Len(hits) /\ \A i \in 1..Len(packed) : i \in 1..Len(hits)
  <2>1. IsList(packed) /\ Len(packed) \in Nat /\ Len(hits) \in Nat /\ next = Len(packed) + 1
        /\ Len(packed) <= Len(hits)
    BY <1>1, ListFacts DEF PackedSoFar, HitList
  <2> QED
    BY <1>1, <2>1
<1>3. IsHit(h) /\ HitList(packed)
  BY <1>1, <1>2 DEF PackedSoFar, HitList
<1> HIDE DEF h
<1>4. /\ HitList(packed') /\ IDs(packed') = Append(IDs(packed), h.id)
      /\ Total(Costs(packed')) = Total(Costs(packed)) + Cost(h)
      /\ Total(Costs(packed)) \in Nat /\ Cost(h) \in Nat
  BY <1>1, <1>3, OneMoreHit
<1>5. /\ Len(packed') = Len(packed) + 1
      /\ \A i \in 1..Len(packed) : packed'[i] = packed[i]
      /\ packed'[Len(packed) + 1] = h
  BY <1>1, <1>2, ListAppend
<1>6. Len(packed') <= Len(hits) /\ next' = Len(packed') + 1
  BY <1>1, <1>2, <1>5
<1>7. \A i \in 1..Len(packed') : packed'[i] = hits[i]
  <2>1. \A i \in 1..Len(packed') : i \in 1..Len(packed) \/ i = Len(packed) + 1
    BY <1>2, <1>5
  <2> QED
    BY <1>1, <1>2, <1>5, <2>1 DEF PackedSoFar, h
<1>8. cut' = [selected |-> IDs(packed'), truncated |-> <<>>, dropped |-> <<>>]
  <2> DEFINE ids == IDs(packed)
             more == Append(ids, h.id)
  <2>1. cut = [selected |-> ids, truncated |-> <<>>, dropped |-> <<>>]
    BY <1>1 DEF PackedSoFar
  <2>2. cut' = [cut EXCEPT !.selected = Append(cut.selected, h.id)]
    BY <1>1
  <2>3. cut.selected = ids
    BY <2>1
  <2>4. cut' = [cut EXCEPT !.selected = more]
    BY <2>2, <2>3
  <2> HIDE DEF ids, more
  <2>5. cut' = [selected |-> more, truncated |-> <<>>, dropped |-> <<>>]
    BY <2>1, <2>4
  <2> QED
    BY <1>4, <2>5 DEF ids, more
<1>9. usedTokens' = Count(ask.question) + Total(Costs(packed'))
      /\ usedTokens' <= Max({Count(ask.question), Budget})
  <2>1. Count(ask.question) \in Nat /\ Budget \in Nat
    BY <1>1, AskIs
  <2>2. usedTokens = Count(ask.question) + Total(Costs(packed))
    BY <1>1 DEF PackedSoFar
  <2>3. usedTokens \in Nat
    BY <1>4, <2>1, <2>2
  <2>4. usedTokens' <= Budget
    BY <1>1, <1>4, <2>1, <2>3 DEF Remaining
  <2>5. Max({Count(ask.question), Budget}) >= Budget /\ Max({Count(ask.question), Budget}) \in Int
    BY <2>1, MaxOfTwo
  <2>6. usedTokens' = Count(ask.question) + Total(Costs(packed'))
    BY <1>1, <1>4, <2>1, <2>2
  <2>7. usedTokens' \in Int
    BY <1>1, <1>4, <2>3
  <2> QED
    BY <2>1, <2>4, <2>5, <2>6, <2>7
<1>10. PackedSoFar'
  <2>1. IsList(packed')
    BY <1>4 DEF HitList
  <2>2. (IsList(packed) /\ Len(packed) <= Len(hits) /\ \A i \in 1..Len(packed) : packed[i] = hits[i])'
    BY <1>1, <1>6, <1>7, <2>1
  <2>3. (next = Len(packed) + 1 /\ cited = <<>> /\ suspects = <<>>)'
    BY <1>1, <1>6 DEF PackedSoFar
  <2>4. (cut = [selected |-> IDs(packed), truncated |-> <<>>, dropped |-> <<>>])'
    BY <1>8
  <2>5. Budget' = Budget
    BY <1>1 DEF Budget
  <2>6. Costs(packed)' = Costs(packed')
    BY DEF Costs, Cost, Words
  <2>7. (usedTokens = Count(ask.question) + Total(Costs(packed)))'
    BY <1>1, <1>9, <2>6
  <2>8. (usedTokens <= Max({Count(ask.question), Budget}))'
    BY <1>1, <1>9, <2>5
  <2> QED
    BY <2>2, <2>3, <2>4, <2>7, <2>8 DEF PackedSoFar
<1>11. HitList(hits)'
  BY <1>1 DEF HitList
<1> QED
  BY <1>1, <1>10, <1>11 DEF PackInv

\* What does not fit whole may be cut to what does, but for its title.
LEMMA TruncatedFits ==
    ASSUME NEW h, IsHit(h), Truncatable(h), usedTokens \in Nat, Budget \in Nat
    PROVE  /\ IsHit(Truncated(h)) /\ Truncated(h).id = h.id /\ Truncated(h).title = h.title
           /\ Count(h.title) \in Nat
           /\ Cost(Truncated(h)) <= Remaining + Count(h.title) + 2
<1> DEFINE k == Max(Fitting(h))
           g == Truncated(h)
<1>1. h.name \in Nat /\ h.title \in Nat /\ Words(h) \in Nat
  BY HitCosts DEF IsHit
<1>2. k \in Fitting(h)
  <2>1. Fitting(h) \in SUBSET (0..Words(h)) /\ Fitting(h) # {}
    BY <1>1 DEF Truncatable, Fitting
  <2> HIDE DEF k
  <2> QED
    BY <1>1, <2>1, GreatestNumber DEF k
<1> HIDE DEF k
<1>3. k \in Nat /\ k + 1 \in Nat /\ Count(k + 1) <= Room(h)
  BY <1>1, <1>2 DEF Fitting
<1>4. g = [h EXCEPT !.content = <<k + 1>>]
  BY DEF Truncated, k
<1> HIDE DEF g
<1>5. IsHit(g) /\ g.id = h.id /\ g.name = h.name /\ g.title = h.title /\ g.content = <<k + 1>>
  <2> DEFINE c == <<k + 1>>
  <2>1. c \in Seq(Nat) /\ g = [h EXCEPT !.content = c]
    BY <1>3, <1>4
  <2> HIDE DEF c
  <2>2. IsHit(g) /\ g.id = h.id /\ g.name = h.name /\ g.title = h.title /\ g.content = c
    BY <2>1, HitShortened
  <2> QED
    BY <2>2 DEF c
<1>6. Words(g) = k + 1
  <2> DEFINE c == <<k + 1>>
  <2>1. Numbers(c) /\ Len(c) = 1 /\ c[1] = k + 1
    BY <1>3, ListOfOne DEF Numbers
  <2>2. Numbers(<<>>) /\ Len(<<>>) = 0
    BY ListOfNone DEF Numbers
  <2>3. Total(<<>>) = 0
    BY <2>2, TotalOfNone
  <2> HIDE DEF c
  <2>4. Len(c) = Len(<<>>) + 1 /\ \A i \in 1..Len(<<>>) : c[i] = <<>>[i]
    BY <2>1, <2>2
  <2>5. Total(c) = Total(<<>>) + c[Len(<<>>) + 1]
    BY <2>1, <2>2, <2>4, TotalGrows
  <2>6. Total(c) = k + 1
    BY <1>3, <2>1, <2>2, <2>3, <2>5
  <2> QED
    BY <1>5, <2>6 DEF Words, c
<1>7. Cost(g) = Count(h.name + h.title + (k + 1))
  BY <1>5, <1>6 DEF Cost
<1> DEFINE cn == Count(h.name)
           ct == Count(h.title)
           ck == Count(k + 1)
<1>8. Cost(g) <= cn + ct + ck + 2
  <2> DEFINE k1 == k + 1
  <2>1. k1 \in Nat
    BY <1>3
  <2> HIDE DEF k1
  <2>2. Count(h.name + h.title + k1) <= Count(h.name) + Count(h.title) + Count(k1) + 2
    BY <1>1, <2>1, CountOfThree
  <2> QED
    BY <1>7, <2>2 DEF k1
<1>9. cn \in Nat /\ ct \in Nat /\ ck \in Nat \ {0} /\ Cost(g) \in Nat
  BY <1>1, <1>3, <1>5, CountIs, HitCosts
<1>10. Room(h) = 0 \/ Room(h) = Remaining - cn
  BY DEF Room
<1>11. ck <= Room(h) /\ Remaining \in Int
  BY <1>3 DEF Remaining
<1> HIDE DEF cn, ct, ck
<1>12. ck <= Remaining - cn
  BY <1>9, <1>10, <1>11
<1>13. Cost(g) <= Remaining + ct + 2
  BY <1>8, <1>9, <1>11, <1>12
<1> QED
  BY <1>5, <1>9, <1>13 DEF g, ct

\* The hits packed and the next ones are all.
LEMMA IDsAddUp ==
    ASSUME NEW ps, IsList(ps), NEW hs, IsList(hs), Len(ps) < Len(hs),
           \A i \in 1..Len(ps) : ps[i] = hs[i],
           NEW x, x = hs[Len(ps) + 1].id
    PROVE  LET others == IDs(SubSeq(hs, Len(ps) + 2, Len(hs)))
           IN  /\ Append(IDs(ps), x) \o others = IDs(hs)
               /\ IDs(ps) \o (<<x>> \o others) = IDs(hs)
<1> DEFINE n == Len(ps)
           N == Len(hs)
           tl == SubSeq(hs, n + 1 + 1, N)
           others == IDs(tl)
           all == IDs(hs)
           ids == IDs(ps)
<1>1. n \in Nat /\ N \in Nat /\ n < N
  BY ListFacts
<1>2. n + 1 \in 0..N /\ N - (n + 1) \in Nat
  BY <1>1
<1>3. IsList(tl) /\ Len(tl) = N - (n + 1) /\ \A i \in 1..(N - (n + 1)) : tl[i] = hs[(n + 1) + i]
  <2> DEFINE m == n + 1
  <2>1. m \in 0..Len(hs)
    BY <1>2
  <2> HIDE DEF m
  <2>2. IsList(SubSeq(hs, m + 1, Len(hs))) /\ Len(SubSeq(hs, m + 1, Len(hs))) = Len(hs) - m
        /\ \A i \in 1..(Len(hs) - m) : SubSeq(hs, m + 1, Len(hs))[i] = hs[m + i]
    BY <2>1, ListRest
  <2> QED
    BY <2>2 DEF m
<1>4. n + 1 + 1 = n + 2
  BY <1>1
<1> HIDE DEF tl
<1>5. IsList(others) /\ Len(others) = N - (n + 1) /\ \A i \in 1..(N - (n + 1)) : others[i] = tl[i].id
  BY <1>3, IDsOfList
<1>6. IsList(all) /\ Len(all) = N /\ \A i \in 1..N : all[i] = hs[i].id
  BY IDsOfList
<1>7. IsList(ids) /\ Len(ids) = n /\ \A i \in 1..n : ids[i] = hs[i].id
  BY IDsOfList
<1> HIDE DEF n, N, others, all, ids
<1>8. \A i \in 1..(N - (n + 1)) : others[i] = all[(n + 1) + i]
  <2>1. \A i \in 1..(N - (n + 1)) : (n + 1) + i \in 1..N
    BY <1>1
  <2> QED
    BY <1>3, <1>5, <1>6, <2>1
<1>9. \A i \in 1..n : ids[i] = all[i]
  <2>1. \A i \in 1..n : i \in 1..N
    BY <1>1
  <2> QED
    BY <1>6, <1>7, <2>1
<1>10. x = all[n + 1]
  <2>1. n + 1 \in 1..N
    BY <1>1
  <2> QED
    BY <1>6, <2>1 DEF n
<1>11. \A i \in 1..N : i \in 1..n \/ i = n + 1 \/ \E j \in 1..(N - (n + 1)) : i = (n + 1) + j
  <2> TAKE i \in 1..N
  <2>1. CASE i <= n + 1
    BY <1>1, <2>1
  <2>2. CASE ~(i <= n + 1)
    <3>1. i - (n + 1) \in 1..(N - (n + 1)) /\ i = (n + 1) + (i - (n + 1))
      BY <1>1, <2>2
    <3> QED
      BY <3>1
  <2> QED
    BY <2>1, <2>2
<1>12. Append(ids, x) \o others = all
  <2> DEFINE a == Append(ids, x)
             b == a \o others
  <2>1. IsList(a) /\ Len(a) = n + 1 /\ (\A i \in 1..n : a[i] = ids[i]) /\ a[n + 1] = x
    BY <1>7, ListAppend
  <2> HIDE DEF a
  <2>2. IsList(b) /\ Len(b) = Len(a) + Len(others) /\ (\A i \in 1..Len(a) : b[i] = a[i])
        /\ \A i \in 1..Len(others) : b[Len(a) + i] = others[i]
    <3>1. IsList(a) /\ IsList(others)
      BY <1>5, <2>1
    <3> QED
      BY <3>1, ListConcat
  <2> HIDE DEF b
  <2>3. Len(b) = N
    BY <1>1, <1>5, <2>1, <2>2
  <2>4. \A i \in 1..n : i \in 1..(n + 1)
    BY <1>1
  <2>5. n + 1 \in 1..(n + 1)
    BY <1>1
  <2>6. \A i \in 1..N : b[i] = all[i]
    <3> TAKE i \in 1..N
    <3>1. CASE i \in 1..n
      BY <1>9, <2>1, <2>2, <2>4, <3>1
    <3>2. CASE i = n + 1
      BY <1>10, <2>1, <2>2, <2>5, <3>2
    <3>3. CASE \E j \in 1..(N - (n + 1)) : i = (n + 1) + j
      BY <1>5, <1>8, <2>1, <2>2, <3>3
    <3> QED
      BY <1>11, <3>1, <3>2, <3>3
  <2>7. b = all
    BY <1>6, <2>2, <2>3, <2>6, SameList
  <2> QED
    BY <2>7 DEF a, b
<1>13. ids \o (<<x>> \o others) = all
  <2> DEFINE a == <<x>> \o others
             o == <<x>>
             b == ids \o a
  <2>1. IsList(o) /\ Len(o) = 1 /\ o[1] = x
    BY ListOfOne
  <2>2. a = o \o others
    OBVIOUS
  <2> HIDE DEF o
  <2>3. IsList(a) /\ Len(a) = 1 + Len(others) /\ (\A i \in 1..Len(o) : a[i] = o[i])
        /\ \A i \in 1..Len(others) : a[1 + i] = others[i]
    <3> HIDE DEF a
    <3>1. /\ IsList(o \o others) /\ Len(o \o others) = Len(o) + Len(others)
          /\ \A i \in 1..Len(o) : (o \o others)[i] = o[i]
          /\ \A i \in 1..Len(others) : (o \o others)[Len(o) + i] = others[i]
      <4>1. IsList(o) /\ IsList(others)
        BY <1>5, <2>1
      <4> QED
        BY <4>1, ListConcat
    <3> QED
      BY <2>1, <2>2, <3>1
  <2> HIDE DEF a
  <2>4. IsList(b) /\ Len(b) = n + Len(a) /\ (\A i \in 1..n : b[i] = ids[i])
        /\ \A i \in 1..Len(a) : b[n + i] = a[i]
    <3>1. /\ IsList(ids \o a) /\ Len(ids \o a) = Len(ids) + Len(a)
          /\ \A i \in 1..Len(ids) : (ids \o a)[i] = ids[i]
          /\ \A i \in 1..Len(a) : (ids \o a)[Len(ids) + i] = a[i]
      <4>1. IsList(ids) /\ IsList(a)
        BY <1>7, <2>3
      <4> QED
        BY <4>1, ListConcat
    <3> QED
      BY <1>7, <3>1
  <2> HIDE DEF b
  <2>5. Len(b) = N
    BY <1>1, <1>5, <2>3, <2>4
  <2>6. \A i \in 1..N : b[i] = all[i]
    <3> TAKE i \in 1..N
    <3>1. CASE i \in 1..n
      BY <1>9, <2>4, <3>1
    <3>2. CASE i = n + 1
      <4>1. 1 \in 1..Len(a) /\ 1 \in 1..Len(o) /\ 1 \in 1..1
        BY <1>1, <1>5, <2>1, <2>3
      <4>2. b[n + 1] = a[1] /\ a[1] = x
        BY <2>1, <2>3, <2>4, <4>1
      <4> QED
        BY <1>10, <3>2, <4>2
    <3>3. CASE \E j \in 1..(N - (n + 1)) : i = (n + 1) + j
      <4>1. PICK j \in 1..(N - (n + 1)) : i = (n + 1) + j
        BY <3>3
      <4>2. 1 + j \in 1..Len(a) /\ i = n + (1 + j) /\ j \in 1..Len(others)
        BY <1>1, <1>5, <2>3, <4>1
      <4>3. b[i] = a[1 + j] /\ a[1 + j] = others[j]
        BY <2>3, <2>4, <4>2
      <4> QED
        BY <1>8, <4>1, <4>3
    <3> QED
      BY <1>11, <3>1, <3>2, <3>3
  <2>7. b = all
    BY <1>6, <2>4, <2>5, <2>6, SameList
  <2> QED
    BY <2>7 DEF a, b, o
<1>14. others = IDs(SubSeq(hs, Len(ps) + 2, Len(hs)))
  BY <1>4 DEF others, tl, n, N
<1>15. ids = IDs(ps) /\ all = IDs(hs)
  BY DEF ids, all
<1> QED
  BY <1>12, <1>13, <1>14, <1>15

LEMMA PackLastInv ==
    ASSUME PackInv, PackLast
    PROVE  PackInv'
<1> DEFINE h == hits[next]
           t == Truncated(h)
           q == Count(ask.question)
<1>1. /\ ask \in PackInputs /\ HitList(hits) /\ PackedSoFar /\ next <= Len(hits)
      /\ phase' = "scan" /\ next' = 1
      /\ UNCHANGED <<ask, hits, cited, suspects>>
  BY DEF PackLast, PackInv
<1>2. \/ /\ Truncatable(h)
         /\ packed' = Append(packed, t)
         /\ cut' = [selected |-> Append(cut.selected, h.id), truncated |-> <<h.id>>, dropped |-> Rest]
         /\ usedTokens' = usedTokens + Cost(t)
      \/ /\ cut' = [cut EXCEPT !.dropped = <<h.id>> \o Rest]
         /\ UNCHANGED <<packed, usedTokens>>
  BY DEF PackLast
<1>3. /\ IsList(packed) /\ Len(packed) \in Nat /\ Len(hits) \in Nat /\ next = Len(packed) + 1
      /\ next \in 1..Len(hits) /\ \A i \in 1..Len(packed) : i \in 1..Len(hits)
      /\ Len(packed) < Len(hits) /\ IsList(hits) /\ next + 1 = Len(packed) + 2
  <2>1. IsList(packed) /\ Len(packed) \in Nat /\ Len(hits) \in Nat /\ next = Len(packed) + 1
        /\ Len(packed) <= Len(hits) /\ IsList(hits)
    BY <1>1, ListFacts DEF PackedSoFar, HitList
  <2> QED
    BY <1>1, <2>1
<1>4. IsHit(h) /\ HitList(packed)
  BY <1>1, <1>3 DEF PackedSoFar, HitList
<1>5. /\ cut = [selected |-> IDs(packed), truncated |-> <<>>, dropped |-> <<>>]
      /\ usedTokens = q + Total(Costs(packed)) /\ usedTokens <= Max({q, Budget})
      /\ \A i \in 1..Len(packed) : packed[i] = hits[i]
      /\ cited = <<>> /\ suspects = <<>>
  BY <1>1 DEF PackedSoFar
<1>6. q \in Nat /\ Budget \in Nat /\ Total(Costs(packed)) \in Nat /\ usedTokens \in Nat
  <2>1. q \in Nat /\ Budget \in Nat
    BY <1>1, AskIs
  <2>2. Total(Costs(packed)) \in Nat
    BY <1>4, CostsAreNumbers, TotalType
  <2> QED
    BY <1>5, <2>1, <2>2
<1>7. Append(IDs(packed), h.id) \o Rest = IDs(hits) /\ IDs(packed) \o (<<h.id>> \o Rest) = IDs(hits)
  <2> DEFINE x == h.id
  <2>1. x = hits[Len(packed) + 1].id
    BY <1>3
  <2> HIDE DEF x
  <2>2. LET others == IDs(SubSeq(hits, Len(packed) + 2, Len(hits)))
        IN  /\ Append(IDs(packed), x) \o others = IDs(hits)
            /\ IDs(packed) \o (<<x>> \o others) = IDs(hits)
    BY <1>3, <1>5, <2>1, IDsAddUp
  <2>3. Rest = IDs(SubSeq(hits, Len(packed) + 2, Len(hits)))
    BY <1>3 DEF Rest
  <2> QED
    BY <2>2, <2>3 DEF x
<1>8. ask' = ask /\ Budget' = Budget /\ (q)' = q /\ Costs(packed)' = Costs(packed') /\ IDs(packed)' = IDs(packed')
      /\ IDs(hits)' = IDs(hits)
  BY <1>1 DEF Budget, Costs, Cost, Words, IDs
<1>9. CASE /\ Truncatable(h)
           /\ packed' = Append(packed, t)
           /\ cut' = [selected |-> Append(cut.selected, h.id), truncated |-> <<h.id>>, dropped |-> Rest]
           /\ usedTokens' = usedTokens + Cost(t)
  <2>1. /\ IsHit(t) /\ t.id = h.id /\ t.title = h.title /\ Count(h.title) \in Nat
        /\ Cost(t) <= Remaining + Count(h.title) + 2
    <3> HIDE DEF h
    <3> QED
      BY <1>4, <1>6, <1>9, TruncatedFits
  <2> HIDE DEF t
  <2>2. /\ HitList(packed') /\ IDs(packed') = Append(IDs(packed), t.id)
        /\ Total(Costs(packed')) = Total(Costs(packed)) + Cost(t)
        /\ Cost(t) \in Nat /\ Last(packed') = t /\ packed' # <<>>
    BY <1>4, <1>9, <2>1, OneMoreHit
  <2> DEFINE sel == Append(IDs(packed), h.id)
             tr  == <<h.id>>
             rst == Rest
  <2>3. cut' = [selected |-> sel, truncated |-> tr, dropped |-> rst]
    <3>1. cut.selected = IDs(packed)
      BY <1>5
    <3> QED
      BY <1>9, <3>1
  <2>4. sel \o rst = IDs(hits) /\ IDs(packed') = sel /\ packed' # <<>> /\ tr = <<Last(packed').id>> /\ tr # <<>>
        /\ Last(packed').title = h.title
    BY <1>7, <2>1, <2>2
  <2> HIDE DEF sel, tr, rst, h
  <2>5. cut'.selected = sel /\ cut'.truncated = tr /\ cut'.dropped = rst
    BY <2>3
  <2>6. usedTokens' = q + Total(Costs(packed'))
    BY <1>5, <1>6, <1>9, <2>2
  <2>7. usedTokens' <= Max({q, Budget + (Count(h.title) + 2)})
    <3> DEFINE ct == Count(h.title)
               b2 == Budget + (ct + 2)
    <3>1. ct \in Nat /\ b2 \in Int
      BY <1>6, <2>1
    <3>2. Cost(t) <= Budget - usedTokens + ct + 2
      BY <2>1 DEF Remaining
    <3> HIDE DEF ct, q
    <3>3. usedTokens' \in Int /\ usedTokens' <= b2
      BY <1>6, <1>9, <2>2, <3>1, <3>2
    <3> HIDE DEF b2
    <3>4. Max({q, b2}) = IF q >= b2 THEN q ELSE b2
      BY <1>6, <3>1, MaxOfTwo
    <3>5. usedTokens' <= Max({q, b2})
      BY <1>6, <3>1, <3>3, <3>4
    <3> QED
      BY <3>5 DEF b2, ct, q
  <2>8. (cut.selected \o cut.dropped = IDs(hits))' /\ (IDs(packed) = cut.selected)'
        /\ (cut.truncated = <<>> \/ (packed # <<>> /\ cut.truncated = <<Last(packed).id>>))'
    BY <1>8, <2>4, <2>5
  <2>9. (usedTokens = Count(ask.question) + Total(Costs(packed)))'
    BY <1>8, <2>6
  <2>10. (LET title == IF cut.truncated = <<>> THEN 0 ELSE Count(Last(packed).title) + 2
          IN  usedTokens <= Max({Count(ask.question), Budget + title}))'
    BY <1>8, <2>4, <2>5, <2>7
  <2>11. Accounted'
    BY <2>8, <2>9, <2>10 DEF Accounted
  <2>12. IsList(packed') /\ Len(packed') \in Nat /\ 1 \in 1..(Len(packed') + 1) /\ 1..(1 - 1) = {}
         /\ IsList(cited') /\ IsList(suspects')
    <3>1. IsList(packed') /\ Len(packed') \in Nat
      BY <2>2, ListFacts DEF HitList
    <3>2. IsList(cited') /\ IsList(suspects')
      BY <1>1, <1>5, ListOfNone
    <3> QED
      BY <3>1, <3>2
  <2> QED
    BY <1>1, <2>11, <2>12 DEF PackInv
<1>10. CASE cut' = [cut EXCEPT !.dropped = <<h.id>> \o Rest] /\ UNCHANGED <<packed, usedTokens>>
  <2> DEFINE sel == IDs(packed)
             rst == <<h.id>> \o Rest
  <2>1. sel \o rst = IDs(hits) /\ cut = [selected |-> sel, truncated |-> <<>>, dropped |-> <<>>]
        /\ cut' = [cut EXCEPT !.dropped = rst]
    BY <1>5, <1>7, <1>10
  <2>2. sel = IDs(packed)
    OBVIOUS
  <2> HIDE DEF sel, rst, q
  <2>3. cut' = [selected |-> sel, truncated |-> <<>>, dropped |-> rst]
    BY <2>1
  <2>4. cut'.selected = sel /\ cut'.truncated = <<>> /\ cut'.dropped = rst
    BY <2>3
  <2>5. (cut.selected \o cut.dropped = IDs(hits))' /\ (IDs(packed) = cut.selected)'
        /\ (cut.truncated = <<>> \/ (packed # <<>> /\ cut.truncated = <<Last(packed).id>>))'
    BY <1>8, <1>10, <2>1, <2>2, <2>4
  <2>6. (usedTokens = Count(ask.question) + Total(Costs(packed)))'
    BY <1>5, <1>8, <1>10 DEF q
  <2>7. Budget + 0 = Budget
    BY <1>6
  <2>8. (LET title == IF cut.truncated = <<>> THEN 0 ELSE Count(Last(packed).title) + 2
         IN  usedTokens <= Max({Count(ask.question), Budget + title}))'
    BY <1>5, <1>8, <1>10, <2>4, <2>7 DEF q
  <2>9. Accounted'
    BY <2>5, <2>6, <2>8 DEF Accounted
  <2>10. IsList(packed') /\ 1 \in 1..(Len(packed') + 1) /\ 1..(1 - 1) = {}
         /\ IsList(cited') /\ IsList(suspects')
    <3>1. IsList(cited') /\ IsList(suspects')
      BY <1>1, <1>5, ListOfNone
    <3> QED
      BY <1>3, <1>10, <3>1
  <2> QED
    BY <1>1, <2>9, <2>10 DEF PackInv
<1> QED
  BY <1>2, <1>9, <1>10

LEMMA PackedAllInv ==
    ASSUME PackInv, PackedAll
    PROVE  PackInv'
<1>1. /\ ask \in PackInputs /\ HitList(hits) /\ PackedSoFar /\ next > Len(hits)
      /\ phase' = "scan" /\ next' = 1
      /\ UNCHANGED <<ask, hits, packed, usedTokens, cut, cited, suspects>>
  BY DEF PackedAll, PackInv
<1>2. IsList(packed) /\ IsList(hits) /\ Len(packed) \in Nat /\ Len(hits) \in Nat
  BY <1>1, ListFacts DEF PackedSoFar, HitList
<1>3. Len(packed) = Len(hits)
  BY <1>1, <1>2 DEF PackedSoFar
<1>4. packed = hits
  BY <1>1, <1>2, <1>3, SameList DEF PackedSoFar
<1>5. cut.selected = IDs(packed) /\ cut.truncated = <<>> /\ cut.dropped = <<>>
  BY <1>1 DEF PackedSoFar
<1>6. cut.selected \o cut.dropped = IDs(hits)
  <2> DEFINE ids == IDs(hits)
  <2>1. IsList(ids)
    BY <1>2, IDsOfList
  <2> HIDE DEF ids
  <2>2. ids \o <<>> = ids
    BY <2>1, ConcatEmptySeq DEF IsList
  <2> QED
    BY <1>4, <1>5, <2>2 DEF ids
<1>7. Accounted
  <2>1. Budget \in Nat
    BY <1>1, AskIs
  <2>2. Budget + 0 = Budget
    BY <2>1
  <2> QED
    BY <1>1, <1>5, <1>6, <2>2 DEF Accounted, PackedSoFar
<1>8. Accounted'
  BY <1>1, <1>7 DEF Accounted, Costs, Cost, Words, IDs, Budget
<1>9. IsList(packed') /\ 1 \in 1..(Len(packed') + 1) /\ 1..(1 - 1) = {} /\ IsList(cited') /\ IsList(suspects')
  BY <1>1, <1>2, ListOfNone DEF PackedSoFar
<1> QED
  BY <1>1, <1>8, <1>9 DEF PackInv

LEMMA ScanInv ==
    ASSUME PackInv, Scan
    PROVE  PackInv'
<1> DEFINE h == packed[next]
<1>1. /\ Accounted /\ IsList(packed) /\ IsList(cited) /\ IsList(suspects)
      /\ next \in 1..(Len(packed) + 1) /\ next <= Len(packed) /\ phase = "scan"
      /\ \A i \in 1..(next - 1) : Seen(packed[i])
      /\ next' = next + 1
      /\ UNCHANGED <<ask, phase, hits, packed, usedTokens, cut>>
  BY DEF Scan, PackInv
<1>2. PICK suspicious \in BOOLEAN :
          /\ cited' = IF suspicious /\ ask.drop THEN cited ELSE Append(cited, h)
          /\ suspects' = IF suspicious THEN Append(suspects, h.id) ELSE suspects
  BY DEF Scan
<1>3. Accounted'
  BY <1>1 DEF Accounted, Costs, Cost, Words, IDs, Budget
<1>4. \A s, x : IsList(s) => /\ IsList(Append(s, x)) /\ Range(s) \subseteq Range(Append(s, x))
                             /\ x \in Range(Append(s, x))
  <2> TAKE s, x
  <2> SUFFICES ASSUME IsList(s)
               PROVE  /\ IsList(Append(s, x)) /\ Range(s) \subseteq Range(Append(s, x))
                      /\ x \in Range(Append(s, x))
    OBVIOUS
  <2> DEFINE t == Append(s, x)
  <2>1. IsList(t) /\ Len(t) = Len(s) + 1 /\ (\A i \in 1..Len(s) : t[i] = s[i]) /\ t[Len(s) + 1] = x
    BY ListAppend
  <2> HIDE DEF t
  <2>2. Len(s) \in Nat /\ DOMAIN s = 1..Len(s) /\ DOMAIN t = 1..(Len(s) + 1)
    BY <2>1, ListFacts
  <2>3. \A i \in DOMAIN s : i \in DOMAIN t /\ t[i] = s[i]
    BY <2>1, <2>2
  <2>4. Len(s) + 1 \in DOMAIN t
    BY <2>2
  <2>5. Range(s) \subseteq Range(t)
    BY <2>3 DEF Range
  <2>6. x \in Range(t)
    BY <2>1, <2>4 DEF Range
  <2> QED
    BY <2>1, <2>5, <2>6 DEF t
<1> HIDE DEF h
<1>5. IsList(cited') /\ IsList(suspects') /\ Range(cited) \subseteq Range(cited')
      /\ Range(suspects) \subseteq Range(suspects')
      /\ (h \in Range(cited') \/ h.id \in Range(suspects'))
  <2>1. CASE suspicious
    <3>1. suspects' = Append(suspects, h.id) /\ (cited' = cited \/ cited' = Append(cited, h))
      BY <1>2, <2>1
    <3> QED
      BY <1>1, <1>4, <3>1
  <2>2. CASE ~suspicious
    <3>1. suspects' = suspects /\ cited' = Append(cited, h)
      BY <1>2, <2>2
    <3> QED
      BY <1>1, <1>4, <3>1
  <2> QED
    BY <2>1, <2>2
<1>6. Len(packed) \in Nat
  BY <1>1, ListFacts
<1>7. next' \in 1..(Len(packed') + 1) /\ \A i \in 1..(next' - 1) : i \in 1..(next - 1) \/ i = next
  BY <1>1, <1>6
<1>8. ASSUME NEW i \in 1..(next' - 1)
      PROVE  Seen(packed[i])'
  <2>1. CASE i \in 1..(next - 1)
    <3>1. Seen(packed[i])
      BY <1>1, <2>1
    <3> QED
      BY <1>1, <1>5, <3>1 DEF Seen
  <2>2. CASE i = next
    BY <1>1, <1>5, <2>2 DEF Seen, h
  <2> QED
    BY <1>7, <2>1, <2>2
<1>9. \A i \in 1..(next' - 1) : Seen(packed[i])'
  BY <1>8
<1> QED
  BY <1>1, <1>3, <1>5, <1>7, <1>9 DEF PackInv

LEMMA CiteInv ==
    ASSUME PackInv, Cite
    PROVE  PackInv'
<1>1. /\ Accounted /\ IsList(packed) /\ next \in 1..(Len(packed) + 1) /\ next > Len(packed)
      /\ \A i \in 1..(next - 1) : Seen(packed[i])
      /\ phase' = "cited"
      /\ UNCHANGED <<ask, hits, next, packed, usedTokens, cut, cited, suspects>>
  BY DEF Cite, PackInv
<1>2. Len(packed) \in Nat /\ DOMAIN packed = 1..Len(packed)
  BY <1>1, ListFacts
<1>3. \A i \in DOMAIN packed : Seen(packed[i])
  <2>1. \A i \in DOMAIN packed : i \in 1..(next - 1)
    BY <1>1, <1>2
  <2> QED
    BY <1>1, <2>1
<1>4. \A h \in Range(packed) : h \in Range(cited) \/ h.id \in Range(suspects)
  BY <1>3 DEF Range, Seen
<1>5. ContextAddsUp'
  BY <1>1, <1>4 DEF ContextAddsUp, Accounted, Costs, Cost, Words, IDs, Budget
<1> QED
  BY <1>1, <1>5 DEF PackInv

LEMMA PackSteps ==
    ASSUME PackInv, AskRound \/ PackStep
    PROVE  PackInv'
<1>1. RerankFails \/ CompressFails => PackInv'
  BY DEF RerankFails, CompressFails, PackInv
<1> QED
  BY <1>1, AskRoundInv, RerankInv, CompressInv, PackWholeInv, PackLastInv, PackedAllInv, ScanInv,
     CiteInv DEF PackStep

LEMMA PackingHeld == PackInv => ContextAddsUp
  BY DEF PackInv, ContextAddsUp

-----------------------------------------------------------------------------
\* Sums over finite sets.

LEMMA SizeFacts ==
    ASSUME NEW S, IsFiniteSet(S), NEW s \in SUBSET S
    PROVE  /\ IsFiniteSet(s) /\ Cardinality(s) \in Nat /\ Cardinality(s) <= Cardinality(S)
           /\ Cardinality(s) = 0 <=> s = {}
           /\ \A x \in s : Cardinality(s \ {x}) = Cardinality(s) - 1
  BY FS_Subset, FS_CardinalityType, FS_EmptySet, FS_RemoveElement

\* What holds of the empty set and goes on to hold when an element is added,
\* holds of a finite set.
LEMMA FiniteGrowing ==
    ASSUME NEW S, IsFiniteSet(S), NEW P \in SUBSET (SUBSET S), {} \in P,
           \A s \in P : \A x \in S \ s : s \cup {x} \in P
    PROVE  S \in P
<1> DEFINE N == Cardinality(S)
           Holds == {n \in 0..N : \A s \in SUBSET S : Cardinality(s) = n => s \in P}
<1>1. N \in Nat
  BY SizeFacts
<1>2. 0 \in Holds
  <2>1. \A s \in SUBSET S : Cardinality(s) = 0 => s \in P
    BY SizeFacts
  <2>2. 0 \in 0..N
    BY <1>1
  <2> QED
    BY <2>1, <2>2
<1>3. ASSUME NEW n \in 1..N, n - 1 \in Holds
      PROVE  n \in Holds
  <2>1. ASSUME NEW s \in SUBSET S, Cardinality(s) = n
        PROVE  s \in P
    <3>1. PICK x \in s : TRUE
      BY <2>1, SizeFacts
    <3>2. s \ {x} \in SUBSET S /\ Cardinality(s \ {x}) = n - 1
      BY <2>1, SizeFacts
    <3>3. s \ {x} \in P
      BY <1>3, <3>2
    <3>4. x \in S \ (s \ {x}) /\ (s \ {x}) \cup {x} = s
      OBVIOUS
    <3> QED
      BY <3>3, <3>4
  <2>2. n \in 0..N
    BY <1>1
  <2> QED
    BY <2>1, <2>2
<1> HIDE DEF N
<1>4. Holds = 0..N
  <2> HIDE DEF Holds
  <2>1. Holds \in SUBSET (0..N)
    BY DEF Holds
  <2> QED
    BY <1>1, <1>2, <1>3, <2>1, CountingUp
<1>5. N \in Holds
  BY <1>1, <1>4
<1> QED
  BY <1>5 DEF N

Chosen(s) == CHOOSE x \in s : TRUE

\* it sums f over the subsets of S, taking out of each a chosen element.
SumsBy(it, f, S) ==
    it = [s \in SUBSET S |-> IF s = {} THEN 0 ELSE f[Chosen(s)] + it[s \ {Chosen(s)}]]

\* The same, for the subsets of up to n elements.
SumsUpto(it, f, S, n) ==
    /\ it \in [SUBSET S -> Int]
    /\ \A s \in SUBSET S : Cardinality(s) <= n =>
          it[s] = IF s = {} THEN 0 ELSE f[Chosen(s)] + it[s \ {Chosen(s)}]

LEMMA SumsExist ==
    ASSUME NEW S, IsFiniteSet(S), NEW f, \A x \in S : f[x] \in Int
    PROVE  \E it : SumsBy(it, f, S)
<1> DEFINE N == Cardinality(S)
           Holds == {n \in 0..N : \E it : SumsUpto(it, f, S, n)}
<1>1. N \in Nat
  BY SizeFacts
<1>2. 0 \in Holds
  <2> DEFINE zero == [s \in SUBSET S |-> 0]
  <2>1. zero \in [SUBSET S -> Int] /\ \A s \in SUBSET S : zero[s] = 0
    OBVIOUS
  <2> HIDE DEF zero
  <2>2. \A s \in SUBSET S : Cardinality(s) <= 0 => s = {}
    BY SizeFacts
  <2>3. SumsUpto(zero, f, S, 0)
    BY <2>1, <2>2 DEF SumsUpto
  <2>4. 0 \in 0..N
    BY <1>1
  <2> QED
    BY <2>3, <2>4
<1>3. ASSUME NEW n \in 1..N, n - 1 \in Holds
      PROVE  n \in Holds
  <2>1. PICK h : SumsUpto(h, f, S, n - 1)
    BY <1>3
  <2> DEFINE Sum(s) == IF s = {} THEN 0 ELSE f[Chosen(s)] + h[s \ {Chosen(s)}]
             g == [s \in SUBSET S |-> IF Cardinality(s) = n THEN Sum(s) ELSE h[s]]
  <2>2. \A s \in SUBSET S : s # {} => Chosen(s) \in s
    BY DEF Chosen
  <2>3. h \in [SUBSET S -> Int]
    BY <2>1 DEF SumsUpto
  <2>4. \A s \in SUBSET S : Sum(s) \in Int
    BY <2>2, <2>3
  <2>5. \A s \in SUBSET S : Sum(s) = IF s = {} THEN 0 ELSE f[Chosen(s)] + h[s \ {Chosen(s)}]
    OBVIOUS
  <2> HIDE DEF Sum
  <2>6. g \in [SUBSET S -> Int] /\ \A s \in SUBSET S : g[s] = IF Cardinality(s) = n THEN Sum(s) ELSE h[s]
    BY <2>3, <2>4
  <2> HIDE DEF g
  <2>7. ASSUME NEW s \in SUBSET S, Cardinality(s) <= n
        PROVE  g[s] = IF s = {} THEN 0 ELSE f[Chosen(s)] + g[s \ {Chosen(s)}]
    <3>1. Cardinality(s) \in Nat
      BY SizeFacts
    <3>2. g[s] = Sum(s)
      <4>1. CASE Cardinality(s) = n
        BY <2>6, <4>1
      <4>2. CASE Cardinality(s) # n
        <5>1. Cardinality(s) <= n - 1
          BY <2>7, <3>1, <4>2
        <5>2. h[s] = IF s = {} THEN 0 ELSE f[Chosen(s)] + h[s \ {Chosen(s)}]
          BY <2>1, <5>1 DEF SumsUpto
        <5> QED
          BY <2>5, <2>6, <4>2, <5>2
      <4> QED
        BY <4>1, <4>2
    <3>3. CASE s = {}
      BY <2>5, <3>2, <3>3
    <3>4. CASE s # {}
      <4>1. Cardinality(s \ {Chosen(s)}) = Cardinality(s) - 1 /\ s \ {Chosen(s)} \in SUBSET S
        BY <2>2, <3>4, SizeFacts
      <4>2. g[s \ {Chosen(s)}] = h[s \ {Chosen(s)}]
        BY <2>6, <2>7, <3>1, <4>1
      <4> QED
        BY <2>5, <3>2, <3>4, <4>2
    <3> QED
      BY <3>3, <3>4
  <2>8. SumsUpto(g, f, S, n)
    BY <2>6, <2>7 DEF SumsUpto
  <2>9. n \in 0..N
    BY <1>1
  <2> QED
    BY <2>8, <2>9
<1>4. \A s \in SUBSET S : Cardinality(s) <= N
  BY SizeFacts
<1> HIDE DEF N
<1>5. Holds = 0..N
  <2> HIDE DEF Holds
  <2>1. Holds \in SUBSET (0..N)
    BY DEF Holds
  <2> QED
    BY <1>1, <1>2, <1>3, <2>1, CountingUp
<1>6. PICK it : SumsUpto(it, f, S, N)
  BY <1>1, <1>5
<1>7. SumsBy(it, f, S)
  <2> DEFINE other == [s \in SUBSET S |-> IF s = {} THEN 0 ELSE f[Chosen(s)] + it[s \ {Chosen(s)}]]
  <2>1. it \in [SUBSET S -> Int]
    BY <1>6 DEF SumsUpto
  <2>2. \A s \in SUBSET S : it[s] = other[s]
    BY <1>4, <1>6 DEF SumsUpto
  <2>3. other \in [SUBSET S -> Int]
    <3>1. DOMAIN other = SUBSET S /\ \A s \in SUBSET S : other[s] \in Int
      BY <2>1, <2>2
    <3>2. other = [s \in SUBSET S |-> other[s]]
      OBVIOUS
    <3> QED
      BY <3>1, <3>2
  <2>4. it = other
    <3> HIDE DEF other
    <3> QED
      BY <2>1, <2>2, <2>3, SameFunction
  <2> QED
    BY <2>4 DEF SumsBy
<1> QED
  BY <1>7

\* it sums f over the subsets of S, whatever element is taken out of each.
Additive(it, f, S) ==
    /\ it[{}] = 0
    /\ \A s \in SUBSET S : it[s] \in Int
    /\ \A s \in SUBSET S : \A x \in s : it[s] = f[x] + it[s \ {x}]

LEMMA SumsAreAdditive ==
    ASSUME NEW S, IsFiniteSet(S), NEW f, \A x \in S : f[x] \in Int, NEW it, SumsBy(it, f, S)
    PROVE  Additive(it, f, S)
<1> DEFINE Right(s) == it[s] \in Int /\ \A x \in s : it[s] = f[x] + it[s \ {x}]
           N == Cardinality(S)
           Holds == {n \in 0..N : \A s \in SUBSET S : Cardinality(s) <= n => Right(s)}
<1>1. N \in Nat
  BY SizeFacts
<1>2. \A s \in SUBSET S : it[s] = IF s = {} THEN 0 ELSE f[Chosen(s)] + it[s \ {Chosen(s)}]
  BY DEF SumsBy
<1>3. 0 \in Holds
  <2>1. \A s \in SUBSET S : Cardinality(s) <= 0 => s = {}
    BY SizeFacts
  <2>2. Right({})
    BY <1>2
  <2>3. 0 \in 0..N
    BY <1>1
  <2> HIDE DEF Right
  <2>4. \A s \in SUBSET S : Cardinality(s) <= 0 => Right(s)
    BY <2>1, <2>2
  <2> QED
    BY <2>3, <2>4
<1>4. ASSUME NEW n \in 1..N, n - 1 \in Holds
      PROVE  n \in Holds
  <2>1. \A s \in SUBSET S : Cardinality(s) <= n - 1 => Right(s)
    BY <1>4
  <2>2. ASSUME NEW s \in SUBSET S, Cardinality(s) <= n
        PROVE  Right(s)
    <3>1. CASE s = {}
      <4>1. it[s] = 0
        BY <1>2, <3>1
      <4>2. \A x \in s : FALSE
        BY <3>1
      <4> QED
        BY <4>1, <4>2
    <3>2. CASE s # {}
      <4>1. PICK c \in s : c = Chosen(s)
        BY <3>2 DEF Chosen
      <4>2. it[s] = f[c] + it[s \ {c}]
        BY <1>2, <3>2, <4>1
      <4>3. Cardinality(s) \in Nat /\ \A x \in s : Cardinality(s \ {x}) = Cardinality(s) - 1
        BY SizeFacts
      <4>4. \A x \in s : s \ {x} \in SUBSET S /\ Cardinality(s \ {x}) <= n - 1
        BY <2>2, <4>3
      <4>5. \A x \in s : Right(s \ {x})
        <5> HIDE DEF Right
        <5> QED
          BY <2>1, <4>4
      <4>6. it[s \ {c}] \in Int /\ f[c] \in Int
        BY <4>5
      <4>7. ASSUME NEW x \in s, x # c
            PROVE  it[s] = f[x] + it[s \ {x}]
        <5>1. PICK t : t = s \ {c, x}
          OBVIOUS
        <5>2. (s \ {c}) \ {x} = t /\ (s \ {x}) \ {c} = t /\ x \in s \ {c} /\ c \in s \ {x}
          BY <4>7, <5>1
        <5>3. it[s \ {c}] = f[x] + it[t]
          BY <4>5, <5>2
        <5>4. it[s \ {x}] = f[c] + it[t]
          BY <4>5, <5>2
        <5>5. t \in SUBSET S /\ Cardinality(t) <= n - 1
          <6>1. t = (s \ {c}) \ {x} /\ s \ {c} \in SUBSET S /\ x \in s \ {c}
            BY <5>2
          <6>2. Cardinality(t) = Cardinality(s \ {c}) - 1
            BY <6>1, SizeFacts
          <6> QED
            BY <4>3, <2>2, <6>1, <6>2
        <5>6. it[t] \in Int
          BY <2>1, <5>5
        <5>7. f[x] \in Int
          OBVIOUS
        <5> QED
          BY <4>2, <4>6, <5>3, <5>4, <5>6, <5>7
      <4>8. it[s] \in Int
        BY <4>2, <4>6
      <4>9. \A x \in s : it[s] = f[x] + it[s \ {x}]
        BY <4>2, <4>7
      <4> QED
        BY <4>8, <4>9
    <3> QED
      BY <3>1, <3>2
  <2>3. n \in 0..N
    BY <1>1
  <2> HIDE DEF Right
  <2> QED
    BY <2>2, <2>3
<1>5. \A s \in SUBSET S : Cardinality(s) <= N
  BY SizeFacts
<1> HIDE DEF N, Right
<1>6. Holds = 0..N
  <2> HIDE DEF Holds
  <2>1. Holds \in SUBSET (0..N)
    BY DEF Holds
  <2> QED
    BY <1>1, <1>3, <1>4, <2>1, CountingUp
<1>7. N \in Holds
  BY <1>1, <1>6
<1>8. \A s \in SUBSET S : Right(s)
  BY <1>5, <1>7
<1>9. it[{}] = 0
  BY <1>2
<1> QED
  BY <1>8, <1>9 DEF Additive, Right

LEMMA SumIs ==
    ASSUME NEW S, IsFiniteSet(S), NEW f, \A x \in S : f[x] \in Int
    PROVE  \E it : Additive(it, f, S) /\ it[S] = SumFunctionOnSet(f, S)
<1>1. PICK h : SumsBy(h, f, S)
  BY SumsExist
<1> DEFINE it == CHOOSE g : SumsBy(g, f, S)
<1>2. SumsBy(it, f, S)
  BY <1>1
<1>3. SumFunctionOnSet(f, S) = it[S]
  BY DEF SumFunctionOnSet, FoldFunctionOnSet, MapThenFoldSet, SumsBy, Chosen
<1> HIDE DEF it
<1> QED
  BY <1>2, <1>3, SumsAreAdditive


\* One table sums f over all subsets of S.
LEMMA TablesAgree ==
    ASSUME NEW S, IsFiniteSet(S), NEW T \in SUBSET S, NEW f, NEW it, Additive(it, f, S),
           NEW jt, Additive(jt, f, T)
    PROVE  it[T] = jt[T]
<1> DEFINE P == {s \in SUBSET T : it[s] = jt[s]}
<1>1. IsFiniteSet(T)
  BY SizeFacts
<1>2. {} \in P
  BY DEF Additive
<1>3. ASSUME NEW s \in P, NEW x \in T \ s
      PROVE  s \cup {x} \in P
  <2>1. PICK u : u = s \cup {x}
    OBVIOUS
  <2>2. u \in SUBSET S /\ u \in SUBSET T /\ x \in u /\ u \ {x} = s
    BY <2>1
  <2>3. it[u] = f[x] + it[s] /\ jt[u] = f[x] + jt[s]
    BY <2>2 DEF Additive
  <2> QED
    BY <2>1, <2>2, <2>3
<1>4. T \in P
  <2>1. P \in SUBSET (SUBSET T)
    OBVIOUS
  <2> HIDE DEF P
  <2> QED
    BY <1>1, <1>2, <1>3, <2>1, FiniteGrowing
<1> QED
  BY <1>4

Summable(f, S) == IsFiniteSet(S) /\ \A x \in S : f[x] \in Int

\* What a sum is, without the order in which it is taken.
LEMMA SumSteps ==
    ASSUME NEW S, NEW f, Summable(f, S)
    PROVE  /\ SumFunctionOnSet(f, S) \in Int
           /\ SumFunctionOnSet(f, {}) = 0
           /\ \A x \in S : SumFunctionOnSet(f, S) = f[x] + SumFunctionOnSet(f, S \ {x})
<1>1. PICK it : Additive(it, f, S) /\ it[S] = SumFunctionOnSet(f, S)
  BY SumIs DEF Summable
<1>2. ASSUME NEW T \in SUBSET S
      PROVE  it[T] = SumFunctionOnSet(f, T)
  <2>1. IsFiniteSet(T) /\ \A x \in T : f[x] \in Int
    BY SizeFacts DEF Summable
  <2>2. PICK jt : Additive(jt, f, T) /\ jt[T] = SumFunctionOnSet(f, T)
    BY <2>1, SumIs
  <2>3. it[T] = jt[T]
    BY <1>1, <2>2, TablesAgree DEF Summable
  <2> QED
    BY <2>2, <2>3
<1>3. it[S] \in Int /\ it[{}] = 0 /\ \A x \in S : it[S] = f[x] + it[S \ {x}]
  BY <1>1 DEF Additive
<1>4. \A x \in S : S \ {x} \in SUBSET S
  OBVIOUS
<1> QED
  BY <1>1, <1>2, <1>3, <1>4

LEMMA SumAdds ==
    ASSUME NEW S, NEW f, Summable(f, S), NEW x, x \notin S, f[x] \in Int
    PROVE  /\ Summable(f, S \cup {x})
           /\ SumFunctionOnSet(f, S \cup {x}) = f[x] + SumFunctionOnSet(f, S)
<1>1. IsFiniteSet(S \cup {x})
  BY FS_AddElement DEF Summable
<1>2. PICK u : u = S \cup {x}
  OBVIOUS
<1>3. Summable(f, u) /\ x \in u /\ u \ {x} = S
  BY <1>1, <1>2 DEF Summable
<1>4. SumFunctionOnSet(f, u) = f[x] + SumFunctionOnSet(f, u \ {x})
  BY <1>3, SumSteps
<1> QED
  BY <1>2, <1>3, <1>4

LEMMA SubSummable ==
    ASSUME NEW S, NEW f, Summable(f, S), NEW T \in SUBSET S
    PROVE  Summable(f, T)
  BY SizeFacts DEF Summable

\* Functions that agree have one sum.
LEMMA SumSame ==
    ASSUME NEW S, NEW f, Summable(f, S), NEW h, \A x \in S : f[x] = h[x]
    PROVE  SumFunctionOnSet(f, S) = SumFunctionOnSet(h, S) /\ Summable(h, S)
<1> DEFINE P == {s \in SUBSET S : SumFunctionOnSet(f, s) = SumFunctionOnSet(h, s)}
<1>1. Summable(h, S)
  BY DEF Summable
<1>2. {} \in P
  BY <1>1, SumSteps
<1>3. ASSUME NEW s \in P, NEW x \in S \ s
      PROVE  s \cup {x} \in P
  <2>1. Summable(f, s) /\ Summable(h, s) /\ f[x] \in Int /\ h[x] \in Int
    BY <1>1, SubSummable DEF Summable
  <2>2. /\ SumFunctionOnSet(f, s \cup {x}) = f[x] + SumFunctionOnSet(f, s)
        /\ SumFunctionOnSet(h, s \cup {x}) = h[x] + SumFunctionOnSet(h, s)
    BY <2>1, SumAdds
  <2>3. f[x] = h[x] /\ SumFunctionOnSet(f, s) = SumFunctionOnSet(h, s)
    OBVIOUS
  <2>4. s \cup {x} \in SUBSET S
    OBVIOUS
  <2> QED
    BY <2>2, <2>3, <2>4
<1>4. S \in P
  <2>1. P \in SUBSET (SUBSET S)
    OBVIOUS
  <2> HIDE DEF P
  <2> QED
    BY <1>2, <1>3, <2>1, FiniteGrowing DEF Summable
<1> QED
  BY <1>1, <1>4

\* A sum over two sets apart.
LEMMA SumSplits ==
    ASSUME NEW A, NEW B, A \cap B = {}, NEW f, Summable(f, A), Summable(f, B)
    PROVE  /\ Summable(f, A \cup B)
           /\ SumFunctionOnSet(f, A \cup B) = SumFunctionOnSet(f, A) + SumFunctionOnSet(f, B)
<1> DEFINE P == {s \in SUBSET B :
                   /\ Summable(f, A \cup s)
                   /\ SumFunctionOnSet(f, A \cup s) = SumFunctionOnSet(f, A) + SumFunctionOnSet(f, s)}
<1>1. {} \in P
  <2>1. A \cup {} = A
    OBVIOUS
  <2>2. SumFunctionOnSet(f, {}) = 0 /\ SumFunctionOnSet(f, A) \in Int
    BY SumSteps
  <2> QED
    BY <2>1, <2>2
<1>2. ASSUME NEW s \in P, NEW x \in B \ s
      PROVE  s \cup {x} \in P
  <2>1. Summable(f, s) /\ f[x] \in Int /\ Summable(f, A \cup s) /\ x \notin s /\ x \notin A \cup s
    BY SubSummable DEF Summable
  <2>2. PICK u : u = A \cup s
    OBVIOUS
  <2>3. u \cup {x} = A \cup (s \cup {x})
    BY <2>2
  <2>4. /\ Summable(f, u \cup {x})
        /\ SumFunctionOnSet(f, u \cup {x}) = f[x] + SumFunctionOnSet(f, u)
        /\ SumFunctionOnSet(f, s \cup {x}) = f[x] + SumFunctionOnSet(f, s)
    BY <2>1, <2>2, SumAdds
  <2>5. SumFunctionOnSet(f, u) = SumFunctionOnSet(f, A) + SumFunctionOnSet(f, s)
    BY <2>2
  <2>6. SumFunctionOnSet(f, A) \in Int /\ SumFunctionOnSet(f, s) \in Int
    BY <2>1, SumSteps
  <2>7. SumFunctionOnSet(f, u \cup {x}) = SumFunctionOnSet(f, A) + SumFunctionOnSet(f, s \cup {x})
    BY <2>1, <2>4, <2>5, <2>6
  <2>8. s \cup {x} \in SUBSET B
    OBVIOUS
  <2> QED
    BY <2>3, <2>4, <2>7, <2>8
<1>3. B \in P
  <2>1. P \in SUBSET (SUBSET B)
    OBVIOUS
  <2> HIDE DEF P
  <2> QED
    BY <1>1, <1>2, <2>1, FiniteGrowing DEF Summable
<1> QED
  BY <1>3


LEMMA SumOfNaturals ==
    ASSUME NEW S, IsFiniteSet(S), NEW f, \A x \in S : f[x] \in Nat
    PROVE  Summable(f, S) /\ SumFunctionOnSet(f, S) \in Nat
<1> DEFINE P == {s \in SUBSET S : SumFunctionOnSet(f, s) \in Nat}
<1>1. Summable(f, S)
  BY DEF Summable
<1>2. {} \in P
  BY <1>1, SumSteps
<1>3. ASSUME NEW s \in P, NEW x \in S \ s
      PROVE  s \cup {x} \in P
  <2>1. Summable(f, s) /\ f[x] \in Int
    BY <1>1, SubSummable
  <2>2. SumFunctionOnSet(f, s \cup {x}) = f[x] + SumFunctionOnSet(f, s)
    BY <2>1, SumAdds
  <2>3. f[x] \in Nat /\ SumFunctionOnSet(f, s) \in Nat /\ s \cup {x} \in SUBSET S
    OBVIOUS
  <2> QED
    BY <2>2, <2>3
<1>4. S \in P
  <2>1. P \in SUBSET (SUBSET S)
    OBVIOUS
  <2> HIDE DEF P
  <2> QED
    BY <1>2, <1>3, <2>1, FiniteGrowing
<1> QED
  BY <1>1, <1>4

\* What is 0 does not count.
LEMMA SumWithoutZeros ==
    ASSUME NEW S, NEW f, Summable(f, S), NEW T \in SUBSET S, \A x \in S \ T : f[x] = 0
    PROVE  SumFunctionOnSet(f, S) = SumFunctionOnSet(f, T)
<1> DEFINE P == {s \in SUBSET (S \ T) : SumFunctionOnSet(f, s) = 0}
<1>1. {} \in P
  BY SumSteps
<1>2. ASSUME NEW s \in P, NEW x \in (S \ T) \ s
      PROVE  s \cup {x} \in P
  <2>1. Summable(f, s) /\ f[x] \in Int /\ f[x] = 0
    BY SubSummable
  <2>2. SumFunctionOnSet(f, s \cup {x}) = f[x] + SumFunctionOnSet(f, s)
    BY <2>1, SumAdds
  <2>3. SumFunctionOnSet(f, s) = 0 /\ s \cup {x} \in SUBSET (S \ T)
    OBVIOUS
  <2> QED
    BY <2>1, <2>2, <2>3
<1>3. S \ T \in P
  <2>1. P \in SUBSET (SUBSET (S \ T)) /\ IsFiniteSet(S \ T)
    BY SubSummable DEF Summable
  <2> HIDE DEF P
  <2> QED
    BY <1>1, <1>2, <2>1, FiniteGrowing
<1>4. Summable(f, T) /\ Summable(f, S \ T) /\ T \cap (S \ T) = {} /\ T \cup (S \ T) = S
  BY SubSummable
<1>5. SumFunctionOnSet(f, S) = SumFunctionOnSet(f, T) + SumFunctionOnSet(f, S \ T)
  BY <1>4, SumSplits
<1> QED
  BY <1>3, <1>4, <1>5, SumSteps

\* Sums add up.
LEMMA SumPlus ==
    ASSUME NEW S, NEW f, Summable(f, S), NEW g, Summable(g, S), NEW h, \A x \in S : h[x] = f[x] + g[x]
    PROVE  /\ Summable(h, S)
           /\ SumFunctionOnSet(h, S) = SumFunctionOnSet(f, S) + SumFunctionOnSet(g, S)
<1> DEFINE P == {s \in SUBSET S : SumFunctionOnSet(h, s) = SumFunctionOnSet(f, s) + SumFunctionOnSet(g, s)}
<1>1. Summable(h, S)
  BY DEF Summable
<1>2. {} \in P
  <2>1. SumFunctionOnSet(h, {}) = 0 /\ SumFunctionOnSet(f, {}) = 0 /\ SumFunctionOnSet(g, {}) = 0
    BY <1>1, SumSteps
  <2> QED
    BY <2>1
<1>3. ASSUME NEW s \in P, NEW x \in S \ s
      PROVE  s \cup {x} \in P
  <2>1. /\ Summable(f, s) /\ Summable(g, s) /\ Summable(h, s)
        /\ f[x] \in Int /\ g[x] \in Int /\ h[x] \in Int /\ h[x] = f[x] + g[x]
    BY <1>1, SubSummable DEF Summable
  <2>2. /\ SumFunctionOnSet(f, s \cup {x}) = f[x] + SumFunctionOnSet(f, s)
        /\ SumFunctionOnSet(g, s \cup {x}) = g[x] + SumFunctionOnSet(g, s)
        /\ SumFunctionOnSet(h, s \cup {x}) = h[x] + SumFunctionOnSet(h, s)
    BY <2>1, SumAdds
  <2>3. /\ SumFunctionOnSet(f, s) \in Int /\ SumFunctionOnSet(g, s) \in Int
        /\ SumFunctionOnSet(h, s) = SumFunctionOnSet(f, s) + SumFunctionOnSet(g, s)
    BY <2>1, SumSteps
  <2>4. s \cup {x} \in SUBSET S
    OBVIOUS
  <2> QED
    BY <2>1, <2>2, <2>3, <2>4
<1>4. S \in P
  <2>1. P \in SUBSET (SUBSET S)
    OBVIOUS
  <2> HIDE DEF P
  <2> QED
    BY <1>2, <1>3, <2>1, FiniteGrowing DEF Summable
<1> QED
  BY <1>1, <1>4

\* A sum over other names.
LEMMA SumRenamed ==
    ASSUME NEW S, NEW f, Summable(f, S), NEW T, NEW b \in [S -> T],
           \A x, y \in S : b[x] = b[y] => x = y,
           \A z \in T : \E x \in S : z = b[x],
           NEW h, \A x \in S : h[b[x]] = f[x]
    PROVE  Summable(h, T) /\ SumFunctionOnSet(h, T) = SumFunctionOnSet(f, S)
<1> DEFINE Image(s) == {b[x] : x \in s}
           P == {s \in SUBSET S : /\ Summable(h, Image(s))
                                  /\ SumFunctionOnSet(h, Image(s)) = SumFunctionOnSet(f, s)}
<1>1. {} \in P
  <2>1. Image({}) = {}
    OBVIOUS
  <2>2. Summable(h, {})
    BY FS_EmptySet DEF Summable
  <2>3. SumFunctionOnSet(h, {}) = 0 /\ SumFunctionOnSet(f, {}) = 0
    BY <2>2, SumSteps
  <2> HIDE DEF Image
  <2> QED
    BY <2>1, <2>2, <2>3
<1>2. ASSUME NEW s \in P, NEW x \in S \ s
      PROVE  s \cup {x} \in P
  <2>1. Image(s \cup {x}) = Image(s) \cup {b[x]} /\ b[x] \notin Image(s)
    OBVIOUS
  <2>2. PICK u : u = Image(s)
    OBVIOUS
  <2>3. Summable(h, u) /\ SumFunctionOnSet(h, u) = SumFunctionOnSet(f, s) /\ b[x] \notin u
    BY <2>1, <2>2
  <2>4. Summable(f, s) /\ f[x] \in Int /\ h[b[x]] = f[x]
    BY SubSummable DEF Summable
  <2>5. /\ Summable(h, u \cup {b[x]})
        /\ SumFunctionOnSet(h, u \cup {b[x]}) = h[b[x]] + SumFunctionOnSet(h, u)
        /\ SumFunctionOnSet(f, s \cup {x}) = f[x] + SumFunctionOnSet(f, s)
    BY <2>3, <2>4, SumAdds
  <2>6. s \cup {x} \in SUBSET S
    OBVIOUS
  <2> HIDE DEF Image
  <2> QED
    BY <2>1, <2>2, <2>3, <2>4, <2>5, <2>6
<1>3. S \in P
  <2>1. P \in SUBSET (SUBSET S)
    OBVIOUS
  <2> HIDE DEF P
  <2> QED
    BY <1>1, <1>2, <2>1, FiniteGrowing DEF Summable
<1>4. Image(S) = T
  OBVIOUS
<1> HIDE DEF Image
<1> QED
  BY <1>3, <1>4

\* h[l] sums f over the part of S that g puts at l.
PartSums(h, L, f, S, g) ==
    /\ \A x \in S : g[x] \in L
    /\ \A l \in L : h[l] = SumFunctionOnSet(f, {x \in S : g[x] = l})

\* A sum by parts.
LEMMA SumByParts ==
    ASSUME NEW S, NEW f, Summable(f, S), NEW L, IsFiniteSet(L), NEW g, NEW h, PartSums(h, L, f, S, g)
    PROVE  Summable(h, L) /\ SumFunctionOnSet(h, L) = SumFunctionOnSet(f, S)
<1> DEFINE Part(K) == {x \in S : g[x] \in K}
           P == {K \in SUBSET L : SumFunctionOnSet(h, K) = SumFunctionOnSet(f, Part(K))}
<1>0. /\ \A x \in S : g[x] \in L
      /\ \A l \in L : h[l] = SumFunctionOnSet(f, {x \in S : g[x] = l})
  BY DEF PartSums
<1>1. Summable(h, L)
  <2>1. ASSUME NEW l \in L
        PROVE  h[l] \in Int
    <3>1. PICK T \in SUBSET S : T = {x \in S : g[x] = l}
      OBVIOUS
    <3>2. SumFunctionOnSet(f, T) \in Int
      BY SubSummable, SumSteps
    <3> QED
      BY <1>0, <3>1, <3>2
  <2> QED
    BY <2>1 DEF Summable
<1>2. {} \in P
  <2>1. Part({}) = {}
    OBVIOUS
  <2>2. SumFunctionOnSet(h, {}) = 0 /\ SumFunctionOnSet(f, {}) = 0
    BY <1>1, SumSteps
  <2> HIDE DEF Part
  <2> QED
    BY <2>1, <2>2
<1>3. ASSUME NEW K \in P, NEW l \in L \ K
      PROVE  K \cup {l} \in P
  <2>1. PICK T \in SUBSET S : T = {x \in S : g[x] = l}
    OBVIOUS
  <2>2. PICK U \in SUBSET S : U = Part(K)
    OBVIOUS
  <2>3. Part(K \cup {l}) = U \cup T /\ U \cap T = {}
    BY <2>1, <2>2
  <2>4. SumFunctionOnSet(h, K) = SumFunctionOnSet(f, U) /\ h[l] = SumFunctionOnSet(f, T)
    BY <1>0, <2>1, <2>2
  <2>5. Summable(f, U) /\ Summable(f, T)
    BY SubSummable
  <2>6. Summable(h, K) /\ h[l] \in Int
    BY <1>1, SubSummable DEF Summable
  <2>7. SumFunctionOnSet(f, U \cup T) = SumFunctionOnSet(f, U) + SumFunctionOnSet(f, T)
    BY <2>3, <2>5, SumSplits
  <2>8. SumFunctionOnSet(h, K \cup {l}) = h[l] + SumFunctionOnSet(h, K)
    BY <2>6, SumAdds
  <2>9. SumFunctionOnSet(f, U) \in Int /\ SumFunctionOnSet(f, T) \in Int /\ K \cup {l} \in SUBSET L
    BY <2>5, SumSteps
  <2> HIDE DEF Part
  <2>10. SumFunctionOnSet(h, K \cup {l}) = SumFunctionOnSet(f, U \cup T)
    BY <2>4, <2>7, <2>8, <2>9
  <2> QED
    BY <2>3, <2>9, <2>10
<1>4. L \in P
  <2>1. P \in SUBSET (SUBSET L)
    OBVIOUS
  <2> HIDE DEF P
  <2> QED
    BY <1>2, <1>3, <2>1, FiniteGrowing
<1>5. Part(L) = S
  BY <1>0
<1> HIDE DEF Part
<1> QED
  BY <1>1, <1>4, <1>5

\* f goes over pairs, and h over the sums of its rows.
RowSums(h, f, w, A, B) ==
    /\ \A a \in A, b \in B : w[a][b] \in Int /\ f[<<a, b>>] = w[a][b]
    /\ \A a \in A : h[a] = SumFunctionOnSet(w[a], B)

\* A sum over pairs, row by row.
LEMMA SumByRows ==
    ASSUME NEW A, IsFiniteSet(A), NEW B, IsFiniteSet(B),
           NEW w, NEW f, NEW h, RowSums(h, f, w, A, B)
    PROVE  /\ Summable(f, A \X B) /\ Summable(h, A)
           /\ SumFunctionOnSet(f, A \X B) = SumFunctionOnSet(h, A)
<1>0. /\ \A a \in A, b \in B : w[a][b] \in Int /\ f[<<a, b>>] = w[a][b]
      /\ \A a \in A : h[a] = SumFunctionOnSet(w[a], B)
  BY DEF RowSums
<1>1. Summable(f, A \X B)
  <2>1. IsFiniteSet(A \X B)
    BY FS_Product
  <2>2. \A e \in A \X B : f[e] \in Int
    BY <1>0
  <2> QED
    BY <2>1, <2>2 DEF Summable
<1> DEFINE g == [e \in A \X B |-> e[1]]
<1>2. \A e \in A \X B : g[e] = e[1] /\ g[e] \in A
  OBVIOUS
<1>3. ASSUME NEW a \in A
      PROVE  h[a] = SumFunctionOnSet(f, {e \in A \X B : g[e] = a})
  <2>1. PICK T \in SUBSET (A \X B) : T = {e \in A \X B : g[e] = a}
    OBVIOUS
  <2>2. \A e : e \in T <=> \E b \in B : e = <<a, b>>
    BY <1>2, <2>1
  <2> DEFINE name == [b \in B |-> <<a, b>>]
  <2>3. name \in [B -> T] /\ \A b \in B : name[b] = <<a, b>>
    BY <2>2
  <2>4. \A x, y \in B : name[x] = name[y] => x = y
    BY <2>3
  <2>5. \A z \in T : \E x \in B : z = name[x]
    BY <2>2, <2>3
  <2>6. PICK row : row = w[a]
    OBVIOUS
  <2>7. Summable(row, B) /\ \A b \in B : f[name[b]] = row[b]
    BY <1>0, <2>3, <2>6 DEF Summable
  <2> HIDE DEF name
  <2>8. SumFunctionOnSet(f, T) = SumFunctionOnSet(row, B)
    BY <2>3, <2>4, <2>5, <2>7, SumRenamed
  <2> QED
    BY <1>0, <2>1, <2>6, <2>8
<1> HIDE DEF g
<1>4. PICK S : S = A \X B
  OBVIOUS
<1>5. Summable(h, A) /\ SumFunctionOnSet(h, A) = SumFunctionOnSet(f, S)
  <2>1. Summable(f, S) /\ \A e \in S : g[e] \in A
    BY <1>1, <1>2, <1>4
  <2>2. \A a \in A : h[a] = SumFunctionOnSet(f, {e \in S : g[e] = a})
    BY <1>3, <1>4
  <2>3. PartSums(h, A, f, S, g)
    BY <2>1, <2>2 DEF PartSums
  <2> QED
    BY <2>1, <2>3, SumByParts
<1> QED
  BY <1>1, <1>4, <1>5

\* Sums that differ at two places.
LEMMA SumTwoChanged ==
    ASSUME NEW S, NEW f, Summable(f, S), NEW h, Summable(h, S), NEW a \in S, NEW b \in S, a # b,
           \A x \in S \ {a, b} : f[x] = h[x]
    PROVE  SumFunctionOnSet(h, S) - SumFunctionOnSet(f, S) = (h[a] + h[b]) - (f[a] + f[b])
<1>1. PICK T \in SUBSET S : T = S \ {a}
  OBVIOUS
<1>2. PICK U \in SUBSET S : U = T \ {b}
  OBVIOUS
<1>3. Summable(f, T) /\ Summable(h, T) /\ Summable(f, U) /\ Summable(h, U) /\ b \in T
  BY <1>1, <1>2, SubSummable
<1>4. /\ SumFunctionOnSet(f, S) = f[a] + SumFunctionOnSet(f, T)
      /\ SumFunctionOnSet(h, S) = h[a] + SumFunctionOnSet(h, T)
      /\ SumFunctionOnSet(f, T) = f[b] + SumFunctionOnSet(f, U)
      /\ SumFunctionOnSet(h, T) = h[b] + SumFunctionOnSet(h, U)
  BY <1>1, <1>2, <1>3, SumSteps
<1>5. \A x \in U : f[x] = h[x]
  BY <1>1, <1>2
<1>6. SumFunctionOnSet(f, U) = SumFunctionOnSet(h, U) /\ SumFunctionOnSet(f, U) \in Int
  BY <1>3, <1>5, SumSame, SumSteps
<1>7. f[a] \in Int /\ f[b] \in Int /\ h[a] \in Int /\ h[b] \in Int
  BY DEF Summable
<1> QED
  BY <1>4, <1>6, <1>7

\* A set of integers has a greatest one.
LEMMA GreatestOfFinite ==
    ASSUME NEW S \in SUBSET Int, IsFiniteSet(S), S # {}
    PROVE  Max(S) \in S /\ \A y \in S : Max(S) >= y
<1> DEFINE P == {s \in SUBSET S : s = {} \/ \E x \in s : \A y \in s : x >= y}
<1>1. {} \in P
  OBVIOUS
<1>2. ASSUME NEW s \in P, NEW z \in S \ s
      PROVE  s \cup {z} \in P
  <2>1. CASE s = {}
    <3>1. z >= z /\ z \in s \cup {z} /\ \A y \in s \cup {z} : y = z
      BY <2>1
    <3>2. \E x \in s \cup {z} : \A y \in s \cup {z} : x >= y
      BY <3>1
    <3> QED
      BY <3>2
  <2>2. CASE s # {}
    <3>1. PICK x \in s : \A y \in s : x >= y
      BY <2>2
    <3>2. x \in Int /\ z \in Int /\ \A y \in s : y \in Int
      OBVIOUS
    <3>3. CASE x >= z
      <4>1. \A y \in s \cup {z} : x >= y
        BY <3>1, <3>3
      <4> QED
        BY <4>1
    <3>4. CASE ~(x >= z)
      <4>1. \A y \in s \cup {z} : z >= y
        BY <3>1, <3>2, <3>4
      <4> QED
        BY <4>1
    <3> QED
      BY <3>3, <3>4
  <2> QED
    BY <2>1, <2>2
<1>3. S \in P
  <2>1. P \in SUBSET (SUBSET S)
    OBVIOUS
  <2> HIDE DEF P
  <2> QED
    BY <1>1, <1>2, <2>1, FiniteGrowing
<1>4. \E x \in S : \A y \in S : x >= y
  BY <1>3
<1>5. Max(S) = CHOOSE x \in S : \A y \in S : x >= y
  BY DEF Max
<1> QED
  BY <1>4, <1>5

-----------------------------------------------------------------------------
\* The detection of communities.

\* The super-nodes share out the entities.
Sharing(ns, ms) ==
    /\ ns # {}
    /\ \A n \in ns : ms[n] # {} /\ ms[n] \subseteq input.entities
    /\ \A n, m \in ns : n # m => ms[n] \cap ms[m] = {}
    /\ \A x \in input.entities : \E n \in ns : x \in ms[n]

\* The communities of a level share out the entities; none has a parent yet.
IsLevel(lv, depth) ==
    /\ UNION {c.entities : c \in lv} = input.entities
    /\ \A c, d \in lv : c # d => c.entities \cap d.entities = {}
    /\ \A c \in lv : \E S \in SUBSET input.entities : S # {} /\ c = Community(S, depth)

\* Levels, each within the next.
AreLevels(all) ==
    /\ IsList(all)
    /\ \A i \in 1..Len(all) : IsLevel(all[i], i - 1)
    /\ \A i \in 1..(Len(all) - 1) : \A c \in all[i] : \E p \in all[i + 1] : c.entities \subseteq p.entities

Detecting ==
    /\ input \in DetectInputs
    /\ Sharing(nodes, members)
    /\ AreLevels(levels)
    /\ levels # <<>> => \A c \in levels[Len(levels)] : \E n \in nodes : c.entities \subseteq members[n]

DetectInv ==
    /\ at \in {"idle", "visit", "emit", "done"}
    /\ at = "idle" => levels = <<>>
    /\ at \in {"visit", "emit"} => Detecting
    /\ at = "done" => HierarchyIsNested

LEMMA LeastOf ==
    ASSUME NEW S \in SUBSET Nat, S # {}
    PROVE  Min(S) \in S /\ \A y \in S : Min(S) <= y
<1>1. \E x \in S : \A y \in S : x <= y
  BY LeastNumber
<1>2. Min(S) = CHOOSE x \in S : \A y \in S : x <= y
  BY DEF Min
<1> QED
  BY <1>1, <1>2

LEMMA CommunityIs ==
    ASSUME NEW S, NEW depth
    PROVE  /\ Community(S, depth).entities = S
           /\ Community(S, depth).lowest = Min(S)
           /\ Community(S, depth).relations =
                 IF depth > 0 THEN {} ELSE {r \in input.relations : r.from \in S /\ r.to \in S}
  BY DEF Community

LEMMA IDsAreNumbers ==
    ASSUME input \in DetectInputs, NEW S \in SUBSET input.entities, S # {}
    PROVE  Min(S) \in S
<1>1. S \in SUBSET Nat
  BY DetectAssumption
<1> QED
  BY <1>1, LeastOf

\* The groups of a labelling share out the entities, whatever the labels are.
LEMMA GroupsShareOut ==
    ASSUME Sharing(nodes, members)
    PROVE  /\ \A n \in nodes : /\ members[n] \subseteq Group(label[n])
                               /\ Group(label[n]) # {} /\ Group(label[n]) \subseteq input.entities
           /\ \A S, T \in Groups : S # T => S \cap T = {}
           /\ UNION Groups = input.entities
           /\ \A S \in Groups : \E n \in nodes : S = Group(label[n])
<1>1. /\ \A n \in nodes : members[n] # {} /\ members[n] \subseteq input.entities
      /\ \A n, m \in nodes : n # m => members[n] \cap members[m] = {}
      /\ \A x \in input.entities : \E n \in nodes : x \in members[n]
  BY DEF Sharing
<1>2. \A l, x : x \in Group(l) <=> \E n \in nodes : label[n] = l /\ x \in members[n]
  BY DEF Group
<1>3. \A S : S \in Groups <=> \E n \in nodes : S = Group(label[n])
  BY DEF Groups
<1>4. \A n \in nodes : members[n] \subseteq Group(label[n])
  BY <1>2
<1>5. \A n \in nodes : Group(label[n]) # {} /\ Group(label[n]) \subseteq input.entities
  <2>1. ASSUME NEW n \in nodes
        PROVE  Group(label[n]) # {} /\ Group(label[n]) \subseteq input.entities
    <3>1. PICK x \in members[n] : TRUE
      BY <1>1
    <3>2. x \in Group(label[n])
      BY <1>4
    <3>3. \A y \in Group(label[n]) : y \in input.entities
      BY <1>1, <1>2
    <3> QED
      BY <3>2, <3>3
  <2> QED
    BY <2>1
<1>6. ASSUME NEW S \in Groups, NEW T \in Groups, NEW x \in S, x \in T
      PROVE  S = T
  <2>1. PICK n \in nodes : S = Group(label[n])
    BY <1>3
  <2>2. PICK m \in nodes : T = Group(label[m])
    BY <1>3
  <2>3. PICK a \in nodes : label[a] = label[n] /\ x \in members[a]
    BY <1>2, <1>6, <2>1
  <2>4. PICK b \in nodes : label[b] = label[m] /\ x \in members[b]
    BY <1>2, <1>6, <2>2
  <2>5. a = b
    BY <1>1, <2>3, <2>4
  <2> QED
    BY <2>1, <2>2, <2>3, <2>4, <2>5
<1>7. \A S, T \in Groups : S # T => S \cap T = {}
  <2>1. \A S, T \in Groups : \A x \in S : x \in T => S = T
    BY <1>6
  <2> QED
    BY <2>1
<1>8. UNION Groups = input.entities
  <2>1. ASSUME NEW x \in input.entities
        PROVE  x \in UNION Groups
    <3>1. PICK n \in nodes : x \in members[n]
      BY <1>1
    <3>2. x \in Group(label[n]) /\ Group(label[n]) \in Groups
      BY <1>3, <1>4, <3>1
    <3> QED
      BY <3>2
  <2>2. ASSUME NEW S \in Groups
        PROVE  S \subseteq input.entities
    BY <1>3, <1>5
  <2> QED
    BY <2>1, <2>2
<1> QED
  BY <1>3, <1>4, <1>5, <1>7, <1>8

\* The communities of a labelling, as Emit finds them.
AreFound(fresh, depth) == fresh = {Community(S, depth) : S \in Groups}

\* The communities of a labelling are a level, above the levels so far.
LEMMA FoundIsLevel ==
    ASSUME Detecting, NEW depth, NEW fresh, AreFound(fresh, depth)
    PROVE  /\ IsLevel(fresh, depth)
           /\ \A n \in nodes : \E p \in fresh : members[n] \subseteq p.entities
           /\ \A c \in fresh : \E n \in nodes : c.entities = Group(label[n])
<1>1. Sharing(nodes, members)
  BY DEF Detecting
<1>2. /\ \A n \in nodes : /\ members[n] \subseteq Group(label[n])
                          /\ Group(label[n]) # {} /\ Group(label[n]) \subseteq input.entities
      /\ \A S, T \in Groups : S # T => S \cap T = {}
      /\ UNION Groups = input.entities
      /\ \A S \in Groups : \E n \in nodes : S = Group(label[n])
  BY <1>1, GroupsShareOut
<1>3. /\ \A c \in fresh : \E S \in Groups : c = Community(S, depth) /\ c.entities = S
      /\ \A S \in Groups : \E c \in fresh : c = Community(S, depth) /\ c.entities = S
  <2>1. \A c : c \in fresh <=> \E S \in Groups : c = Community(S, depth)
    BY DEF AreFound
  <2>2. \A S : Community(S, depth).entities = S
    BY CommunityIs
  <2> QED
    BY <2>1, <2>2
<1>4. UNION {c.entities : c \in fresh} = input.entities
  BY <1>2, <1>3
<1>5. \A c, d \in fresh : c # d => c.entities \cap d.entities = {}
  BY <1>2, <1>3
<1>6. \A c \in fresh : \E S \in SUBSET input.entities : S # {} /\ c = Community(S, depth)
  BY <1>2, <1>3
<1>7. IsLevel(fresh, depth)
  BY <1>4, <1>5, <1>6 DEF IsLevel
<1>8. \A n \in nodes : \E p \in fresh : members[n] \subseteq p.entities
  <2>1. ASSUME NEW n \in nodes
        PROVE  \E p \in fresh : members[n] \subseteq p.entities
    <3>1. Group(label[n]) \in Groups
      BY DEF Groups
    <3> QED
      BY <1>2, <1>3, <3>1
  <2> QED
    BY <2>1
<1>9. \A c \in fresh : \E n \in nodes : c.entities = Group(label[n])
  BY <1>2, <1>3
<1> QED
  BY <1>7, <1>8, <1>9

LEMMA LevelsGrow ==
    ASSUME Detecting, NEW fresh, AreFound(fresh, Len(levels)),
           NEW all, all = Append(levels, fresh)
    PROVE  AreLevels(all) /\ all # <<>> /\ all[Len(all)] = fresh
<1> DEFINE N == Len(levels)
<1>1. /\ IsList(levels) /\ N \in Nat
      /\ \A i \in 1..N : IsLevel(levels[i], i - 1)
      /\ \A i \in 1..(N - 1) : \A c \in levels[i] : \E p \in levels[i + 1] : c.entities \subseteq p.entities
      /\ levels # <<>> <=> N # 0
      /\ levels # <<>> => \A c \in levels[N] : \E n \in nodes : c.entities \subseteq members[n]
  BY ListFacts DEF Detecting, AreLevels
<1>2. /\ IsLevel(fresh, N)
      /\ \A n \in nodes : \E p \in fresh : members[n] \subseteq p.entities
  BY FoundIsLevel
<1>3. /\ IsList(all) /\ Len(all) = N + 1 /\ all[N + 1] = fresh
      /\ \A i \in 1..N : all[i] = levels[i]
  BY <1>1, ListAppend
<1> HIDE DEF N
<1>4. ASSUME NEW i \in 1..(N + 1)
      PROVE  IsLevel(all[i], i - 1)
  <2>1. CASE i = N + 1
    <3>1. i - 1 = N
      BY <1>1, <2>1
    <3> QED
      BY <1>2, <1>3, <2>1, <3>1
  <2>2. CASE i # N + 1
    <3>1. i \in 1..N
      BY <1>1, <2>2
    <3> QED
      BY <1>1, <1>3, <3>1
  <2> QED
    BY <2>1, <2>2
<1>5. ASSUME NEW i \in 1..N, NEW c \in all[i]
      PROVE  \E p \in all[i + 1] : c.entities \subseteq p.entities
  <2>1. c \in levels[i]
    BY <1>3
  <2>2. CASE i = N
    <3>1. levels # <<>>
      BY <1>1, <2>2
    <3>2. PICK n \in nodes : c.entities \subseteq members[n]
      BY <1>1, <2>1, <2>2, <3>1
    <3>3. PICK p \in fresh : members[n] \subseteq p.entities
      BY <1>2
    <3> QED
      BY <1>3, <2>2, <3>2, <3>3
  <2>3. CASE i # N
    <3>1. i \in 1..(N - 1) /\ i + 1 \in 1..N
      BY <1>1, <2>3
    <3> QED
      BY <1>1, <1>3, <2>1, <3>1
  <2> QED
    BY <2>2, <2>3
<1>6. Len(all) - 1 = N /\ all # <<>>
  BY <1>1, <1>3, ListFacts
<1>7. AreLevels(all)
  BY <1>3, <1>4, <1>5, <1>6 DEF AreLevels
<1> QED
  BY <1>3, <1>6, <1>7


-----------------------------------------------------------------------------
\* The levels linked.

\* What is expected of levels, those of the state or others.
AreNested(linked) ==
    \A i \in DOMAIN linked :
        /\ UNION {c.entities : c \in linked[i]} = input.entities
        /\ \A c, d \in linked[i] : c # d => c.entities \cap d.entities = {}
        /\ \A c \in linked[i] :
              /\ c.relations = {r \in input.relations : i = 1 /\ {r.from, r.to} \subseteq c.entities}
              /\ IF i = Len(linked) THEN c.parent = 0
                 ELSE \E p \in linked[i + 1] : p.lowest = c.parent /\ c.entities \subseteq p.entities

LEMMA ParentLies ==
    ASSUME input \in DetectInputs, NEW above, NEW depth, IsLevel(above, depth),
           NEW c, c.entities # {}, c.entities \in SUBSET input.entities,
           \E p \in above : c.entities \subseteq p.entities
    PROVE  \E p \in above : ParentOf(c, above) = p.lowest /\ c.entities \subseteq p.entities
<1> DEFINE x == Min(c.entities)
<1>1. x \in c.entities
  BY IDsAreNumbers
<1>2. PICK p \in above : c.entities \subseteq p.entities
  OBVIOUS
<1>3. \A q, r \in above : q # r => q.entities \cap r.entities = {}
  BY DEF IsLevel
<1>4. \A q \in above : x \in q.entities => q = p
  BY <1>1, <1>2, <1>3
<1>5. x \in p.entities
  BY <1>1, <1>2
<1>6. (CHOOSE q \in above : x \in q.entities) = p
  BY <1>4, <1>5
<1>7. ParentOf(c, above) = p.lowest
  BY <1>5, <1>6 DEF ParentOf
<1> QED
  BY <1>2, <1>7

\* A link is a community with its parent.
LEMMA LinkIs ==
    ASSUME NEW S, NEW depth, NEW c, c = Community(S, depth), NEW v, NEW d, d = [c EXCEPT !.parent = v]
    PROVE  d.entities = c.entities /\ d.lowest = c.lowest /\ d.relations = c.relations /\ d.parent = v
  BY DEF Community

\* The parent that a community gets.
LinkOf(all, i, c) == IF i = Len(all) THEN 0 ELSE ParentOf(c, all[i + 1])
IsLink(d, c, all, i) == d = [c EXCEPT !.parent = LinkOf(all, i, c)]

LEMMA LinkedIsNested ==
    ASSUME input \in DetectInputs, NEW all, AreLevels(all), NEW linked, linked = Linked(all)
    PROVE  AreNested(linked)
<1>1. /\ IsList(all) /\ Len(all) \in Nat /\ DOMAIN all = 1..Len(all)
      /\ \A i \in 1..Len(all) : IsLevel(all[i], i - 1)
      /\ \A i \in 1..(Len(all) - 1) : \A c \in all[i] : \E p \in all[i + 1] : c.entities \subseteq p.entities
  BY ListFacts DEF AreLevels
<1>0. PICK N \in Nat : N = Len(all)
  BY <1>1
<1>2. linked = [i \in 1..N |-> {[c EXCEPT !.parent = LinkOf(all, i, c)] : c \in all[i]}]
  BY <1>0, <1>1 DEF Linked, LinkOf
<1>3. DOMAIN linked = 1..N /\ Len(linked) = N
  BY <1>0, <1>2
<1>4. ASSUME NEW i \in 1..N
      PROVE  \A d : d \in linked[i] <=> \E c \in all[i] : IsLink(d, c, all, i)
  BY <1>2 DEF IsLink
<1>5. ASSUME NEW i \in 1..N, NEW c \in all[i], NEW d, IsLink(d, c, all, i)
      PROVE  /\ d.entities = c.entities /\ d.lowest = c.lowest
             /\ d.relations = c.relations /\ d.parent = LinkOf(all, i, c)
             /\ c.entities # {} /\ c.entities \in SUBSET input.entities
             /\ c.relations = IF i - 1 > 0 THEN {}
                              ELSE {r \in input.relations : r.from \in c.entities /\ r.to \in c.entities}
  <2>1. IsLevel(all[i], i - 1)
    BY <1>0, <1>1
  <2>2. PICK S \in SUBSET input.entities : S # {} /\ c = Community(S, i - 1)
    BY <2>1 DEF IsLevel
  <2>3. c.entities = S
    BY <2>2, CommunityIs
  <2>4. c.relations = IF i - 1 > 0 THEN {} ELSE {r \in input.relations : r.from \in S /\ r.to \in S}
    BY <2>2, CommunityIs
  <2>5. d.entities = c.entities /\ d.lowest = c.lowest /\ d.relations = c.relations /\ d.parent = LinkOf(all, i, c)
    BY <1>5, <2>2, LinkIs DEF IsLink
  <2> QED
    BY <2>2, <2>3, <2>4, <2>5
<1>6. ASSUME NEW i \in 1..N
      PROVE  /\ UNION {d.entities : d \in linked[i]} = input.entities
             /\ \A d, e \in linked[i] : d # e => d.entities \cap e.entities = {}
  <2>1. /\ UNION {c.entities : c \in all[i]} = input.entities
        /\ \A c, e \in all[i] : c # e => c.entities \cap e.entities = {}
    BY <1>0, <1>1 DEF IsLevel
  <2>0. \A c \in all[i] : \A d : IsLink(d, c, all, i) => d.entities = c.entities
    BY <1>5
  <2>2. \A d \in linked[i] : \E c \in all[i] : IsLink(d, c, all, i) /\ d.entities = c.entities
    BY <1>4, <2>0
  <2>3. \A c \in all[i] : \E d \in linked[i] : d.entities = c.entities
    <3>1. \A c : \E d : IsLink(d, c, all, i)
      BY DEF IsLink
    <3> QED
      BY <1>4, <2>0, <3>1
  <2>4. UNION {d.entities : d \in linked[i]} = input.entities
    BY <2>1, <2>2, <2>3
  <2>5. ASSUME NEW d \in linked[i], NEW e \in linked[i], d # e
        PROVE  d.entities \cap e.entities = {}
    <3>1. PICK c \in all[i] : IsLink(d, c, all, i) /\ d.entities = c.entities
      BY <2>2
    <3>2. PICK b \in all[i] : IsLink(e, b, all, i) /\ e.entities = b.entities
      BY <2>2
    <3>3. b # c
      BY <2>5, <3>1, <3>2 DEF IsLink
    <3> QED
      BY <2>1, <3>1, <3>2, <3>3
  <2> QED
    BY <2>4, <2>5
<1>7. ASSUME NEW i \in 1..N, NEW d \in linked[i]
      PROVE  /\ d.relations = {r \in input.relations : i = 1 /\ {r.from, r.to} \subseteq d.entities}
             /\ IF i = N THEN d.parent = 0
                ELSE \E p \in linked[i + 1] : p.lowest = d.parent /\ d.entities \subseteq p.entities
  <2>1. PICK c \in all[i] : IsLink(d, c, all, i)
    BY <1>4
  <2>2. /\ d.entities = c.entities /\ d.relations = c.relations /\ d.parent = LinkOf(all, i, c)
        /\ c.entities # {} /\ c.entities \in SUBSET input.entities
        /\ c.relations = IF i - 1 > 0 THEN {}
                         ELSE {r \in input.relations : r.from \in c.entities /\ r.to \in c.entities}
    BY <1>5, <2>1
  <2>3. d.relations = {r \in input.relations : i = 1 /\ {r.from, r.to} \subseteq d.entities}
    <3>1. CASE i = 1
      <4>1. ~(i - 1 > 0)
        BY <3>1
      <4> QED
        BY <2>2, <3>1, <4>1
    <3>2. CASE i # 1
      <4>1. i - 1 > 0
        BY <1>0, <3>2
      <4> QED
        BY <2>2, <3>2, <4>1
    <3> QED
      BY <3>1, <3>2
  <2>4. CASE i = N
    BY <1>0, <2>2, <2>3, <2>4 DEF LinkOf
  <2>5. CASE i # N
    <3>1. i \in 1..(Len(all) - 1) /\ i + 1 \in 1..N /\ i + 1 \in 1..Len(all)
      BY <1>0, <2>5
    <3>2. \E p \in all[i + 1] : c.entities \subseteq p.entities
      BY <1>1, <3>1
    <3>3. IsLevel(all[i + 1], (i + 1) - 1)
      BY <1>1, <3>1
    <3>4. PICK p \in all[i + 1] : ParentOf(c, all[i + 1]) = p.lowest /\ c.entities \subseteq p.entities
      BY <2>2, <3>2, <3>3, ParentLies
    <3>5. PICK q : IsLink(q, p, all, i + 1)
      BY DEF IsLink
    <3>6. q \in linked[i + 1] /\ q.lowest = p.lowest /\ q.entities = p.entities
      <4>1. PICK j \in 1..N : j = i + 1
        BY <3>1
      <4>2. p \in all[j] /\ IsLink(q, p, all, j)
        BY <3>4, <3>5, <4>1
      <4>3. q \in linked[j]
        BY <1>4, <4>2
      <4>4. q.lowest = p.lowest /\ q.entities = p.entities
        BY <1>5, <4>2
      <4> QED
        BY <4>1, <4>3, <4>4
    <3>7. d.parent = p.lowest
      BY <1>0, <2>2, <2>5, <3>4 DEF LinkOf
    <3> QED
      BY <2>2, <2>3, <2>5, <3>4, <3>6, <3>7
  <2> QED
    BY <2>4, <2>5
<1> QED
  BY <1>3, <1>6, <1>7 DEF AreNested

\* The last level ends the detection.
LEMMA NestedAtLast ==
    ASSUME input \in DetectInputs, NEW all, AreLevels(all), levels' = Linked(all), input' = input
    PROVE  HierarchyIsNested'
<1>1. PICK linked : linked = Linked(all)
  OBVIOUS
<1>2. AreNested(linked)
  BY <1>1, LinkedIsNested
<1>3. levels' = linked
  BY <1>1
<1>4. AreNested(levels')
  BY <1>2, <1>3
<1> QED
  BY <1>4 DEF HierarchyIsNested, AreNested


-----------------------------------------------------------------------------
\* The graph coarsened.

CoarsenedTo(lowest, new, ms) ==
    /\ lowest = [n \in nodes |-> Min(Group(label[n]))]
    /\ new = Range(lowest)
    /\ ms = [n \in new |-> Group(label[CHOOSE m \in nodes : lowest[m] = n])]

\* Each community is the super-node of its lowest member.
LEMMA CoarseningShares ==
    ASSUME Detecting, NEW lowest, NEW new, NEW ms, CoarsenedTo(lowest, new, ms)
    PROVE  /\ Sharing(new, ms)
           /\ \A n \in nodes : \E k \in new : Group(label[n]) = ms[k]
<1>1. Sharing(nodes, members) /\ input \in DetectInputs
  BY DEF Detecting
<1>2. /\ \A n \in nodes : /\ members[n] \subseteq Group(label[n])
                          /\ Group(label[n]) # {} /\ Group(label[n]) \in SUBSET input.entities
      /\ \A S, T \in Groups : S # T => S \cap T = {}
      /\ UNION Groups = input.entities
      /\ \A S \in Groups : \E n \in nodes : S = Group(label[n])
      /\ \A n \in nodes : Group(label[n]) \in Groups
  BY <1>1, GroupsShareOut DEF Groups
<1>3. \A n \in nodes : Min(Group(label[n])) \in Group(label[n])
  BY <1>1, <1>2, IDsAreNumbers
<1>4. /\ \A n \in nodes : lowest[n] = Min(Group(label[n]))
      /\ DOMAIN lowest = nodes
  BY DEF CoarsenedTo
<1>5. \A k : k \in new <=> \E n \in nodes : k = lowest[n]
  BY <1>4 DEF CoarsenedTo, Range
<1>6. \A k \in new : ms[k] = Group(label[CHOOSE m \in nodes : lowest[m] = k])
  BY DEF CoarsenedTo
<1>7. ASSUME NEW n \in nodes
      PROVE  ms[lowest[n]] = Group(label[n])
  <2>1. PICK k : k = lowest[n]
    OBVIOUS
  <2>2. PICK m : m = CHOOSE q \in nodes : lowest[q] = k
    OBVIOUS
  <2>3. m \in nodes /\ lowest[m] = k
    BY <2>1, <2>2
  <2>4. k \in Group(label[m]) /\ k \in Group(label[n])
    BY <1>3, <1>4, <2>1, <2>3
  <2>5. Group(label[m]) = Group(label[n])
    BY <1>2, <2>3, <2>4
  <2>6. ms[k] = Group(label[m])
    BY <1>5, <1>6, <2>1, <2>2
  <2> QED
    BY <2>1, <2>5, <2>6
<1>8. \A n \in nodes : \E k \in new : Group(label[n]) = ms[k]
  BY <1>5, <1>7
<1>9. new # {}
  BY <1>1, <1>5 DEF Sharing
<1>10. \A k \in new : \E n \in nodes : k = lowest[n] /\ ms[k] = Group(label[n])
  BY <1>5, <1>7
<1>11. \A k \in new : ms[k] # {} /\ ms[k] \subseteq input.entities
  BY <1>2, <1>10
<1>12. ASSUME NEW k \in new, NEW j \in new, k # j
       PROVE  ms[k] \cap ms[j] = {}
  <2>1. PICK n \in nodes : k = lowest[n] /\ ms[k] = Group(label[n])
    BY <1>10
  <2>2. PICK m \in nodes : j = lowest[m] /\ ms[j] = Group(label[m])
    BY <1>10
  <2>3. Group(label[n]) # Group(label[m])
    BY <1>4, <1>12, <2>1, <2>2
  <2> QED
    BY <1>2, <2>1, <2>2, <2>3
<1>13. \A x \in input.entities : \E k \in new : x \in ms[k]
  BY <1>2, <1>8
<1>14. Sharing(new, ms)
  BY <1>9, <1>11, <1>12, <1>13 DEF Sharing
<1> QED
  BY <1>8, <1>14


-----------------------------------------------------------------------------
\* Every step of a detection.

LEMMA DetectStarts == DetectInit => DetectInv
  BY DEF DetectInit, DetectInv, HierarchyIsNested

LEMMA LevelStarts ==
    ASSUME NEW d, NEW ns, NEW adj, StartLevel(d, ns, adj)
    PROVE  nodes' = ns /\ at' \in {"visit", "emit"}
  BY DEF StartLevel

LEMMA DetectBegins == ASSUME DetectInv, Detect PROVE DetectInv'
<1>1. PICK g \in DetectInputs, d \in Detectors :
          /\ input' = g
          /\ members' = [n \in g.entities |-> {n}]
          /\ IF g.entities = {}
             THEN at' = "done" /\ UNCHANGED <<nodes, adjacency, degree, label, rest, moved, sweeps>>
             ELSE \E adj \in {BuildAdjacency(g)} : StartLevel(d, g.entities, adj)
  BY DEF Detect
<1>2. levels' = levels /\ levels = <<>>
  BY DEF Detect, DetectInv
<1>3. CASE g.entities = {}
  <2>1. at' = "done" /\ input'.entities = {}
    BY <1>1, <1>3
  <2> QED
    BY <2>1 DEF DetectInv, HierarchyIsNested
<1>4. CASE g.entities # {}
  <2>1. nodes' = g.entities /\ at' \in {"visit", "emit"}
    BY <1>1, <1>4, LevelStarts
  <2>2. PICK ms : ms = [n \in g.entities |-> {n}]
    OBVIOUS
  <2>3. \A n \in g.entities : ms[n] = {n}
    BY <2>2
  <2>4. Sharing(nodes, members)'
    BY <1>1, <1>4, <2>1, <2>2, <2>3 DEF Sharing
  <2>5. IsList(<<>>) /\ Len(<<>>) = 0 /\ 1..0 = {} /\ 1..(0 - 1) = {}
    BY ListOfNone
  <2>6. AreLevels(levels)'
    BY <1>2, <2>5 DEF AreLevels
  <2>7. Detecting'
    BY <1>1, <1>2, <2>4, <2>6 DEF Detecting
  <2>8. at' # "idle" /\ at' # "done"
    BY <2>1
  <2> QED
    BY <2>1, <2>7, <2>8 DEF DetectInv
<1> QED
  BY <1>3, <1>4

LEMMA DetectingStays ==
    ASSUME Detecting, input' = input, nodes' = nodes, members' = members, levels' = levels
    PROVE  Detecting'
<1>1. Sharing(nodes, members)'
  BY DEF Detecting, Sharing
<1>2. AreLevels(levels)'
  BY DEF Detecting, AreLevels, IsLevel, Community
<1> QED
  BY <1>1, <1>2 DEF Detecting

LEMMA VisitSteps == ASSUME DetectInv, Visit PROVE DetectInv'
<1>1. at = "visit" /\ at' \in {"visit", "emit"}
  BY DEF Visit
<1>2. input' = input /\ nodes' = nodes /\ members' = members /\ levels' = levels
  BY DEF Visit
<1>3. Detecting
  BY <1>1 DEF DetectInv
<1>4. Detecting'
  BY <1>2, <1>3, DetectingStays
<1>5. at' # "idle" /\ at' # "done"
  BY <1>1
<1> QED
  BY <1>1, <1>4, <1>5 DEF DetectInv

\* What Emit does with the communities found.
Emitted(fresh, all) ==
    IF detector = "labels" \/ Cardinality(fresh) >= Cardinality(nodes) \/ Len(all) = MaxLevels
    THEN at' = "done" /\ levels' = Linked(all)
    ELSE \E lowest, new, ms, adj :
            /\ CoarsenedTo(lowest, new, ms)
            /\ levels' = all /\ members' = ms
            /\ StartLevel(detector, new, adj)

LEMMA EmitFinds ==
    ASSUME Emit
    PROVE  \E fresh, all : AreFound(fresh, Len(levels)) /\ all = Append(levels, fresh) /\ Emitted(fresh, all)
  BY DEF Emit, AreFound, Emitted, CoarsenedTo

LEMMA EmitSteps == ASSUME DetectInv, Emit PROVE DetectInv'
<1>1. Detecting /\ input \in DetectInputs /\ input' = input
  BY DEF DetectInv, Detecting, Emit
<1>2. PICK fresh, all : AreFound(fresh, Len(levels)) /\ all = Append(levels, fresh) /\ Emitted(fresh, all)
  BY EmitFinds
<1>3. AreFound(fresh, Len(levels))
  BY <1>2
<1>4. AreLevels(all) /\ all # <<>> /\ all[Len(all)] = fresh
  BY <1>1, <1>2, <1>3, LevelsGrow
<1>6. CASE at' = "done" /\ levels' = Linked(all)
  <2>2. HierarchyIsNested'
    BY <1>1, <1>4, <1>6, NestedAtLast
  <2> QED
    BY <1>6, <2>2 DEF DetectInv
<1>7. CASE \E lowest, new, ms, adj :
             /\ CoarsenedTo(lowest, new, ms)
             /\ levels' = all /\ members' = ms
             /\ StartLevel(detector, new, adj)
  <2>3. PICK lowest, new, ms, adj :
             /\ CoarsenedTo(lowest, new, ms)
             /\ levels' = all /\ members' = ms
             /\ StartLevel(detector, new, adj)
    BY <1>7
  <2>4. /\ Sharing(new, ms)
        /\ \A n \in nodes : \E k \in new : Group(label[n]) = ms[k]
    BY <1>1, <2>3, CoarseningShares
  <2>5. members' = ms
    BY <2>3
  <2>6. nodes' = new /\ at' \in {"visit", "emit"}
    BY <2>3, LevelStarts
  <2>7. \A c \in fresh : \E n \in nodes : c.entities = Group(label[n])
    BY <1>1, <1>3, FoundIsLevel
  <2>8. \A c \in fresh : \E k \in new : c.entities \subseteq ms[k]
    BY <2>4, <2>7
  <2>9. Sharing(nodes, members)'
    BY <1>1, <2>4, <2>5, <2>6 DEF Sharing
  <2>10. levels' = all
    BY <2>3
  <2>11. AreLevels(levels)'
    BY <1>1, <1>4, <2>10 DEF AreLevels, IsLevel, Community
  <2>12. \A c \in levels'[Len(levels')] : \E n \in nodes' : c.entities \subseteq members'[n]
    BY <1>4, <2>5, <2>6, <2>8, <2>10
  <2>13. Detecting'
    BY <1>1, <2>9, <2>11, <2>12 DEF Detecting
  <2>14. at' # "idle" /\ at' # "done"
    BY <2>6
  <2> QED
    BY <2>6, <2>13, <2>14 DEF DetectInv
<1> QED
  BY <1>2, <1>6, <1>7 DEF Emitted

LEMMA DetectSteps == ASSUME DetectInv, Detect \/ DetectStep PROVE DetectInv'
  BY DetectBegins, VisitSteps, EmitSteps DEF DetectStep

LEMMA DetectStays == ASSUME DetectInv, UNCHANGED detectVars PROVE DetectInv'
<1>1. /\ input' = input /\ nodes' = nodes /\ members' = members
      /\ levels' = levels /\ at' = at
  BY DEF detectVars
<1>2. at \in {"visit", "emit"} => Detecting'
  BY <1>1, DetectingStays DEF DetectInv
<1>3. at = "done" => HierarchyIsNested'
  BY <1>1 DEF DetectInv, HierarchyIsNested
<1> QED
  BY <1>1, <1>2, <1>3 DEF DetectInv

LEMMA HierarchyHeld == DetectInv => HierarchyIsNested
  BY DEF DetectInv, HierarchyIsNested

-----------------------------------------------------------------------------
\* The modularity of a weighted graph.

WeightedGraph(ns, adj, deg, lab) ==
    /\ IsFiniteSet(ns) /\ ns \subseteq Nat
    /\ \A n, m \in ns : adj[n][m] \in Nat /\ adj[n][m] = adj[m][n]
    /\ \A n \in ns : deg[n] = SumFunctionOnSet(adj[n], ns)
    /\ \A n \in ns : lab[n] \in ns

Inside(ns, lab, l) == {n \in ns : lab[n] = l}
Ties(adj, X)       == SumFunctionOnSet([e \in X \X X |-> adj[e[1]][e[2]]], X \X X)

\* What a community adds to the modularity, t being TwoM.
Part(adj, deg, X, t) ==
    t * ResolutionDen * Ties(adj, X)
      - ResolutionNum * SumFunctionOnSet(deg, X) * SumFunctionOnSet(deg, X)

PartsOver(L, ns, adj, deg, lab) == [l \in L |-> Part(adj, deg, Inside(ns, lab, l), SumFunctionOnSet(deg, ns))]
LabelsOf(ns, lab) == {lab[n] : n \in ns}

ModularityOf(ns, adj, deg, lab) ==
    SumFunctionOnSet(PartsOver(LabelsOf(ns, lab), ns, adj, deg, lab), LabelsOf(ns, lab))

\* Over all numbers that may be labels, whether any node has them or not.
Quality(ns, adj, deg, lab) == SumFunctionOnSet(PartsOver(ns, ns, adj, deg, lab), ns)

LEMMA ModularityIs == Modularity = ModularityOf(nodes, adjacency, degree, label)
  BY DEF Modularity, TwoM, ModularityOf, PartsOver, LabelsOf, Part, Ties, Inside

LEMMA ModularityIsNext == Modularity' = ModularityOf(nodes', adjacency', degree', label')
  BY DEF Modularity, TwoM, ModularityOf, PartsOver, LabelsOf, Part, Ties, Inside

LEMMA TiesByRows ==
    ASSUME NEW X, IsFiniteSet(X), NEW adj, \A a, b \in X : adj[a][b] \in Int
    PROVE  \E h : /\ \A a \in X : h[a] = SumFunctionOnSet(adj[a], X)
                  /\ Summable(h, X) /\ Ties(adj, X) = SumFunctionOnSet(h, X) /\ Ties(adj, X) \in Int
<1> DEFINE f == [e \in X \X X |-> adj[e[1]][e[2]]]
           h == [a \in X |-> SumFunctionOnSet(adj[a], X)]
<1>1. \A a \in X, b \in X : f[<<a, b>>] = adj[a][b]
  OBVIOUS
<1>2. \A a \in X : h[a] = SumFunctionOnSet(adj[a], X)
  OBVIOUS
<1>3. Ties(adj, X) = SumFunctionOnSet(f, X \X X)
  BY DEF Ties
<1> HIDE DEF f, h
<1>4. Summable(h, X) /\ SumFunctionOnSet(f, X \X X) = SumFunctionOnSet(h, X)
  <2>1. RowSums(h, f, adj, X, X)
    BY <1>1, <1>2 DEF RowSums
  <2> QED
    BY <2>1, SumByRows
<1>5. SumFunctionOnSet(h, X) \in Int
  BY <1>4, SumSteps
<1> QED
  BY <1>2, <1>3, <1>4, <1>5

\* A node that joins brings its ties, from both ends.
LEMMA TiesGrow ==
    ASSUME NEW X, IsFiniteSet(X), NEW n, n \notin X, NEW adj,
           \A a, b \in X \cup {n} : adj[a][b] \in Int /\ adj[a][b] = adj[b][a]
    PROVE  /\ Ties(adj, X) \in Int /\ SumFunctionOnSet(adj[n], X) \in Int
           /\ Ties(adj, X \cup {n}) = Ties(adj, X) + 2 * SumFunctionOnSet(adj[n], X) + adj[n][n]
<1>1. PICK Y : Y = X \cup {n}
  OBVIOUS
<1>2. IsFiniteSet(Y)
  BY <1>1, FS_AddElement
<1>3. PICK h : /\ \A a \in X : h[a] = SumFunctionOnSet(adj[a], X)
               /\ Summable(h, X) /\ Ties(adj, X) = SumFunctionOnSet(h, X) /\ Ties(adj, X) \in Int
  BY TiesByRows
<1>4. PICK g : /\ \A a \in Y : g[a] = SumFunctionOnSet(adj[a], Y)
               /\ Summable(g, Y) /\ Ties(adj, Y) = SumFunctionOnSet(g, Y) /\ Ties(adj, Y) \in Int
  BY <1>1, <1>2, TiesByRows
<1>5. \A a \in Y : Summable(adj[a], X)
  BY <1>1 DEF Summable
<1>6. ASSUME NEW a \in Y
      PROVE  g[a] = adj[a][n] + SumFunctionOnSet(adj[a], X)
  <2>1. PICK row : row = adj[a]
    OBVIOUS
  <2>2. Summable(row, X) /\ row[n] \in Int
    BY <1>1, <1>5, <2>1
  <2>3. SumFunctionOnSet(row, X \cup {n}) = row[n] + SumFunctionOnSet(row, X)
    BY <2>2, SumAdds
  <2> QED
    BY <1>1, <1>4, <2>1, <2>3
<1>7. PICK own : own = adj[n]
  OBVIOUS
<1>8. Summable(own, X) /\ own[n] \in Int /\ \A a \in X : own[a] = adj[a][n]
  BY <1>1, <1>5, <1>7
<1>9. \A a \in X : g[a] = own[a] + h[a]
  BY <1>1, <1>3, <1>6, <1>8
<1>10. SumFunctionOnSet(g, X) = SumFunctionOnSet(own, X) + SumFunctionOnSet(h, X)
  BY <1>3, <1>8, <1>9, SumPlus
<1>11. n \in Y /\ Y \ {n} = X
  BY <1>1
<1>12. SumFunctionOnSet(g, Y) = g[n] + SumFunctionOnSet(g, X)
  BY <1>4, <1>11, SumSteps
<1>13. g[n] = own[n] + SumFunctionOnSet(own, X)
  BY <1>6, <1>7, <1>11
<1>14. SumFunctionOnSet(own, X) \in Int /\ SumFunctionOnSet(h, X) \in Int
  BY <1>3, <1>8, SumSteps
<1>15. Ties(adj, Y) = Ties(adj, X) + 2 * SumFunctionOnSet(own, X) + own[n]
  BY <1>3, <1>4, <1>8, <1>10, <1>12, <1>13, <1>14
<1> QED
  BY <1>1, <1>3, <1>7, <1>14, <1>15

LEMMA DegreesAreNaturals ==
    ASSUME NEW ns, NEW adj, NEW deg, NEW lab, WeightedGraph(ns, adj, deg, lab)
    PROVE  /\ \A n \in ns : deg[n] \in Nat
           /\ Summable(deg, ns) /\ SumFunctionOnSet(deg, ns) \in Nat
<1>1. ASSUME NEW n \in ns
      PROVE  deg[n] \in Nat
  <2>1. PICK row : row = adj[n]
    OBVIOUS
  <2>2. SumFunctionOnSet(row, ns) \in Nat
    BY <2>1, SumOfNaturals DEF WeightedGraph
  <2> QED
    BY <2>1, <2>2 DEF WeightedGraph
<1>2. IsFiniteSet(ns)
  BY DEF WeightedGraph
<1> QED
  BY <1>1, <1>2, SumOfNaturals

LEMMA PartIs ==
    ASSUME NEW ns, NEW adj, NEW deg, NEW lab, WeightedGraph(ns, adj, deg, lab), NEW X \in SUBSET ns
    PROVE  /\ IsFiniteSet(X) /\ Ties(adj, X) \in Int
           /\ Summable(deg, X) /\ SumFunctionOnSet(deg, X) \in Int
           /\ Part(adj, deg, X, SumFunctionOnSet(deg, ns)) \in Int
<1>1. Summable(deg, ns) /\ SumFunctionOnSet(deg, ns) \in Nat
  BY DegreesAreNaturals
<1>2. Summable(deg, X) /\ SumFunctionOnSet(deg, X) \in Int /\ IsFiniteSet(X)
  BY <1>1, SubSummable, SumSteps DEF Summable
<1>3. \A a, b \in X : adj[a][b] \in Int
  <2>1. \A a, b \in ns : adj[a][b] \in Nat
    BY DEF WeightedGraph
  <2>2. \A a \in X : a \in ns
    OBVIOUS
  <2> QED
    BY <2>1, <2>2
<1>4. Ties(adj, X) \in Int
  BY <1>2, <1>3, TiesByRows
<1>5. ResolutionNum \in Int /\ ResolutionDen \in Int
  BY DetectAssumption
<1>6. PICK t \in Int, i \in Int, s \in Int :
          t = SumFunctionOnSet(deg, ns) /\ i = Ties(adj, X) /\ s = SumFunctionOnSet(deg, X)
  BY <1>1, <1>2, <1>4
<1>7. t * ResolutionDen * i - ResolutionNum * s * s \in Int
  BY <1>5
<1>8. Part(adj, deg, X, t) = t * ResolutionDen * i - ResolutionNum * s * s
  BY <1>6 DEF Part
<1> QED
  BY <1>2, <1>4, <1>6, <1>7, <1>8

\* The empty community adds nothing.
LEMMA EmptyPart ==
    ASSUME NEW ns, NEW adj, NEW deg, NEW lab, WeightedGraph(ns, adj, deg, lab)
    PROVE  Part(adj, deg, {}, SumFunctionOnSet(deg, ns)) = 0
<1>1. Summable(deg, ns) /\ SumFunctionOnSet(deg, ns) \in Nat
  BY DegreesAreNaturals
<1>2. SumFunctionOnSet(deg, {}) = 0
  BY <1>1, SumSteps
<1>3. Ties(adj, {}) = 0
  <2>1. IsFiniteSet({}) /\ \A a, b \in {} : adj[a][b] \in Int
    BY FS_EmptySet
  <2>2. PICK h : Summable(h, {}) /\ Ties(adj, {}) = SumFunctionOnSet(h, {})
    BY <2>1, TiesByRows
  <2> QED
    BY <2>2, SumSteps
<1>4. ResolutionNum \in Int /\ ResolutionDen \in Int
  BY DetectAssumption
<1>5. PICK t \in Int : t = SumFunctionOnSet(deg, ns)
  BY <1>1
<1>6. t * ResolutionDen * 0 - ResolutionNum * 0 * 0 = 0
  BY <1>4
<1> QED
  BY <1>2, <1>3, <1>5, <1>6 DEF Part

LEMMA QualityIs ==
    ASSUME NEW ns, NEW adj, NEW deg, NEW lab, WeightedGraph(ns, adj, deg, lab)
    PROVE  /\ ModularityOf(ns, adj, deg, lab) = Quality(ns, adj, deg, lab)
           /\ Quality(ns, adj, deg, lab) \in Int
           /\ Summable(PartsOver(ns, ns, adj, deg, lab), ns)
<1>1. PICK t : t = SumFunctionOnSet(deg, ns)
  OBVIOUS
<1>2. PICK L \in SUBSET ns : L = LabelsOf(ns, lab)
  BY DEF LabelsOf, WeightedGraph
<1>3. PICK f, g : f = PartsOver(ns, ns, adj, deg, lab) /\ g = PartsOver(L, ns, adj, deg, lab)
  OBVIOUS
<1>4. /\ \A l \in ns : f[l] = Part(adj, deg, Inside(ns, lab, l), t)
      /\ \A l \in L : g[l] = Part(adj, deg, Inside(ns, lab, l), t)
  BY <1>1, <1>3 DEF PartsOver
<1>5. \A l : Inside(ns, lab, l) \in SUBSET ns
  BY DEF Inside
<1>6. \A l \in ns : f[l] \in Int
  BY <1>1, <1>4, <1>5, PartIs
<1>7. Summable(f, ns)
  BY <1>6 DEF Summable, WeightedGraph
<1>8. \A l \in L : f[l] = g[l]
  BY <1>4
<1>9. \A l \in ns \ L : f[l] = 0
  <2>1. \A l \in ns \ L : Inside(ns, lab, l) = {}
    BY <1>2 DEF Inside, LabelsOf
  <2> QED
    BY <1>1, <1>4, <2>1, EmptyPart
<1>10. SumFunctionOnSet(f, ns) = SumFunctionOnSet(f, L)
  BY <1>7, <1>9, SumWithoutZeros
<1>11. SumFunctionOnSet(f, L) = SumFunctionOnSet(g, L)
  BY <1>7, <1>8, SubSummable, SumSame
<1>12. SumFunctionOnSet(f, ns) \in Int
  BY <1>7, SumSteps
<1> QED
  BY <1>2, <1>3, <1>7, <1>10, <1>11, <1>12 DEF ModularityOf, Quality


-----------------------------------------------------------------------------
\* A node moves.

\* What a node gains by joining the others X of a community.
Gain(adj, deg, n, X, t) ==
    SumFunctionOnSet(adj[n], X) * t * ResolutionDen - ResolutionNum * deg[n] * SumFunctionOnSet(deg, X)

LEMMA PartGrows ==
    ASSUME NEW ns, NEW adj, NEW deg, NEW lab, WeightedGraph(ns, adj, deg, lab),
           NEW X \in SUBSET ns, NEW n \in ns \ X, NEW t, t = SumFunctionOnSet(deg, ns)
    PROVE  /\ Gain(adj, deg, n, X, t) \in Int
           /\ Part(adj, deg, X \cup {n}, t)
                = Part(adj, deg, X, t) + 2 * Gain(adj, deg, n, X, t)
                    + (t * ResolutionDen * adj[n][n] - ResolutionNum * deg[n] * deg[n])
<1>1. IsFiniteSet(X) /\ Summable(deg, X) /\ SumFunctionOnSet(deg, X) \in Int
  BY PartIs
<1>2. /\ Ties(adj, X) \in Int /\ SumFunctionOnSet(adj[n], X) \in Int
      /\ Ties(adj, X \cup {n}) = Ties(adj, X) + 2 * SumFunctionOnSet(adj[n], X) + adj[n][n]
  <2>0. \A a \in X \cup {n} : a \in ns
    OBVIOUS
  <2>1. \A a, b \in X \cup {n} : adj[a][b] \in Int /\ adj[a][b] = adj[b][a]
    <3>1. \A a, b \in ns : adj[a][b] \in Int /\ adj[a][b] = adj[b][a]
      BY DEF WeightedGraph
    <3> QED
      BY <2>0, <3>1
  <2> QED
    BY <1>1, <2>1, TiesGrow
<1>3. deg[n] \in Int /\ adj[n][n] \in Int /\ t \in Int
  <2>1. (\A m \in ns : deg[m] \in Nat) /\ t \in Nat
    BY DegreesAreNaturals
  <2>2. adj[n][n] \in Nat
    BY DEF WeightedGraph
  <2> QED
    BY <2>1, <2>2
<1>4. SumFunctionOnSet(deg, X \cup {n}) = deg[n] + SumFunctionOnSet(deg, X)
  BY <1>1, <1>3, SumAdds
<1>5. PICK i \in Int, r \in Int, w \in Int, s \in Int, k \in Int, p \in Int, q \in Int :
          /\ i = Ties(adj, X) /\ r = SumFunctionOnSet(adj[n], X) /\ w = adj[n][n]
          /\ s = SumFunctionOnSet(deg, X) /\ k = deg[n] /\ p = ResolutionDen /\ q = ResolutionNum
  BY <1>1, <1>2, <1>3, DetectAssumption
<1>6. Part(adj, deg, X \cup {n}, t) = t * p * (i + 2 * r + w) - q * (k + s) * (k + s)
  BY <1>2, <1>4, <1>5 DEF Part
<1>7. Part(adj, deg, X, t) = t * p * i - q * s * s
  BY <1>5 DEF Part
<1>8. Gain(adj, deg, n, X, t) = r * t * p - q * k * s
  BY <1>5 DEF Gain
<1>9. t * p * (i + 2 * r + w) - q * (k + s) * (k + s)
        = (t * p * i - q * s * s) + 2 * (r * t * p - q * k * s) + (t * p * w - q * k * k)
  <2>1. /\ t \in Int /\ i \in Int /\ r \in Int /\ w \in Int
        /\ s \in Int /\ k \in Int /\ p \in Int /\ q \in Int
    BY <1>3, <1>5
  <2>2. t * p * (i + 2 * r + w) = t * p * i + 2 * (r * t * p) + t * p * w
    BY <2>1
  <2>3. q * (k + s) * (k + s) = q * s * s + 2 * (q * k * s) + q * k * k
    BY <2>1
  <2>4. /\ t * p * i \in Int /\ r * t * p \in Int /\ t * p * w \in Int
        /\ q * s * s \in Int /\ q * k * s \in Int /\ q * k * k \in Int
    BY <2>1
  <2> QED
    BY <2>2, <2>3, <2>4
<1>10. Gain(adj, deg, n, X, t) \in Int
  <2>1. r * t * p \in Int /\ q * k * s \in Int
    BY <1>3, <1>5
  <2> QED
    BY <1>8, <2>1
<1>11. t * ResolutionDen * adj[n][n] - ResolutionNum * deg[n] * deg[n] = t * p * w - q * k * k
  BY <1>5
<1>12. Part(adj, deg, X \cup {n}, t)
         = Part(adj, deg, X, t) + 2 * Gain(adj, deg, n, X, t) + (t * p * w - q * k * k)
  BY <1>6, <1>7, <1>8, <1>9
<1> QED
  BY <1>10, <1>11, <1>12

\* n gives up its label for b.
Relabelled(lab2, lab, ns, n, b) == \A m \in ns : lab2[m] = IF m = n THEN b ELSE lab[m]

Moves(ns, adj, deg, lab, n, b, lab2, t) ==
    /\ WeightedGraph(ns, adj, deg, lab) /\ n \in ns
    /\ b \in ns /\ b # lab[n]
    /\ Relabelled(lab2, lab, ns, n, b)
    /\ t = SumFunctionOnSet(deg, ns)

Gained(ns, adj, deg, lab, n, b, lab2, t) ==
    /\ WeightedGraph(ns, adj, deg, lab2)
    /\ \A l : Gain(adj, deg, n, Inside(ns, lab, l) \ {n}, t) \in Int
    /\ Quality(ns, adj, deg, lab2) - Quality(ns, adj, deg, lab)
         = 2 * (Gain(adj, deg, n, Inside(ns, lab, b) \ {n}, t)
                  - Gain(adj, deg, n, Inside(ns, lab, lab[n]) \ {n}, t))

LEMMA MoveGains ==
    ASSUME NEW ns, NEW adj, NEW deg, NEW lab, NEW n, NEW b, NEW lab2, NEW t,
           Moves(ns, adj, deg, lab, n, b, lab2, t)
    PROVE  Gained(ns, adj, deg, lab, n, b, lab2, t)
<1>0. /\ WeightedGraph(ns, adj, deg, lab) /\ n \in ns /\ b \in ns /\ b # lab[n]
      /\ Relabelled(lab2, lab, ns, n, b) /\ t = SumFunctionOnSet(deg, ns)
  BY DEF Moves
<1>1. PICK a \in ns : a = lab[n]
  BY <1>0 DEF WeightedGraph
<1>2. WeightedGraph(ns, adj, deg, lab2)
  BY <1>0 DEF WeightedGraph, Relabelled
<1>3. PICK X \in SUBSET ns, Y \in SUBSET ns : X = Inside(ns, lab, a) \ {n} /\ Y = Inside(ns, lab, b) \ {n}
  BY <1>0 DEF Inside
<1>4. /\ Inside(ns, lab, a) = X \cup {n} /\ Inside(ns, lab, b) = Y
      /\ Inside(ns, lab2, a) = X /\ Inside(ns, lab2, b) = Y \cup {n}
      /\ n \notin X /\ n \notin Y
  BY <1>0, <1>1, <1>3 DEF Inside, Relabelled
<1>5. \A l : l # a /\ l # b => Inside(ns, lab, l) = Inside(ns, lab2, l)
  BY <1>0, <1>1 DEF Inside, Relabelled
<1>6. PICK f, g : f = PartsOver(ns, ns, adj, deg, lab) /\ g = PartsOver(ns, ns, adj, deg, lab2)
  OBVIOUS
<1>7. \A l \in ns : /\ f[l] = Part(adj, deg, Inside(ns, lab, l), t)
                    /\ g[l] = Part(adj, deg, Inside(ns, lab2, l), t)
  BY <1>0, <1>6 DEF PartsOver
<1>8. Summable(f, ns) /\ Summable(g, ns)
  BY <1>0, <1>2, <1>6, QualityIs
<1>9. \A l \in ns \ {a, b} : f[l] = g[l]
  BY <1>0, <1>5, <1>7
<1>10. SumFunctionOnSet(g, ns) - SumFunctionOnSet(f, ns) = (g[a] + g[b]) - (f[a] + f[b])
  BY <1>0, <1>1, <1>8, <1>9, SumTwoChanged
<1>11. /\ f[a] = Part(adj, deg, X \cup {n}, t) /\ f[b] = Part(adj, deg, Y, t)
       /\ g[a] = Part(adj, deg, X, t) /\ g[b] = Part(adj, deg, Y \cup {n}, t)
  BY <1>0, <1>4, <1>7
<1>12. PICK c : c = t * ResolutionDen * adj[n][n] - ResolutionNum * deg[n] * deg[n]
  OBVIOUS
<1>13. /\ Gain(adj, deg, n, X, t) \in Int /\ Gain(adj, deg, n, Y, t) \in Int
       /\ Part(adj, deg, X \cup {n}, t) = Part(adj, deg, X, t) + 2 * Gain(adj, deg, n, X, t) + c
       /\ Part(adj, deg, Y \cup {n}, t) = Part(adj, deg, Y, t) + 2 * Gain(adj, deg, n, Y, t) + c
  <2>1. WeightedGraph(ns, adj, deg, lab) /\ t = SumFunctionOnSet(deg, ns) /\ n \in ns \ X /\ n \in ns \ Y
    BY <1>0, <1>4
  <2>2. /\ Gain(adj, deg, n, X, t) \in Int
        /\ Part(adj, deg, X \cup {n}, t) = Part(adj, deg, X, t) + 2 * Gain(adj, deg, n, X, t) + c
    BY <1>12, <2>1, PartGrows
  <2>3. /\ Gain(adj, deg, n, Y, t) \in Int
        /\ Part(adj, deg, Y \cup {n}, t) = Part(adj, deg, Y, t) + 2 * Gain(adj, deg, n, Y, t) + c
    BY <1>12, <2>1, PartGrows
  <2> QED
    BY <2>2, <2>3
<1>14. c \in Int /\ Part(adj, deg, X, t) \in Int /\ Part(adj, deg, Y, t) \in Int
  <2>1. deg[n] \in Int /\ adj[n][n] \in Int /\ t \in Int /\ ResolutionDen \in Int /\ ResolutionNum \in Int
    <3>1. (\A m \in ns : deg[m] \in Nat) /\ t \in Nat
      BY <1>0, DegreesAreNaturals
    <3>2. adj[n][n] \in Nat
      BY <1>0 DEF WeightedGraph
    <3> QED
      BY <1>0, <3>1, <3>2, DetectAssumption
  <2>2. c \in Int
    BY <1>0, <1>12, <2>1
  <2> QED
    BY <1>0, <2>2, PartIs
<1>15. (g[a] + g[b]) - (f[a] + f[b]) = 2 * (Gain(adj, deg, n, Y, t) - Gain(adj, deg, n, X, t))
  BY <1>0, <1>11, <1>13, <1>14
<1>16. \A l : Gain(adj, deg, n, Inside(ns, lab, l) \ {n}, t) \in Int
  <2>1. ASSUME NEW l
        PROVE  Gain(adj, deg, n, Inside(ns, lab, l) \ {n}, t) \in Int
    <3>1. PICK Z \in SUBSET ns : Z = Inside(ns, lab, l) \ {n}
      BY <1>0 DEF Inside
    <3>2. n \notin Z
      BY <1>0, <3>1
    <3>3. Gain(adj, deg, n, Z, t) \in Int
      BY <1>0, <3>2, PartGrows
    <3> QED
      BY <1>0, <3>1, <3>3
  <2> QED
    BY <1>0, <2>1
<1>17. Quality(ns, adj, deg, lab2) - Quality(ns, adj, deg, lab) = 2 * (Gain(adj, deg, n, Y, t) - Gain(adj, deg, n, X, t))
  BY <1>0, <1>6, <1>10, <1>15 DEF Quality
<1> QED
  BY <1>0, <1>1, <1>2, <1>3, <1>16, <1>17 DEF Gained


-----------------------------------------------------------------------------
\* The choice of Louvain.

GainOf(n, l) == Gain(adjacency, degree, n, Inside(nodes, label, l) \ {n}, TwoM)

LEMMA PullIs ==
    ASSUME WeightedGraph(nodes, adjacency, degree, label), NEW n \in nodes, NEW l
    PROVE  Pull(n, l) = SumFunctionOnSet(adjacency[n], Inside(nodes, label, l) \ {n})
<1>1. PICK row : row = adjacency[n]
  OBVIOUS
<1>2. PICK X \in SUBSET nodes : X = Inside(nodes, label, l) \ {n}
  BY DEF Inside
<1>3. PICK T \in SUBSET X : T = {m \in Neighbors(n) : label[m] = l}
  BY <1>2 DEF Inside, Neighbors
<1>4. \A m \in nodes : row[m] \in Nat
  BY <1>1 DEF WeightedGraph
<1>5. Summable(row, X)
  <2>1. Summable(row, nodes)
    BY <1>4 DEF Summable, WeightedGraph
  <2> QED
    BY <1>2, <2>1, SubSummable
<1>6. \A m \in X \ T : row[m] = 0
  <2>1. ASSUME NEW m \in X \ T
        PROVE  row[m] = 0
    <3>1. m \in nodes /\ m # n /\ label[m] = l
      BY <1>2 DEF Inside
    <3>2. ~(adjacency[n][m] > 0)
      BY <1>3, <3>1 DEF Neighbors
    <3>3. row[m] \in Nat /\ ~(row[m] > 0)
      BY <1>1, <1>4, <3>1, <3>2
    <3> QED
      BY <3>3
  <2> QED
    BY <2>1
<1>7. SumFunctionOnSet(row, X) = SumFunctionOnSet(row, T)
  BY <1>5, <1>6, SumWithoutZeros
<1> QED
  BY <1>1, <1>2, <1>3, <1>7 DEF Pull

LEMMA DegreeOfIs ==
    ASSUME NEW n \in nodes, NEW l
    PROVE  DegreeOf(n, l) = SumFunctionOnSet(degree, Inside(nodes, label, l) \ {n})
<1>1. {m \in nodes \ {n} : label[m] = l} = Inside(nodes, label, l) \ {n}
  BY DEF Inside
<1> QED
  BY <1>1 DEF DegreeOf

LEMMA GainsAreIntegers ==
    ASSUME WeightedGraph(nodes, adjacency, degree, label), NEW n \in nodes, NEW l
    PROVE  GainOf(n, l) \in Int
<1>1. PICK X \in SUBSET nodes : X = Inside(nodes, label, l) \ {n}
  BY DEF Inside
<1>2. n \in nodes \ X
  BY <1>1
<1>3. PICK t : t = SumFunctionOnSet(degree, nodes)
  OBVIOUS
<1>4. Gain(adjacency, degree, n, X, t) \in Int
  BY <1>2, <1>3, PartGrows
<1> QED
  BY <1>1, <1>3, <1>4 DEF GainOf, TwoM

Candidates(n) == {label[n]} \cup {label[m] : m \in Neighbors(n)}

\* The choice, of candidates C with their gains.
BestOf(own, C, gain) ==
    LET best == Max({gain[c] : c \in C})
    IN  IF best > 0 THEN Min({c \in C : gain[c] = best})
        ELSE Min({own} \cup {c \in C : gain[c] = 0})

LEMMA BestOfIsNoWorse ==
    ASSUME NEW C \in SUBSET Nat, IsFiniteSet(C), NEW own \in C, NEW gain, \A c \in C : gain[c] \in Int
    PROVE  BestOf(own, C, gain) \in C /\ gain[BestOf(own, C, gain)] >= gain[own]
<1>1. PICK B : B = {gain[c] : c \in C}
  OBVIOUS
<1>2. B \in SUBSET Int /\ B # {} /\ \A c \in C : gain[c] \in B
  BY <1>1
<1>3. IsFiniteSet(B)
  <2> DEFINE f == [c \in C |-> gain[c]]
  <2>1. f \in [C -> B] /\ \A y \in B : \E c \in C : f[c] = y
    BY <1>1
  <2>2. f \in Surjection(C, B)
    BY <2>1 DEF Surjection
  <2> QED
    BY <2>2, FS_Surjection
<1>4. PICK best \in Int : best = Max(B) /\ best \in B /\ \A c \in C : best >= gain[c]
  BY <1>2, <1>3, GreatestOfFinite
<1>5. CASE best > 0
  <2>1. PICK T \in SUBSET C : T = {c \in C : gain[c] = best}
    OBVIOUS
  <2>2. T # {} /\ T \in SUBSET Nat
    BY <1>1, <1>4, <2>1
  <2>3. Min(T) \in T
    BY <2>2, LeastOf
  <2>4. BestOf(own, C, gain) = Min(T)
    BY <1>1, <1>4, <1>5, <2>1 DEF BestOf
  <2>5. Min(T) \in C /\ gain[Min(T)] = best
    BY <2>1, <2>3
  <2> QED
    BY <1>4, <2>4, <2>5
<1>6. CASE ~(best > 0)
  <2>1. PICK T \in SUBSET C : T = {own} \cup {c \in C : gain[c] = 0}
    OBVIOUS
  <2>2. T # {} /\ T \in SUBSET Nat
    BY <2>1
  <2>3. PICK c : c = Min(T) /\ c \in T
    BY <2>2, LeastOf
  <2>4. BestOf(own, C, gain) = c
    BY <1>1, <1>4, <1>6, <2>1, <2>3 DEF BestOf
  <2>5. c \in C /\ (c = own \/ gain[c] = 0)
    BY <2>1, <2>3
  <2>6. gain[own] \in Int /\ gain[own] <= best
    BY <1>4
  <2>7. gain[c] >= gain[own]
    <3>1. CASE c = own
      BY <2>6, <3>1
    <3>2. CASE gain[c] = 0
      BY <1>4, <1>6, <2>6, <3>2
    <3> QED
      BY <2>5, <3>1, <3>2
  <2> QED
    BY <2>4, <2>5, <2>7
<1> QED
  BY <1>5, <1>6

LEMMA BestIsNoWorse ==
    ASSUME WeightedGraph(nodes, adjacency, degree, label), NEW n \in nodes
    PROVE  BestCommunity(n) \in nodes /\ GainOf(n, BestCommunity(n)) >= GainOf(n, label[n])
<1> DEFINE gain == [c \in Candidates(n) |-> Pull(n, c) * TwoM * ResolutionDen
                                              - ResolutionNum * degree[n] * DegreeOf(n, c)]
<1>1. BestCommunity(n) = BestOf(label[n], Candidates(n), gain)
  BY DEF BestCommunity, BestOf, Candidates
<1>2. \A c \in Candidates(n) : gain[c] = GainOf(n, c)
  <2>1. ASSUME NEW c \in Candidates(n)
        PROVE  gain[c] = GainOf(n, c)
    <3>1. gain[c] = Pull(n, c) * TwoM * ResolutionDen - ResolutionNum * degree[n] * DegreeOf(n, c)
      OBVIOUS
    <3> HIDE DEF gain
    <3>2. Pull(n, c) = SumFunctionOnSet(adjacency[n], Inside(nodes, label, c) \ {n})
      BY PullIs
    <3>3. DegreeOf(n, c) = SumFunctionOnSet(degree, Inside(nodes, label, c) \ {n})
      BY DegreeOfIs
    <3> QED
      BY <3>1, <3>2, <3>3 DEF GainOf, Gain
  <2> QED
    BY <2>1
<1> HIDE DEF gain
<1>3. Candidates(n) \in SUBSET nodes /\ label[n] \in Candidates(n)
  BY DEF Candidates, Neighbors, WeightedGraph
<1>4. PICK C \in SUBSET nodes : C = Candidates(n)
  BY <1>3
<1>5. IsFiniteSet(C) /\ C \in SUBSET Nat
  BY SizeFacts DEF WeightedGraph
<1>6. \A c \in C : gain[c] \in Int
  BY <1>2, <1>4, GainsAreIntegers
<1>7. BestOf(label[n], C, gain) \in C /\ gain[BestOf(label[n], C, gain)] >= gain[label[n]]
  BY <1>3, <1>4, <1>5, <1>6, BestOfIsNoWorse
<1> QED
  BY <1>1, <1>2, <1>3, <1>4, <1>7

-----------------------------------------------------------------------------
\* The communities of a graph as the nodes of a coarser one.

Pairs(adj, A) == [e \in A \X A |-> adj[e[1]][e[2]]]

\* The weight that coarsening collects between two communities.
Collected(ns, adj, lab, k, l) ==
    SumFunctionOnSet(Pairs(adj, ns), {e \in ns \X ns : lab[e[1]] = k /\ lab[e[2]] = l})

LEMMA PairsAreNaturals ==
    ASSUME NEW ns, NEW adj, NEW deg, NEW lab, WeightedGraph(ns, adj, deg, lab),
           NEW A \in SUBSET ns, NEW B \in SUBSET ns
    PROVE  /\ \A a \in A, b \in B : Pairs(adj, ns)[<<a, b>>] = adj[a][b]
           /\ Summable(Pairs(adj, ns), A \X B)
           /\ SumFunctionOnSet(Pairs(adj, ns), A \X B) \in Nat
<1>1. PICK f : f = Pairs(adj, ns)
  OBVIOUS
<1>2. \A a, b \in ns : f[<<a, b>>] = adj[a][b]
  BY <1>1 DEF Pairs
<1>3. \A a, b \in ns : adj[a][b] \in Nat
  BY DEF WeightedGraph
<1>4. IsFiniteSet(A) /\ IsFiniteSet(B)
  BY SizeFacts DEF WeightedGraph
<1>5. IsFiniteSet(A \X B)
  BY <1>4, FS_Product
<1>6. \A e \in A \X B : f[e] \in Nat
  <2>1. ASSUME NEW a \in A, NEW b \in B
        PROVE  f[<<a, b>>] \in Nat
    BY <1>2, <1>3
  <2> QED
    BY <2>1
<1>7. PICK S : S = A \X B
  OBVIOUS
<1>8. Summable(f, S) /\ SumFunctionOnSet(f, S) \in Nat
  BY <1>5, <1>6, <1>7, SumOfNaturals
<1> QED
  BY <1>1, <1>2, <1>7, <1>8

LEMMA CollectedIs ==
    ASSUME NEW ns, NEW adj, NEW deg, NEW lab, WeightedGraph(ns, adj, deg, lab), NEW k, NEW l
    PROVE  /\ Collected(ns, adj, lab, k, l)
                = SumFunctionOnSet(Pairs(adj, ns), Inside(ns, lab, k) \X Inside(ns, lab, l))
           /\ Collected(ns, adj, lab, k, l) \in Nat
<1>1. {e \in ns \X ns : lab[e[1]] = k /\ lab[e[2]] = l} = Inside(ns, lab, k) \X Inside(ns, lab, l)
  BY DEF Inside
<1>2. PICK A \in SUBSET ns, B \in SUBSET ns : A = Inside(ns, lab, k) /\ B = Inside(ns, lab, l)
  BY DEF Inside
<1>3. SumFunctionOnSet(Pairs(adj, ns), A \X B) \in Nat
  BY PairsAreNaturals
<1> QED
  BY <1>1, <1>2, <1>3 DEF Collected

LEMMA CollectedBothWays ==
    ASSUME NEW ns, NEW adj, NEW deg, NEW lab, WeightedGraph(ns, adj, deg, lab), NEW k, NEW l
    PROVE  Collected(ns, adj, lab, k, l) = Collected(ns, adj, lab, l, k)
<1>1. PICK A \in SUBSET ns, B \in SUBSET ns : A = Inside(ns, lab, k) /\ B = Inside(ns, lab, l)
  BY DEF Inside
<1>2. PICK f : f = Pairs(adj, ns)
  OBVIOUS
<1>3. PICK S, T : S = A \X B /\ T = B \X A
  OBVIOUS
<1>4. Summable(f, S) /\ \A a \in A, b \in B : f[<<a, b>>] = adj[a][b] /\ f[<<b, a>>] = adj[b][a]
  <2>1. ASSUME NEW C \in SUBSET ns, NEW D \in SUBSET ns
        PROVE  Summable(f, C \X D) /\ \A c \in C, d \in D : f[<<c, d>>] = adj[c][d]
    BY <1>2, PairsAreNaturals
  <2>2. Summable(f, A \X B) /\ \A a \in A, b \in B : f[<<a, b>>] = adj[a][b]
    BY <2>1
  <2>3. Summable(f, B \X A) /\ \A b \in B, a \in A : f[<<b, a>>] = adj[b][a]
    BY <2>1
  <2> QED
    BY <1>3, <2>2, <2>3
<1> DEFINE swap == [e \in S |-> <<e[2], e[1]>>]
<1>5. swap \in [S -> T] /\ \A a \in A, b \in B : swap[<<a, b>>] = <<b, a>>
  BY <1>3
<1> HIDE DEF swap
<1>6. \A x \in S : \E a \in A, b \in B : x = <<a, b>>
  BY <1>3
<1>7. \A x, y \in S : swap[x] = swap[y] => x = y
  <2>1. ASSUME NEW x \in S, NEW y \in S, swap[x] = swap[y]
        PROVE  x = y
    <3>1. PICK a \in A, b \in B : x = <<a, b>>
      BY <1>6
    <3>2. PICK c \in A, d \in B : y = <<c, d>>
      BY <1>6
    <3>3. <<b, a>> = <<d, c>>
      BY <1>5, <2>1, <3>1, <3>2
    <3> QED
      BY <3>1, <3>2, <3>3
  <2> QED
    BY <2>1
<1>8. \A z \in T : \E x \in S : z = swap[x]
  <2>1. ASSUME NEW b \in B, NEW a \in A
        PROVE  \E x \in S : <<b, a>> = swap[x]
    BY <1>3, <1>5
  <2>2. \A z \in T : \E b \in B, a \in A : z = <<b, a>>
    BY <1>3
  <2> QED
    BY <2>1, <2>2
<1>9. \A x \in S : f[swap[x]] = f[x]
  <2>1. \A a \in A, b \in B : adj[a][b] = adj[b][a]
    BY DEF WeightedGraph
  <2>2. ASSUME NEW a \in A, NEW b \in B
        PROVE  f[swap[<<a, b>>]] = f[<<a, b>>]
    BY <1>4, <1>5, <2>1
  <2> QED
    BY <1>6, <2>2
<1>10. SumFunctionOnSet(f, T) = SumFunctionOnSet(f, S)
  BY <1>4, <1>5, <1>7, <1>8, <1>9, SumRenamed
<1>11. /\ Collected(ns, adj, lab, k, l) = SumFunctionOnSet(f, S)
       /\ Collected(ns, adj, lab, l, k) = SumFunctionOnSet(f, T)
  BY <1>1, <1>2, <1>3, CollectedIs
<1> QED
  BY <1>10, <1>11

\* What a community keeps inside.
LEMMA CollectedInside ==
    ASSUME NEW ns, NEW adj, NEW deg, NEW lab, WeightedGraph(ns, adj, deg, lab), NEW l
    PROVE  Ties(adj, Inside(ns, lab, l)) = Collected(ns, adj, lab, l, l)
<1>1. PICK X \in SUBSET ns : X = Inside(ns, lab, l)
  BY DEF Inside
<1>2. PICK f, g : f = Pairs(adj, ns) /\ g = Pairs(adj, X)
  OBVIOUS
<1>3. Summable(f, X \X X) /\ \A a, b \in X : f[<<a, b>>] = adj[a][b]
  BY <1>2, PairsAreNaturals
<1>4. \A a, b \in X : g[<<a, b>>] = adj[a][b]
  BY <1>2 DEF Pairs
<1>5. \A e \in X \X X : f[e] = g[e]
  <2>1. \A a, b \in X : f[<<a, b>>] = g[<<a, b>>]
    BY <1>3, <1>4
  <2> QED
    BY <2>1
<1>6. SumFunctionOnSet(f, X \X X) = SumFunctionOnSet(g, X \X X)
  BY <1>3, <1>5, SumSame
<1>7. Collected(ns, adj, lab, l, l) = SumFunctionOnSet(f, X \X X)
  BY <1>1, <1>2, CollectedIs
<1>8. Ties(adj, X) = SumFunctionOnSet(g, X \X X)
  BY <1>2 DEF Ties, Pairs
<1> QED
  BY <1>1, <1>6, <1>7, <1>8

\* What a community collects from all, itself included, is its degree.
LEMMA CollectedFromAll ==
    ASSUME NEW ns, NEW adj, NEW deg, NEW lab, WeightedGraph(ns, adj, deg, lab), NEW l,
           NEW L, L = LabelsOf(ns, lab), NEW c, \A k \in L : c[k] = Collected(ns, adj, lab, l, k)
    PROVE  Summable(c, L) /\ SumFunctionOnSet(c, L) = SumFunctionOnSet(deg, Inside(ns, lab, l))
<1>1. PICK X \in SUBSET ns : X = Inside(ns, lab, l)
  BY DEF Inside
<1>2. PICK f : f = Pairs(adj, ns)
  OBVIOUS
<1>3. PICK S : S = X \X ns
  OBVIOUS
<1>4. Summable(f, S) /\ \A a \in X, b \in ns : f[<<a, b>>] = adj[a][b]
  <2>1. ns \in SUBSET ns
    OBVIOUS
  <2>2. Summable(f, X \X ns) /\ \A a \in X, b \in ns : f[<<a, b>>] = adj[a][b]
    BY <1>2, <2>1, PairsAreNaturals
  <2> QED
    BY <1>3, <2>2
<1>5. IsFiniteSet(ns) /\ IsFiniteSet(X) /\ L \in SUBSET ns
  BY SizeFacts DEF WeightedGraph, LabelsOf
<1>6. IsFiniteSet(L)
  BY <1>5, SizeFacts
<1> DEFINE g == [e \in S |-> lab[e[2]]]
<1>7. \A a \in X, b \in ns : g[<<a, b>>] = lab[b]
  BY <1>3
<1>8. \A e \in S : g[e] \in L
  BY <1>3 DEF LabelsOf
<1> HIDE DEF g
<1>9. \A k : {e \in S : g[e] = k} = X \X Inside(ns, lab, k)
  BY <1>3, <1>7 DEF Inside
<1>10. PartSums(c, L, f, S, g)
  <2>1. ASSUME NEW k \in L
        PROVE  c[k] = SumFunctionOnSet(f, {e \in S : g[e] = k})
    BY <1>1, <1>2, <1>9, CollectedIs
  <2> QED
    BY <1>8, <2>1 DEF PartSums
<1>11. Summable(c, L) /\ SumFunctionOnSet(c, L) = SumFunctionOnSet(f, S)
  BY <1>4, <1>6, <1>10, SumByParts
<1>12. RowSums(deg, f, adj, X, ns)
  <2>1. \A a \in X : deg[a] = SumFunctionOnSet(adj[a], ns)
    BY DEF WeightedGraph
  <2>2. \A a \in X, b \in ns : adj[a][b] \in Int
    BY DEF WeightedGraph
  <2> QED
    BY <1>4, <2>1, <2>2 DEF RowSums
<1>13. SumFunctionOnSet(f, S) = SumFunctionOnSet(deg, X)
  BY <1>3, <1>5, <1>12, SumByRows
<1> QED
  BY <1>1, <1>11, <1>13

OneToOne(b, S, T) ==
    /\ b \in [S -> T]
    /\ \A x, y \in S : b[x] = b[y] => x = y
    /\ \A z \in T : \E x \in S : z = b[x]

LEMMA SumMoved ==
    ASSUME NEW S, NEW f, Summable(f, S), NEW T, NEW b, OneToOne(b, S, T),
           NEW h, \A x \in S : h[b[x]] = f[x]
    PROVE  SumFunctionOnSet(h, T) = SumFunctionOnSet(f, S)
  BY SumRenamed DEF OneToOne

\* b takes the communities L of a graph, one to one, to the nodes of another,
\* whose weights are what the communities collect.
Coarsens(b, L, new, wider, ns, adj, lab) ==
    /\ L = LabelsOf(ns, lab)
    /\ OneToOne(b, L, new)
    /\ \A k, l \in L : wider[b[k]][b[l]] = Collected(ns, adj, lab, k, l)

\* The new graph: its degrees are its sums, and each node is its own community.
StartsAnew(new, wider, deg2, lab2) ==
    /\ \A n \in new : deg2[n] = SumFunctionOnSet(wider[n], new)
    /\ \A n \in new : lab2[n] = n

Coarser(b, L, new, wider, deg2, lab2, ns, adj, deg, lab) ==
    /\ WeightedGraph(ns, adj, deg, lab)
    /\ new \in SUBSET Nat
    /\ Coarsens(b, L, new, wider, ns, adj, lab)
    /\ StartsAnew(new, wider, deg2, lab2)

LEMMA CoarseWeights ==
    ASSUME NEW ns, NEW adj, NEW deg, NEW lab, NEW b, NEW L, NEW new, NEW wider, NEW deg2, NEW lab2,
           Coarser(b, L, new, wider, deg2, lab2, ns, adj, deg, lab)
    PROVE  /\ WeightedGraph(new, wider, deg2, lab2)
           /\ \A l \in L : /\ wider[b[l]][b[l]] = Ties(adj, Inside(ns, lab, l))
                           /\ deg2[b[l]] = SumFunctionOnSet(deg, Inside(ns, lab, l))
<1>0. /\ WeightedGraph(ns, adj, deg, lab) /\ new \in SUBSET Nat
      /\ Coarsens(b, L, new, wider, ns, adj, lab) /\ StartsAnew(new, wider, deg2, lab2)
  BY DEF Coarser
<1>1. /\ L = LabelsOf(ns, lab) /\ OneToOne(b, L, new)
      /\ \A k, l \in L : wider[b[k]][b[l]] = Collected(ns, adj, lab, k, l)
  BY <1>0 DEF Coarsens
<1>2. L \in SUBSET ns /\ IsFiniteSet(ns)
  BY <1>0, <1>1 DEF LabelsOf, WeightedGraph
<1>3. IsFiniteSet(L)
  BY <1>0, <1>2, SizeFacts
<1>4. IsFiniteSet(new)
  <2>1. b \in Surjection(L, new)
    BY <1>0, <1>1 DEF OneToOne, Surjection
  <2> QED
    BY <1>0, <1>3, <2>1, FS_Surjection
<1>5. \A n, m \in new : wider[n][m] \in Nat /\ wider[n][m] = wider[m][n]
  <2>1. ASSUME NEW n \in new, NEW m \in new
        PROVE  wider[n][m] \in Nat /\ wider[n][m] = wider[m][n]
    <3>0. \A z \in new : \E x \in L : z = b[x]
      BY <1>0, <1>1 DEF OneToOne
    <3>1. PICK k \in L, l \in L : n = b[k] /\ m = b[l]
      BY <1>0, <3>0
    <3>2. wider[n][m] = Collected(ns, adj, lab, k, l) /\ wider[m][n] = Collected(ns, adj, lab, l, k)
      BY <1>0, <1>1, <3>1
    <3>3. Collected(ns, adj, lab, k, l) \in Nat
      BY <1>0, CollectedIs
    <3>4. Collected(ns, adj, lab, k, l) = Collected(ns, adj, lab, l, k)
      BY <1>0, CollectedBothWays
    <3> QED
      BY <1>0, <3>2, <3>3, <3>4
  <2> QED
    BY <1>0, <2>1
<1>6. WeightedGraph(new, wider, deg2, lab2)
  BY <1>0, <1>4, <1>5 DEF WeightedGraph, StartsAnew
<1>7. ASSUME NEW l \in L
      PROVE  deg2[b[l]] = SumFunctionOnSet(deg, Inside(ns, lab, l))
  <2>1. PICK row : row = wider[b[l]]
    OBVIOUS
  <2> DEFINE c == [k \in L |-> Collected(ns, adj, lab, l, k)]
  <2>2. \A k \in L : c[k] = Collected(ns, adj, lab, l, k)
    OBVIOUS
  <2> HIDE DEF c
  <2>3. Summable(c, L) /\ SumFunctionOnSet(c, L) = SumFunctionOnSet(deg, Inside(ns, lab, l))
    BY <1>0, <1>1, <2>2, CollectedFromAll
  <2>4. \A k \in L : row[b[k]] = c[k]
    BY <1>0, <1>1, <2>1, <2>2
  <2>5. SumFunctionOnSet(row, new) = SumFunctionOnSet(c, L)
    BY <1>0, <1>1, <2>3, <2>4, SumMoved
  <2>6. deg2[b[l]] = SumFunctionOnSet(row, new)
    BY <1>0, <1>1, <2>1 DEF StartsAnew, OneToOne
  <2> QED
    BY <1>0, <2>3, <2>5, <2>6
<1>8. ASSUME NEW l \in L
      PROVE  wider[b[l]][b[l]] = Ties(adj, Inside(ns, lab, l))
  BY <1>0, <1>1, CollectedInside
<1> QED
  BY <1>0, <1>6, <1>7, <1>8

LEMMA SumOfOne ==
    ASSUME NEW f, NEW n, Summable(f, {n})
    PROVE  SumFunctionOnSet(f, {n}) = f[n]
<1>1. PICK X : X = {n}
  OBVIOUS
<1>2. Summable(f, X) /\ n \in X /\ X \ {n} = {} /\ f[n] \in Int
  BY <1>1 DEF Summable
<1>3. SumFunctionOnSet(f, X) = f[n] + SumFunctionOnSet(f, {}) /\ SumFunctionOnSet(f, {}) = 0
  BY <1>2, SumSteps
<1> QED
  BY <1>1, <1>2, <1>3

\* A community of one node.
LEMMA TiesOfOne ==
    ASSUME NEW n, NEW adj, adj[n][n] \in Int
    PROVE  Ties(adj, {n}) = adj[n][n]
<1>1. IsFiniteSet({n}) /\ \A x, y \in {n} : adj[x][y] \in Int
  BY FS_EmptySet, FS_AddElement
<1>2. PICK h : /\ \A a \in {n} : h[a] = SumFunctionOnSet(adj[a], {n})
               /\ Summable(h, {n}) /\ Ties(adj, {n}) = SumFunctionOnSet(h, {n})
  BY <1>1, TiesByRows
<1>3. PICK row : row = adj[n]
  OBVIOUS
<1>4. Summable(row, {n})
  BY <1>1, <1>3 DEF Summable
<1> QED
  BY <1>2, <1>3, <1>4, SumOfOne

LEMMA CoarseningKeeps ==
    ASSUME NEW ns, NEW adj, NEW deg, NEW lab, NEW b, NEW L, NEW new, NEW wider, NEW deg2, NEW lab2,
           Coarser(b, L, new, wider, deg2, lab2, ns, adj, deg, lab)
    PROVE  /\ WeightedGraph(new, wider, deg2, lab2)
           /\ ModularityOf(new, wider, deg2, lab2) = ModularityOf(ns, adj, deg, lab)
<1>0. /\ WeightedGraph(ns, adj, deg, lab) /\ new \in SUBSET Nat
      /\ Coarsens(b, L, new, wider, ns, adj, lab) /\ StartsAnew(new, wider, deg2, lab2)
  BY DEF Coarser
<1>1. /\ WeightedGraph(new, wider, deg2, lab2)
      /\ \A l \in L : /\ wider[b[l]][b[l]] = Ties(adj, Inside(ns, lab, l))
                      /\ deg2[b[l]] = SumFunctionOnSet(deg, Inside(ns, lab, l))
  BY <1>0, CoarseWeights
<1>2. L = LabelsOf(ns, lab) /\ OneToOne(b, L, new)
  BY <1>0 DEF Coarsens
<1>3. IsFiniteSet(L) /\ L \in SUBSET ns
  <2>1. L \in SUBSET ns /\ IsFiniteSet(ns)
    BY <1>0, <1>2 DEF LabelsOf, WeightedGraph
  <2> QED
    BY <1>0, <2>1, SizeFacts
<1>4. /\ Summable(deg, ns) /\ Summable(deg2, new)
      /\ SumFunctionOnSet(deg, ns) \in Nat /\ SumFunctionOnSet(deg2, new) \in Nat
  BY <1>0, <1>1, DegreesAreNaturals
\* twoM is kept.
<1>5. SumFunctionOnSet(deg2, new) = SumFunctionOnSet(deg, ns)
  <2> DEFINE s == [l \in L |-> SumFunctionOnSet(deg, Inside(ns, lab, l))]
             g == [n \in ns |-> lab[n]]
  <2>1. \A l \in L : s[l] = SumFunctionOnSet(deg, Inside(ns, lab, l))
    OBVIOUS
  <2>2. \A n \in ns : g[n] = lab[n] /\ g[n] \in L
    BY <1>0, <1>2 DEF LabelsOf
  <2> HIDE DEF s, g
  <2>3. \A l : {n \in ns : g[n] = l} = Inside(ns, lab, l)
    BY <1>0, <2>2 DEF Inside
  <2>4. PartSums(s, L, deg, ns, g)
    BY <1>0, <2>1, <2>2, <2>3 DEF PartSums
  <2>5. Summable(s, L) /\ SumFunctionOnSet(s, L) = SumFunctionOnSet(deg, ns)
    BY <1>0, <1>3, <1>4, <2>4, SumByParts
  <2>6. \A l \in L : deg2[b[l]] = s[l]
    BY <1>0, <1>1, <2>1
  <2>7. SumFunctionOnSet(deg2, new) = SumFunctionOnSet(s, L)
    BY <1>0, <1>2, <2>5, <2>6, SumMoved
  <2> QED
    BY <1>0, <2>5, <2>7
<1>6. PICK t : t = SumFunctionOnSet(deg, ns) /\ t = SumFunctionOnSet(deg2, new)
  BY <1>0, <1>5
<1>7. PICK f, g : f = PartsOver(L, ns, adj, deg, lab) /\ g = PartsOver(new, new, wider, deg2, lab2)
  OBVIOUS
<1>8. /\ \A l \in L : f[l] = Part(adj, deg, Inside(ns, lab, l), t)
      /\ \A n \in new : g[n] = Part(wider, deg2, Inside(new, lab2, n), t)
  BY <1>0, <1>6, <1>7 DEF PartsOver
<1>9. \A n \in new : Inside(new, lab2, n) = {n}
  BY <1>0 DEF Inside, StartsAnew
<1>10. ASSUME NEW l \in L
       PROVE  g[b[l]] = f[l]
  <2>1. PICK n \in new : n = b[l]
    BY <1>0, <1>2 DEF OneToOne
  <2>2. wider[n][n] \in Int /\ Summable(deg2, {n})
    <3>1. Summable(deg2, {n})
      BY <1>0, <1>4, SubSummable
    <3> QED
      BY <1>0, <1>1, <3>1 DEF WeightedGraph
  <2>3. Ties(wider, {n}) = Ties(adj, Inside(ns, lab, l))
    BY <1>0, <1>1, <2>1, <2>2, TiesOfOne
  <2>4. SumFunctionOnSet(deg2, {n}) = SumFunctionOnSet(deg, Inside(ns, lab, l))
    <3>1. deg2[n] = SumFunctionOnSet(deg, Inside(ns, lab, l))
      BY <1>0, <1>1, <2>1
    <3>2. SumFunctionOnSet(deg2, {n}) = deg2[n]
      BY <1>0, <2>2, SumOfOne
    <3> QED
      BY <1>0, <3>1, <3>2
  <2>5. g[n] = Part(wider, deg2, {n}, t)
    BY <1>0, <1>8, <1>9
  <2> QED
    BY <1>0, <1>8, <2>1, <2>3, <2>4, <2>5 DEF Part
<1>11. Summable(f, L)
  <2>1. ASSUME NEW l \in L
        PROVE  f[l] \in Int
    <3>1. PICK X \in SUBSET ns : X = Inside(ns, lab, l)
      BY <1>0 DEF Inside
    <3>2. Part(adj, deg, X, t) \in Int
      BY <1>0, <1>6, PartIs
    <3> QED
      BY <1>0, <1>8, <3>1, <3>2
  <2> QED
    BY <1>0, <1>3, <2>1 DEF Summable
<1>12. SumFunctionOnSet(g, new) = SumFunctionOnSet(f, L)
  BY <1>0, <1>2, <1>10, <1>11, SumMoved
<1>13. LabelsOf(new, lab2) = new
  BY <1>0 DEF LabelsOf, StartsAnew
<1> QED
  BY <1>0, <1>1, <1>2, <1>7, <1>12, <1>13 DEF ModularityOf

-----------------------------------------------------------------------------
\* Every step of Louvain.

Weighted ==
    /\ WeightedGraph(nodes, adjacency, degree, label)
    /\ label \in [nodes -> nodes]
    /\ rest \subseteq nodes
    /\ at = "visit" => rest # {}

QualityInv ==
    /\ DetectInv
    /\ (detector = "louvain" /\ at \in {"visit", "emit"}) => Weighted

LEMMA WeightedStarts ==
    ASSUME NEW d, NEW ns, NEW adj, StartLevel(d, ns, adj), ns # {}, IsFiniteSet(ns), ns \subseteq Nat,
           \A n, m \in ns : adj[n][m] \in Nat /\ adj[n][m] = adj[m][n]
    PROVE  Weighted'
<1>1. /\ nodes' = ns /\ adjacency' = adj /\ rest' = ns
      /\ \A n \in ns : degree'[n] = SumFunctionOnSet(adj[n], ns)
      /\ \A n \in ns : label'[n] = n
      /\ label' \in [ns -> ns]
  BY DEF StartLevel
<1>2. WeightedGraph(ns, adj, degree', label')
  BY <1>1 DEF WeightedGraph
<1> QED
  BY <1>1, <1>2 DEF Weighted

LEMMA AdjacencyIsWeighted ==
    ASSUME NEW g \in DetectInputs, NEW adj, adj = BuildAdjacency(g)
    PROVE  \A n, m \in g.entities : adj[n][m] \in Nat /\ adj[n][m] = adj[m][n]
<1>1. IsFiniteSet(g.relations) /\ \A r \in g.relations : r.weight \in Int
  BY DetectAssumption
<1> DEFINE w == [r \in g.relations |-> EdgeWeight(r)]
           Between(n, m) == {r \in g.relations : {r.from, r.to} = {n, m}}
<1>2. \A r \in g.relations : w[r] \in Nat
  BY <1>1 DEF EdgeWeight
<1>3. \A n, m \in g.entities : adj[n][m] = IF n = m THEN 0 ELSE SumFunctionOnSet(w, Between(n, m))
  BY DEF BuildAdjacency
<1>4. \A n, m : Between(n, m) = Between(m, n) /\ Between(n, m) \in SUBSET g.relations
  OBVIOUS
<1> HIDE DEF w, Between
<1>5. ASSUME NEW n, NEW m
      PROVE  SumFunctionOnSet(w, Between(n, m)) \in Nat
  <2>1. PICK T \in SUBSET g.relations : T = Between(n, m)
    BY <1>4
  <2>2. IsFiniteSet(T) /\ \A r \in T : w[r] \in Nat
    BY <1>1, <1>2, SizeFacts
  <2>3. SumFunctionOnSet(w, T) \in Nat
    BY <2>2, SumOfNaturals
  <2> QED
    BY <2>1, <2>3
<1> QED
  BY <1>3, <1>4, <1>5

LEMMA QualityBegins == ASSUME QualityInv, Detect PROVE QualityInv'
<1>1. DetectInv'
  BY DetectBegins DEF QualityInv
<1>2. PICK g \in DetectInputs, d \in Detectors :
         IF g.entities = {} THEN at' = "done"
         ELSE \E adj : adj = BuildAdjacency(g) /\ StartLevel(d, g.entities, adj)
  BY DEF Detect
<1>3. CASE g.entities = {}
  BY <1>1, <1>2, <1>3 DEF QualityInv
<1>4. CASE g.entities # {}
  <2>1. PICK adj : adj = BuildAdjacency(g) /\ StartLevel(d, g.entities, adj)
    BY <1>2, <1>4
  <2>2. \A n, m \in g.entities : adj[n][m] \in Nat /\ adj[n][m] = adj[m][n]
    BY <2>1, AdjacencyIsWeighted
  <2>3. PICK ns : ns = g.entities
    OBVIOUS
  <2>4. IsFiniteSet(ns) /\ ns \subseteq Nat
    BY <2>3, DetectAssumption
  <2>5. Weighted'
    BY <1>4, <2>1, <2>2, <2>3, <2>4, WeightedStarts
  <2> QED
    BY <1>1, <2>5 DEF QualityInv
<1> QED
  BY <1>3, <1>4

LEMMA VisitImproves ==
    ASSUME Weighted, detector = "louvain", Visit
    PROVE  Weighted' /\ Modularity' >= Modularity
<1>0. WeightedGraph(nodes, adjacency, degree, label) /\ label \in [nodes -> nodes] /\ rest \subseteq nodes
  BY DEF Weighted
<1>1. rest # {} /\ rest \in SUBSET Nat
  BY <1>0 DEF Weighted, Visit, WeightedGraph
<1>2. PICK n \in rest : n = Min(rest)
  BY <1>1, LeastOf
<1>3. n \in nodes
  BY <1>0
<1>4. PICK to : to = BestCommunity(n)
  OBVIOUS
<1>5. /\ label' = [label EXCEPT ![n] = to]
      /\ rest' = nodes \/ (rest' = rest \ {n} /\ (rest = {n} => at' = "emit"))
      /\ nodes' = nodes /\ adjacency' = adjacency /\ degree' = degree
  BY <1>2, <1>4 DEF Visit, Choice
<1>6. to \in nodes /\ GainOf(n, to) >= GainOf(n, label[n])
  BY <1>0, <1>3, <1>4, BestIsNoWorse
<1>7. label' \in [nodes -> nodes] /\ Relabelled(label', label, nodes, n, to)
  BY <1>0, <1>3, <1>5, <1>6 DEF Relabelled
<1>8. rest' \subseteq nodes /\ (at' = "visit" => rest' # {})
  BY <1>0, <1>1, <1>3, <1>5
<1>9. WeightedGraph(nodes, adjacency, degree, label')
  BY <1>0, <1>7 DEF WeightedGraph
<1>10. PICK q \in Int : q = Quality(nodes, adjacency, degree, label) /\ Modularity = q
  BY <1>0, QualityIs, ModularityIs
<1>11. PICK p \in Int : p = Quality(nodes, adjacency, degree, label') /\ Modularity' = p
  BY <1>5, <1>9, QualityIs, ModularityIsNext
<1>12. p >= q
  <2>1. CASE to = label[n]
    <3>1. label' = label
      BY <1>0, <1>5, <2>1
    <3> QED
      BY <1>10, <1>11, <3>1
  <2>2. CASE to # label[n]
    <3>1. PICK t : t = SumFunctionOnSet(degree, nodes)
      OBVIOUS
    <3>2. /\ \A l : Gain(adjacency, degree, n, Inside(nodes, label, l) \ {n}, t) \in Int
          /\ Quality(nodes, adjacency, degree, label') - Quality(nodes, adjacency, degree, label)
                = 2 * (Gain(adjacency, degree, n, Inside(nodes, label, to) \ {n}, t)
                         - Gain(adjacency, degree, n, Inside(nodes, label, label[n]) \ {n}, t))
      <4>1. PICK lab2 : lab2 = label'
        OBVIOUS
      <4>2. Moves(nodes, adjacency, degree, label, n, to, lab2, t)
        BY <1>0, <1>3, <1>6, <1>7, <2>2, <3>1, <4>1 DEF Moves
      <4>3. /\ \A l : Gain(adjacency, degree, n, Inside(nodes, label, l) \ {n}, t) \in Int
            /\ Quality(nodes, adjacency, degree, lab2) - Quality(nodes, adjacency, degree, label)
                  = 2 * (Gain(adjacency, degree, n, Inside(nodes, label, to) \ {n}, t)
                           - Gain(adjacency, degree, n, Inside(nodes, label, label[n]) \ {n}, t))
        <5>1. Gained(nodes, adjacency, degree, label, n, to, lab2, t)
          BY <4>2, MoveGains
        <5> QED
          BY <5>1 DEF Gained
      <4> QED
        BY <4>1, <4>3
    <3>3. \A l : GainOf(n, l) = Gain(adjacency, degree, n, Inside(nodes, label, l) \ {n}, t)
      BY <3>1 DEF GainOf, TwoM
    <3>4. PICK x \in Int, y \in Int : x = GainOf(n, to) /\ y = GainOf(n, label[n])
      BY <3>2, <3>3
    <3>5. p - q = 2 * (x - y) /\ x >= y
      BY <1>6, <1>10, <1>11, <3>2, <3>3, <3>4
    <3> QED
      BY <3>5
  <2> QED
    BY <2>1, <2>2
<1>13. Weighted'
  BY <1>5, <1>7, <1>8, <1>9 DEF Weighted
<1> QED
  BY <1>10, <1>11, <1>12, <1>13

\* The weights of the coarsened graph, as Emit computes them.
CoarseTable(adj, lowest, new) ==
    adj = [n \in new |-> [m \in new |->
              Coarsened(label[CHOOSE k \in nodes : lowest[k] = n], label[CHOOSE k \in nodes : lowest[k] = m])]]

LEMMA EmitKeepsOrCoarsens ==
    ASSUME Emit
    PROVE  \/ /\ at' = "done"
              /\ nodes' = nodes /\ adjacency' = adjacency /\ degree' = degree /\ label' = label
           \/ \E lowest, new, ms, adj :
                 /\ CoarsenedTo(lowest, new, ms) /\ CoarseTable(adj, lowest, new)
                 /\ StartLevel(detector, new, adj)
  BY DEF Emit, CoarsenedTo, CoarseTable

LEMMA CoarseningIsOneToOne ==
    ASSUME Detecting, NEW lowest, NEW new, NEW ms, CoarsenedTo(lowest, new, ms),
           NEW adj, CoarseTable(adj, lowest, new)
    PROVE  /\ new \in SUBSET Nat
           /\ \E b, L : Coarsens(b, L, new, adj, nodes, adjacency, label)
<1>1. Sharing(nodes, members) /\ input \in DetectInputs
  BY DEF Detecting
<1>2. /\ \A n \in nodes : Group(label[n]) # {} /\ Group(label[n]) \in SUBSET input.entities
      /\ \A n, m \in nodes : n # m => members[n] \cap members[m] = {}
  BY <1>1, GroupsShareOut DEF Sharing
<1>3. \A n \in nodes : Min(Group(label[n])) \in Group(label[n])
  BY <1>1, <1>2, IDsAreNumbers
<1>4. /\ \A n \in nodes : lowest[n] = Min(Group(label[n]))
      /\ DOMAIN lowest = nodes
  BY DEF CoarsenedTo
<1>5. \A k : k \in new <=> \E n \in nodes : k = lowest[n]
  BY <1>4 DEF CoarsenedTo, Range
<1>6. \A l, x : x \in Group(l) <=> \E n \in nodes : label[n] = l /\ x \in members[n]
  BY DEF Group
<1>7. ASSUME NEW n \in nodes, NEW m \in nodes, lowest[n] = lowest[m]
      PROVE  label[n] = label[m]
  <2>1. PICK x : x \in Group(label[n]) /\ x \in Group(label[m])
    BY <1>3, <1>4, <1>7
  <2>2. PICK a \in nodes : label[a] = label[n] /\ x \in members[a]
    BY <1>6, <2>1
  <2>3. PICK c \in nodes : label[c] = label[m] /\ x \in members[c]
    BY <1>6, <2>1
  <2>4. a = c
    BY <1>2, <2>2, <2>3
  <2> QED
    BY <2>2, <2>3, <2>4
<1>8. new \in SUBSET Nat
  <2>1. \A n \in nodes : lowest[n] \in Nat
    BY <1>1, <1>2, <1>3, <1>4, DetectAssumption
  <2> QED
    BY <1>5, <2>1
<1>9. PICK L : L = LabelsOf(nodes, label)
  OBVIOUS
<1>10. \A l : l \in L <=> \E n \in nodes : l = label[n]
  BY <1>9 DEF LabelsOf
<1> DEFINE b == [l \in L |-> Min(Group(l))]
<1>11. \A n \in nodes : b[label[n]] = lowest[n] /\ label[n] \in L
  BY <1>4, <1>10
<1>12. b \in [L -> new]
  BY <1>4, <1>5, <1>10
<1> HIDE DEF b
<1>13. OneToOne(b, L, new)
  <2>1. ASSUME NEW k \in L, NEW l \in L, b[k] = b[l]
        PROVE  k = l
    <3>1. PICK n \in nodes : k = label[n]
      BY <1>10
    <3>2. PICK m \in nodes : l = label[m]
      BY <1>10
    <3> QED
      BY <1>7, <1>11, <2>1, <3>1, <3>2
  <2>2. \A z \in new : \E l \in L : z = b[l]
    BY <1>5, <1>11
  <2> QED
    BY <1>12, <2>1, <2>2 DEF OneToOne
<1>14. ASSUME NEW l \in L
       PROVE  b[l] \in new /\ label[CHOOSE k \in nodes : lowest[k] = b[l]] = l
  <2>1. PICK n \in nodes : l = label[n]
    BY <1>10
  <2>2. lowest[n] = b[l]
    BY <1>11, <2>1
  <2>3. PICK z : z = b[l]
    OBVIOUS
  <2>4. PICK o : o = CHOOSE k \in nodes : lowest[k] = z
    OBVIOUS
  <2>5. o \in nodes /\ lowest[o] = z
    BY <2>2, <2>3, <2>4
  <2>6. label[o] = label[n]
    BY <1>7, <2>2, <2>3, <2>5
  <2> QED
    BY <1>12, <2>1, <2>3, <2>4, <2>6
<1>15. ASSUME NEW k \in L, NEW l \in L
       PROVE  adj[b[k]][b[l]] = Collected(nodes, adjacency, label, k, l)
  <2>1. PICK x, y : x = b[k] /\ y = b[l]
    OBVIOUS
  <2>2. /\ x \in new /\ label[CHOOSE o \in nodes : lowest[o] = x] = k
        /\ y \in new /\ label[CHOOSE o \in nodes : lowest[o] = y] = l
    BY <1>14, <2>1
  <2>3. adj[x][y] = Coarsened(label[CHOOSE o \in nodes : lowest[o] = x], label[CHOOSE o \in nodes : lowest[o] = y])
    BY <2>2 DEF CoarseTable
  <2>4. adj[x][y] = Coarsened(k, l)
    BY <2>2, <2>3
  <2>5. Coarsened(k, l) = Collected(nodes, adjacency, label, k, l)
    BY DEF Coarsened, Collected, Pairs
  <2> QED
    BY <2>1, <2>4, <2>5
<1>16. Coarsens(b, L, new, adj, nodes, adjacency, label)
  BY <1>9, <1>13, <1>15 DEF Coarsens
<1> QED
  BY <1>8, <1>16

LEMMA EmitKeeps ==
    ASSUME QualityInv, Weighted, detector = "louvain", Emit
    PROVE  QualityInv' /\ Modularity' >= Modularity
<1>1. DetectInv' /\ at = "emit"
  BY EmitSteps DEF QualityInv, Emit
<1>2. Detecting
  BY <1>1 DEF QualityInv, DetectInv
<1>3. WeightedGraph(nodes, adjacency, degree, label)
  BY DEF Weighted
<1>4. Modularity \in Int
  BY <1>3, QualityIs, ModularityIs
<1>5. Modularity = ModularityOf(nodes, adjacency, degree, label)
  BY ModularityIs
<1>6. Modularity' = ModularityOf(nodes', adjacency', degree', label')
  BY ModularityIsNext
<1>7. CASE /\ at' = "done"
           /\ nodes' = nodes /\ adjacency' = adjacency /\ degree' = degree /\ label' = label
  <2>1. Modularity' = Modularity
    BY <1>5, <1>6, <1>7
  <2> QED
    BY <1>1, <1>4, <1>7, <2>1 DEF QualityInv
<1>8. CASE \E lowest, new, ms, adj :
              /\ CoarsenedTo(lowest, new, ms) /\ CoarseTable(adj, lowest, new)
              /\ StartLevel(detector, new, adj)
  <2>1. PICK lowest, new, ms, adj :
              /\ CoarsenedTo(lowest, new, ms) /\ CoarseTable(adj, lowest, new)
              /\ StartLevel(detector, new, adj)
    BY <1>8
  <2>2. new \in SUBSET Nat /\ \E b, L : Coarsens(b, L, new, adj, nodes, adjacency, label)
    BY <1>2, <2>1, CoarseningIsOneToOne
  <2>3. PICK b, L : Coarsens(b, L, new, adj, nodes, adjacency, label)
    BY <2>2
  <2>4. PICK deg2, lab2 : deg2 = degree' /\ lab2 = label'
    OBVIOUS
  <2>5. /\ nodes' = new /\ adjacency' = adj /\ rest' = new /\ at' \in {"visit", "emit"}
        /\ \A n \in new : deg2[n] = SumFunctionOnSet(adj[n], new)
        /\ \A n \in new : lab2[n] = n
        /\ lab2 \in [new -> new]
    BY <2>1, <2>4 DEF StartLevel
  <2>6. Coarser(b, L, new, adj, deg2, lab2, nodes, adjacency, degree, label)
    BY <1>3, <2>2, <2>3, <2>5 DEF Coarser, StartsAnew
  <2>7. /\ WeightedGraph(new, adj, deg2, lab2)
        /\ ModularityOf(new, adj, deg2, lab2) = ModularityOf(nodes, adjacency, degree, label)
    BY <2>6, CoarseningKeeps
  <2>8. new # {}
    BY <1>1, <2>5 DEF DetectInv, Detecting, Sharing
  <2>9. Weighted'
    BY <2>4, <2>5, <2>7, <2>8 DEF Weighted
  <2>10. Modularity' = Modularity
    BY <1>5, <1>6, <2>4, <2>5, <2>7
  <2> QED
    BY <1>1, <1>4, <2>9, <2>10 DEF QualityInv
<1> QED
  BY <1>7, <1>8, EmitKeepsOrCoarsens

LEMMA QualityStarts == DetectInit => QualityInv
  BY DetectStarts DEF DetectInit, QualityInv

LEMMA QualityGoesUp ==
    ASSUME QualityInv, DetectStep
    PROVE  /\ QualityInv'
           /\ detector = "louvain" => Modularity' >= Modularity
<1>1. at \in {"visit", "emit"} /\ detector' = detector
  BY DEF DetectStep, Visit, Emit
<1>2. DetectInv'
  BY DetectSteps DEF QualityInv
<1>3. CASE detector = "louvain"
  <2>1. Weighted
    BY <1>1, <1>3 DEF QualityInv
  <2>2. CASE Visit
    BY <1>2, <1>3, <2>1, <2>2, VisitImproves DEF QualityInv
  <2>3. CASE Emit
    BY <1>3, <2>1, <2>3, EmitKeeps
  <2> QED
    BY <2>2, <2>3 DEF DetectStep
<1>4. CASE detector # "louvain"
  BY <1>1, <1>2, <1>4 DEF QualityInv
<1> QED
  BY <1>3, <1>4

LEMMA QualityStays == ASSUME QualityInv, UNCHANGED detectVars PROVE QualityInv'
<1>1. DetectInv'
  BY DetectStays DEF QualityInv
<1>2. /\ nodes' = nodes /\ adjacency' = adjacency /\ degree' = degree /\ label' = label
      /\ rest' = rest /\ at' = at /\ detector' = detector
  BY DEF detectVars
<1>3. Weighted => Weighted'
  BY <1>2 DEF Weighted
<1> QED
  BY <1>1, <1>2, <1>3 DEF QualityInv

-----------------------------------------------------------------------------
\* The splitting of documents.

IsSection(c) ==
    /\ c = [level |-> c.level, path |-> c.path, content |-> c.content]
    /\ IsList(c.path) /\ IsList(c.content)

\* The headings of a document, and whether they skip no level.
HeadsOf(d) == {i \in DOMAIN d.lines : d.lines[i].level > 0}
HeadsBefore(d, i) == {j \in HeadsOf(d) : j < i}
NoSkips(d) ==
    \A i \in HeadsOf(d) :
        d.lines[i].level <= 1 + (IF HeadsBefore(d, i) = {} THEN 0 ELSE d.lines[Max(HeadsBefore(d, i))].level)

\* For each of its levels a path holds the last heading of that level.
Ancestry(d, p) == \A k \in DOMAIN p : p[k] = Max({i \in HeadsOf(d) : i <= Last(p) /\ d.lines[i].level = k})

\* The path of a section is as long as its level is deep.
StandsUnder(d, c) == Len(c.path) = c.level /\ Ancestry(d, c.path)

\* The path is that of the last heading read.
PathOfLast ==
    IF HeadsBefore(document, line) = {} THEN path = <<>>
    ELSE /\ path # <<>>
         /\ Last(path) = Max(HeadsBefore(document, line))
         /\ Len(path) = document.lines[Last(path)].level
         /\ Ancestry(document, path)

Reading ==
    /\ IsSection(current)
    /\ line \in 1..(Len(document.lines) + 1)
    /\ IsList(path)
    /\ NoSkips(document) => PathOfLast /\ current.path = path /\ current.level = Len(path)
    /\ section = 1 /\ start = 1 /\ chunks = <<>>

\* The solid characters before a place are in chunks.
CoveredBefore(text, s, cs, to) ==
    \A i \in Solid(text, 1, Len(text)) :
        i < to => \E k \in DOMAIN cs : cs[k].section = s /\ i \in cs[k].from..cs[k].to

NoneAbove(cs, n) == \A k \in DOMAIN cs : cs[k].to - cs[k].from + 1 <= n

Cutting ==
    /\ section \in 1..Len(sections)
    /\ start \in Nat \ {0}
    /\ IsList(chunks)
    /\ NoneAbove(chunks, Slack)
    /\ \A s \in 1..(section - 1) :
          CoveredBefore(sections[s].content, s, chunks, Len(sections[s].content) + 1)
    /\ CoveredBefore(Content, section, chunks, start)

SplitInv ==
    /\ stage \in {"idle", "lines", "windows", "done"}
    /\ IsList(sections) /\ \A s \in 1..Len(sections) : IsSection(sections[s])
    /\ stage # "idle" => document \in SplitInputs
    /\ stage = "idle" =>
          /\ line = 1 /\ path = <<>> /\ current = NoSection /\ sections = <<>>
          /\ section = 1 /\ start = 1 /\ chunks = <<>>
    /\ stage = "lines" => Reading
    /\ stage = "windows" => Cutting
    /\ stage = "done" => NothingIsLost
    /\ NoSkips(document) =>
          \A s \in 1..Len(sections) : StandsUnder(document, sections[s])

-----------------------------------------------------------------------------
\* Texts.

\* The solid characters of a span lie between the first and the last of them.
LEMMA SolidSpan ==
    ASSUME NEW text, NEW a \in Nat, NEW b \in Nat, Solid(text, a, b) # {}
    PROVE  LET S == Solid(text, a, b)
           IN  /\ Min(S) \in a..b /\ Max(S) \in a..b /\ Min(S) <= Max(S)
               /\ S \subseteq Min(S)..Max(S)
<1> DEFINE S == Solid(text, a, b)
<1>1. S \subseteq a..b
  BY DEF Solid
<1> HIDE DEF S
<1>2. S \in SUBSET (0..b) /\ S \in SUBSET Nat
  BY <1>1
<1>3. S # {}
  BY DEF S
<1>4. Min(S) \in S /\ \A y \in S : Min(S) <= y
  BY <1>2, <1>3, LeastOf
<1>5. Max(S) \in S /\ \A y \in S : Max(S) >= y
  BY <1>2, <1>3, GreatestNumber
<1>6. Min(S) \in a..b /\ Max(S) \in a..b /\ Min(S) <= Max(S)
  BY <1>1, <1>4, <1>5
<1>7. S \subseteq Min(S)..Max(S)
  BY <1>1, <1>4, <1>5
<1> QED
  BY <1>6, <1>7 DEF S

LEMMA TrimIsList ==
    ASSUME NEW text, IsList(text)
    PROVE  IsList(Trim(text))
<1> DEFINE S == Solid(text, 1, Len(text))
           a == Min(S)
           b == Max(S)
<1>1. Len(text) \in Nat /\ DOMAIN text = 1..Len(text)
  BY ListFacts
<1>2. CASE S = {}
  BY <1>2, ListOfNone DEF Trim
<1>3. CASE S # {}
  <2>1. a \in 1..Len(text) /\ b \in 1..Len(text) /\ a <= b
    BY <1>1, <1>3, SolidSpan
  <2>2. Trim(text) = SubSeq(text, a, b)
    BY <1>3 DEF Trim
  <2> HIDE DEF a, b
  <2>3. PICK T : text \in Seq(T)
    BY DEF IsList
  <2>4. SubSeq(text, a, b) \in Seq(T)
    BY <1>1, <2>1, <2>3
  <2> QED
    BY <2>2, <2>4 DEF IsList
<1> QED
  BY <1>2, <1>3

LEMMA JoinIsList ==
    ASSUME NEW t, IsList(t), NEW u, IsList(u)
    PROVE  IsList(Join(t, u))
<1>1. IsList(t \o <<"\n">>)
  BY ListOfOne, ListConcat
<1>2. IsList((t \o <<"\n">>) \o u)
  BY <1>1, ListConcat
<1> QED
  BY <1>2 DEF Join

\* A document and its lines.
LEMMA DocumentFacts ==
    ASSUME NEW d \in SplitInputs
    PROVE  /\ IsList(d.lines) /\ Len(d.lines) \in Nat /\ DOMAIN d.lines = 1..Len(d.lines)
           /\ \A i \in 1..Len(d.lines) :
                 /\ d.lines[i].level \in Nat
                 /\ IsList(d.lines[i].text) /\ IsList(Line(d.lines[i]))
           /\ d.maxChars \in Nat \ {0} /\ d.overlap \in Nat
<1> DEFINE ls == d.lines
<1>1. IsList(ls)
  BY SplitAssumption DEF IsList
<1>2. Len(ls) \in Nat /\ DOMAIN ls = 1..Len(ls)
  <2> HIDE DEF ls
  <2> QED
    BY <1>1, ListFacts
<1>3. ASSUME NEW i \in 1..Len(ls)
      PROVE  ls[i].level \in Nat /\ IsList(ls[i].text) /\ IsList(Line(ls[i]))
  <2> DEFINE l == ls[i]
             n == l.level
             heads == [k \in 1..n |-> "x"]
  <2>1. n \in Nat /\ IsList(l.text)
    BY <1>2, SplitAssumption DEF IsList
  <2>2. Line(l) = IF n = 0 THEN l.text ELSE heads \o <<" ", "x">>
    BY DEF Line
  <2>3. IsList(heads)
    <3> HIDE DEF n
    <3>1. heads \in [1..n -> {"x"}]
      OBVIOUS
    <3> HIDE DEF heads
    <3> QED
      BY <2>1, <3>1, ListOfFunction
  <2>4. IsList(<<" ", "x">>)
    <3>1. <<" ", "x">> \in Seq({" ", "x"})
      OBVIOUS
    <3> QED
      BY <3>1 DEF IsList
  <2>5. IsList(heads \o <<" ", "x">>)
    <3> HIDE DEF heads
    <3> QED
      BY <2>3, <2>4, ListConcat
  <2> QED
    BY <2>1, <2>2, <2>5
<1> HIDE DEF ls
<1>4. d.maxChars \in Nat \ {0} /\ d.overlap \in Nat
  BY SplitAssumption
<1> QED
  BY <1>1, <1>2, <1>3, <1>4 DEF ls

LEMMA WholeTextIsList ==
    ASSUME NEW d \in SplitInputs
    PROVE  IsList(WholeText(d))
<1> DEFINE N == Len(d.lines)
           L(n) == Line(d.lines[n])
           Texts(f) == [n \in 0..N |-> IF n = 0 THEN <<>> ELSE f[n - 1] \o <<"\n">> \o L(n)]
           text == CHOOSE f : f = Texts(f)
<1>1. N \in Nat /\ \A n \in 1..N : IsList(L(n))
  BY DocumentFacts
<1>2. WholeText(d) = Trim(text[N])
  BY DEF WholeText
<1> DEFINE U == UNION {Range(L(n)) : n \in 1..N}
           T == U \cup {"\n"}
           A == Seq(T)
           G == [x \in (1..N) \X A |-> x[2] \o <<"\n">> \o L(x[1])]
<1>3. \A n \in 1..N : L(n) \in A
  <2>1. ASSUME NEW n \in 1..N
        PROVE  L(n) \in A
    <3> DEFINE l == L(n)
    <3>1. IsList(l)
      BY <1>1
    <3>2. Range(l) \subseteq T
      OBVIOUS
    <3> HIDE DEF l, T, L, N
    <3>3. Len(l) \in Nat /\ DOMAIN l = 1..Len(l)
      BY <3>1, ListFacts
    <3>4. \A i \in 1..Len(l) : l[i] \in T
      BY <3>2, <3>3 DEF Range
    <3>5. PICK V : l \in Seq(V)
      BY <3>1 DEF IsList
    <3>6. l = [i \in 1..Len(l) |-> l[i]]
      BY <3>5
    <3>7. l \in [1..Len(l) -> T]
      BY <3>4, <3>6
    <3>8. l \in Seq(T)
      BY <3>3, <3>7, SeqDef
    <3> QED
      BY <3>8 DEF l
  <2> QED
    BY <2>1
<1>4. <<>> \in A /\ <<"\n">> \in A
  <2>1. "\n" \in T
    <3> HIDE DEF U
    <3> QED
      OBVIOUS
  <2> HIDE DEF T
  <2> QED
    BY <2>1
<1> HIDE DEF N, L, T
<1>5. /\ G \in [(1..N) \X A -> A]
      /\ \A n \in 1..N, a \in A : G[n, a] = a \o <<"\n">> \o L(n)
  <2>1. \A n \in 1..N, a \in A : a \o <<"\n">> \o L(n) \in A
    BY <1>3, <1>4
  <2>2. \A x \in (1..N) \X A : x[1] \in 1..N /\ x[2] \in A
    OBVIOUS
  <2> HIDE DEF A
  <2>3. \A x \in (1..N) \X A : x[2] \o <<"\n">> \o L(x[1]) \in A
    BY <2>1, <2>2
  <2>4. G \in [(1..N) \X A -> A]
    BY <2>3
  <2>5. \A n \in 1..N, a \in A : <<n, a>> \in (1..N) \X A /\ <<n, a>>[1] = n /\ <<n, a>>[2] = a
    OBVIOUS
  <2>6. \A n \in 1..N, a \in A : G[n, a] = a \o <<"\n">> \o L(n)
    BY <2>5
  <2> QED
    BY <2>4, <2>6
<1> HIDE DEF G
<1>6. PICK f : Iterates(f, N, A, <<>>, G)
  <2> HIDE DEF A
  <2> QED
    BY <1>1, <1>4, <1>5, IterationExists
<1> HIDE DEF A
<1>7. /\ f \in [0..N -> A] /\ f[0] = <<>>
      /\ \A n \in 1..N : f[n] = f[n - 1] \o <<"\n">> \o L(n)
  <2>1. f \in [0..N -> A] /\ f[0] = <<>> /\ \A n \in 1..N : f[n] = G[n, f[n - 1]]
    BY <1>6 DEF Iterates
  <2>2. \A n \in 1..N : f[n - 1] \in A
    <3>1. \A n \in 1..N : n - 1 \in 0..N
      BY <1>1
    <3> QED
      BY <2>1, <3>1
  <2> QED
    BY <1>5, <2>1, <2>2
<1>8. f = Texts(f)
  <2>1. \A n \in 0..N : f[n] = IF n = 0 THEN <<>> ELSE f[n - 1] \o <<"\n">> \o L(n)
    <3>1. \A n \in 0..N : n = 0 \/ n \in 1..N
      BY <1>1
    <3> QED
      BY <1>7, <3>1
  <2> QED
    BY <1>7, <2>1
<1>9. text = Texts(text)
  <2> HIDE DEF Texts
  <2> QED
    BY <1>8
<1> HIDE DEF text
<1>10. /\ text[0] = <<>>
       /\ \A n \in 1..N : text[n] = text[n - 1] \o <<"\n">> \o L(n)
  <2>1. 0 \in 0..N /\ \A n \in 1..N : n \in 0..N /\ n # 0
    BY <1>1
  <2>2. \A n \in 0..N : text[n] = IF n = 0 THEN <<>> ELSE text[n - 1] \o <<"\n">> \o L(n)
    BY <1>9
  <2> QED
    BY <2>1, <2>2
<1>11. ASSUME NEW n \in 1..N, text[n - 1] \in A
       PROVE  text[n] \in A
  <2>1. L(n) \in A
    BY <1>3
  <2> DEFINE t == text[n - 1]
             nl == <<"\n">>
             u == L(n)
  <2>2. t \in A /\ nl \in A /\ u \in A
    BY <1>4, <1>11, <2>1
  <2>3. text[n] = t \o nl \o u
    BY <1>10
  <2> HIDE DEF t, nl, u
  <2>4. t \o nl \o u \in A
    BY <2>2 DEF A
  <2> QED
    BY <2>3, <2>4
<1>12. \A n \in 0..N : text[n] \in A
  BY <1>1, <1>4, <1>10, <1>11, IterationStaysIn
<1>13. IsList(text[N])
  <2>1. text[N] \in A
    BY <1>1, <1>12
  <2> QED
    BY <2>1 DEF A, IsList
<1> QED
  BY <1>2, <1>13, TrimIsList


-----------------------------------------------------------------------------
\* The windows.

\* Everything solid in a span that is cut comes into a chunk no longer than it.
LEMMA CutCovers ==
    ASSUME IsList(chunks), NEW a \in Nat, NEW b \in Nat, NEW n \in Nat, b - a + 1 <= n,
           NoneAbove(chunks, n), NEW c, c = Cut(a, b)
    PROVE  /\ IsList(c) /\ NoneAbove(c, n)
           /\ \A k \in DOMAIN chunks : k \in DOMAIN c /\ c[k] = chunks[k]
           /\ \A i \in Solid(Content, a, b) :
                 \E k \in DOMAIN c : c[k].section = section /\ i \in c[k].from..c[k].to
<1> DEFINE S == Solid(Content, a, b)
           new == [section |-> section, from |-> Min(S), to |-> Max(S)]
<1>1. Len(chunks) \in Nat /\ DOMAIN chunks = 1..Len(chunks)
  BY ListFacts
<1>2. CASE S = {}
  <2>1. c = chunks
    BY <1>2 DEF Cut
  <2> QED
    BY <1>2, <2>1
<1>3. CASE S # {}
  <2>1. c = Append(chunks, new)
    BY <1>3 DEF Cut
  <2>2. /\ Min(S) \in a..b /\ Max(S) \in a..b /\ Min(S) <= Max(S)
        /\ S \subseteq Min(S)..Max(S)
    BY <1>3, SolidSpan
  <2>3. new.section = section /\ new.from = Min(S) /\ new.to = Max(S)
    OBVIOUS
  <2> HIDE DEF new, S
  <2>4. /\ IsList(c) /\ Len(c) = Len(chunks) + 1
        /\ \A k \in 1..Len(chunks) : c[k] = chunks[k]
        /\ c[Len(chunks) + 1] = new
    BY <2>1, ListAppend
  <2>5. DOMAIN c = 1..(Len(chunks) + 1)
    BY <2>4, ListFacts
  <2>6. NoneAbove(c, n)
    <3>1. new.to - new.from + 1 <= n
      BY <2>2, <2>3
    <3>2. ASSUME NEW k \in DOMAIN c
          PROVE  c[k].to - c[k].from + 1 <= n
      <4>1. CASE k = Len(chunks) + 1
        BY <2>4, <3>1, <4>1
      <4>2. CASE k # Len(chunks) + 1
        <5>1. k \in 1..Len(chunks)
          BY <1>1, <2>5, <4>2
        <5> QED
          BY <1>1, <2>4, <5>1 DEF NoneAbove
      <4> QED
        BY <4>1, <4>2
    <3> QED
      BY <3>2 DEF NoneAbove
  <2>7. ASSUME NEW i \in S
        PROVE  \E k \in DOMAIN c : c[k].section = section /\ i \in c[k].from..c[k].to
    <3>1. Len(chunks) + 1 \in DOMAIN c
      BY <1>1, <2>5
    <3>2. i \in new.from..new.to
      BY <2>2, <2>3
    <3> QED
      BY <2>3, <2>4, <3>1, <3>2
  <2>8. \A k \in DOMAIN chunks : k \in DOMAIN c /\ c[k] = chunks[k]
    BY <1>1, <2>4, <2>5
  <2> QED
    BY <2>4, <2>6, <2>7, <2>8 DEF S
<1> QED
  BY <1>2, <1>3

\* More chunks cover no less.
LEMMA CoverageStays ==
    ASSUME NEW cs, NEW c, \A k \in DOMAIN cs : k \in DOMAIN c /\ c[k] = cs[k],
           NEW text, NEW s, NEW to, CoveredBefore(text, s, cs, to)
    PROVE  CoveredBefore(text, s, c, to)
  BY DEF CoveredBefore

\* The sizes asked for.
LEMMA SizesAre ==
    ASSUME document \in SplitInputs
    PROVE  /\ MaxChars \in Nat \ {0} /\ Slack \in Nat /\ Slack >= MaxChars
           /\ Overlap \in Nat
<1>1. document.maxChars \in Nat \ {0} /\ document.overlap \in Nat
  BY DocumentFacts
<1>2. document.maxChars \div 5 \in Nat /\ document.maxChars \div 2 \in Nat
  BY <1>1
<1> QED
  BY <1>1, <1>2 DEF MaxChars, Slack, Overlap

\* A window that is not the last ends where it may, and what is skipped after
\* it is blank.
LEMMA BreakIs ==
    ASSUME document \in SplitInputs, start \in Nat \ {0}, IsList(Content),
           start - 1 + Slack < Len(Content)
    PROVE  /\ BreakAt \in Nat /\ start <= BreakAt /\ BreakAt <= start + Slack
           /\ NextStart(BreakAt) \in Nat /\ NextStart(BreakAt) > start
           /\ \A i \in Nat : BreakAt <= i /\ i < NextStart(BreakAt) => Content[i] \in Blanks
<1> DEFINE N == Len(Content)
           M == MaxChars
           sl == Slack
           breaks == ParagraphEnds(start, start + Slack - 1)
           spaces == Spaces(start + 1, start + MaxChars - 1)
           b == BreakAt
<1>1. M \in Nat \ {0} /\ sl \in Nat /\ sl >= M /\ N \in Nat /\ start \in Nat \ {0} /\ start - 1 + sl < N
  BY SizesAre, ListFacts
<1>2. b = IF breaks # {} THEN Max(breaks) ELSE IF spaces # {} THEN Max(spaces) ELSE start + M
  BY DEF BreakAt
<1>3. /\ \A i : i \in breaks <=> i \in start..(start + sl - 2) /\ Content[i] = "\n" /\ Content[i + 1] = "\n"
      /\ \A i \in spaces : i \in (start + 1)..(start + M - 1)
  <2>1. (start + sl - 1) - 1 = start + sl - 2
    BY <1>1
  <2>2. breaks = {i \in start..((start + sl - 1) - 1) : Content[i] = "\n" /\ Content[i + 1] = "\n"}
    BY DEF ParagraphEnds
  <2>3. spaces \subseteq (start + 1)..(start + M - 1)
    BY DEF Spaces
  <2> HIDE DEF breaks, spaces, sl, M
  <2>4. \A i : i \in breaks <=> i \in start..(start + sl - 2) /\ Content[i] = "\n" /\ Content[i + 1] = "\n"
    BY <2>1, <2>2
  <2> QED
    BY <2>3, <2>4
<1>4. NextStart(b) = IF b \in b..(N - 1) /\ Content[b] = "\n" /\ Content[b + 1] = "\n" THEN b + 2 ELSE b
  BY DEF NextStart, ParagraphEnds
<1> HIDE DEF N, M, sl, breaks, spaces, b
<1>5. CASE breaks # {}
  <2>1. breaks \in SUBSET (0..(start + sl))
    <3>1. start..(start + sl - 2) \subseteq 0..(start + sl)
      BY <1>1
    <3> QED
      BY <1>3, <3>1
  <2>2. Max(breaks) \in breaks
    <3>1. start + sl \in Nat
      BY <1>1
    <3> QED
      BY <1>5, <2>1, <3>1, GreatestNumber
  <2>3. b \in breaks
    BY <1>2, <1>5, <2>2
  <2>4. b \in start..(start + sl - 2) /\ Content[b] = "\n" /\ Content[b + 1] = "\n"
    BY <1>3, <2>3
  <2>5. NextStart(b) = b + 2
    BY <1>1, <1>4, <2>4
  <2>6. \A i \in Nat : b <= i /\ i < b + 2 => i = b \/ i = b + 1
    BY <1>1, <2>4
  <2>7. "\n" \in Blanks
    BY DEF Blanks
  <2>8. \A i \in Nat : b <= i /\ i < NextStart(b) => Content[i] \in Blanks
    BY <2>4, <2>5, <2>6, <2>7
  <2>9. b \in Nat /\ start <= b /\ b <= start + sl /\ b + 2 \in Nat /\ b + 2 > start
    BY <1>1, <2>4
  <2> QED
    BY <2>5, <2>8, <2>9 DEF b, sl
<1>6. CASE breaks = {}
  <2>1. b \in Nat /\ start < b /\ b <= start + sl
    <3>1. CASE spaces # {}
      <4>1. spaces \in SUBSET (0..(start + sl))
        <5>1. (start + 1)..(start + M - 1) \subseteq 0..(start + sl)
          BY <1>1
        <5> QED
          BY <1>3, <5>1
      <4>2. Max(spaces) \in spaces
        <5>1. start + sl \in Nat
          BY <1>1
        <5> QED
          BY <3>1, <4>1, <5>1, GreatestNumber
      <4> QED
        BY <1>1, <1>2, <1>3, <1>6, <3>1, <4>2
    <3>2. CASE spaces = {}
      BY <1>1, <1>2, <1>6, <3>2
    <3> QED
      BY <3>1, <3>2
  <2>2. NextStart(b) = b \/ (NextStart(b) = b + 2 /\ Content[b] = "\n" /\ Content[b + 1] = "\n")
    BY <1>4
  <2>3. \A i \in Nat : b <= i /\ i < b + 2 => i = b \/ i = b + 1
    BY <2>1
  <2>4. "\n" \in Blanks
    BY DEF Blanks
  <2>5. \A i \in Nat : b <= i /\ i < NextStart(b) => Content[i] \in Blanks
    <3>1. CASE NextStart(b) = b
      BY <2>1, <3>1
    <3>2. CASE NextStart(b) = b + 2 /\ Content[b] = "\n" /\ Content[b + 1] = "\n"
      BY <2>3, <2>4, <3>2
    <3> QED
      BY <2>2, <3>1, <3>2
  <2>6. NextStart(b) \in Nat /\ NextStart(b) > start
    BY <1>1, <2>1, <2>2
  <2> QED
    BY <1>1, <2>1, <2>5, <2>6 DEF b, sl
<1> QED
  BY <1>5, <1>6


\* A cut brings everything solid up to its end into chunks, and so up to what
\* follows if only blanks are between.
LEMMA CutAdvances ==
    ASSUME document \in SplitInputs, Cutting, IsList(Content),
           NEW b \in Nat, b - start + 1 <= Slack, NEW c, c = Cut(start, b), NEW to \in Nat,
           \A i \in Nat : b < i /\ i < to /\ i <= Len(Content) => Content[i] \in Blanks
    PROVE  /\ IsList(c) /\ NoneAbove(c, Slack)
           /\ \A s \in 1..(section - 1) :
                 CoveredBefore(sections[s].content, s, c, Len(sections[s].content) + 1)
           /\ CoveredBefore(Content, section, c, to)
<1>1. start \in Nat \ {0} /\ Slack \in Nat /\ IsList(chunks) /\ NoneAbove(chunks, Slack) /\ Len(Content) \in Nat
  BY SizesAre, ListFacts DEF Cutting
<1>2. /\ IsList(c) /\ NoneAbove(c, Slack)
      /\ \A k \in DOMAIN chunks : k \in DOMAIN c /\ c[k] = chunks[k]
      /\ \A i \in Solid(Content, start, b) :
            \E k \in DOMAIN c : c[k].section = section /\ i \in c[k].from..c[k].to
  <2> DEFINE a == start
             n == Slack
  <2>1. a \in Nat /\ n \in Nat /\ b - a + 1 <= n /\ NoneAbove(chunks, n) /\ c = Cut(a, b)
    BY <1>1
  <2> HIDE DEF a, n
  <2>2. /\ IsList(c) /\ NoneAbove(c, n)
        /\ \A k \in DOMAIN chunks : k \in DOMAIN c /\ c[k] = chunks[k]
        /\ \A i \in Solid(Content, a, b) :
              \E k \in DOMAIN c : c[k].section = section /\ i \in c[k].from..c[k].to
    BY <1>1, <2>1, CutCovers
  <2> QED
    BY <2>2 DEF a, n
<1>3. \A s \in 1..(section - 1) :
         CoveredBefore(sections[s].content, s, c, Len(sections[s].content) + 1)
  BY <1>2, CoverageStays DEF Cutting
<1>4. CoveredBefore(Content, section, c, start)
  BY <1>2, CoverageStays DEF Cutting
<1>5. ASSUME NEW i \in Solid(Content, 1, Len(Content)), i < to
      PROVE  \E k \in DOMAIN c : c[k].section = section /\ i \in c[k].from..c[k].to
  <2>1. i \in Nat /\ i <= Len(Content) /\ Content[i] \notin Blanks
    BY <1>1, <1>5 DEF Solid
  <2>2. CASE i < start
    BY <1>4, <2>2 DEF CoveredBefore
  <2>3. CASE i >= start
    <3>1. i <= b
      BY <1>5, <2>1
    <3>2. i \in Solid(Content, start, b)
      BY <1>1, <2>1, <2>3, <3>1 DEF Solid
    <3> QED
      BY <1>2, <3>2
  <2> QED
    BY <1>1, <2>1, <2>2, <2>3
<1>6. CoveredBefore(Content, section, c, to)
  BY <1>5 DEF CoveredBefore
<1> QED
  BY <1>2, <1>3, <1>6

\* A section is done.
LEMMA SectionEnds ==
    ASSUME document \in SplitInputs, Cutting, IsList(sections),
           \A s \in 1..Len(sections) : IsSection(sections[s]),
           UNCHANGED <<document, sections>>,
           IsList(chunks'), NoneAbove(chunks', Slack),
           \A s \in 1..(section - 1) :
               CoveredBefore(sections[s].content, s, chunks', Len(sections[s].content) + 1),
           CoveredBefore(Content, section, chunks', Len(Content) + 1),
           start' = 1, section' = section + 1,
           stage' = IF section = Len(sections) THEN "done" ELSE "windows"
    PROVE  /\ stage' = "windows" => Cutting'
           /\ stage' = "done" => NothingIsLost'
<1> DEFINE N == Len(sections)
           Whole(s) == CoveredBefore(sections[s].content, s, chunks', Len(sections[s].content) + 1)
<1>1. N \in Nat /\ section \in 1..N /\ DOMAIN sections = 1..N
  BY ListFacts DEF Cutting
<1>0. section \in Nat /\ section <= N /\ 1 <= section
  <2> HIDE DEF N, Whole
  <2>1. \A m \in 1..N : m \in Nat /\ m <= N /\ 1 <= m
    BY <1>1
  <2> QED
    BY <1>1, <2>1
<1>2. \A s \in 1..section : Whole(s)
  <2>1. Whole(section)
    BY DEF Content
  <2>2. \A s \in 1..section : s = section \/ s \in 1..(section - 1)
    BY <1>0
  <2> HIDE DEF Whole
  <2>3. \A s \in 1..(section - 1) : Whole(s)
    BY DEF Whole
  <2> QED
    BY <2>1, <2>2, <2>3
<1>3. Slack' = Slack
  BY DEF Slack, MaxChars
<1>4. ASSUME stage' = "windows"
      PROVE  Cutting'
  <2>1. section' \in 1..N /\ section' - 1 = section
    <3>1. section # N
      BY <1>4
    <3>2. section' = section + 1
      OBVIOUS
    <3> HIDE DEF N, Whole
    <3> QED
      BY <1>0, <1>1, <3>1, <3>2
  <2> DEFINE text == sections[section'].content
  <2>2. Len(text) \in Nat
    BY <2>1, ListFacts DEF IsSection
  <2>3. CoveredBefore(text, section', chunks', 1)
    BY <2>2 DEF CoveredBefore, Solid
  <2>4. Content' = text
    BY DEF Content
  <2> HIDE DEF text
  <2>5. CoveredBefore(Content', section', chunks', start')
    BY <2>3, <2>4
  <2>6. \A s \in 1..(section' - 1) :
           CoveredBefore(sections'[s].content, s, chunks', Len(sections'[s].content) + 1)
    BY <1>2, <2>1
  <2>7. section' \in 1..Len(sections') /\ start' \in Nat \ {0} /\ NoneAbove(chunks', Slack')
    BY <1>3, <2>1
  <2> QED
    BY <2>5, <2>6, <2>7 DEF Cutting
<1>5. ASSUME stage' = "done"
      PROVE  NothingIsLost'
  <2>1. section = N
    BY <1>5
  <2>2. ASSUME NEW s \in DOMAIN sections, NEW i \in Solid(sections[s].content, 1, Len(sections[s].content))
        PROVE  \E k \in DOMAIN chunks' : chunks'[k].section = s /\ i \in chunks'[k].from..chunks'[k].to
    <3>1. Whole(s)
      BY <1>1, <1>2, <2>1
    <3>2. Len(sections[s].content) \in Nat
      BY <1>1, ListFacts DEF IsSection
    <3>3. i < Len(sections[s].content) + 1
      BY <3>2 DEF Solid
    <3> QED
      BY <3>1, <3>3 DEF CoveredBefore
  <2>3. \A k \in DOMAIN chunks' : chunks'[k].to - chunks'[k].from + 1 <= Slack'
    BY <1>3 DEF NoneAbove
  <2> QED
    BY <2>2, <2>3 DEF NothingIsLost
<1> QED
  BY <1>4, <1>5

LEMMA WindowKeeps ==
    ASSUME document \in SplitInputs, Cutting, IsList(sections),
           \A s \in 1..Len(sections) : IsSection(sections[s]),
           Window
    PROVE  /\ stage' \in {"windows", "done"}
           /\ stage' = "windows" => Cutting'
           /\ stage' = "done" => NothingIsLost'
<1> DEFINE N == Len(Content)
           isLast == N <= MaxChars \/ start - 1 + Slack >= N
<1>1. /\ section \in 1..Len(sections) /\ start \in Nat \ {0}
      /\ IsList(Content) /\ N \in Nat
      /\ MaxChars \in Nat \ {0} /\ Slack \in Nat /\ Slack >= MaxChars /\ Overlap \in Nat
  BY SizesAre, ListFacts DEF Cutting, Content, IsSection
<1>2. UNCHANGED <<document, sections>>
  BY DEF Window
<1>3. CASE isLast
  <2>1. /\ chunks' = Cut(start, N) /\ start' = 1 /\ section' = section + 1
        /\ stage' = IF section = Len(sections) THEN "done" ELSE "windows"
    BY <1>3 DEF Window
  <2>2. N - start + 1 <= Slack
    BY <1>1, <1>3
  <2>3. \A i \in Nat : N < i /\ i < N + 1 /\ i <= Len(Content) => Content[i] \in Blanks
    BY <1>1
  <2>4. /\ IsList(chunks') /\ NoneAbove(chunks', Slack)
        /\ \A s \in 1..(section - 1) :
              CoveredBefore(sections[s].content, s, chunks', Len(sections[s].content) + 1)
        /\ CoveredBefore(Content, section, chunks', N + 1)
    <3> DEFINE b == N
               to == N + 1
    <3>1. b \in Nat /\ to \in Nat /\ b - start + 1 <= Slack /\ chunks' = Cut(start, b)
          /\ \A i \in Nat : b < i /\ i < to /\ i <= Len(Content) => Content[i] \in Blanks
      BY <1>1, <2>1, <2>2, <2>3
    <3> HIDE DEF b, to
    <3>2. /\ IsList(chunks') /\ NoneAbove(chunks', Slack)
          /\ \A s \in 1..(section - 1) :
                CoveredBefore(sections[s].content, s, chunks', Len(sections[s].content) + 1)
          /\ CoveredBefore(Content, section, chunks', to)
      BY <1>1, <3>1, CutAdvances
    <3> QED
      BY <3>2 DEF to
  <2>5. /\ stage' = "windows" => Cutting'
        /\ stage' = "done" => NothingIsLost'
    <3> HIDE DEF isLast
    <3> QED
      BY <1>2, <2>1, <2>4, SectionEnds
  <2> QED
    BY <2>1, <2>5
<1>4. CASE ~isLast
  <2> DEFINE b == BreakAt
             to == Advance(b)
  <2>1. start - 1 + Slack < N
    BY <1>1, <1>4
  <2>2. /\ b \in Nat /\ start <= b /\ b <= start + Slack
        /\ NextStart(b) \in Nat /\ NextStart(b) > start
        /\ \A i \in Nat : b <= i /\ i < NextStart(b) => Content[i] \in Blanks
    BY <1>1, <2>1, BreakIs
  <2>3. to = IF NextStart(b) > start + Overlap THEN NextStart(b) - Overlap ELSE start + 1
    BY DEF Advance
  <2>4. /\ chunks' = Cut(start, b - 1)
        /\ IF to > N
           THEN /\ start' = 1 /\ section' = section + 1
                /\ stage' = IF section = Len(sections) THEN "done" ELSE "windows"
           ELSE start' = to /\ UNCHANGED <<section, stage>>
    BY <1>4 DEF Window
  <2>5. stage = "windows"
    BY DEF Window
  <2> HIDE DEF b, to, N, isLast
  <2>6. to \in Nat \ {0} /\ to <= NextStart(b) /\ b - 1 \in Nat /\ (b - 1) - start + 1 <= Slack
    BY <1>1, <2>2, <2>3
  <2>7. \A i \in Nat : b - 1 < i /\ i < to /\ i <= Len(Content) => Content[i] \in Blanks
    <3>1. \A i \in Nat : b - 1 < i /\ i < to => b <= i /\ i < NextStart(b)
      BY <2>2, <2>6
    <3> QED
      BY <2>2, <3>1
  <2>8. /\ IsList(chunks') /\ NoneAbove(chunks', Slack)
        /\ \A s \in 1..(section - 1) :
              CoveredBefore(sections[s].content, s, chunks', Len(sections[s].content) + 1)
        /\ CoveredBefore(Content, section, chunks', to)
    <3> DEFINE e == b - 1
    <3>1. e \in Nat /\ to \in Nat /\ e - start + 1 <= Slack /\ chunks' = Cut(start, e)
          /\ \A i \in Nat : e < i /\ i < to /\ i <= Len(Content) => Content[i] \in Blanks
      BY <2>4, <2>6, <2>7
    <3> HIDE DEF e
    <3> QED
      BY <1>1, <3>1, CutAdvances
  <2>9. CASE to > N
    <3>1. CoveredBefore(Content, section, chunks', Len(Content) + 1)
      <4>1. N = Len(Content) /\ \A i \in Solid(Content, 1, N) : i < to
        BY <1>1, <2>6, <2>9 DEF Solid, N
      <4> QED
        BY <2>8, <4>1 DEF CoveredBefore
    <3>2. /\ start' = 1 /\ section' = section + 1
          /\ stage' = IF section = Len(sections) THEN "done" ELSE "windows"
      BY <2>4, <2>9
    <3>3. /\ stage' = "windows" => Cutting'
          /\ stage' = "done" => NothingIsLost'
      BY <1>2, <2>8, <3>1, <3>2, SectionEnds
    <3> QED
      BY <3>2, <3>3
  <2>10. CASE ~(to > N)
    <3>1. start' = to /\ section' = section /\ stage' = "windows"
      BY <2>4, <2>5, <2>10
    <3>2. Slack' = Slack /\ Content' = Content
      BY <1>2, <3>1 DEF Slack, MaxChars, Content
    <3>3. \A s \in 1..(section' - 1) :
             CoveredBefore(sections'[s].content, s, chunks', Len(sections'[s].content) + 1)
      BY <1>2, <2>8, <3>1
    <3>4. CoveredBefore(Content', section', chunks', start')
      BY <2>8, <3>1, <3>2
    <3>5. section' \in 1..Len(sections') /\ start' \in Nat \ {0} /\ IsList(chunks') /\ NoneAbove(chunks', Slack')
      BY <1>1, <1>2, <2>6, <2>8, <3>1, <3>2
    <3>6. Cutting'
      BY <3>3, <3>4, <3>5 DEF Cutting
    <3> QED
      BY <3>1, <3>6
  <2> QED
    BY <2>9, <2>10
<1> QED
  BY <1>3, <1>4


-----------------------------------------------------------------------------
\* The lines.

LEMMA NothingCut ==
    ASSUME IsList(sections'), sections' # <<>>, \A s \in 1..Len(sections') : IsSection(sections'[s]),
           section' = 1, start' = 1, chunks' = <<>>
    PROVE  Cutting'
<1>1. Len(sections') \in Nat /\ 1 \in 1..Len(sections')
  BY ListFacts
<1> DEFINE text == sections'[1].content
<1>2. Len(text) \in Nat
  BY <1>1, ListFacts DEF IsSection
<1>3. CoveredBefore(text, 1, <<>>, 1)
  BY <1>2 DEF CoveredBefore, Solid
<1>4. Content' = text
  BY DEF Content
<1>5. NoneAbove(<<>>, Slack') /\ IsList(<<>>)
  <2>1. DOMAIN <<>> = {}
    OBVIOUS
  <2> QED
    BY <2>1, ListOfNone DEF NoneAbove
<1>6. 1..(section' - 1) = {}
  OBVIOUS
<1> HIDE DEF text
<1>7. CoveredBefore(Content', section', chunks', start')
  BY <1>3, <1>4
<1> QED
  BY <1>1, <1>5, <1>6, <1>7 DEF Cutting

\* A section that is kept stands where it was read.
LEMMA FlushedIs ==
    ASSUME IsList(sections), \A s \in 1..Len(sections) : IsSection(sections[s]), IsSection(current)
    PROVE  /\ IsList(Flushed) /\ \A s \in 1..Len(Flushed) : IsSection(Flushed[s])
           /\ StandsUnder(document, current) /\ (\A s \in 1..Len(sections) : StandsUnder(document, sections[s]))
                => \A s \in 1..Len(Flushed) : StandsUnder(document, Flushed[s])
<1> DEFINE text == Trim(current.content)
           new == [current EXCEPT !.content = text]
           fs == Flushed
<1>1. IsList(text)
  BY TrimIsList DEF IsSection
<1>2. fs = IF text = <<>> THEN sections ELSE Append(sections, new)
  BY DEF Flushed
<1>3. new = [level |-> current.level, path |-> current.path, content |-> text]
  <2> HIDE DEF text
  <2> QED
    BY DEF IsSection
<1> HIDE DEF text, new, fs
<1>4. new.level = current.level /\ new.path = current.path /\ new.content = text
  BY <1>3
<1>5. IsSection(new) /\ (StandsUnder(document, current) => StandsUnder(document, new))
  BY <1>1, <1>3, <1>4 DEF IsSection, StandsUnder
<1>6. CASE text = <<>>
  <2>1. fs = sections
    BY <1>2, <1>6
  <2> QED
    BY <2>1 DEF fs
<1>7. CASE text # <<>>
  <2>1. fs = Append(sections, new)
    BY <1>2, <1>7
  <2>2. /\ IsList(fs) /\ Len(fs) = Len(sections) + 1 /\ Len(sections) \in Nat
        /\ \A s \in 1..Len(sections) : fs[s] = sections[s]
        /\ fs[Len(sections) + 1] = new
    BY <2>1, ListAppend, ListFacts
  <2>3. \A s \in 1..Len(fs) : s \in 1..Len(sections) \/ s = Len(sections) + 1
    BY <2>2
  <2>4. \A s \in 1..Len(fs) : IsSection(fs[s])
    BY <1>5, <2>2, <2>3
  <2>5. StandsUnder(document, current) /\ (\A s \in 1..Len(sections) : StandsUnder(document, sections[s]))
           => \A s \in 1..Len(fs) : StandsUnder(document, fs[s])
    BY <1>5, <2>2, <2>3
  <2> QED
    BY <2>2, <2>4, <2>5 DEF fs
<1> QED
  BY <1>6, <1>7

LEMMA HeadFacts ==
    ASSUME NEW d \in SplitInputs, NEW n \in 1..(Len(d.lines) + 1)
    PROVE  /\ HeadsOf(d) \in SUBSET Nat
           /\ HeadsBefore(d, n) \in SUBSET (0..n)
           /\ HeadsBefore(d, n) # {} =>
                 /\ Max(HeadsBefore(d, n)) \in HeadsBefore(d, n)
                 /\ \A i \in HeadsBefore(d, n) : i <= Max(HeadsBefore(d, n))
<1>1. Len(d.lines) \in Nat /\ DOMAIN d.lines = 1..Len(d.lines)
  BY DocumentFacts
<1>2. HeadsOf(d) \in SUBSET Nat
  BY <1>1 DEF HeadsOf
<1>3. HeadsBefore(d, n) \in SUBSET (0..n) /\ n \in Nat
  BY <1>1, <1>2 DEF HeadsBefore
<1>4. HeadsBefore(d, n) # {} =>
         /\ Max(HeadsBefore(d, n)) \in HeadsBefore(d, n)
         /\ \A i \in HeadsBefore(d, n) : Max(HeadsBefore(d, n)) >= i
  BY <1>3, GreatestNumber
<1> QED
  BY <1>2, <1>3, <1>4

\* Without a skipped level, a heading goes under the last headings of the levels
\* above it.
LEMMA PathGrows ==
    ASSUME document \in SplitInputs, NoSkips(document), IsList(path), PathOfLast,
           line \in HeadsOf(document), NEW grown,
           grown = Append(Breadcrumb(document.lines[line].level), line)
    PROVE  /\ IsList(grown) /\ grown # <<>> /\ Last(grown) = line
           /\ Len(grown) = document.lines[line].level
           /\ Ancestry(document, grown)
<1> DEFINE Level(i) == document.lines[i].level
           l == Level(line)
           m == Len(path)
           heads == HeadsOf(document)
           H == HeadsBefore(document, line)
           kept == Breadcrumb(l)
<1>1. /\ line \in Nat /\ line \in 1..(Len(document.lines) + 1)
      /\ m \in Nat /\ l \in Nat /\ l > 0
  BY DocumentFacts, ListFacts DEF HeadsOf
<1>2. /\ heads \in SUBSET Nat /\ H = {j \in heads : j < line}
      /\ H # {} => Max(H) \in H /\ \A i \in H : i <= Max(H)
  BY <1>1, HeadFacts DEF HeadsBefore
<1>3. l - 1 <= m
  <2>1. l <= 1 + (IF H = {} THEN 0 ELSE Level(Max(H)))
    BY DEF NoSkips
  <2>2. CASE H = {}
    BY <1>1, <2>1, <2>2
  <2>3. CASE H # {}
    <3>1. Level(Max(H)) = m
      BY <2>3 DEF PathOfLast
    <3>2. l <= 1 + m
      BY <2>1, <2>3, <3>1
    <3> HIDE DEF l, m
    <3> QED
      BY <1>1, <3>2
  <2> QED
    BY <2>2, <2>3
<1>4. kept = SubSeq(path, 1, l - 1)
  <2>1. Min({m, l - 1}) = l - 1
    <3> HIDE DEF l, m
    <3>1. l - 1 \in Int /\ m \in Int
      BY <1>1
    <3>2. Min({m, l - 1}) = IF m <= l - 1 THEN m ELSE l - 1
      BY <3>1, MinOfTwo
    <3> QED
      BY <1>1, <1>3, <3>2
  <2> QED
    BY <2>1 DEF Breadcrumb
<1> HIDE DEF l, m, kept
<1>5. IsList(kept) /\ Len(kept) = l - 1 /\ \A k \in 1..(l - 1) : kept[k] = path[k]
  <2>1. PICK T : path \in Seq(T)
    BY DEF IsList
  <2>2. l - 1 \in 0..m /\ m = Len(path)
    BY <1>1, <1>3 DEF m
  <2> DEFINE n == l - 1
  <2> HIDE DEF n
  <2>3. n \in 0..Len(path)
    BY <2>2 DEF n
  <2>4. /\ SubSeq(path, 1, n) \in Seq(T) /\ Len(SubSeq(path, 1, n)) = n
        /\ \A k \in 1..n : SubSeq(path, 1, n)[k] = path[k]
    BY <2>1, <2>3
  <2> QED
    BY <1>4, <2>4 DEF n, IsList
<1>6. /\ IsList(grown) /\ Len(grown) = l /\ grown[l] = line
      /\ \A k \in 1..(l - 1) : grown[k] = path[k]
  <2>1. grown = Append(kept, line)
    BY DEF kept, l
  <2>2. /\ IsList(grown) /\ Len(grown) = Len(kept) + 1 /\ grown[Len(kept) + 1] = line
        /\ \A k \in 1..Len(kept) : grown[k] = kept[k]
    BY <1>5, <2>1, ListAppend
  <2> QED
    BY <1>1, <1>5, <2>2
<1>7. DOMAIN grown = 1..l /\ grown # <<>> /\ Last(grown) = line
  BY <1>1, <1>6, ListFacts DEF Last
<1> DEFINE Upto(n, k) == {i \in heads : i <= n /\ Level(i) = k}
<1>8. ASSUME NEW k \in 1..l
      PROVE  grown[k] = Max(Upto(line, k))
  <2>1. Upto(line, k) \in SUBSET (0..line)
    BY <1>1, <1>2
  <2>2. CASE k = l
    <3>1. line \in Upto(line, k)
      BY <1>1, <2>2 DEF l
    <3> DEFINE S == Upto(line, k)
    <3>2. Max(S) \in S /\ \A y \in S : Max(S) >= y
      <4> HIDE DEF S
      <4>1. S \in SUBSET (0..line) /\ S # {}
        BY <2>1, <3>1 DEF S
      <4> QED
        BY <1>1, <4>1, GreatestNumber
    <3>3. Max(S) <= line /\ Max(S) >= line /\ Max(S) \in Nat
      BY <1>2, <3>1, <3>2
    <3> HIDE DEF S
    <3>4. Max(S) = line
      BY <1>1, <3>3
    <3> QED
      BY <1>6, <2>2, <3>4 DEF S
  <2>3. CASE k # l
    <3>1. k \in 1..(l - 1) /\ k \in 1..m
      BY <1>1, <1>3, <2>3
    <3>2. path # <<>> /\ DOMAIN path = 1..m
      BY <1>1, <3>1, ListFacts DEF m
    <3>3. /\ H # {} /\ Last(path) = Max(H)
          /\ path[k] = Max(Upto(Last(path), k))
      BY <3>1, <3>2 DEF PathOfLast, Ancestry
    <3>4. Upto(Last(path), k) = Upto(line, k)
      <4>1. ASSUME NEW i \in heads, Level(i) = k
            PROVE  i <= Last(path) <=> i <= line
        <5>1. i # line
          BY <2>3, <4>1 DEF l
        <5>2. Max(H) \in heads /\ Max(H) < line /\ (i < line => i <= Max(H))
          BY <1>2, <3>3
        <5>3. i \in Nat /\ Max(H) \in Nat
          BY <1>2, <5>2
        <5> DEFINE h == Max(H)
        <5> HIDE DEF h
        <5>4. i \in Nat /\ h \in Nat /\ h < line /\ (i < line => i <= h) /\ Last(path) = h
          BY <3>3, <5>2, <5>3 DEF h
        <5> QED
          BY <1>1, <5>1, <5>4
      <4> QED
        BY <4>1
    <3> HIDE DEF Upto
    <3> QED
      BY <1>6, <3>1, <3>3, <3>4
  <2> QED
    BY <2>2, <2>3
<1>9. Ancestry(document, grown)
  BY <1>7, <1>8 DEF Ancestry
<1> QED
  BY <1>6, <1>7, <1>9 DEF l


\* What Reading says of the sections and of the section being read.
LEMMA ReadSoFar ==
    ASSUME SplitInv, stage = "lines"
    PROVE  /\ document \in SplitInputs /\ Reading
           /\ IsList(Flushed) /\ \A s \in 1..Len(Flushed) : IsSection(Flushed[s])
           /\ NoSkips(document) => \A s \in 1..Len(Flushed) : StandsUnder(document, Flushed[s])
<1>1. /\ document \in SplitInputs /\ Reading
      /\ IsList(sections) /\ \A s \in 1..Len(sections) : IsSection(sections[s])
      /\ NoSkips(document) => \A s \in 1..Len(sections) : StandsUnder(document, sections[s])
  BY DEF SplitInv
<1>2. NoSkips(document) => StandsUnder(document, current)
  <2>1. DOMAIN <<>> = {}
    OBVIOUS
  <2>2. PathOfLast => Ancestry(document, path)
    BY <2>1 DEF PathOfLast, Ancestry
  <2> QED
    BY <1>1, <2>2 DEF Reading, StandsUnder
<1>3. IsSection(current)
  BY <1>1 DEF Reading
<1> QED
  BY <1>1, <1>2, <1>3, FlushedIs

LEMMA ReadKeeps ==
    ASSUME SplitInv, ReadLine
    PROVE  SplitInv'
<1> DEFINE l == document.lines[line]
           N == Len(document.lines)
           fl == Flushed
<1>1. /\ stage = "lines" /\ line <= N /\ line' = line + 1
      /\ UNCHANGED <<document, stage, section, start, chunks>>
  BY DEF ReadLine
<1>2. /\ document \in SplitInputs /\ Reading
      /\ IsList(fl) /\ \A s \in 1..Len(fl) : IsSection(fl[s])
      /\ NoSkips(document) => \A s \in 1..Len(fl) : StandsUnder(document, fl[s])
      /\ IsList(sections) /\ \A s \in 1..Len(sections) : IsSection(sections[s])
      /\ NoSkips(document) => \A s \in 1..Len(sections) : StandsUnder(document, sections[s])
  BY <1>1, ReadSoFar DEF SplitInv
<1>3. /\ N \in Nat /\ DOMAIN document.lines = 1..N /\ line \in 1..N
      /\ line' \in 1..(N + 1) /\ line \in 1..(N + 1)
      /\ l.level \in Nat /\ IsList(l.text)
  <2>1. N \in Nat /\ DOMAIN document.lines = 1..N
    BY <1>2, DocumentFacts
  <2>2. line \in 1..N /\ line' \in 1..(N + 1) /\ line \in 1..(N + 1)
    <3>1. line \in 1..(N + 1)
      BY <1>2 DEF Reading
    <3> HIDE DEF N
    <3> QED
      BY <1>1, <2>1, <3>1
  <2> QED
    BY <1>2, <2>1, <2>2, DocumentFacts
<1>4. HeadsBefore(document, line + 1) = HeadsBefore(document, line) \cup (IF l.level > 0 THEN {line} ELSE {})
  <2>1. line \in HeadsOf(document) <=> l.level > 0
    BY <1>3 DEF HeadsOf
  <2>2. \A i \in HeadsOf(document) : i < line + 1 <=> i < line \/ i = line
    <3>1. HeadsOf(document) \subseteq Nat /\ line \in Nat
      BY <1>2, <1>3, HeadFacts
    <3> QED
      BY <3>1
  <2> QED
    BY <2>1, <2>2 DEF HeadsBefore
<1>5. ASSUME l.level > 0
      PROVE  /\ Reading' /\ sections' = fl
  <2>1. /\ sections' = fl
        /\ path' = Append(Breadcrumb(l.level), line)
        /\ current' = [level |-> l.level, path |-> path', content |-> <<>>]
    BY <1>5 DEF ReadLine
  <2>2. current'.level = l.level /\ current'.path = path' /\ current'.content = <<>>
    BY <2>1
  <2>3. IsList(path')
    <3> DEFINE kept == Breadcrumb(l.level)
    <3>1. path' = Append(kept, line)
      BY <2>1
    <3>2. IsList(kept)
      <4> DEFINE m == Len(path)
                 n == Min({m, l.level - 1})
      <4>1. m \in Nat /\ l.level - 1 \in Int
        BY <1>2, <1>3, <1>5, ListFacts DEF Reading
      <4>2. n \in Int /\ n <= m
        <5>1. n = IF m <= l.level - 1 THEN m ELSE l.level - 1
          BY <4>1, MinOfTwo
        <5> HIDE DEF n, m
        <5> QED
          BY <4>1, <5>1
      <4>3. kept = SubSeq(path, 1, n)
        BY DEF Breadcrumb
      <4> HIDE DEF n, kept
      <4>4. PICK T : path \in Seq(T)
        BY <1>2 DEF Reading, IsList
      <4>5. SubSeq(path, 1, n) \in Seq(T)
        BY <4>1, <4>2, <4>4
      <4> QED
        BY <4>3, <4>5 DEF IsList
    <3> HIDE DEF kept
    <3> QED
      BY <3>1, <3>2, ListAppend
  <2>4. IsSection(current')
    BY <2>1, <2>2, <2>3, ListOfNone DEF IsSection
  <2>5. ASSUME NoSkips(document)
        PROVE  PathOfLast' /\ current'.path = path' /\ current'.level = Len(path')
    <3>1. line \in HeadsOf(document) /\ PathOfLast /\ IsList(path)
      BY <1>2, <1>3, <1>5, <2>5 DEF HeadsOf, Reading
    <3>2. /\ path' # <<>> /\ Last(path') = line /\ Len(path') = l.level
          /\ Ancestry(document, path')
      <4> DEFINE grown == path'
      <4>1. grown = Append(Breadcrumb(document.lines[line].level), line)
        BY <2>1
      <4> HIDE DEF grown
      <4>2. /\ grown # <<>> /\ Last(grown) = line
            /\ Len(grown) = document.lines[line].level
            /\ Ancestry(document, grown)
        BY <1>2, <2>5, <3>1, <4>1, PathGrows
      <4> QED
        BY <4>2 DEF grown
    <3> DEFINE H == HeadsBefore(document, line + 1)
    <3>3. line \in H
      BY <1>4, <1>5
    <3>4. line + 1 \in 1..(N + 1)
      BY <1>1, <1>3
    <3>5. \A i \in H : i <= line
      <4>1. HeadsOf(document) \subseteq Nat /\ line \in Nat
        BY <1>2, <1>3, HeadFacts
      <4> QED
        BY <4>1 DEF HeadsBefore
    <3>6. Max(H) = line
      <4>1. Max(H) \in H /\ \A i \in H : i <= Max(H)
        BY <1>2, <3>3, <3>4, HeadFacts
      <4>2. H \subseteq Nat
        BY <1>2, <3>4, HeadFacts DEF HeadsBefore
      <4> HIDE DEF H
      <4>3. Max(H) \in Nat /\ line \in Nat /\ Max(H) <= line /\ line <= Max(H)
        BY <3>3, <3>5, <4>1, <4>2
      <4> QED
        BY <4>3
    <3>7. HeadsBefore(document', line') = H
      BY <1>1
    <3> HIDE DEF H
    <3>8. PathOfLast'
      BY <1>1, <3>2, <3>3, <3>6, <3>7 DEF PathOfLast
    <3> QED
      BY <2>2, <3>2, <3>8
  <2>6. Reading'
    BY <1>1, <1>2, <1>3, <2>3, <2>4, <2>5 DEF Reading
  <2> QED
    BY <2>1, <2>6
<1>6. ASSUME ~(l.level > 0)
      PROVE  Reading' /\ sections' = sections
  <2>1. /\ UNCHANGED <<sections, path>>
        /\ current' = [current EXCEPT !.content = Join(@, l.text)]
    BY <1>6 DEF ReadLine
  <2>2. IsList(Join(current.content, l.text))
    BY <1>2, <1>3, JoinIsList DEF Reading, IsSection
  <2>3. current' = [level |-> current.level, path |-> current.path, content |-> Join(current.content, l.text)]
    <3> DEFINE t == Join(current.content, l.text)
    <3>1. current' = [current EXCEPT !.content = t]
      BY <2>1
    <3> HIDE DEF t
    <3>2. current = [level |-> current.level, path |-> current.path, content |-> current.content]
      BY <1>2 DEF Reading, IsSection
    <3>3. current' = [level |-> current.level, path |-> current.path, content |-> t]
      BY <3>1, <3>2
    <3> QED
      BY <3>3 DEF t
  <2>4. IsSection(current') /\ current'.level = current.level /\ current'.path = current.path
    <3> DEFINE t == Join(current.content, l.text)
    <3>1. current' = [level |-> current.level, path |-> current.path, content |-> t] /\ IsList(t)
      BY <2>2, <2>3
    <3> HIDE DEF t
    <3>2. current'.level = current.level /\ current'.path = current.path /\ current'.content = t
      BY <3>1
    <3> QED
      BY <1>2, <3>1, <3>2 DEF IsSection, Reading
  <2>5. HeadsBefore(document', line') = HeadsBefore(document, line)
    BY <1>1, <1>4, <1>6
  <2>6. PathOfLast => PathOfLast'
    BY <1>1, <2>1, <2>5 DEF PathOfLast
  <2>7. Reading'
    BY <1>1, <1>2, <1>3, <2>1, <2>4, <2>6 DEF Reading
  <2> QED
    BY <2>1, <2>7
<1>7. sections' = fl \/ sections' = sections
  BY <1>5, <1>6
<1> HIDE DEF fl, l
<1>8. /\ IsList(sections') /\ \A s \in 1..Len(sections') : IsSection(sections'[s])
      /\ NoSkips(document) => \A s \in 1..Len(sections') : StandsUnder(document, sections'[s])
  BY <1>2, <1>7
<1>9. Reading'
  BY <1>5, <1>6
<1> QED
  BY <1>1, <1>2, <1>8, <1>9 DEF SplitInv

\* A document that is cut as one section.
LEMMA OneSection ==
    ASSUME NEW d \in SplitInputs, NEW ss, ss = <<[NoSection EXCEPT !.content = WholeText(d)]>>
    PROVE  /\ IsList(ss) /\ ss # <<>> /\ Len(ss) = 1
           /\ \A s \in 1..Len(ss) : IsSection(ss[s]) /\ StandsUnder(d, ss[s])
<1> DEFINE text == WholeText(d)
           c == [NoSection EXCEPT !.content = text]
<1>1. IsList(text)
  BY WholeTextIsList
<1>2. ss = <<c>>
  OBVIOUS
<1> HIDE DEF text
<1>3. c = [level |-> 0, path |-> <<>>, content |-> text]
  BY DEF NoSection
<1> HIDE DEF c
<1>4. c.level = 0 /\ c.path = <<>> /\ c.content = text
  BY <1>3
<1>5. IsSection(c) /\ StandsUnder(d, c)
  <2>1. DOMAIN <<>> = {}
    OBVIOUS
  <2>2. Ancestry(d, <<>>) /\ Len(<<>>) = 0 /\ IsList(<<>>)
    BY <2>1, ListOfNone DEF Ancestry
  <2> QED
    BY <1>1, <1>3, <1>4, <2>2 DEF IsSection, StandsUnder
<1>6. IsList(ss) /\ Len(ss) = 1 /\ ss[1] = c
  BY <1>2, ListOfOne
<1>7. \A s \in 1..Len(ss) : ss[s] = c
  BY <1>6
<1>8. ss # <<>>
  BY <1>6, ListFacts
<1> QED
  BY <1>5, <1>6, <1>7, <1>8

LEMMA EndLinesKeeps ==
    ASSUME SplitInv, EndLines
    PROVE  SplitInv'
<1> DEFINE fl == Flushed
           one == <<[NoSection EXCEPT !.content = WholeText(document)]>>
<1>1. /\ stage = "lines" /\ stage' = "windows"
      /\ sections' = IF fl = <<>> THEN one ELSE fl
      /\ UNCHANGED <<document, line, path, current, section, start, chunks>>
  BY DEF EndLines
<1>2. /\ document \in SplitInputs /\ Reading
      /\ IsList(fl) /\ \A s \in 1..Len(fl) : IsSection(fl[s])
      /\ NoSkips(document) => \A s \in 1..Len(fl) : StandsUnder(document, fl[s])
  BY <1>1, ReadSoFar
<1>3. /\ IsList(one) /\ one # <<>>
      /\ \A s \in 1..Len(one) : IsSection(one[s]) /\ StandsUnder(document, one[s])
  BY <1>2, OneSection
<1> HIDE DEF fl, one
<1>4. /\ IsList(sections') /\ sections' # <<>> /\ \A s \in 1..Len(sections') : IsSection(sections'[s])
      /\ NoSkips(document) => \A s \in 1..Len(sections') : StandsUnder(document, sections'[s])
  <2>1. CASE fl = <<>>
    BY <1>1, <1>3, <2>1
  <2>2. CASE fl # <<>>
    BY <1>1, <1>2, <2>2
  <2> QED
    BY <2>1, <2>2
<1>5. section' = 1 /\ start' = 1 /\ chunks' = <<>>
  BY <1>1, <1>2 DEF Reading
<1>6. Cutting'
  BY <1>4, <1>5, NothingCut
<1> QED
  BY <1>1, <1>2, <1>4, <1>6 DEF SplitInv

LEMMA SplitBegins ==
    ASSUME SplitInv, Split
    PROVE  SplitInv'
<1>1. PICK d \in SplitInputs :
          /\ document' = d
          /\ IF WholeText(d) = <<>> THEN stage' = "done" /\ UNCHANGED sections
             ELSE IF d.splitter = "markdown" THEN stage' = "lines" /\ UNCHANGED sections
             ELSE stage' = "windows" /\ sections' = <<[NoSection EXCEPT !.content = WholeText(d)]>>
  BY DEF Split
<1>2. /\ UNCHANGED <<line, path, current, section, start, chunks>>
      /\ line = 1 /\ path = <<>> /\ current = NoSection /\ sections = <<>>
      /\ section = 1 /\ start = 1 /\ chunks = <<>>
  BY DEF Split, SplitInv
<1>3. IsList(<<>>) /\ Len(<<>>) = 0 /\ DOMAIN <<>> = {} /\ 1..0 = {}
  BY ListOfNone
<1>4. CASE stage' = "done" /\ sections' = <<>>
  <2>1. NothingIsLost'
    BY <1>2, <1>3, <1>4 DEF NothingIsLost
  <2> QED
    BY <1>1, <1>3, <1>4, <2>1 DEF SplitInv
<1>5. CASE stage' = "lines" /\ sections' = <<>>
  <2>1. IsSection(NoSection) /\ NoSection.path = <<>> /\ NoSection.level = 0
    BY <1>3 DEF IsSection, NoSection
  <2>2. 1 \in 1..(Len(d.lines) + 1) /\ Len(d.lines) \in Nat
    BY DocumentFacts
  <2>3. HeadsBefore(d, 1) = {}
    <3>1. DOMAIN d.lines = 1..Len(d.lines)
      BY DocumentFacts
    <3> QED
      BY <2>2, <3>1 DEF HeadsBefore, HeadsOf
  <2>4. PathOfLast'
    BY <1>1, <1>2, <2>3 DEF PathOfLast
  <2>5. Reading'
    BY <1>1, <1>2, <1>3, <2>1, <2>2, <2>4 DEF Reading
  <2> QED
    BY <1>1, <1>3, <1>5, <2>5 DEF SplitInv
<1>6. CASE stage' = "windows" /\ sections' = <<[NoSection EXCEPT !.content = WholeText(d)]>>
  <2>1. /\ IsList(sections') /\ sections' # <<>>
        /\ \A s \in 1..Len(sections') : IsSection(sections'[s]) /\ StandsUnder(d, sections'[s])
    <3> DEFINE ss == sections'
    <3>1. ss = <<[NoSection EXCEPT !.content = WholeText(d)]>>
      BY <1>6
    <3> HIDE DEF ss
    <3>2. /\ IsList(ss) /\ ss # <<>>
          /\ \A s \in 1..Len(ss) : IsSection(ss[s]) /\ StandsUnder(d, ss[s])
      BY <3>1, OneSection
    <3> QED
      BY <3>2 DEF ss
  <2>2. section' = 1 /\ start' = 1 /\ chunks' = <<>>
    BY <1>2
  <2>3. Cutting'
    BY <2>1, <2>2, NothingCut
  <2>4. stage' = "windows"
    BY <1>6
  <2> QED
    BY <1>1, <2>1, <2>3, <2>4 DEF SplitInv
<1>7. \/ stage' = "done" /\ sections' = <<>>
      \/ stage' = "lines" /\ sections' = <<>>
      \/ stage' = "windows" /\ sections' = <<[NoSection EXCEPT !.content = WholeText(d)]>>
  BY <1>1, <1>2
<1> QED
  BY <1>4, <1>5, <1>6, <1>7


LEMMA WindowStays ==
    ASSUME SplitInv, Window
    PROVE  SplitInv'
<1>1. /\ stage = "windows" /\ UNCHANGED <<document, line, path, current, sections>>
  BY DEF Window
<1>2. /\ document \in SplitInputs /\ Cutting
      /\ IsList(sections) /\ \A s \in 1..Len(sections) : IsSection(sections[s])
      /\ NoSkips(document) => \A s \in 1..Len(sections) : StandsUnder(document, sections[s])
  BY <1>1 DEF SplitInv
<1>3. /\ stage' \in {"windows", "done"}
      /\ stage' = "windows" => Cutting'
      /\ stage' = "done" => NothingIsLost'
  BY <1>2, WindowKeeps
<1> QED
  BY <1>1, <1>2, <1>3 DEF SplitInv

LEMMA SplitStarts == ASSUME SplitInit PROVE SplitInv
<1>1. IsList(<<>>) /\ Len(<<>>) = 0 /\ 1..0 = {}
  BY ListOfNone
<1> QED
  BY <1>1 DEF SplitInit, SplitInv

LEMMA SplitStays ==
    ASSUME SplitInv, UNCHANGED splitVars
    PROVE  SplitInv'
<1>1. UNCHANGED <<document, stage, line, path, current, sections, section, start, chunks>>
  BY DEF splitVars
<1>2. Reading => Reading'
  BY <1>1 DEF Reading, PathOfLast
<1>3. Slack' = Slack /\ Content' = Content
  BY <1>1 DEF Slack, MaxChars, Content
<1>4. Cutting => Cutting'
  BY <1>1, <1>3 DEF Cutting
<1>5. NothingIsLost => NothingIsLost'
  BY <1>1, <1>3 DEF NothingIsLost
<1> QED
  BY <1>1, <1>2, <1>4, <1>5 DEF SplitInv

LEMMA SplitSteps ==
    ASSUME SplitInv, Split \/ SplitStep
    PROVE  SplitInv'
  BY SplitBegins, ReadKeeps, EndLinesKeeps, WindowStays DEF SplitStep

LEMMA SplittingHeld == ASSUME SplitInv PROVE ChunksKeepTheDocument
<1>1. NothingIsLost
  BY DEF SplitInv, NothingIsLost
<1>2. BreadcrumbsAreAncestors
  <2> DEFINE Level(i) == document.lines[i].level
             Heads    == {i \in DOMAIN document.lines : Level(i) > 0}
             Earlier(i) == {j \in Heads : j < i}
             NoSkip   == \A i \in Heads : Level(i) <= 1 + (IF Earlier(i) = {} THEN 0 ELSE Level(Max(Earlier(i))))
  <2>1. NoSkip <=> NoSkips(document)
    BY DEF NoSkips, HeadsOf, HeadsBefore
  <2>2. ASSUME NoSkips(document), NEW s \in DOMAIN sections
        PROVE  /\ Len(sections[s].path) = sections[s].level
               /\ \A k \in DOMAIN sections[s].path :
                     sections[s].path[k] = Max({i \in Heads : i <= Last(sections[s].path) /\ Level(i) = k})
    <3>1. StandsUnder(document, sections[s])
      BY <2>2, ListFacts DEF SplitInv
    <3> QED
      BY <3>1 DEF StandsUnder, Ancestry, HeadsOf
  <2>3. BreadcrumbsAreAncestors =
           ((stage = "done" /\ NoSkip) =>
               \A s \in DOMAIN sections :
                  /\ Len(sections[s].path) = sections[s].level
                  /\ \A k \in DOMAIN sections[s].path :
                        sections[s].path[k] = Max({i \in Heads : i <= Last(sections[s].path) /\ Level(i) = k}))
    BY Zenon DEF BreadcrumbsAreAncestors
  <2> HIDE DEF NoSkip, Heads
  <2> QED
    BY <2>1, <2>2, <2>3
<1> QED
  BY <1>1, <1>2 DEF ChunksKeepTheDocument

-----------------------------------------------------------------------------
\* The resolution of names: forests of clusters.

\* Everyone hangs under one that is not above it; the lowest of a tree is its root.
IsForest(F, N) == F \in [1..N -> 1..N] /\ \A y \in 1..N : F[y] <= y

\* What a recursion to the root gives.
Tops(F, N, g) == [y \in 1..N |-> IF F[y] = y THEN y ELSE g[F[y]]]

LEMMA TopsExist ==
    ASSUME NEW N \in Nat, NEW F, IsForest(F, N)
    PROVE  \E g \in [1..N -> 1..N] : g = Tops(F, N, g)
<1> DEFINE Upto(g, m) == /\ g \in [1..m -> 1..N]
                         /\ \A y \in 1..m : g[y] = IF F[y] = y THEN y ELSE g[F[y]]
           Holds == {m \in 0..N : \E g : Upto(g, m)}
<1>1. \A y \in 1..N : F[y] \in 1..N /\ F[y] <= y
  BY DEF IsForest
<1>2. 0 \in Holds
  <2>1. 1..0 = {} /\ 0 \in 0..N
    OBVIOUS
  <2> DEFINE e == [y \in 1..0 |-> y]
  <2>2. e \in [1..0 -> 1..N]
    BY <2>1
  <2> HIDE DEF e
  <2>3. Upto(e, 0)
    BY <2>1, <2>2
  <2> HIDE DEF Upto
  <2> QED
    BY <2>1, <2>3
<1>3. ASSUME NEW m \in 1..N, m - 1 \in Holds
      PROVE  m \in Holds
  <2>1. PICK f : Upto(f, m - 1)
    BY <1>3
  <2>2. m \in Nat /\ m \in 1..m /\ m \in 0..N /\ m \in 1..N
    OBVIOUS
  <2>3. \A y \in 1..m : y # m => y \in 1..(m - 1)
    BY <2>2
  <2>4. F[m] # m => F[m] \in 1..(m - 1)
    BY <1>1, <2>2
  <2> DEFINE last == IF F[m] = m THEN m ELSE f[F[m]]
             g == [y \in 1..m |-> IF y = m THEN last ELSE f[y]]
  <2>5. last \in 1..N
    BY <2>1, <2>2, <2>4
  <2>6. last = IF F[m] = m THEN m ELSE f[F[m]]
    OBVIOUS
  <2> HIDE DEF last
  <2>7. g \in [1..m -> 1..N]
    BY <2>1, <2>3, <2>5
  <2>8. ASSUME NEW y \in 1..m
        PROVE  g[y] = IF F[y] = y THEN y ELSE g[F[y]]
    <3>1. y \in 1..N /\ (F[y] # y => F[y] \in 1..(m - 1) /\ F[y] \in 1..m /\ F[y] # m)
      BY <1>1, <2>2
    <3>2. F[y] # y => g[F[y]] = f[F[y]]
      BY <3>1
    <3>3. g[y] = IF y = m THEN last ELSE f[y]
      OBVIOUS
    <3>4. y # m => f[y] = IF F[y] = y THEN y ELSE f[F[y]]
      BY <2>1, <2>3
    <3> HIDE DEF g, Upto
    <3> QED
      BY <2>6, <3>1, <3>2, <3>3, <3>4
  <2> HIDE DEF g
  <2>9. Upto(g, m)
    BY <2>7, <2>8
  <2> HIDE DEF Upto
  <2> QED
    BY <2>2, <2>9
<1>4. Holds \in SUBSET (0..N)
  OBVIOUS
<1>5. Holds = 0..N
  <2> HIDE DEF Holds
  <2> QED
    BY <1>2, <1>3, <1>4, CountingUp
<1>6. PICK g : Upto(g, N)
  <2>1. N \in 0..N
    OBVIOUS
  <2> HIDE DEF Upto
  <2> QED
    BY <1>5, <2>1
<1>7. g \in [1..N -> 1..N] /\ \A y \in 1..N : g[y] = IF F[y] = y THEN y ELSE g[F[y]]
  BY <1>6
<1>8. g = Tops(F, N, g)
  BY <1>7 DEF Tops
<1> QED
  BY <1>7, <1>8

LEMMA TopsAgree ==
    ASSUME NEW N \in Nat, NEW F, IsForest(F, N),
           NEW f, f = Tops(F, N, f), NEW g, g = Tops(F, N, g)
    PROVE  f = g
<1> DEFINE Bad == {y \in 1..N : f[y] # g[y]}
<1>1. /\ \A y \in 1..N : F[y] \in 1..N /\ F[y] <= y
      /\ \A y \in 1..N : f[y] = IF F[y] = y THEN y ELSE f[F[y]]
      /\ \A y \in 1..N : g[y] = IF F[y] = y THEN y ELSE g[F[y]]
      /\ f = [y \in 1..N |-> f[y]] /\ g = [y \in 1..N |-> g[y]]
  BY DEF IsForest, Tops
<1>2. ASSUME Bad # {} PROVE FALSE
  <2>1. Bad \in SUBSET Nat
    OBVIOUS
  <2>2. PICK b \in Bad : \A y \in Bad : b <= y
    <3> HIDE DEF Bad
    <3> QED
      BY <1>2, <2>1, LeastNumber
  <2>3. b \in 1..N /\ f[b] # g[b]
    OBVIOUS
  <2>4. F[b] # b /\ F[b] \in 1..N /\ f[F[b]] # g[F[b]] /\ F[b] <= b
    BY <1>1, <2>3
  <2>5. b <= F[b]
    BY <2>2, <2>4
  <2> QED
    BY <2>3, <2>4, <2>5
<1>3. \A y \in 1..N : f[y] = g[y]
  BY <1>2
<1> HIDE DEF Bad
<1> QED
  BY <1>1, <1>3

LEMMA RootIsTop ==
    ASSUME NEW N \in Nat, NEW F, IsForest(F, N), NEW f, f = Tops(F, N, f), NEW x \in 1..N
    PROVE  Root(F, x) = f[x]
<1> DEFINE Above(g) == [y \in DOMAIN F |-> IF F[y] = y THEN y ELSE g[F[y]]]
           root == CHOOSE g : g = Above(g)
<1>1. Root(F, x) = root[x]
  BY DEF Root
<1>2. DOMAIN F = 1..N
  BY DEF IsForest
<1>3. \A g : Above(g) = Tops(F, N, g)
  BY <1>2 DEF Tops
<1>4. f = Above(f)
  BY <1>3
<1>5. root = Above(root)
  <2> HIDE DEF Above
  <2> QED
    BY <1>4
<1> HIDE DEF root
<1>6. root = Tops(F, N, root)
  BY <1>3, <1>5
<1>7. root = f
  BY <1>6, TopsAgree
<1> QED
  BY <1>1, <1>7

\* A root is its own root, and that of all above which it is.
LEMMA Roots ==
    ASSUME NEW N \in Nat, NEW F, IsForest(F, N), NEW x \in 1..N
    PROVE  /\ Root(F, x) \in 1..N
           /\ Root(F, F[x]) = Root(F, x)
           /\ Root(F, Root(F, x)) = Root(F, x)
           /\ F[Root(F, x)] = Root(F, x)
           /\ F[x] = x => Root(F, x) = x
<1>1. PICK g \in [1..N -> 1..N] : g = Tops(F, N, g)
  BY TopsExist
<1>2. \A y \in 1..N : Root(F, y) = g[y]
  BY <1>1, RootIsTop
<1>3. \A y \in 1..N : g[y] = IF F[y] = y THEN y ELSE g[F[y]]
  BY <1>1 DEF Tops
<1>4. \A y \in 1..N : F[y] \in 1..N /\ F[y] <= y
  BY DEF IsForest
<1> DEFINE Bad == {y \in 1..N : F[g[y]] # g[y]}
<1>5. ASSUME Bad # {} PROVE FALSE
  <2>1. Bad \in SUBSET Nat
    OBVIOUS
  <2>2. PICK b \in Bad : \A y \in Bad : b <= y
    <3> HIDE DEF Bad
    <3> QED
      BY <1>5, <2>1, LeastNumber
  <2>3. b \in 1..N /\ F[g[b]] # g[b]
    OBVIOUS
  <2>4. F[b] # b /\ g[b] = g[F[b]] /\ F[b] \in 1..N /\ F[b] <= b
    BY <1>3, <1>4, <2>3
  <2>5. F[b] \in Bad
    BY <2>3, <2>4
  <2>6. b <= F[b]
    BY <2>2, <2>5
  <2> QED
    BY <2>3, <2>4, <2>6
<1>6. \A y \in 1..N : F[g[y]] = g[y]
  BY <1>5
<1>7. \A y \in 1..N : g[y] \in 1..N
  BY <1>1
<1>8. g[F[x]] = g[x] /\ g[g[x]] = g[x] /\ (F[x] = x => g[x] = x)
  BY <1>3, <1>4, <1>6, <1>7
<1> QED
  BY <1>2, <1>4, <1>6, <1>7, <1>8


\* In H the elements of P hang under their grandparents.
HalvedOn(H, F, N, P) == H = [y \in 1..N |-> IF y \in P THEN F[F[y]] ELSE F[y]]

\* In U the element b hangs under a.
LinkedTo(U, F, a, b) == U = [F EXCEPT ![b] = a]

\* Hanging elements under their grandparents leaves every root alone.
LEMMA HalvingKeepsRoots ==
    ASSUME NEW N \in Nat, NEW F, IsForest(F, N), NEW P, NEW H, HalvedOn(H, F, N, P)
    PROVE  IsForest(H, N) /\ \A y \in 1..N : Root(H, y) = Root(F, y)
<1>1. \A y \in 1..N : F[y] \in 1..N /\ F[y] <= y /\ F[F[y]] \in 1..N /\ F[F[y]] <= F[y]
  BY DEF IsForest
<1>2. \A y \in 1..N : H[y] = IF y \in P THEN F[F[y]] ELSE F[y]
  BY DEF HalvedOn
<1>3. \A y \in 1..N : H[y] \in 1..N /\ H[y] <= y
  <2> SUFFICES ASSUME NEW y \in 1..N PROVE H[y] \in 1..N /\ H[y] <= y
    OBVIOUS
  <2>1. F[y] \in 1..N /\ F[y] <= y /\ F[F[y]] \in 1..N /\ F[F[y]] <= F[y]
    BY <1>1
  <2>2. H[y] = F[y] \/ H[y] = F[F[y]]
    BY <1>2
  <2> QED
    BY <2>1, <2>2
<1>4. IsForest(H, N)
  <2>1. H \in [1..N -> 1..N]
    BY <1>1 DEF HalvedOn
  <2> QED
    BY <1>3, <2>1 DEF IsForest
<1>5. PICK g \in [1..N -> 1..N] : g = Tops(F, N, g)
  BY TopsExist
<1>6. \A y \in 1..N : g[y] = IF F[y] = y THEN y ELSE g[F[y]]
  BY <1>5 DEF Tops
<1>7. ASSUME NEW y \in 1..N
      PROVE  g[y] = IF H[y] = y THEN y ELSE g[H[y]]
  <2>1. F[y] \in 1..N /\ F[y] <= y /\ F[F[y]] \in 1..N /\ F[F[y]] <= F[y]
    BY <1>1
  <2>2. g[F[y]] = g[y] /\ g[F[F[y]]] = g[F[y]]
    BY <1>6, <2>1
  <2>3. H[y] = F[y] \/ H[y] = F[F[y]]
    BY <1>2
  <2>4. CASE H[y] = y
    <3>1. PICK p \in 1..N, q \in 1..N : p = F[y] /\ q = F[F[y]] /\ p <= y /\ q <= p
      BY <2>1
    <3>2. y = p \/ y = q
      BY <2>3, <2>4, <3>1
    <3>3. y = p
      BY <3>1, <3>2
    <3>4. F[y] = y
      BY <3>1, <3>3
    <3>5. g[y] = y
      BY <1>6, <3>4
    <3> QED
      BY <2>4, <3>5
  <2>5. CASE H[y] # y
    BY <2>2, <2>3, <2>5
  <2> QED
    BY <2>4, <2>5
<1>8. g = Tops(H, N, g)
  BY <1>5, <1>7 DEF Tops
<1>9. \A y \in 1..N : Root(F, y) = g[y] /\ Root(H, y) = g[y]
  BY <1>4, <1>5, <1>8, RootIsTop
<1> QED
  BY <1>4, <1>9

\* Hanging a root under a lower one joins their trees and no others.
LEMMA LinkingJoins ==
    ASSUME NEW N \in Nat, NEW F, IsForest(F, N), NEW a \in 1..N, NEW b \in 1..N,
           a <= b, Root(F, a) = a, Root(F, b) = b, NEW U, LinkedTo(U, F, a, b)
    PROVE  /\ IsForest(U, N)
           /\ \A y \in 1..N : Root(U, y) = IF Root(F, y) = b THEN a ELSE Root(F, y)
<1>1. /\ \A y \in 1..N : F[y] \in 1..N /\ F[y] <= y
      /\ F \in [1..N -> 1..N]
  BY DEF IsForest
<1>2. U \in [1..N -> 1..N] /\ \A y \in 1..N : U[y] = IF y = b THEN a ELSE F[y]
  BY <1>1 DEF LinkedTo
<1>3. IsForest(U, N)
  BY <1>1, <1>2 DEF IsForest
<1> DEFINE g == [y \in 1..N |-> IF Root(F, y) = b THEN a ELSE Root(F, y)]
<1>4. \A y \in 1..N : /\ Root(F, y) \in 1..N
                      /\ Root(F, F[y]) = Root(F, y)
                      /\ F[Root(F, y)] = Root(F, y)
                      /\ F[y] = y => Root(F, y) = y
  BY Roots
<1>5. g \in [1..N -> 1..N] /\ \A y \in 1..N : g[y] = IF Root(F, y) = b THEN a ELSE Root(F, y)
  BY <1>4
<1> HIDE DEF g
<1>6. ASSUME NEW y \in 1..N
      PROVE  g[y] = IF U[y] = y THEN y ELSE g[U[y]]
  <2>1. CASE y = b
    <3>1. g[b] = a /\ g[a] = a /\ U[b] = a
      BY <1>2, <1>5
    <3> QED
      BY <2>1, <3>1
  <2>2. CASE y # b /\ F[y] = y
    <3>1. Root(F, y) = y
      BY <1>4, <2>2
    <3> QED
      BY <1>2, <1>5, <2>2, <3>1
  <2>3. CASE y # b /\ F[y] # y
    <3>1. U[y] = F[y] /\ F[y] \in 1..N
      BY <1>1, <1>2, <2>3
    <3>2. Root(F, F[y]) = Root(F, y)
      BY <1>4
    <3>3. g[F[y]] = g[y]
      BY <1>5, <3>1, <3>2
    <3> QED
      BY <2>3, <3>1, <3>3
  <2> QED
    BY <2>1, <2>2, <2>3
<1>7. g = Tops(U, N, g)
  BY <1>5, <1>6 DEF Tops
<1>8. \A y \in 1..N : Root(U, y) = g[y]
  BY <1>3, <1>7, RootIsTop
<1>9. \A y \in 1..N : Root(U, y) = IF Root(F, y) = b THEN a ELSE Root(F, y)
  BY <1>5, <1>8
<1> QED
  BY <1>3, <1>9

\* The trees of two elements become one, whose root is the lower.
LEMMA UnionJoins ==
    ASSUME NEW N \in Nat, IsForest(parent, N), NEW i \in 1..N, NEW j \in 1..N
    PROVE  /\ IsForest(Union(i, j), N)
           /\ LET ri == Root(parent, i)
                  rj == Root(parent, j)
              IN  \A y \in 1..N :
                     Root(Union(i, j), y) =
                        IF Root(parent, y) \in {ri, rj} THEN IF ri <= rj THEN ri ELSE rj
                        ELSE Root(parent, y)
<1> DEFINE ri == Root(parent, i)
           rj == Root(parent, j)
           a == IF ri <= rj THEN ri ELSE rj
           b == IF ri <= rj THEN rj ELSE ri
           G == Halved(parent, i)
           H == Halved(G, j)
<1>1. ri \in 1..N /\ rj \in 1..N /\ Root(parent, ri) = ri /\ Root(parent, rj) = rj
  BY Roots
<1>2. \E P : HalvedOn(G, parent, N, P)
  <2>1. DOMAIN parent = 1..N
    BY DEF IsForest
  <2> QED
    BY <2>1 DEF Halved, HalvedOn
<1> HIDE DEF G
<1>3. IsForest(G, N) /\ \A y \in 1..N : Root(G, y) = Root(parent, y)
  <2>1. PICK P : HalvedOn(G, parent, N, P)
    BY <1>2
  <2> QED
    BY <2>1, HalvingKeepsRoots
<1>4. \E P : HalvedOn(H, G, N, P)
  <2>1. DOMAIN G = 1..N
    BY <1>3 DEF IsForest
  <2> QED
    BY <2>1 DEF Halved, HalvedOn
<1>5. Union(i, j) = [H EXCEPT ![b] = a]
  <2>1. Max({ri, rj}) = b
    BY <1>1, MaxOfTwo
  <2>2. Min({ri, rj}) = a
    BY <1>1, MinOfTwo
  <2>3. Union(i, j) = [H EXCEPT ![Max({ri, rj})] = Min({ri, rj})]
    BY DEF Union, G
  <2> HIDE DEF H, a, b, ri, rj
  <2> QED
    BY <2>1, <2>2, <2>3
<1> HIDE DEF H
<1>6. IsForest(H, N) /\ \A y \in 1..N : Root(H, y) = Root(G, y)
  <2>1. PICK P : HalvedOn(H, G, N, P)
    BY <1>4
  <2>2. IsForest(G, N)
    BY <1>3
  <2> QED
    BY <2>1, <2>2, HalvingKeepsRoots
<1> HIDE DEF ri, rj
<1>7. a \in 1..N /\ b \in 1..N /\ a <= b /\ Root(parent, a) = a /\ Root(parent, b) = b /\ {a, b} = {ri, rj}
  BY <1>1
<1>8. a = IF ri <= rj THEN ri ELSE rj
  OBVIOUS
<1> HIDE DEF a, b
<1>9. /\ IsForest(Union(i, j), N)
      /\ \A y \in 1..N : Root(Union(i, j), y) = IF Root(H, y) = b THEN a ELSE Root(H, y)
  <2> DEFINE U == Union(i, j)
  <2>1. Root(H, a) = a /\ Root(H, b) = b
    BY <1>3, <1>6, <1>7
  <2>2. LinkedTo(U, H, a, b)
    BY <1>5 DEF LinkedTo
  <2>3. IsForest(H, N) /\ a <= b
    BY <1>6, <1>7
  <2>4. a \in 1..N /\ b \in 1..N
    BY <1>7
  <2> HIDE DEF U
  <2>5. /\ IsForest(U, N)
        /\ \A y \in 1..N : Root(U, y) = IF Root(H, y) = b THEN a ELSE Root(H, y)
    BY <2>1, <2>2, <2>3, <2>4, LinkingJoins
  <2> QED
    BY <2>5 DEF U
<1>10. \A y \in 1..N : Root(Union(i, j), y) = IF Root(parent, y) \in {ri, rj} THEN a ELSE Root(parent, y)
  <2>1. \A y \in 1..N : Root(H, y) = Root(parent, y)
    BY <1>3, <1>6
  <2>2. \A y \in 1..N : Root(Union(i, j), y) = IF Root(parent, y) = b THEN a ELSE Root(parent, y)
    BY <1>5, <1>9, <2>1
  <2> QED
    BY <1>7, <2>2
<1> QED
  BY <1>5, <1>8, <1>9, <1>10 DEF ri, rj


-----------------------------------------------------------------------------
\* Chains of duplicates.

Entities == DOMAIN batch.entities

\* S has with an entity all its duplicates.
IsClosed(S) == \A j \in S, k \in Entities : Duplicates(j, k) => k \in S

LEMMA ChainedIs ==
    ASSUME NEW i \in Entities
    PROVE  Chained(i) = {j \in Entities : \A S \in SUBSET Entities : i \in S /\ IsClosed(S) => j \in S}
  BY DEF Chained, IsClosed, Entities

LEMMA ChainBegins ==
    ASSUME NEW i \in Entities
    PROVE  i \in Chained(i)
  BY ChainedIs

LEMMA ChainGrows ==
    ASSUME NEW i \in Entities, NEW j \in Chained(i), NEW k \in Entities, Duplicates(j, k)
    PROVE  k \in Chained(i)
<1>1. ASSUME NEW S \in SUBSET Entities, i \in S, IsClosed(S)
      PROVE  k \in S
  <2>1. j \in S
    BY <1>1, ChainedIs
  <2> QED
    BY <1>1, <2>1 DEF IsClosed
<1> QED
  BY <1>1, ChainedIs

LEMMA ChainStays ==
    ASSUME NEW i \in Entities, NEW S \in SUBSET Entities, i \in S, IsClosed(S)
    PROVE  Chained(i) \subseteq S
  BY ChainedIs

LEMMA ChainedAreEntities ==
    ASSUME NEW i \in Entities
    PROVE  Chained(i) \subseteq Entities
  BY ChainedIs

LEMMA ChainsConnect ==
    ASSUME NEW i \in Entities, NEW j \in Chained(i), NEW k \in Chained(j)
    PROVE  k \in Chained(i)
<1>1. j \in Entities
  BY ChainedAreEntities
<1>2. Chained(i) \in SUBSET Entities /\ IsClosed(Chained(i))
  BY ChainedAreEntities, ChainGrows DEF IsClosed
<1> QED
  BY <1>1, <1>2, ChainStays

\* Being duplicates is mutual.
LEMMA DuplicatesAreMutual ==
    ASSUME batch \in ResolveInputs, NEW i \in Entities, NEW j \in Entities, Duplicates(i, j)
    PROVE  Duplicates(j, i)
<1> DEFINE a == Named(i)
           b == Named(j)
<1>1. \A p \in batch.alike : <<p[2], p[1]>> \in batch.alike
  BY ResolveAssumption
<1>2. <<a, b>> \in batch.alike => <<b, a>> \in batch.alike
  <2>1. <<a, b>>[1] = a /\ <<a, b>>[2] = b
    OBVIOUS
  <2> HIDE DEF a, b
  <2> QED
    BY <1>1, <2>1
<1> QED
  BY <1>2 DEF Duplicates

LEMMA ChainsAreMutual ==
    ASSUME batch \in ResolveInputs, NEW i \in Entities, NEW j \in Chained(i)
    PROVE  i \in Chained(j)
<1> DEFINE S == {k \in Entities : i \in Chained(k)}
<1>1. i \in S
  BY ChainBegins
<1>2. ASSUME NEW m \in S, NEW k \in Entities, Duplicates(m, k)
      PROVE  k \in S
  <2>1. m \in Entities /\ i \in Chained(m)
    OBVIOUS
  <2>2. Duplicates(k, m)
    BY <1>2, <2>1, DuplicatesAreMutual
  <2>3. k \in Chained(k)
    BY ChainBegins
  <2>4. m \in Chained(k)
    BY <2>1, <2>2, <2>3, ChainGrows
  <2>5. i \in Chained(k)
    BY <2>1, <2>4, ChainsConnect
  <2> QED
    BY <2>5
<1>3. S \in SUBSET Entities /\ IsClosed(S)
  BY <1>2 DEF IsClosed
<1>4. Chained(i) \subseteq S
  <2> HIDE DEF S
  <2> QED
    BY <1>1, <1>3, ChainStays
<1> QED
  BY <1>4

-----------------------------------------------------------------------------
\* The order of comparison.

\* What a batch lists as entities.
LEMMA EntitiesOfBatch ==
    ASSUME NEW b \in ResolveInputs
    PROVE  \A i \in DOMAIN b.entities : b.entities[i] \in [name : Name, type : Nat]
<1> DEFINE es == b.entities
           T  == [name : Name, type : Nat]
<1>1. es \in Seq(T)
  BY ResolveAssumption
<1> HIDE DEF es, T
<1>2. \A i \in DOMAIN es : es[i] \in T
  <2> TAKE i \in DOMAIN es
  <2>1. i \in 1..Len(es)
    BY <1>1
  <2> QED
    BY <1>1, <2>1, ElementOfSeq
<1> QED
  BY <1>2 DEF es, T

\* Of two entities the one that is compared first.
SoonerOf(entities, i, j) ==
    \/ entities[i].name < entities[j].name
    \/ entities[i].name = entities[j].name /\ i < j

LEMMA SortedListsAll ==
    ASSUME NEW b \in ResolveInputs
    PROVE  /\ Lists(Sorted(b.entities), DOMAIN b.entities)
           /\ Len(b.entities) \in Nat /\ DOMAIN b.entities = 1..Len(b.entities)
           /\ Cardinality(DOMAIN b.entities) = Len(b.entities)
           /\ b.entities = <<>> <=> Len(b.entities) = 0
           /\ \A m, n \in 1..Len(b.entities) :
                 m < n => SoonerOf(b.entities, Sorted(b.entities)[m], Sorted(b.entities)[n])
<1> DEFINE es == b.entities
           S == DOMAIN es
           Sooner(i, j) == es[i].name < es[j].name \/ (es[i].name = es[j].name /\ i < j)
           R == {z \in S \X S : Sooner(z[1], z[2])}
           list == Sorted(es)
<1>0. es \in Seq([name : Name, type : Nat])
  BY ResolveAssumption
<1>1. IsList(es)
  BY <1>0 DEF IsList
<1>2. Len(es) \in Nat /\ S = 1..Len(es) /\ (es = <<>> <=> Len(es) = 0)
  <2> DEFINE s == es
  <2> HIDE DEF s
  <2>1. IsList(s)
    BY <1>1 DEF s
  <2>2. Len(s) \in Nat /\ DOMAIN s = 1..Len(s) /\ (s = <<>> <=> Len(s) = 0)
    BY <2>1, ListFacts
  <2> QED
    BY <2>2 DEF s
<1>3. IsFiniteSet(S) /\ Cardinality(S) = Len(es)
  <2> DEFINE n == Len(es)
  <2>1. n \in Nat /\ S = 1..n
    BY <1>2
  <2> HIDE DEF n, S
  <2>2. IsFiniteSet(S) /\ Cardinality(S) = n
    BY <2>1, FS_Interval
  <2> QED
    BY <2>2 DEF n, S
<1>4. \A i \in S : es[i].name \in Nat /\ i \in Nat
  <2>1. \A i \in S : es[i] \in [name : Name, type : Nat]
    BY EntitiesOfBatch
  <2>2. Name \subseteq Nat
    BY ResolveAssumption
  <2>3. \A i \in S : i \in Nat
    BY <1>2
  <2>4. \A i \in S : es[i].name \in Name
    BY <2>1
  <2> QED
    BY <2>2, <2>3, <2>4
<1>5. Orders(R, S)
  <2>1. \A i, j \in S : <<i, j>> \in R <=> Sooner(i, j)
    OBVIOUS
  <2> DEFINE name == [i \in S |-> es[i].name]
  <2>2. \A i \in S : name[i] \in Nat /\ i \in Nat
    BY <1>4
  <2>3. \A i, j \in S : Sooner(i, j) <=> name[i] < name[j] \/ (name[i] = name[j] /\ i < j)
    OBVIOUS
  <2> HIDE DEF R, S, Sooner, name
  <2>4. \A i \in S : ~Sooner(i, i)
    BY <2>2, <2>3
  <2>5. ASSUME NEW i \in S, NEW j \in S, NEW k \in S, Sooner(i, j), Sooner(j, k)
        PROVE  Sooner(i, k)
    BY <2>2, <2>3, <2>5
  <2>6. ASSUME NEW i \in S, NEW j \in S, i # j
        PROVE  Sooner(i, j) \/ Sooner(j, i)
    <3>1. (i < j \/ j < i) /\ (name[i] < name[j] \/ name[j] < name[i] \/ name[i] = name[j])
      BY <2>2, <2>6
    <3> QED
      BY <2>3, <3>1
  <2> QED
    BY <2>1, <2>4, <2>5, <2>6 DEF Orders
<1>6. Placed(list, R, S)
  <2>1. \A j \in S : {i \in S : Sooner(i, j)} = {i \in S : <<i, j>> \in R}
    OBVIOUS
  <2>2. list = [k \in 1..Cardinality(S) |->
                    CHOOSE j \in S : Cardinality({i \in S : Sooner(i, j)}) = k - 1]
    BY DEF InOrder, Sorted
  <2>5. list = [k \in 1..Cardinality(S) |-> list[k]]
    <3> DEFINE At(k) == CHOOSE j \in S : Cardinality({i \in S : Sooner(i, j)}) = k - 1
    <3>1. list = [k \in 1..Cardinality(S) |-> At(k)]
      BY <2>2
    <3> HIDE DEF list, At, S
    <3> QED
      BY <3>1
  <2> HIDE DEF Sooner, R, S, list
  <2>3. \A k \in 1..Cardinality(S) :
           list[k] = CHOOSE j \in S : Cardinality({i \in S : Sooner(i, j)}) = k - 1
    BY <2>2
  <2>4. \A k \in 1..Cardinality(S) :
           (CHOOSE j \in S : Cardinality({i \in S : Sooner(i, j)}) = k - 1)
         = (CHOOSE j \in S : Cardinality({i \in S : <<i, j>> \in R}) = k - 1)
    BY <2>1
  <2> QED
    BY <2>3, <2>4, <2>5 DEF Placed
<1>7. \A i, j : <<i, j>> \in R => SoonerOf(es, i, j)
  BY DEF SoonerOf
<1> HIDE DEF R, S, list
<1>8. /\ Lists(list, S)
      /\ \A m, n \in 1..Len(es) : m < n => <<list[m], list[n]>> \in R
  BY <1>3, <1>5, <1>6, PlacedInOrder
<1>9. \A m, n \in 1..Len(es) : m < n => SoonerOf(es, list[m], list[n])
  BY <1>7, <1>8
<1> QED
  BY <1>2, <1>3, <1>8, <1>9 DEF S, list


-----------------------------------------------------------------------------
\* The clusters so far.

Size == Len(batch.entities)

\* The entities at these places have been compared.
Compared(m, n) == m < pair[1] \/ (m = pair[1] /\ n < pair[2])

\* Duplicates that have been compared are of one tree.
JoinedSoFar ==
    \A m, n \in 1..Size :
        m < n /\ Compared(m, n) /\ Duplicates(order[m], order[n])
            => Root(parent, order[m]) = Root(parent, order[n])

\* What is of one tree is joined by a chain.
JoinedRightly ==
    \A i, j \in 1..Size : Root(parent, i) = Root(parent, j) => j \in Chained(i)

\* The next places to compare; past the last of them, there is no second.
PairInPlace ==
    /\ pair = <<pair[1], pair[2]>>
    /\ pair[1] \in 1..Size /\ pair[2] \in 2..(Size + 1)
    /\ pair[1] < pair[2]
    /\ pair[1] < Size => pair[2] <= Size

\* The entities are compared by name, those of one name as they came.
InTurn == \A m, n \in 1..Size : m < n => SoonerOf(batch.entities, order[m], order[n])

Clustering ==
    /\ batch \in ResolveInputs
    /\ Lists(order, Entities)
    /\ InTurn
    /\ IsForest(parent, Size)
    /\ PairInPlace
    /\ JoinedSoFar
    /\ JoinedRightly

ResolveInv ==
    /\ resolver \in {"idle", "embed", "compare", "done", "failed"}
    /\ resolver = "idle" => pair = <<1, 2>>
    /\ resolver = "embed" => pair = <<1, 2>>
    /\ resolver \in {"embed", "compare"} => Clustering
    /\ resolver = "done" => ChainsShareAName /\ EndpointsFollow


LEMMA ResolveStarts == ASSUME ResolveInit PROVE ResolveInv
  BY DEF ResolveInit, ResolveInv

\* Chains depend on the batch alone.
LEMMA BatchStays ==
    ASSUME UNCHANGED batch
    PROVE  /\ Entities' = Entities /\ Size' = Size
           /\ \A i, j : Duplicates(i, j)' = Duplicates(i, j)
           /\ \A i : Chained(i)' = Chained(i)
           /\ \A i : Named(i)' = Named(i)
           /\ \A n : LastNamed(n)' = LastNamed(n)
           /\ TypesShareNoName' = TypesShareNoName
<1>1. /\ Entities' = Entities /\ Size' = Size
      /\ \A i, j : Duplicates(i, j)' = Duplicates(i, j)
      /\ \A i : Named(i)' = Named(i)
  BY DEF Entities, Size, Duplicates, Named
<1>2. \A i : Chained(i)' = Chained(i)
  <2>1. ASSUME NEW i
        PROVE  Chained(i)' = Chained(i)
    <3>1. Chained(i) = {j \in Entities : \A S \in SUBSET Entities : i \in S /\ IsClosed(S) => j \in S}
      BY DEF Chained, IsClosed, Entities
    <3>2. Chained(i)' = {j \in Entities' : \A S \in SUBSET Entities' : i \in S /\ IsClosed(S)' => j \in S}
      BY DEF Chained, IsClosed, Entities
    <3>3. \A S : IsClosed(S)' = IsClosed(S)
      BY <1>1 DEF IsClosed
    <3> QED
      BY <1>1, <3>1, <3>2, <3>3
  <2> QED
    BY <2>1
<1>3. \A n : LastNamed(n)' = LastNamed(n)
  BY DEF LastNamed, Named
<1>4. TypesShareNoName' = TypesShareNoName
  BY DEF TypesShareNoName, Named
<1> QED
  BY <1>1, <1>2, <1>3, <1>4

LEMMA ClusteringStays ==
    ASSUME Clustering, UNCHANGED <<batch, order, pair, parent>>
    PROVE  Clustering'
<1>1. /\ Entities' = Entities /\ Size' = Size
      /\ \A i, j : Duplicates(i, j)' = Duplicates(i, j)
      /\ \A i : Chained(i)' = Chained(i)
  BY BatchStays
<1>2. PairInPlace' /\ \A m, n : Compared(m, n)' = Compared(m, n)
  BY <1>1 DEF Clustering, PairInPlace, Compared
<1>3. JoinedSoFar'
  BY <1>1, <1>2 DEF Clustering, JoinedSoFar
<1>4. JoinedRightly'
  BY <1>1 DEF Clustering, JoinedRightly
<1>5. InTurn'
  BY <1>1 DEF Clustering, InTurn
<1> QED
  BY <1>1, <1>2, <1>3, <1>4, <1>5 DEF Clustering

\* EndpointsFollow as a relation between what is resolved and what comes of it.
Unshared(old) ==
    \A i, j \in DOMAIN old : NormalName[old[i].name] = NormalName[old[j].name] => old[i].type = old[j].type

FollowedAt(old, new, before, after) ==
    /\ \A j \in DOMAIN old : old[j].name = before =>
          /\ Bearers(new, after) # {}
          /\ Unshared(old) => Lookup(new, after) = NodeOf(new[j])
    /\ Bearers(old, before) = {} => Bearers(new, after) = {}

Followed(old, new) ==
    \A i \in DOMAIN old.relations, end \in {"source", "target"} :
        FollowedAt(old.entities, new.entities, old.relations[i][end], new.relations[i][end])

LEMMA EndpointsAreFollowed ==
    /\ TypesShareNoName = Unshared(batch.entities)
    /\ EndpointsFollow <=> Followed(batch, resolved)
    /\ EndpointsFollow' <=> Followed(batch', resolved')
  BY DEF EndpointsFollow, Followed, FollowedAt, TypesShareNoName, Unshared, Named

LEMMA ResolveStays ==
    ASSUME ResolveInv, UNCHANGED resolveVars
    PROVE  ResolveInv'
<1>1. UNCHANGED <<batch, resolver, order, pair, parent, resolved>>
  BY DEF resolveVars
<1>2. Clustering => Clustering'
  BY <1>1, ClusteringStays
<1>3. ChainsShareAName /\ EndpointsFollow => ChainsShareAName' /\ EndpointsFollow'
  <2>1. /\ \A i : Chained(i)' = Chained(i)
        /\ \A i : Named(i)' = Named(i)
        /\ \A n : LastNamed(n)' = LastNamed(n)
        /\ TypesShareNoName' = TypesShareNoName
    BY <1>1, BatchStays
  <2>2. ChainsShareAName => ChainsShareAName'
    BY <1>1, <2>1 DEF ChainsShareAName
  <2>3. EndpointsFollow => EndpointsFollow'
    <3>1. Followed(batch', resolved') = Followed(batch, resolved)
      BY <1>1
    <3> QED
      BY <3>1, EndpointsAreFollowed
  <2> QED
    BY <2>2, <2>3
<1> QED
  BY <1>1, <1>2, <1>3 DEF ResolveInv

\* Every entity begins as a tree of its own.
LEMMA ClustersBegin ==
    ASSUME NEW b \in ResolveInputs, b.entities # <<>>,
           batch' = b, order' = Sorted(b.entities), parent' = [i \in DOMAIN b.entities |-> i],
           pair' = <<1, 2>>
    PROVE  Clustering'
<1> DEFINE N == Len(b.entities)
           F == [i \in 1..N |-> i]
<1>1. /\ N \in Nat /\ N # 0 /\ DOMAIN b.entities = 1..N
      /\ Lists(order', 1..N)
      /\ \A m, n \in 1..N : m < n => SoonerOf(b.entities, order'[m], order'[n])
  BY SortedListsAll
<1>2. parent' = F /\ Size' = N /\ Entities' = 1..N
  BY <1>1 DEF Size, Entities
<1> HIDE DEF N
<1>3. IsForest(F, N) /\ \A i \in 1..N : F[i] = i
  BY <1>1 DEF IsForest
<1> HIDE DEF F
<1>4. \A i \in 1..N : Root(F, i) = i
  BY <1>1, <1>3, Roots
<1>5. PairInPlace'
  BY <1>1, <1>2 DEF PairInPlace
<1>6. JoinedSoFar'
  <2>1. ASSUME NEW m \in 1..N, NEW n \in 1..N, m < n
        PROVE  ~Compared(m, n)'
    <3>1. pair'[1] = 1 /\ pair'[2] = 2
      OBVIOUS
    <3> QED
      BY <1>1, <2>1, <3>1 DEF Compared
  <2> QED
    BY <1>2, <2>1 DEF JoinedSoFar
<1>7. JoinedRightly'
  <2>1. ASSUME NEW i \in 1..N
        PROVE  (i \in Chained(i))'
    BY <1>1 DEF Chained
  <2>2. \A i, j \in 1..N : Root(F, i) = Root(F, j) => i = j
    BY <1>4
  <2> QED
    BY <1>2, <2>1, <2>2 DEF JoinedRightly
<1>8. InTurn'
  <2>1. InTurn' <=> \A m, n \in 1..N : m < n => SoonerOf(batch'.entities, order'[m], order'[n])
    BY <1>2 DEF InTurn, SoonerOf
  <2> QED
    BY <1>1, <2>1
<1> QED
  BY <1>1, <1>2, <1>3, <1>5, <1>6, <1>7, <1>8 DEF Clustering

\* A batch without entities is left as it is.
LEMMA NothingToResolve ==
    ASSUME NEW b \in ResolveInputs, b.entities = <<>>, batch' = b,
           resolved' = [entities |-> <<>>, relations |-> b.relations]
    PROVE  ChainsShareAName' /\ EndpointsFollow'
<1>1. DOMAIN b.entities = {} /\ resolved'.entities = b.entities
  <2>1. DOMAIN <<>> = {}
    OBVIOUS
  <2> QED
    BY <2>1
<1>2. ChainsShareAName'
  BY <1>1 DEF ChainsShareAName
<1>3. \A name : Bearers(resolved'.entities, name) = {}
  BY <1>1 DEF Bearers
<1>4. EndpointsFollow'
  BY <1>1, <1>3 DEF EndpointsFollow
<1> QED
  BY <1>2, <1>4

LEMMA ResolveBegins ==
    ASSUME ResolveInv, Resolve
    PROVE  ResolveInv'
<1>1. PICK b \in ResolveInputs :
          /\ batch' = b
          /\ order' = Sorted(b.entities)
          /\ parent' = [i \in DOMAIN b.entities |-> i]
          /\ \/ resolver' = "failed" /\ UNCHANGED resolved
             \/ b.entities # <<>> /\ resolver' = "embed" /\ UNCHANGED resolved
             \/ /\ b.entities = <<>> /\ resolver' = "done"
                /\ resolved' = [entities |-> <<>>, relations |-> b.relations]
  BY DEF Resolve
<1>2. pair' = <<1, 2>>
  BY DEF Resolve, ResolveInv
<1>3. b.entities # <<>> => Clustering'
  BY <1>1, <1>2, ClustersBegin
<1>4. resolver' = "done" => ChainsShareAName' /\ EndpointsFollow'
  <2>1. resolver' = "done" => b.entities = <<>> /\ resolved' = [entities |-> <<>>, relations |-> b.relations]
    BY <1>1
  <2> QED
    BY <1>1, <2>1, NothingToResolve
<1>5. /\ resolver' \in {"failed", "embed", "done"}
      /\ resolver' = "embed" => b.entities # <<>>
  BY <1>1
<1> QED
  BY <1>2, <1>3, <1>4, <1>5 DEF ResolveInv

LEMMA EmbedKeeps ==
    ASSUME ResolveInv, EmbedName
    PROVE  ResolveInv'
<1>1. /\ resolver = "embed" /\ resolver' \in {"embed", "compare", "failed"}
      /\ UNCHANGED <<batch, order, pair, parent, resolved>>
  BY DEF EmbedName
<1>2. Clustering /\ pair = <<1, 2>>
  BY <1>1 DEF ResolveInv
<1>3. Clustering'
  BY <1>1, <1>2, ClusteringStays
<1> QED
  BY <1>1, <1>2, <1>3 DEF ResolveInv

\* What Clustering says of the places.
LEMMA PlacesOfEntities ==
    ASSUME Clustering
    PROVE  /\ Size \in Nat /\ Entities = 1..Size /\ Len(order) = Size
           /\ \A m \in 1..Size : order[m] \in 1..Size
           /\ \A i \in 1..Size : \E m \in 1..Size : order[m] = i
<1> DEFINE S == Entities
           N == Size
           list == order
<1>1. N \in Nat /\ S = 1..N /\ Cardinality(S) = N
  BY SortedListsAll DEF Clustering, Entities, Size
<1>2. Lists(list, S)
  BY DEF Clustering
<1> HIDE DEF S, N, list
<1>3. IsFiniteSet(S)
  BY <1>1, FS_Interval
<1>4. Len(list) = N
  BY <1>1, <1>2, <1>3, ListsProperties
<1>5. /\ \A m \in 1..N : list[m] \in S
      /\ \A i \in S : \E m \in 1..N : list[m] = i
  BY <1>1, <1>2 DEF Lists
<1> QED
  BY <1>1, <1>4, <1>5 DEF S, N, list


\* After a comparison those two places are compared too, and no others.
LEMMA NextIsCompared ==
    ASSUME Clustering, ComparePair, NEW m \in 1..Size, NEW n \in 1..Size, m < n
    PROVE  Compared(m, n)' <=> Compared(m, n) \/ (m = pair[1] /\ n = pair[2])
<1> DEFINE p == pair[1]
           q == pair[2]
<1>1. /\ Size \in Nat /\ p \in 1..Size /\ q \in 2..(Size + 1) /\ p < q /\ (p < Size => q <= Size)
  BY PlacesOfEntities DEF Clustering, PairInPlace
<1>2. p < Size /\ Len(order) = Size
  BY PlacesOfEntities DEF ComparePair
<1>3. pair' = IF q < Size THEN <<p, q + 1>> ELSE <<p + 1, p + 2>>
  BY <1>2 DEF ComparePair, NextPair
<1>4. /\ q < Size => pair'[1] = p /\ pair'[2] = q + 1
      /\ ~(q < Size) => pair'[1] = p + 1 /\ pair'[2] = p + 2
  BY <1>3
<1>5. Compared(m, n)' <=> m < pair'[1] \/ (m = pair'[1] /\ n < pair'[2])
  BY DEF Compared
<1>6. Compared(m, n) <=> m < p \/ (m = p /\ n < q)
  BY DEF Compared
<1>0. p = pair[1] /\ q = pair[2]
  OBVIOUS
<1> HIDE DEF p, q
<1>7. m \in Nat /\ n \in Nat /\ p \in Nat /\ q \in Nat /\ n <= Size
  BY <1>1
<1>8. CASE q < Size
  <2>1. Compared(m, n)' <=> m < p \/ (m = p /\ n < q + 1)
    BY <1>4, <1>5, <1>8
  <2>2. n < q + 1 <=> n < q \/ n = q
    BY <1>7
  <2> QED
    BY <1>0, <1>6, <2>1, <2>2
<1>9. CASE ~(q < Size)
  <2>1. Compared(m, n)' <=> m < p + 1 \/ (m = p + 1 /\ n < p + 2)
    BY <1>4, <1>5, <1>9
  <2>2. m < p + 1 <=> m < p \/ m = p
    BY <1>7
  <2>3. q = Size
    BY <1>1, <1>2, <1>9
  <2>4. n < q \/ n = q
    BY <1>1, <1>7, <2>3
  <2>5. ~(m = p + 1 /\ n < p + 2)
    BY <1>7
  <2> QED
    BY <1>0, <1>6, <2>1, <2>2, <2>4, <2>5
<1> QED
  BY <1>8, <1>9

LEMMA PairStaysInPlace ==
    ASSUME Clustering, ComparePair
    PROVE  PairInPlace'
<1> DEFINE p == pair[1]
           q == pair[2]
           N == Size
<1>1. /\ N \in Nat /\ p \in 1..N /\ q \in 2..(N + 1) /\ p < q /\ (p < N => q <= N)
  BY PlacesOfEntities DEF Clustering, PairInPlace
<1>2. p < N /\ Len(order) = N
  BY PlacesOfEntities DEF ComparePair
<1>3. pair' = IF q < N THEN <<p, q + 1>> ELSE <<p + 1, p + 2>>
  BY <1>2 DEF ComparePair, NextPair
<1>4. Size' = N
  BY BatchStays DEF ComparePair
<1> HIDE DEF p, q, N
<1>5. \E a, b \in Nat : /\ pair' = <<a, b>>
                        /\ a \in 1..N /\ b \in 2..(N + 1) /\ a < b /\ (a < N => b <= N)
  <2>1. CASE q < N
    BY <1>1, <1>2, <1>3, <2>1
  <2>2. CASE ~(q < N)
    BY <1>1, <1>2, <1>3, <2>2
  <2> QED
    BY <2>1, <2>2
<1> QED
  BY <1>4, <1>5 DEF PairInPlace

\* A comparison leaves the trees of duplicates joined, and those of no others.
LEMMA CompareKeepsClusters ==
    ASSUME Clustering, ComparePair
    PROVE  Clustering'
<1> DEFINE N == Size
           i == order[pair[1]]
           j == order[pair[2]]
           R(y) == Root(parent, y)
           S(y) == Root(parent', y)
<1>1. /\ N \in Nat /\ Entities = 1..N /\ Len(order) = N
      /\ \A m \in 1..N : order[m] \in 1..N
  BY PlacesOfEntities
<1>2. /\ pair[1] \in 1..N /\ pair[2] \in 1..N
      /\ UNCHANGED <<batch, order>>
      /\ parent' = IF Duplicates(i, j) THEN Union(i, j) ELSE parent
  BY <1>1 DEF ComparePair, Clustering, PairInPlace
<1>3. i \in 1..N /\ j \in 1..N
  BY <1>1, <1>2
<1>4. IsForest(parent, N) /\ JoinedSoFar /\ JoinedRightly /\ batch \in ResolveInputs
  BY DEF Clustering
<1>5. /\ Entities' = Entities /\ Size' = N
      /\ \A y, z : Duplicates(y, z)' = Duplicates(y, z)
      /\ \A y : Chained(y)' = Chained(y)
  BY <1>2, BatchStays
<1>6. \A y \in 1..N : R(y) \in 1..N
  BY <1>1, <1>4, Roots
<1>7. \E a : a \in {R(i), R(j)} /\
        IF Duplicates(i, j) THEN \A y \in 1..N : S(y) = IF R(y) \in {R(i), R(j)} THEN a ELSE R(y)
                            ELSE \A y \in 1..N : S(y) = R(y)
  <2>1. CASE Duplicates(i, j)
    <3> DEFINE ri == R(i)
               rj == R(j)
               a == IF ri <= rj THEN ri ELSE rj
    <3>1. parent' = Union(i, j)
      BY <1>2, <2>1
    <3>2. \A y \in 1..N : Root(Union(i, j), y) = IF R(y) \in {ri, rj} THEN a ELSE R(y)
      <4> HIDE DEF N, i, j
      <4> QED
        BY <1>1, <1>3, <1>4, UnionJoins
    <3>3. \A y \in 1..N : S(y) = IF R(y) \in {ri, rj} THEN a ELSE R(y)
      BY <3>1, <3>2
    <3>4. a \in {ri, rj}
      OBVIOUS
    <3> HIDE DEF a
    <3> QED
      BY <2>1, <3>3, <3>4
  <2>2. CASE ~Duplicates(i, j)
    BY <1>2, <2>2
  <2> QED
    BY <2>1, <2>2
<1>8. IsForest(parent', N)
  <2>1. Duplicates(i, j) => IsForest(Union(i, j), N)
    <3> HIDE DEF N, i, j
    <3> QED
      BY <1>1, <1>3, <1>4, UnionJoins
  <2> HIDE DEF i, j
  <2> QED
    BY <1>2, <1>4, <2>1
<1>9. JoinedSoFar'
  <2>1. \A m, n \in 1..N : order[m] \in 1..N /\ order[n] \in 1..N
    BY <1>1
  <2>2. \A y, z \in 1..N : R(y) = R(z) => S(y) = S(z)
    <3> HIDE DEF R, S, i, j, N
    <3> QED
      BY <1>7
  <2>3. Duplicates(i, j) => S(i) = S(j)
    <3> HIDE DEF R, S, i, j, N
    <3> QED
      BY <1>3, <1>7
  <2>4. ASSUME NEW m \in 1..N, NEW n \in 1..N, m < n, Compared(m, n)', Duplicates(order[m], order[n])
        PROVE  S(order[m]) = S(order[n])
    <3>1. Compared(m, n) \/ (m = pair[1] /\ n = pair[2])
      BY <2>4, NextIsCompared
    <3>2. CASE Compared(m, n)
      <4>1. R(order[m]) = R(order[n])
        BY <1>4, <2>4, <3>2 DEF JoinedSoFar
      <4> HIDE DEF R, S, N
      <4> QED
        BY <2>1, <2>2, <4>1
    <3>3. CASE m = pair[1] /\ n = pair[2]
      BY <2>3, <2>4, <3>3
    <3> QED
      BY <3>1, <3>2, <3>3
  <2> HIDE DEF i, j, R
  <2>5. \A m, n \in 1..N : m < n /\ Compared(m, n)' /\ Duplicates(order[m], order[n]) => S(order[m]) = S(order[n])
    BY <2>4
  <2> QED
    BY <1>2, <1>5, <2>5 DEF JoinedSoFar
<1>10. JoinedRightly'
  <2>0. \A y, z \in 1..N : R(y) = R(z) => z \in Chained(y)
    BY <1>4 DEF JoinedRightly
  <2>1. ASSUME NEW y \in 1..N, NEW z \in 1..N, S(y) = S(z)
        PROVE  z \in Chained(y)
    <3>1. CASE R(y) = R(z)
      BY <2>0, <3>1
    <3>2. CASE R(y) # R(z)
      <4>1. Duplicates(i, j) /\ R(y) \in {R(i), R(j)} /\ R(z) \in {R(i), R(j)}
        <5> HIDE DEF R, S, i, j, N
        <5> QED
          BY <1>7, <2>1, <3>2
      <4>2. ASSUME NEW x \in 1..N, R(x) \in {R(i), R(j)}
            PROVE  i \in Chained(x)
        <5>1. CASE R(x) = R(i)
          BY <1>3, <2>0, <5>1
        <5>2. CASE R(x) = R(j)
          <6>1. j \in Chained(x)
            BY <1>3, <2>0, <5>2
          <6> HIDE DEF R, S, i, j, N
          <6>2. Duplicates(j, i)
            BY <1>1, <1>3, <1>4, <4>1, DuplicatesAreMutual
          <6> QED
            BY <1>1, <1>3, <6>1, <6>2, ChainGrows
        <5> QED
          BY <4>2, <5>1, <5>2
      <4>3. i \in Chained(y) /\ i \in Chained(z)
        BY <4>1, <4>2
      <4> HIDE DEF R, S, i, j, N
      <4>4. z \in Chained(i)
        BY <1>1, <1>4, <4>3, ChainsAreMutual
      <4> QED
        BY <1>1, <4>3, <4>4, ChainsConnect
    <3> QED
      BY <3>1, <3>2
  <2>2. \A y, z \in 1..N : S(y) = S(z) => z \in Chained(y)
    BY <2>1
  <2> QED
    BY <1>5, <2>2 DEF JoinedRightly
<1>11. PairInPlace'
  BY PairStaysInPlace
<1>12. (batch \in ResolveInputs)' /\ Lists(order, Entities)'
  BY <1>2, <1>5 DEF Clustering
<1>13. InTurn'
  <2>1. batch' = batch /\ order' = order
    BY <1>2
  <2> HIDE DEF N, i, j, R, S
  <2>2. InTurn' <=> InTurn
    BY <2>1 DEF InTurn, Size
  <2> QED
    BY <2>2 DEF Clustering
<1> QED
  BY <1>5, <1>8, <1>9, <1>10, <1>11, <1>12, <1>13 DEF Clustering


-----------------------------------------------------------------------------
\* The names given.

\* When all have been compared, the trees are the chains.
LEMMA TreesAreChains ==
    ASSUME Clustering, pair[1] >= Size, NEW i \in 1..Size
    PROVE  Chained(i) = {j \in 1..Size : Root(parent, j) = Root(parent, i)}
<1> DEFINE N == Size
           Tree == {j \in 1..N : Root(parent, j) = Root(parent, i)}
<1>1. /\ N \in Nat /\ Entities = 1..N
      /\ \A m \in 1..N : order[m] \in 1..N
      /\ \A j \in 1..N : \E m \in 1..N : order[m] = j
  BY PlacesOfEntities
<1>2. batch \in ResolveInputs /\ JoinedSoFar /\ JoinedRightly /\ pair[1] = N
  BY <1>1 DEF Clustering, PairInPlace
<1>3. ASSUME NEW j \in Tree, NEW k \in 1..N, Duplicates(j, k)
      PROVE  k \in Tree
  <2>1. PICK m \in 1..N : order[m] = j
    BY <1>1
  <2>2. PICK n \in 1..N : order[n] = k
    BY <1>1
  <2>3. Duplicates(k, j)
    BY <1>1, <1>2, <1>3, DuplicatesAreMutual
  <2>4. \A a, b \in 1..N : a < b /\ Duplicates(order[a], order[b]) => Root(parent, order[a]) = Root(parent, order[b])
    <3>1. \A a, b \in 1..N : a < b => Compared(a, b)
      BY <1>1, <1>2 DEF Compared
    <3> QED
      BY <1>2, <3>1 DEF JoinedSoFar
  <2>5. Root(parent, j) = Root(parent, k)
    <3> HIDE DEF N, Tree
    <3>1. m < n \/ n < m \/ m = n
      BY <1>1
    <3> QED
      BY <1>3, <2>1, <2>2, <2>3, <2>4, <3>1
  <2> QED
    BY <1>3, <2>5
<1>4. Chained(i) \subseteq Tree
  <2>1. i \in Tree /\ Tree \in SUBSET Entities
    BY <1>1
  <2>2. IsClosed(Tree)
    BY <1>1, <1>3 DEF IsClosed
  <2> HIDE DEF Tree
  <2> QED
    BY <1>1, <2>1, <2>2, ChainStays
<1>5. Tree \subseteq Chained(i)
  BY <1>2 DEF JoinedRightly
<1> QED
  BY <1>4, <1>5

\* The names of entities are names, and their types numbers.
LEMMA NamesAreNames ==
    ASSUME Clustering, NEW i \in 1..Size
    PROVE  Named(i) \in Name /\ batch.entities[i] \in [name : Name, type : Nat]
<1>1. i \in DOMAIN batch.entities
  BY PlacesOfEntities DEF Entities
<1>2. batch.entities[i] \in [name : Name, type : Nat]
  BY <1>1, EntitiesOfBatch DEF Clustering
<1> QED
  BY <1>2 DEF Named

\* The last entity of a name.
LEMMA LastOfName ==
    ASSUME Clustering, NEW i \in 1..Size
    PROVE  /\ LastNamed(Named(i)) \in 1..Size
           /\ Named(LastNamed(Named(i))) = Named(i)
           /\ \A j \in 1..Size : Named(j) = Named(i) => j <= LastNamed(Named(i))
<1> DEFINE N == Size
           S == {j \in 1..N : Named(j) = Named(i)}
<1>1. N \in Nat /\ Entities = 1..N
  BY PlacesOfEntities
<1>2. LastNamed(Named(i)) = Max(S)
  BY <1>1 DEF LastNamed, Entities
<1>3. S \in SUBSET (0..N) /\ i \in S
  BY <1>1
<1>4. Max(S) \in S /\ \A y \in S : Max(S) >= y
  <2> HIDE DEF S, N
  <2> QED
    BY <1>1, <1>3, GreatestNumber
<1> QED
  BY <1>1, <1>2, <1>4

\* It is the last one of its name that is compared.
LEMMA NameOfChain ==
    ASSUME Clustering, pair[1] >= Size, NEW i \in 1..Size
    PROVE  Rewrite(Named(i)) = Canonical({Named(j) : j \in Chained(LastNamed(Named(i)))})
<1> DEFINE N == Size
           name == Named(i)
           Places == {m \in 1..Len(order) : Named(order[m]) = name}
           k == Max(Places)
           z == order[k]
           l == LastNamed(name)
<1>1. /\ N \in Nat /\ Entities = 1..N /\ Len(order) = N
      /\ \A m \in 1..N : order[m] \in 1..N
      /\ \A j \in 1..N : \E m \in 1..N : order[m] = j
  BY PlacesOfEntities
<1>2. Places # {} /\ Places \in SUBSET (0..N)
  <2>1. PICK m \in 1..N : order[m] = i
    BY <1>1
  <2>2. m \in Places
    BY <1>1, <2>1
  <2>3. Places \in SUBSET (0..N)
    BY <1>1
  <2> QED
    BY <2>2, <2>3
<1>3. k \in Places /\ \A m \in Places : k >= m
  <2> HIDE DEF Places, N
  <2> QED
    BY <1>1, <1>2, GreatestNumber
<1>4. z \in 1..N /\ Named(z) = Named(i)
  <2> HIDE DEF k
  <2> QED
    BY <1>1, <1>3
<1>5. SelectLastInSeq(order, LAMBDA j : Named(j) = name) = k
  <2>1. SelectLastInSeq(order, LAMBDA j : Named(j) = name) = IF Places # {} THEN Max(Places) ELSE 0
    BY DEF SelectLastInSeq
  <2> HIDE DEF Places
  <2> QED
    BY <1>2, <2>1
<1>6. Rewrite(name) = Canonical({Named(j) : j \in {m \in DOMAIN parent : Root(parent, m) = Root(parent, z)}})
  <2> DEFINE last == SelectLastInSeq(order, LAMBDA j : Named(j) = name)
  <2>1. Rewrite(name) = Canonical({Named(j) : j \in {m \in DOMAIN parent : Root(parent, m) = Root(parent, order[last])}})
    BY DEF Rewrite
  <2>2. last = k
    BY <1>5
  <2> HIDE DEF last, k, name
  <2> QED
    BY <2>1, <2>2
<1>7. l \in 1..N /\ Named(l) = Named(i) /\ z <= l
  BY <1>4, LastOfName
<1>8. z = l
  <2>1. PICK m \in 1..N : order[m] = l
    BY <1>1, <1>7
  <2>2. m \in Places /\ k \in 1..N
    BY <1>1, <1>3, <1>7, <2>1
  <2>3. m <= k
    BY <1>1, <1>3, <2>2
  <2>4. SoonerOf(batch.entities, order[m], order[k]) => order[m] < order[k]
    <3>1. Named(order[m]) = Named(order[k]) /\ Named(order[m]) \in Nat
      <4>1. \A j \in 1..N : Named(j) \in Nat
        BY NamesAreNames, ResolveAssumption
      <4> QED
        BY <1>4, <1>7, <2>1, <4>1
    <3> HIDE DEF k
    <3> QED
      BY <3>1 DEF SoonerOf, Named
  <2>5. m < k => order[m] < order[k]
    <3>1. \A a, b \in 1..N : a < b => SoonerOf(batch.entities, order[a], order[b])
      BY DEF Clustering, InTurn
    <3> HIDE DEF k, N
    <3> QED
      BY <2>2, <2>4, <3>1
  <2> HIDE DEF k, N, l
  <2>6. m < k \/ m = k
    BY <1>1, <2>2, <2>3
  <2>7. CASE m = k
    BY <2>1, <2>7
  <2>8. CASE m < k
    <3>1. l < z
      BY <2>1, <2>5, <2>8
    <3> HIDE DEF z
    <3> QED
      BY <1>1, <1>4, <1>7, <3>1
  <2> QED
    BY <2>6, <2>7, <2>8
<1> HIDE DEF k, z
<1>9. DOMAIN parent = 1..N
  BY DEF Clustering, IsForest
<1>10. Chained(l) = {m \in DOMAIN parent : Root(parent, m) = Root(parent, z)}
  BY <1>7, <1>8, <1>9, TreesAreChains
<1> QED
  BY <1>6, <1>10

\* Of finitely many names one is better than all others.
LEMMA BestOfNames ==
    ASSUME NEW S \in SUBSET Name, IsFiniteSet(S), S # {}
    PROVE  Canonical(S) \in S
<1> DEFINE R == {p \in S \X S : BetterCanonical(p[1], p[2])}
           n == Cardinality(S)
           At(k) == CHOOSE x \in S : Cardinality({y \in S : <<y, x>> \in R}) = k - 1
           list == [k \in 1..n |-> At(k)]
<1>1. \A x \in S : x \in Nat /\ NameLength[x] \in Nat
  BY ResolveAssumption
<1>2. Orders(R, S)
  <2>1. \A x, y \in S : <<x, y>> \in R <=> BetterCanonical(x, y)
    OBVIOUS
  <2> HIDE DEF R
  <2>2. \A x \in S : ~BetterCanonical(x, x)
    BY <1>1 DEF BetterCanonical
  <2>3. \A x, y, z \in S : BetterCanonical(x, y) /\ BetterCanonical(y, z) => BetterCanonical(x, z)
    BY <1>1 DEF BetterCanonical
  <2>4. \A x, y \in S : x = y \/ BetterCanonical(x, y) \/ BetterCanonical(y, x)
    BY <1>1 DEF BetterCanonical
  <2> QED
    BY <2>1, <2>2, <2>3, <2>4 DEF Orders
<1>3. Placed(list, R, S)
  <2>1. \A k \in 1..n : list[k] = At(k)
    OBVIOUS
  <2>2. list = [k \in 1..n |-> list[k]]
    <3> HIDE DEF At, n
    <3> QED
      OBVIOUS
  <2> HIDE DEF list, R
  <2> QED
    BY <2>1, <2>2 DEF Placed
<1>4. n \in Nat /\ n # 0
  BY FS_CardinalityType, FS_EmptySet
<1> HIDE DEF list, R
<1>5. /\ Lists(list, S)
      /\ \A i, j \in 1..n : i < j => <<list[i], list[j]>> \in R
  BY <1>2, <1>3, PlacedInOrder
<1> HIDE DEF n
<1>6. 1 \in 1..n /\ list[1] \in S
  BY <1>4, <1>5 DEF Lists, n
<1>7. ASSUME NEW m \in S \ {list[1]}
      PROVE  BetterCanonical(list[1], m)
  <2>1. PICK i \in 1..n : list[i] = m
    BY <1>5 DEF Lists, n
  <2>2. 1 < i
    BY <1>4, <1>7, <2>1
  <2>3. <<list[1], m>> \in R
    BY <1>5, <1>6, <2>1, <2>2
  <2> QED
    BY <2>3 DEF R
<1>8. \E x \in S : \A m \in S \ {x} : BetterCanonical(x, m)
  BY <1>6, <1>7
<1> QED
  BY <1>8 DEF Canonical

\* A chain stays within its type.
LEMMA ChainsAreOfOneType ==
    ASSUME NEW i \in Entities, NEW j \in Chained(i)
    PROVE  batch.entities[j].type = batch.entities[i].type
<1> DEFINE S == {k \in Entities : batch.entities[k].type = batch.entities[i].type}
<1>1. i \in S /\ S \in SUBSET Entities
  OBVIOUS
<1>2. IsClosed(S)
  BY DEF IsClosed, Duplicates
<1>3. Chained(i) \subseteq S
  <2> HIDE DEF S
  <2> QED
    BY <1>1, <1>2, ChainStays
<1> QED
  BY <1>3

\* The name that an entity is given was the name of one of the type of the last
\* entity that shared its old name.
LEMMA NameIsOfType ==
    ASSUME Clustering, pair[1] >= Size, NEW i \in 1..Size
    PROVE  \E m \in 1..Size :
               /\ Rewrite(Named(i)) = Named(m)
               /\ TypesShareNoName => batch.entities[m].type = batch.entities[i].type
<1> DEFINE l == LastNamed(Named(i))
           S == {Named(j) : j \in Chained(l)}
<1>1. /\ l \in 1..Size /\ Named(l) = Named(i)
      /\ Size \in Nat /\ Entities = 1..Size
  BY LastOfName, PlacesOfEntities
<1>2. TypesShareNoName => batch.entities[l].type = batch.entities[i].type
  BY <1>1 DEF TypesShareNoName, Entities
<1> HIDE DEF l
<1>3. Chained(l) \in SUBSET (1..Size) /\ l \in Chained(l)
  BY <1>1, ChainBegins, ChainedAreEntities
<1>4. IsFiniteSet(S) /\ S # {} /\ S \in SUBSET Name
  <2>1. IsFiniteSet(1..Size)
    BY <1>1, FS_Interval
  <2>2. IsFiniteSet(Chained(l))
    BY <1>3, <2>1, FS_Subset
  <2>3. IsFiniteSet(S)
    <3> DEFINE C == Chained(l)
               f == [j \in C |-> Named(j)]
    <3>1. f \in [C -> S] /\ \A y \in S : \E c \in C : f[c] = y
      OBVIOUS
    <3>2. IsFiniteSet(C)
      BY <2>2
    <3> HIDE DEF f, S, C
    <3>3. f \in Surjection(C, S)
      BY <3>1 DEF Surjection
    <3> QED
      BY <3>2, <3>3, FS_Surjection
  <2> QED
    BY <1>3, <2>3, NamesAreNames
<1>5. Canonical(S) \in S
  <2> HIDE DEF S
  <2> QED
    BY <1>4, BestOfNames
<1>6. PICK m \in Chained(l) : Canonical(S) = Named(m)
  BY <1>5
<1>7. Rewrite(Named(i)) = Named(m)
  BY <1>6, NameOfChain DEF l
<1>8. m \in 1..Size /\ batch.entities[m].type = batch.entities[l].type
  BY <1>1, <1>3, ChainsAreOfOneType
<1> QED
  BY <1>2, <1>7, <1>8

\* The names that RewriteNames gives.
Rewritten(es, rs) ==
    /\ DOMAIN es = Entities
    /\ \A i \in Entities : es[i].name = Rewrite(Named(i)) /\ es[i].type = batch.entities[i].type
    /\ \A i \in DOMAIN batch.relations, end \in {"source", "target"} :
          rs[i][end] = RewriteEndpoint(batch.relations[i][end])

\* Where Canonicalize finds an endpoint that was rewritten, it finds the entity.
LEMMA EndpointIsFound ==
    ASSUME Clustering, pair[1] >= Size, NEW es, NEW rs, Rewritten(es, rs),
           NEW j \in Entities
    PROVE  /\ Bearers(es, Rewrite(Named(j))) # {}
           /\ TypesShareNoName => Lookup(es, Rewrite(Named(j))) = NodeOf(es[j])
<1> DEFINE after == Rewrite(Named(j))
           type == batch.entities[j].type
           B == Bearers(es, after)
<1>1. Entities = 1..Size
  BY PlacesOfEntities
<1>2. es[j].name = after /\ es[j].type = type
  BY DEF Rewritten
<1>3. B = {i \in Entities : NormalName[es[i].name] = NormalName[after]}
  BY DEF Bearers, Rewritten
<1>4. j \in B
  BY <1>2, <1>3
<1>5. ASSUME TypesShareNoName, NEW i \in B
      PROVE  es[i].type = type
  <2>1. PICK m \in 1..Size :
            Rewrite(Named(i)) = Named(m) /\ batch.entities[m].type = batch.entities[i].type
    BY <1>1, <1>3, <1>5, NameIsOfType
  <2>2. PICK n \in 1..Size :
            Rewrite(Named(j)) = Named(n) /\ batch.entities[n].type = batch.entities[j].type
    BY <1>1, <1>5, NameIsOfType
  <2>3. NormalName[Named(m)] = NormalName[Named(n)]
    BY <1>3, <2>1, <2>2 DEF Rewritten
  <2>4. batch.entities[m].type = batch.entities[n].type
    BY <1>1, <1>5, <2>3 DEF TypesShareNoName, Entities
  <2> QED
    BY <1>3, <2>1, <2>2, <2>4 DEF Rewritten
<1>6. TypesShareNoName => Lookup(es, after) = NodeOf(es[j])
  <2>1. SUFFICES ASSUME TypesShareNoName
                 PROVE  Lookup(es, after) = NodeOf(es[j])
    OBVIOUS
  <2>2. {es[i].type : i \in B} = {type}
    <3> HIDE DEF B, type
    <3> QED
      BY <1>2, <1>4, <1>5, <2>1
  <2>3. type \in Nat
    BY <1>1, NamesAreNames
  <2>4. Max({type}) = type
    <3> HIDE DEF type
    <3>1. {type} \in SUBSET (0..type) /\ {type} # {}
      BY <2>3
    <3>2. Max({type}) \in {type}
      BY <2>3, <3>1, GreatestNumber
    <3> QED
      BY <3>2
  <2>5. Lookup(es, after) = <<Max({es[i].type : i \in B}), NormalName[after]>>
    BY DEF Lookup
  <2> HIDE DEF B, type, after
  <2> QED
    BY <1>2, <2>2, <2>4, <2>5 DEF NodeOf
<1> QED
  BY <1>4, <1>6

\* What names nothing is left alone, and no entity is given a name of its form.
LEMMA NothingIsNothing ==
    ASSUME Clustering, pair[1] >= Size, NEW es, NEW rs, Rewritten(es, rs),
           NEW name, Bearers(batch.entities, name) = {}
    PROVE  RewriteEndpoint(name) = name /\ Bearers(es, name) = {}
<1>1. Entities = 1..Size
  BY PlacesOfEntities
<1>2. \A m \in Entities : NormalName[Named(m)] # NormalName[name]
  BY DEF Bearers, Entities, Named
<1>3. name \notin Names(batch.entities)
  BY <1>2 DEF Names, Entities, Named
<1>4. \A i \in Entities : NormalName[es[i].name] # NormalName[name]
  <2> TAKE i \in Entities
  <2>1. PICK m \in 1..Size : Rewrite(Named(i)) = Named(m)
    BY <1>1, NameIsOfType
  <2> QED
    BY <1>1, <1>2, <2>1 DEF Rewritten
<1>5. Bearers(es, name) = {}
  BY <1>4 DEF Bearers, Rewritten
<1> QED
  BY <1>3, <1>5 DEF RewriteEndpoint

LEMMA RewriteEnds ==
    ASSUME ResolveInv, RewriteNames
    PROVE  ResolveInv'
<1>1. /\ resolver = "compare" /\ resolver' = "done" /\ UNCHANGED batch
      /\ pair[1] >= Len(order)
  BY DEF RewriteNames
<1>2. Clustering
  BY <1>1 DEF ResolveInv
<1>3. Entities = 1..Size /\ pair[1] >= Size
  BY <1>1, <1>2, PlacesOfEntities
<1> DEFINE es == [i \in DOMAIN batch.entities |-> [batch.entities[i] EXCEPT !.name = Rewrite(@)]]
           rs == [i \in DOMAIN batch.relations |->
                    [source |-> RewriteEndpoint(batch.relations[i].source),
                     target |-> RewriteEndpoint(batch.relations[i].target)]]
<1>4. resolved' = [entities |-> es, relations |-> rs]
  BY DEF RewriteNames
<1>5. Rewritten(es, rs)
  <2>1. \A i \in Entities : batch.entities[i] \in [name : Name, type : Nat]
    BY <1>2, <1>3, NamesAreNames
  <2>2. \A i \in Entities : es[i].name = Rewrite(Named(i)) /\ es[i].type = batch.entities[i].type
    BY <2>1 DEF Entities, Named
  <2>3. \A i \in DOMAIN batch.relations :
           /\ rs[i]["source"] = RewriteEndpoint(batch.relations[i].source)
           /\ rs[i]["target"] = RewriteEndpoint(batch.relations[i].target)
    OBVIOUS
  <2>4. DOMAIN es = Entities
    BY DEF Entities
  <2> HIDE DEF es, rs
  <2> QED
    BY <2>2, <2>3, <2>4 DEF Rewritten
<1> HIDE DEF es, rs
<1>6. resolved'.entities = es /\ resolved'.relations = rs
  BY <1>4
<1>7. \A i \in Entities : es[i].name = Canonical({Named(j) : j \in Chained(LastNamed(Named(i)))})
  BY <1>2, <1>3, <1>5, NameOfChain DEF Rewritten
<1>8. ASSUME NEW i \in DOMAIN batch.relations, NEW end \in {"source", "target"}
      PROVE  FollowedAt(batch.entities, es, batch.relations[i][end], rs[i][end])
  <2>1. rs[i][end] = RewriteEndpoint(batch.relations[i][end])
    BY <1>5 DEF Rewritten
  <2>2. ASSUME NEW j \in Entities, Named(j) = batch.relations[i][end]
        PROVE  rs[i][end] = Rewrite(Named(j))
    BY <2>1, <2>2 DEF RewriteEndpoint, Names, Named, Entities
  <2>3. ASSUME NEW j \in Entities, Named(j) = batch.relations[i][end]
        PROVE  /\ Bearers(es, rs[i][end]) # {}
               /\ TypesShareNoName => Lookup(es, rs[i][end]) = NodeOf(es[j])
    BY <1>2, <1>3, <1>5, <2>2, <2>3, EndpointIsFound
  <2>4. Bearers(batch.entities, batch.relations[i][end]) = {} => Bearers(es, rs[i][end]) = {}
    BY <1>2, <1>3, <1>5, <2>1, NothingIsNothing
  <2>5. \A j \in DOMAIN batch.entities : batch.entities[j].name = batch.relations[i][end] =>
           /\ Bearers(es, rs[i][end]) # {}
           /\ Unshared(batch.entities) => Lookup(es, rs[i][end]) = NodeOf(es[j])
    BY <2>3, EndpointsAreFollowed DEF Named, Entities
  <2> QED
    BY <2>4, <2>5 DEF FollowedAt
<1>9. /\ \A i : Chained(i)' = Chained(i)
      /\ \A i : Named(i)' = Named(i)
      /\ \A n : LastNamed(n)' = LastNamed(n)
      /\ TypesShareNoName' = TypesShareNoName
  BY <1>1, BatchStays
<1>10. ChainsShareAName'
  <2>1. \A i \in DOMAIN batch'.entities :
           resolved'.entities[i].name = Canonical({Named(j) : j \in Chained(LastNamed(Named(i)))})
    BY <1>1, <1>6, <1>7, <1>9 DEF Entities
  <2> QED
    BY <1>9, <2>1 DEF ChainsShareAName
<1>11. EndpointsFollow'
  <2>1. \A i \in DOMAIN batch.relations, end \in {"source", "target"} :
           FollowedAt(batch.entities, resolved'.entities, batch.relations[i][end], resolved'.relations[i][end])
    BY <1>6, <1>8
  <2>2. Followed(batch, resolved')
    BY <2>1 DEF Followed
  <2>3. Followed(batch', resolved')
    BY <1>1, <2>2
  <2> QED
    BY <2>3, EndpointsAreFollowed
<1> QED
  BY <1>1, <1>10, <1>11 DEF ResolveInv

LEMMA ResolveSteps ==
    ASSUME ResolveInv, Resolve \/ ResolveStep
    PROVE  ResolveInv'
<1>1. ASSUME ComparePair
      PROVE  ResolveInv'
  <2>1. resolver = "compare" /\ resolver' = "compare"
    BY <1>1 DEF ComparePair
  <2>2. Clustering'
    BY <1>1, <2>1, CompareKeepsClusters DEF ResolveInv
  <2> QED
    BY <2>1, <2>2 DEF ResolveInv
<1> QED
  BY <1>1, ResolveBegins, EmbedKeeps, RewriteEnds DEF ResolveStep

LEMMA ResolutionHeld == ASSUME ResolveInv PROVE ResolutionIsFaithful
  BY DEF ResolveInv, ResolutionIsFaithful

-----------------------------------------------------------------------------
\* The computations run apart: what one of them does leaves the others alone.

LEMMA PathNext == ASSUME Next PROVE RankPaths \/ PathStep \/ UNCHANGED pathVars
  BY DEF Next, Begin, Step, Others

LEMMA PackingNext == ASSUME Next PROVE AskRound \/ PackStep \/ UNCHANGED packVars
  BY DEF Next, Begin, Step, Others

LEMMA DetectionNext == ASSUME Next PROVE (Detect \/ DetectStep) \/ UNCHANGED detectVars
  BY DEF Next, Begin, Step, Others

LEMMA SplittingNext == ASSUME Next PROVE (Split \/ SplitStep) \/ UNCHANGED splitVars
  BY DEF Next, Begin, Step, Others

LEMMA ResolutionNext == ASSUME Next PROVE (Resolve \/ ResolveStep) \/ UNCHANGED resolveVars
  BY DEF Next, Begin, Step, Others

\* The paths ranked are the simple paths between the seeds, of no more than
\* MaxPathLen relations, all of them and each once (graph/path.go).
THEOREM PathsAreAlwaysComplete == Spec => []PathsAreComplete
<1>1. Init => PathInv
  BY PathStarts DEF Init
<1>2. PathInv /\ [Next]_vars => PathInv'
  <2>1. ASSUME PathInv, Next
        PROVE  PathInv'
    BY <2>1, PathNext, PathSteps, PathStays
  <2>2. ASSUME PathInv, UNCHANGED vars
        PROVE  PathInv'
    <3>1. UNCHANGED pathVars
      BY <2>2 DEF vars
    <3> QED
      BY <2>2, <3>1, PathStays
  <2> QED
    BY <2>1, <2>2
<1>3. PathInv => PathsAreComplete
  BY PathsHeld
<1> QED
  BY <1>1, <1>2, <1>3, PTL DEF Spec

\* A prompt is accounted for: which hits it packs, which it cuts or drops, and
\* what tokens it takes (pack/pack.go).
THEOREM ContextAlwaysAddsUp == Spec => []ContextAddsUp
<1>1. Init => PackInv
  BY PackStarts DEF Init
<1>2. PackInv /\ [Next]_vars => PackInv'
  <2>1. ASSUME PackInv, Next
        PROVE  PackInv'
    BY <2>1, PackingNext, PackSteps, PackStays
  <2>2. ASSUME PackInv, UNCHANGED vars
        PROVE  PackInv'
    <3>1. UNCHANGED packVars
      BY <2>2 DEF vars
    <3> QED
      BY <2>2, <3>1, PackStays
  <2> QED
    BY <2>1, <2>2
<1>3. PackInv => ContextAddsUp
  BY PackingHeld
<1> QED
  BY <1>1, <1>2, <1>3, PTL DEF Spec

\* Every level that a detector gives back partitions the entities, and each
\* community lies in its parent, whatever label each visit chooses, on whole and
\* torn graphs (graph/louvain.go, graph/community.go).
THEOREM HierarchyIsAlwaysNested == Spec => []HierarchyIsNested
<1>1. Init => DetectInv
  BY DetectStarts DEF Init
<1>2. DetectInv /\ [Next]_vars => DetectInv'
  <2>1. ASSUME DetectInv, Next
        PROVE  DetectInv'
    BY <2>1, DetectionNext, DetectSteps, DetectStays
  <2>2. ASSUME DetectInv, UNCHANGED vars
        PROVE  DetectInv'
    <3>1. UNCHANGED detectVars
      BY <2>2 DEF vars
    <3> QED
      BY <2>2, <3>1, DetectStays
  <2> QED
    BY <2>1, <2>2
<1>3. DetectInv => HierarchyIsNested
  BY HierarchyHeld
<1> QED
  BY <1>1, <1>2, <1>3, PTL DEF Spec

\* Louvain never makes the partition worse: no move lowers the modularity, ties
\* and moves for no gain included, and coarsening keeps it, whatever the graph
\* and the resolution (graph/louvain.go).
THEOREM QualityIsNeverLost == Spec => QualityNeverFalls
<1>1. Init => QualityInv
  BY QualityStarts DEF Init
<1>2. QualityInv /\ [Next]_vars => QualityInv'
  <2>1. ASSUME QualityInv, Next
        PROVE  QualityInv'
    <3>1. CASE Detect
      BY <2>1, <3>1, QualityBegins
    <3>2. CASE DetectStep
      BY <2>1, <3>2, QualityGoesUp
    <3>3. CASE UNCHANGED detectVars
      BY <2>1, <3>3, QualityStays
    <3> QED
      BY <2>1, <3>1, <3>2, <3>3, DetectionNext
  <2>2. ASSUME QualityInv, UNCHANGED vars
        PROVE  QualityInv'
    <3>1. UNCHANGED detectVars
      BY <2>2 DEF vars
    <3> QED
      BY <2>2, <3>1, QualityStays
  <2> QED
    BY <2>1, <2>2
<1>3. QualityInv /\ [Next]_vars =>
          [(at # "idle" /\ detector = "louvain") => Modularity' >= Modularity]_detectVars
  <2>1. ASSUME QualityInv, Next
        PROVE  [(at # "idle" /\ detector = "louvain") => Modularity' >= Modularity]_detectVars
    <3>1. CASE Detect
      <4>1. at = "idle"
        BY <3>1 DEF Detect
      <4> QED
        BY <4>1
    <3>2. CASE DetectStep
      BY <2>1, <3>2, QualityGoesUp
    <3>3. CASE UNCHANGED detectVars
      BY <3>3
    <3> QED
      BY <2>1, <3>1, <3>2, <3>3, DetectionNext
  <2>2. ASSUME UNCHANGED vars
        PROVE  UNCHANGED detectVars
    BY <2>2 DEF vars
  <2> QED
    BY <2>1, <2>2
<1> QED
  BY <1>1, <1>2, <1>3, PTL DEF Spec, QualityNeverFalls

\* The chunks of a split document hold every character of its sections that is
\* no blank, and none exceeds the size asked for by more than a fifth; where no
\* heading skips a level, a section's path is the last heading of every level
\* down to its own (ingest/splitter.go).
THEOREM ChunksAlwaysKeepTheDocument == Spec => []ChunksKeepTheDocument
<1>1. Init => SplitInv
  BY SplitStarts DEF Init
<1>2. SplitInv /\ [Next]_vars => SplitInv'
  <2>1. ASSUME SplitInv, Next
        PROVE  SplitInv'
    BY <2>1, SplittingNext, SplitSteps, SplitStays
  <2>2. ASSUME SplitInv, UNCHANGED vars
        PROVE  SplitInv'
    <3>1. UNCHANGED splitVars
      BY <2>2 DEF vars
    <3> QED
      BY <2>2, <3>1, SplitStays
  <2> QED
    BY <2>1, <2>2
<1>3. SplitInv => ChunksKeepTheDocument
  BY SplittingHeld
<1> QED
  BY <1>1, <1>2, <1>3, PTL DEF Spec

\* What ResolveEntities leaves can be canonicalized: a chain of duplicates has one
\* name, the best of theirs, and every endpoint that named an entity by its
\* spelling is found again by Canonicalize, under the entity it named where no
\* two types share a name (graph/resolve.go, graph/canonicalize.go), for every
\* order in which the entities come and every normal form of the names.
THEOREM ResolutionIsAlwaysFaithful == Spec => []ResolutionIsFaithful
<1>1. Init => ResolveInv
  BY ResolveStarts DEF Init
<1>2. ResolveInv /\ [Next]_vars => ResolveInv'
  <2>1. ASSUME ResolveInv, Next
        PROVE  ResolveInv'
    BY <2>1, ResolutionNext, ResolveSteps, ResolveStays
  <2>2. ASSUME ResolveInv, UNCHANGED vars
        PROVE  ResolveInv'
    <3>1. UNCHANGED resolveVars
      BY <2>2 DEF vars
    <3> QED
      BY <2>2, <3>1, ResolveStays
  <2> QED
    BY <2>1, <2>2
<1>3. ResolveInv => ResolutionIsFaithful
  BY ResolutionHeld
<1> QED
  BY <1>1, <1>2, <1>3, PTL DEF Spec
=============================================================================
