---------------------------- MODULE PostgresProofs ----------------------------
(***************************************************************************)
(* Theorems about PostgresStore, for any number of clients, calls, rows    *)
(* and keys: what a transaction has done at each of its statements, that   *)
(* no committed relation dangles, that readers err forward, and that the   *)
(* transactions implement the contract of the in-memory store.             *)
(***************************************************************************)
EXTENDS PostgresStore, SequenceTheorems, TLAPS

\* Rows of entities and relations.
ElementRow == [prov : SUBSET Chunk, weight : Nat]

\* The elements a graph brings.
Targets(c) == {x \in Element : c.graph.prov[x] # {}}

\* What a transaction has done, in terms of the committed rows d, the rows m
\* it wrote, its call c, the number n of statements left (the current one
\* included), the rows v the current one has yet to visit, and the keys l that
\* others committed meanwhile.  A row it wrote is locked, so d has what it met.

\* UpsertGraph has merged each row once, the entities before the relations.
HasMerged(d, m, c, n, v) ==
    /\ n \in 1..3
    /\ DOMAIN m \cup v = IF n = 3 THEN {} ELSE IF n = 2 THEN Targets(c) \cap Entity ELSE Targets(c)
    /\ DOMAIN m \cap v = {}
    /\ \A x \in DOMAIN m : m[x] = IF d[x] = Absent THEN Brought(c, x) ELSE Merged(d[x], Brought(c, x))

\* RemoveGraphBySource has stripped what it met, and collected what was left
\* without provenance.
Stripped(row, result, c) ==
    \/ row = Absent /\ result = Absent
    \/ row # Absent /\ result = [row EXCEPT !.prov = @ \ c.chunks]
    \/ row # Absent /\ result = Absent /\ row.prov \subseteq c.chunks

HasRemoved(d, m, c, n, v, l) ==
    /\ n \in 1..5
    /\ n = 5 => DOMAIN m = {} /\ v = {}
    /\ DOMAIN m \subseteq Element
    /\ v \subseteq IF n > 2 THEN Entity ELSE Relation
    /\ n \in {1, 3} => v \subseteq DOMAIN m
    /\ \A x \in DOMAIN m : Stripped(d[x], m[x], c)
    /\ \A x \in DOMAIN m :
          (x \in Entity /\ n <= 3) \/ (x \in Relation /\ n = 1) =>
              m[x] = Absent \/ m[x].prov # {} \/ x \in v
    /\ \A x \in Element :
          (x \in Entity /\ n <= 4) \/ (x \in Relation /\ n <= 2) =>
              d[x] = Absent \/ x \in DOMAIN m \/ x \in v \/ x \in l

\* Upsert has written its rows.
HasWritten(m, c, n, v) ==
    /\ n \in 1..2
    /\ DOMAIN m \cup v = IF n = 2 THEN {} ELSE DOMAIN c.rows
    /\ \A x \in DOMAIN m : m[x] = c.rows[x]

\* RemoveByFilter has deleted what it met and still matched.
HasFiltered(d, m, c, n, v, l) ==
    /\ n \in 1..2
    /\ n = 2 => DOMAIN m = {} /\ v = {}
    /\ DOMAIN m \cup v \subseteq Chunk
    /\ \A x \in DOMAIN m : m[x] = IF d[x] = c.match THEN Absent ELSE d[x]
    /\ n = 1 => \A x \in Chunk : d[x] = c.match => x \in DOMAIN m \/ x \in v \/ x \in l

\* UpsertCommunities has deleted what it met, and inserted its own.
HasReplaced(d, m, c, n, v, l) ==
    /\ n \in 1..3
    /\ n = 3 => DOMAIN m = {} /\ v = {}
    /\ DOMAIN m \cup v \subseteq CommunityId
    /\ n = 1 => v \subseteq c.ids
    /\ \A k \in DOMAIN m : m[k] = Absent \/ (n = 1 /\ k \in c.ids /\ k \notin v /\ m[k] = c.ids)
    /\ n = 1 => \A k \in c.ids : k \in v \/ (k \in DOMAIN m /\ m[k] = c.ids)
    /\ n <= 2 => \A k \in CommunityId : d[k] = Absent \/ k \in DOMAIN m \/ k \in v \/ k \in l \/ (n = 1 /\ k \in c.ids)

\* The reading calls write nothing.
HasRead(m, v) == DOMAIN m = {} /\ v = {}

Sound(d, m, c, n, v, l) ==
    /\ c.op = "UpsertGraph" => HasMerged(d, m, c, n, v)
    /\ c.op = "RemoveGraphBySource" => HasRemoved(d, m, c, n, v, l)
    /\ c.op = "Upsert" => HasWritten(m, c, n, v)
    /\ c.op = "RemoveByFilter" => HasFiltered(d, m, c, n, v, l)
    /\ c.op = "UpsertCommunities" => HasReplaced(d, m, c, n, v, l)
    /\ c.op \in {"GraphSnapshot", "Neighborhood"} => HasRead(m, v)

\* The statements that are left are the last ones of the call's.
LastOf2(a, b)          == {<<a, b>>, <<b>>}
LastOf3(a, b, c)       == {<<a, b, c>>, <<b, c>>, <<c>>}
LastOf4(a, b, c, d)    == {<<a, b, c, d>>, <<b, c, d>>, <<c, d>>, <<d>>}
LastOf5(a, b, c, d, e) == {<<a, b, c, d, e>>, <<b, c, d, e>>, <<c, d, e>>, <<d, e>>, <<e>>}

BeginStatement == Statement("begin", {})

OnPlan(c, t) ==
    /\ c.op = "UpsertGraph" =>
         t \in LastOf3(BeginStatement, Statement("merge", Entity), Statement("merge", Relation))
    /\ c.op = "RemoveGraphBySource" =>
         t \in LastOf5(BeginStatement, Statement("strip", Entity), Statement("collect", Entity),
                                      Statement("strip", Relation), Statement("collect", Relation))
    /\ c.op = "Upsert" => t \in LastOf2(BeginStatement, Statement("write", Chunk))
    /\ c.op = "RemoveByFilter" => t \in LastOf2(BeginStatement, Statement("delete", Chunk))
    /\ c.op = "UpsertCommunities" =>
         t \in LastOf3(BeginStatement, Statement("delete", CommunityId), Statement("insert", CommunityId))
    /\ c.op = "GraphSnapshot" =>
         t \in LastOf3(BeginStatement, Statement("read", Entity), Statement("read", Relation))
    /\ c.op = "Neighborhood" =>
         t \in LastOf4(BeginStatement, Statement("walk", Entity),
                       Statement("read", Entity), Statement("read", Relation))

-----------------------------------------------------------------------------
TypeOK ==
    /\ DOMAIN db = Key
    /\ \A x \in Element : db[x] = Absent \/ (db[x] \in ElementRow /\ db[x].prov # {})
    /\ DOMAIN mine = Client
    /\ deleted \in [Client -> SUBSET Key]
    /\ call \in [Client -> Calls \cup {NoCall}]
    /\ DOMAIN todo = Client
    /\ visiting \in [Client -> SUBSET Key]
    /\ calls \in Nat
    /\ DOMAIN seen = Client
    /\ late \in [Client -> SUBSET Key]
    /\ \A p \in Client : DOMAIN mine[p] \subseteq Key

\* A row is written by one transaction at a time.
LocksExclude ==
    \A p, q \in Client : p # q => DOMAIN mine[p] \cap DOMAIN mine[q] = {}

\* A deleted row is gone, or the same transaction wrote a new one in its place.
DeletedAreGone ==
    \A p \in Client : \A x \in deleted[p] :
        x \in DOMAIN mine[p] /\ (mine[p][x] = Absent \/ Brought(call[p], x) # Absent)

Progress(p) ==
    IF call[p] = NoCall
    THEN todo[p] = <<>> /\ visiting[p] = {} /\ DOMAIN mine[p] = {} /\ deleted[p] = {}
    ELSE OnPlan(call[p], todo[p])
         /\ Sound(db, mine[p], call[p], Len(todo[p]), visiting[p], late[p])

IInv == TypeOK /\ LocksExclude /\ DeletedAreGone /\ \A p \in Client : Progress(p)

\* Once RemoveGraphBySource looks for relations, it finds every relation of an
\* endpoint it stripped: a relation that appears needs a lock on that endpoint.
FindsRelations(d, m, c, n, v) ==
    c.op = "RemoveGraphBySource" /\ n <= 2 =>
        \A r \in Relation : \A e \in Ends[r] :
            d[r] # Absent /\ e \in DOMAIN m => r \in DOMAIN m \/ r \in v

EdgesFound ==
    \A p \in Client : call[p] # NoCall =>
        FindsRelations(db, mine[p], call[p], Len(todo[p]), visiting[p])

\* What a reader has between its queries.
HasQueried(d, c, n, s, l) ==
    /\ c.op \notin {"GraphSnapshot", "Neighborhood"} => s.got = {}
    /\ n >= 2 => s.got \cap Relation = {}
    /\ c.op \in {"GraphSnapshot", "Neighborhood"} /\ n = 2 =>
         \A x \in Entity \cap s.reached : d[x] = Absent \/ x \in s.got \/ x \in l
    /\ n = 1 => \A r \in s.got \cap Relation : Ends[r] \subseteq s.got \cup l

ReadersKnow ==
    /\ seen \in [Client -> [reached : SUBSET Entity, got : SUBSET Element]]
    /\ \A p \in Client :
          IF call[p] = NoCall THEN seen[p].got = {}
          ELSE HasQueried(db, call[p], Len(todo[p]), seen[p], late[p])
-----------------------------------------------------------------------------
\* The tables share no key, and no row of an element looks like its absence.
LEMMA Tables ==
    /\ Entity \cap Relation = {} /\ Element = Entity \cup Relation
    /\ Element \cap Chunk = {} /\ CommunityId \cap Element = {} /\ CommunityId \cap Chunk = {}
    /\ \A row \in ElementRow : row # Absent
  BY GraphAssumption, PostgresAssumption DEF GraphAssumption, PostgresAssumption, Element, ElementRow

LEMMA CallOps ==
    ASSUME NEW c \in Calls
    PROVE  /\ c # NoCall
           /\ c.op \in {"UpsertGraph", "RemoveGraphBySource", "Upsert", "RemoveByFilter",
                       "UpsertCommunities", "GraphSnapshot", "Neighborhood"}
  BY PostgresAssumption DEF PostgresAssumption, WellFormed

\* The rows a call brings.
LEMMA GraphBrings ==
    ASSUME NEW c \in Calls, c.op = "UpsertGraph", NEW x
    PROVE  /\ x \notin Targets(c) => Brought(c, x) = Absent
           /\ x \in Targets(c) =>
                 /\ x \in Element
                 /\ Brought(c, x) # Absent
                 /\ Brought(c, x) \in ElementRow
                 /\ Brought(c, x).prov = c.graph.prov[x]
                 /\ x \in Relation => Brought(c, x).weight = c.graph.weight[x]
<1>1. c.graph \in NsGraph
  BY PostgresAssumption DEF PostgresAssumption, WellFormed
<1>2. CASE x \notin Targets(c)
  BY <1>2 DEF Brought, Targets
<1>3. CASE x \in Targets(c)
  <2>1. /\ c.graph.prov[x] \in SUBSET Chunk
        /\ x \in Element
        /\ x \in Relation => c.graph.weight[x] \in Nat
    BY <1>1, <1>3 DEF Targets, NsGraph
  <2>2. Brought(c, x) = [prov |-> c.graph.prov[x], weight |-> IF x \in Relation THEN c.graph.weight[x] ELSE 0]
    BY <1>3 DEF Brought, Targets
  <2> QED
    BY <1>3, <2>1, <2>2, Tables DEF ElementRow
<1> QED
  BY <1>2, <1>3

LEMMA ChunksBring ==
    ASSUME NEW c \in Calls, c.op = "Upsert", NEW x
    PROVE  /\ DOMAIN c.rows \subseteq Chunk
           /\ x \notin DOMAIN c.rows => Brought(c, x) = Absent
           /\ x \in DOMAIN c.rows => Brought(c, x) = c.rows[x] /\ Brought(c, x) # Absent
<1>1. DOMAIN c.rows \subseteq Chunk /\ \A y \in DOMAIN c.rows : c.rows[y] # Absent
  BY PostgresAssumption DEF PostgresAssumption, WellFormed
<1>2. Brought(c, x) = IF x \in DOMAIN c.rows THEN c.rows[x] ELSE Absent
  BY DEF Brought
<1> QED
  BY <1>1, <1>2

LEMMA CommunitiesBring ==
    ASSUME NEW c \in Calls, c.op = "UpsertCommunities", NEW x
    PROVE  /\ c.ids \subseteq CommunityId
           /\ x \notin c.ids => Brought(c, x) = Absent
           /\ x \in c.ids => Brought(c, x) = c.ids /\ Brought(c, x) # Absent
<1>1. c.ids \subseteq CommunityId /\ c.ids # Absent
  BY PostgresAssumption DEF PostgresAssumption, WellFormed
<1>2. Brought(c, x) = IF x \in c.ids THEN c.ids ELSE Absent
  BY DEF Brought
<1> QED
  BY <1>1, <1>2

LEMMA OthersBringNothing ==
    ASSUME NEW c, c.op \notin {"UpsertGraph", "Upsert", "UpsertCommunities"}, NEW x
    PROVE  Brought(c, x) = Absent
  BY DEF Brought

\* What visiting a row makes of it.
LEMMA VisitedRows ==
    ASSUME NEW c, NEW x, NEW row
    PROVE  /\ Visited("merge", c, x, row) = IF row = Absent THEN Brought(c, x) ELSE Merged(row, Brought(c, x))
           /\ Visited("write", c, x, row) = Brought(c, x)
           /\ Visited("insert", c, x, row) = Brought(c, x)
           /\ Visited("collect", c, x, row) = IF Where("collect", c, row) THEN Absent ELSE row
           /\ Visited("delete", c, x, row) = IF Where("delete", c, row) THEN Absent ELSE row
<1>1. Visited("merge", c, x, row) = IF row = Absent THEN Brought(c, x) ELSE Merged(row, Brought(c, x))
  BY DEF Visited, Inserted, Scans
<1>2. Visited("write", c, x, row) = Brought(c, x)
  BY DEF Visited, Scans
<1>3. Visited("insert", c, x, row) = Brought(c, x)
  BY DEF Visited, Scans
<1>5. Visited("collect", c, x, row) = IF Where("collect", c, row) THEN Absent ELSE row
  BY DEF Visited, Scans
<1>6. Visited("delete", c, x, row) = IF Where("delete", c, row) THEN Absent ELSE row
  BY DEF Visited, Scans
<1> QED
  BY <1>1, <1>2, <1>3, <1>5, <1>6

LEMMA VisitedAbsent ==
    ASSUME NEW c, NEW x, NEW verb \in Scans
    PROVE  Visited(verb, c, x, Absent) = Absent
<1>1. ~Where(verb, c, Absent)
  BY DEF Where
<1>2. verb # "merge" /\ verb \notin {"write", "insert"}
  BY DEF Scans
<1> QED
  BY <1>1, <1>2 DEF Visited

LEMMA VisitedStripped ==
    ASSUME NEW c, NEW x, NEW row
    PROVE  /\ row = Absent => Visited("strip", c, x, row) = Absent
           /\ row # Absent /\ c.op = "RemoveGraphBySource" =>
                 Visited("strip", c, x, row) = [row EXCEPT !.prov = @ \ c.chunks]
<1>1. Visited("strip", c, x, row) = IF ~Where("strip", c, row) THEN row ELSE [row EXCEPT !.prov = @ \ c.chunks]
  BY DEF Visited, Scans
<1>2. row = Absent => ~Where("strip", c, row)
  BY DEF Where
<1>3. row # Absent /\ c.op = "RemoveGraphBySource" => Where("strip", c, row)
  BY DEF Where
<1> QED
  BY <1>1, <1>2, <1>3, Zenon

\* What is left of a list of statements, one after the other.
LEMMA Last2 ==
    ASSUME NEW a, NEW b, NEW t \in LastOf2(a, b)
    PROVE  /\ Len(t) \in 1..2 /\ t # <<>>
           /\ Len(t) = 1 => Head(t) = b
           /\ Len(t) = 2 => Head(t) = a
           /\ Len(t) > 1 => /\ Tail(t) \in LastOf2(a, b)
                             /\ Len(Tail(t)) = Len(t) - 1
                             /\ Head(Tail(t)) = t[2]
<1>1. CASE t = <<a, b>>
  <2>1. Tail(t) = <<b>>
    BY <1>1
  <2> QED
    BY <1>1, <2>1 DEF LastOf2
<1>2. CASE t = <<b>>
  BY <1>2
<1> QED
  BY <1>1, <1>2 DEF LastOf2

LEMMA Last3 ==
    ASSUME NEW a, NEW b, NEW c, NEW t \in LastOf3(a, b, c)
    PROVE  /\ Len(t) \in 1..3 /\ t # <<>>
           /\ Len(t) = 1 => Head(t) = c
           /\ Len(t) = 2 => Head(t) = b
           /\ Len(t) = 3 => Head(t) = a
           /\ Len(t) > 1 => /\ Tail(t) \in LastOf3(a, b, c)
                             /\ Len(Tail(t)) = Len(t) - 1
                             /\ Head(Tail(t)) = t[2]
<1>1. CASE t = <<a, b, c>>
  <2>1. Tail(t) = <<b, c>>
    BY <1>1
  <2> QED
    BY <1>1, <2>1 DEF LastOf3
<1>2. CASE t = <<b, c>>
  <2>1. Tail(t) = <<c>>
    BY <1>2
  <2> QED
    BY <1>2, <2>1 DEF LastOf3
<1>3. CASE t = <<c>>
  BY <1>3
<1> QED
  BY <1>1, <1>2, <1>3 DEF LastOf3

LEMMA Last4 ==
    ASSUME NEW a, NEW b, NEW c, NEW d, NEW t \in LastOf4(a, b, c, d)
    PROVE  /\ Len(t) \in 1..4 /\ t # <<>>
           /\ Len(t) = 1 => Head(t) = d
           /\ Len(t) = 2 => Head(t) = c
           /\ Len(t) = 3 => Head(t) = b
           /\ Len(t) = 4 => Head(t) = a
           /\ Len(t) > 1 => /\ Tail(t) \in LastOf4(a, b, c, d)
                             /\ Len(Tail(t)) = Len(t) - 1
                             /\ Head(Tail(t)) = t[2]
<1>1. CASE t = <<a, b, c, d>>
  <2>1. Tail(t) = <<b, c, d>>
    BY <1>1
  <2> QED
    BY <1>1, <2>1 DEF LastOf4
<1>2. CASE t = <<b, c, d>>
  <2>1. Tail(t) = <<c, d>>
    BY <1>2
  <2> QED
    BY <1>2, <2>1 DEF LastOf4
<1>3. CASE t = <<c, d>>
  <2>1. Tail(t) = <<d>>
    BY <1>3
  <2> QED
    BY <1>3, <2>1 DEF LastOf4
<1>4. CASE t = <<d>>
  BY <1>4
<1> QED
  BY <1>1, <1>2, <1>3, <1>4 DEF LastOf4

LEMMA Last5 ==
    ASSUME NEW a, NEW b, NEW c, NEW d, NEW e, NEW t \in LastOf5(a, b, c, d, e)
    PROVE  /\ Len(t) \in 1..5 /\ t # <<>>
           /\ Len(t) = 1 => Head(t) = e
           /\ Len(t) = 2 => Head(t) = d
           /\ Len(t) = 3 => Head(t) = c
           /\ Len(t) = 4 => Head(t) = b
           /\ Len(t) = 5 => Head(t) = a
           /\ Len(t) > 1 => /\ Tail(t) \in LastOf5(a, b, c, d, e)
                             /\ Len(Tail(t)) = Len(t) - 1
                             /\ Head(Tail(t)) = t[2]
<1>1. CASE t = <<a, b, c, d, e>>
  <2>1. Tail(t) = <<b, c, d, e>>
    BY <1>1
  <2> QED
    BY <1>1, <2>1 DEF LastOf5
<1>2. CASE t = <<b, c, d, e>>
  <2>1. Tail(t) = <<c, d, e>>
    BY <1>2
  <2> QED
    BY <1>2, <2>1 DEF LastOf5
<1>3. CASE t = <<c, d, e>>
  <2>1. Tail(t) = <<d, e>>
    BY <1>3
  <2> QED
    BY <1>3, <2>1 DEF LastOf5
<1>4. CASE t = <<d, e>>
  <2>1. Tail(t) = <<e>>
    BY <1>4
  <2> QED
    BY <1>4, <2>1 DEF LastOf5
<1>5. CASE t = <<e>>
  BY <1>5
<1> QED
  BY <1>1, <1>2, <1>3, <1>4, <1>5 DEF LastOf5

\* How many statements are left says which one is current.
LEMMA PlanHead ==
    ASSUME NEW c \in Calls, NEW t, OnPlan(c, t)
    PROVE  /\ Len(t) \in 1..5 /\ t # <<>>
           /\ c.op = "UpsertGraph" =>
                 /\ Len(t) \in 1..3
                 /\ Len(t) = 2 => Head(t) = Statement("merge", Entity)
                 /\ Len(t) = 1 => Head(t) = Statement("merge", Relation)
           /\ c.op = "RemoveGraphBySource" =>
                 /\ Len(t) = 4 => Head(t) = Statement("strip", Entity)
                 /\ Len(t) = 3 => Head(t) = Statement("collect", Entity)
                 /\ Len(t) = 2 => Head(t) = Statement("strip", Relation)
                 /\ Len(t) = 1 => Head(t) = Statement("collect", Relation)
           /\ c.op = "Upsert" => Len(t) \in 1..2 /\ (Len(t) = 1 => Head(t) = Statement("write", Chunk))
           /\ c.op = "RemoveByFilter" => Len(t) \in 1..2 /\ (Len(t) = 1 => Head(t) = Statement("delete", Chunk))
           /\ c.op = "UpsertCommunities" =>
                 /\ Len(t) \in 1..3
                 /\ Len(t) = 2 => Head(t) = Statement("delete", CommunityId)
                 /\ Len(t) = 1 => Head(t) = Statement("insert", CommunityId)
           /\ c.op \in {"GraphSnapshot", "Neighborhood"} =>
                 /\ Len(t) \in 1..4
                 /\ Len(t) = 4 => c.op = "Neighborhood"
                 /\ Len(t) = 3 /\ c.op = "Neighborhood" => Head(t) = Statement("walk", Entity)
                 /\ Len(t) = 2 => Head(t) = Statement("read", Entity)
                 /\ Len(t) = 1 => Head(t) = Statement("read", Relation)
<1>0. c.op \in {"UpsertGraph", "RemoveGraphBySource", "Upsert", "RemoveByFilter",
                "UpsertCommunities", "GraphSnapshot", "Neighborhood"}
  BY CallOps
<1>1. CASE c.op = "UpsertGraph"
  BY <1>1, Last3 DEF OnPlan
<1>2. CASE c.op = "RemoveGraphBySource"
  BY <1>2, Last5 DEF OnPlan
<1>3. CASE c.op = "Upsert"
  BY <1>3, Last2 DEF OnPlan
<1>4. CASE c.op = "RemoveByFilter"
  BY <1>4, Last2 DEF OnPlan
<1>5. CASE c.op = "UpsertCommunities"
  BY <1>5, Last3 DEF OnPlan
<1>6. CASE c.op = "GraphSnapshot"
  <2>1. t \in LastOf3(BeginStatement, Statement("read", Entity), Statement("read", Relation))
    BY <1>6 DEF OnPlan
  <2>2. /\ Len(t) \in 1..3 /\ t # <<>>
        /\ Len(t) = 2 => Head(t) = Statement("read", Entity)
        /\ Len(t) = 1 => Head(t) = Statement("read", Relation)
    BY <2>1, Last3
  <2>3. Len(t) \in 1..3
    BY <2>2
  <2>4. Len(t) \in 1..5 /\ Len(t) \in 1..4 /\ Len(t) # 4
    BY ONLY <2>3
  <2> QED
    BY <1>6, <2>2, <2>4, Zenon
<1>7. CASE c.op = "Neighborhood"
  BY <1>7, Last4 DEF OnPlan
<1> QED
  BY <1>0, <1>1, <1>2, <1>3, <1>4, <1>5, <1>6, <1>7, Zenon

LEMMA PlanStep ==
    ASSUME NEW c \in Calls, NEW t, OnPlan(c, t), Len(t) > 1
    PROVE  /\ OnPlan(c, Tail(t)) /\ Len(Tail(t)) = Len(t) - 1 /\ Head(Tail(t)) = t[2]
<1>1. CASE c.op = "UpsertGraph"
  BY <1>1, Last3 DEF OnPlan
<1>2. CASE c.op = "RemoveGraphBySource"
  BY <1>2, Last5 DEF OnPlan
<1>3. CASE c.op = "Upsert"
  BY <1>3, Last2 DEF OnPlan
<1>4. CASE c.op = "RemoveByFilter"
  BY <1>4, Last2 DEF OnPlan
<1>5. CASE c.op = "UpsertCommunities"
  BY <1>5, Last3 DEF OnPlan
<1>6. CASE c.op = "GraphSnapshot"
  BY <1>6, Last3 DEF OnPlan
<1>7. CASE c.op = "Neighborhood"
  BY <1>7, Last4 DEF OnPlan
<1> QED
  BY CallOps, <1>1, <1>2, <1>3, <1>4, <1>5, <1>6, <1>7

\* A call starts with all its statements ahead of it.
LEMMA OneBefore ==
    ASSUME NEW S, NEW a \in S, NEW s \in Seq(S), NEW u \in Seq(S), Len(u) = Len(s) + 1, u[1] = a,
           \A i \in 1..Len(s) : u[i + 1] = s[i]
    PROVE  <<a>> \o s = u
<1>1. <<a>> \in Seq(S) /\ Len(<<a>>) = 1 /\ <<a>>[1] = a
  OBVIOUS
<1>2. /\ <<a>> \o s \in Seq(S)
      /\ Len(<<a>> \o s) = 1 + Len(s)
      /\ \A i \in 1 .. 1 + Len(s) : (<<a>> \o s)[i] = IF i <= 1 THEN a ELSE s[i - 1]
  <2> DEFINE first == <<a>>
  <2> HIDE DEF first
  <2>1. first \in Seq(S) /\ Len(first) = 1 /\ first[1] = a
    BY <1>1 DEF first
  <2>2. /\ first \o s \in Seq(S)
        /\ Len(first \o s) = Len(first) + Len(s)
        /\ \A i \in 1 .. Len(first) + Len(s) :
              (first \o s)[i] = IF i <= Len(first) THEN first[i] ELSE s[i - Len(first)]
    BY <2>1, ConcatProperties
  <2>3. \A i \in 1 .. 1 + Len(s) : (first \o s)[i] = IF i <= 1 THEN a ELSE s[i - 1]
    <3> TAKE i \in 1 .. 1 + Len(s)
    <3>1. (first \o s)[i] = IF i <= 1 THEN first[i] ELSE s[i - 1]
      BY <2>1, <2>2
    <3>2. i <= 1 => i = 1
      OBVIOUS
    <3> QED
      BY <3>1, <3>2, <2>1
  <2> QED
    BY <2>1, <2>2, <2>3 DEF first
<1> DEFINE w == <<a>> \o s
<1> HIDE DEF w
<1>3. Len(s) \in Nat /\ Len(w) = Len(u) /\ w \in Seq(S)
  BY <1>2 DEF w
<1>4. ASSUME NEW i \in 1..Len(w) PROVE w[i] = u[i]
  <2>1. CASE i = 1
    BY <1>2, <1>3, <2>1 DEF w
  <2>2. CASE i # 1
    <3>1. i - 1 \in 1..Len(s) /\ i \in 1..1 + Len(s) /\ ~(i <= 1) /\ (i - 1) + 1 = i
      BY <1>3, <2>2
    <3>2. u[(i - 1) + 1] = s[i - 1]
      BY <3>1
    <3> QED
      BY <1>2, <3>1, <3>2 DEF w
  <2> QED
    BY <2>1, <2>2
<1>5. w = u
  BY <1>3, <1>4, SeqEqual
<1> QED
  BY <1>5 DEF w

LEMMA Before1 ==
    ASSUME NEW a, NEW b
    PROVE  <<a>> \o <<b>> = <<a, b>>
<1> DEFINE S == {a, b}
<1>1. <<b>> \in Seq(S) /\ <<a, b>> \in Seq(S) /\ a \in S
  OBVIOUS
<1>2. Len(<<a, b>>) = Len(<<b>>) + 1 /\ <<a, b>>[1] = a
  OBVIOUS
<1>3. \A i \in 1..Len(<<b>>) : <<a, b>>[i + 1] = <<b>>[i]
  OBVIOUS
<1> QED
  BY <1>1, <1>2, <1>3, OneBefore, Zenon

LEMMA Before2 ==
    ASSUME NEW a, NEW b, NEW c
    PROVE  <<a>> \o <<b, c>> = <<a, b, c>>
<1> DEFINE S == {a, b, c}
<1>1. <<b, c>> \in Seq(S) /\ <<a, b, c>> \in Seq(S) /\ a \in S
  OBVIOUS
<1>2. Len(<<a, b, c>>) = Len(<<b, c>>) + 1 /\ <<a, b, c>>[1] = a
  OBVIOUS
<1>3. \A i \in 1..Len(<<b, c>>) : <<a, b, c>>[i + 1] = <<b, c>>[i]
  OBVIOUS
<1> QED
  BY <1>1, <1>2, <1>3, OneBefore, Zenon

LEMMA Before3 ==
    ASSUME NEW a, NEW b, NEW c, NEW d
    PROVE  <<a>> \o <<b, c, d>> = <<a, b, c, d>>
<1> DEFINE S == {a, b, c, d}
<1>1. <<b, c, d>> \in Seq(S) /\ <<a, b, c, d>> \in Seq(S) /\ a \in S
  OBVIOUS
<1>2. Len(<<a, b, c, d>>) = Len(<<b, c, d>>) + 1 /\ <<a, b, c, d>>[1] = a
  OBVIOUS
<1>3. \A i \in 1..Len(<<b, c, d>>) : <<a, b, c, d>>[i + 1] = <<b, c, d>>[i]
  OBVIOUS
<1> QED
  BY <1>1, <1>2, <1>3, OneBefore, Zenon

LEMMA Before4 ==
    ASSUME NEW a, NEW b, NEW c, NEW d, NEW e
    PROVE  <<a>> \o <<b, c, d, e>> = <<a, b, c, d, e>>
<1> DEFINE S == {a, b, c, d, e}
<1>1. <<b, c, d, e>> \in Seq(S) /\ <<a, b, c, d, e>> \in Seq(S) /\ a \in S
  OBVIOUS
<1>2. Len(<<a, b, c, d, e>>) = Len(<<b, c, d, e>>) + 1 /\ <<a, b, c, d, e>>[1] = a
  OBVIOUS
<1>3. \A i \in 1..Len(<<b, c, d, e>>) : <<a, b, c, d, e>>[i + 1] = <<b, c, d, e>>[i]
  OBVIOUS
<1> QED
  BY <1>1, <1>2, <1>3, OneBefore, Zenon

LEMMA PlanStart ==
    ASSUME NEW c \in Calls
    PROVE  /\ OnPlan(c, <<Statement("begin", {})>> \o Statements(c))
           /\ Len(<<Statement("begin", {})>> \o Statements(c)) =
                 CASE c.op \in {"Upsert", "RemoveByFilter"} -> 2
                   [] c.op \in {"UpsertGraph", "UpsertCommunities", "GraphSnapshot"} -> 3
                   [] c.op = "Neighborhood" -> 4
                   [] c.op = "RemoveGraphBySource" -> 5
<1>1. CASE c.op = "UpsertGraph"
  BY <1>1, Before2 DEF OnPlan, LastOf3, Statements, BeginStatement, UpsertGraphStatements
<1>2. CASE c.op = "RemoveGraphBySource"
  BY <1>2, Before4 DEF OnPlan, LastOf5, Statements, BeginStatement, RemoveGraphStatements
<1>3. CASE c.op = "Upsert"
  BY <1>3, Before1 DEF OnPlan, LastOf2, Statements, BeginStatement
<1>4. CASE c.op = "RemoveByFilter"
  BY <1>4, Before1 DEF OnPlan, LastOf2, Statements, BeginStatement
<1>5. CASE c.op = "UpsertCommunities"
  BY <1>5, Before2 DEF OnPlan, LastOf3, Statements, BeginStatement, UpsertCommunitiesStatements
<1>6. CASE c.op = "GraphSnapshot"
  BY <1>6, Before2 DEF OnPlan, LastOf3, Statements, BeginStatement, GraphSnapshotStatements
<1>7. CASE c.op = "Neighborhood"
  BY <1>7, Before3 DEF OnPlan, LastOf4, Statements, BeginStatement, NeighborhoodStatements
<1> QED
  BY CallOps, <1>1, <1>2, <1>3, <1>4, <1>5, <1>6, <1>7
-----------------------------------------------------------------------------
\* What a transaction sees of a row.
Sight(d, m, x) == IF x \in DOMAIN m THEN m[x] ELSE d[x]

\* Each statement starts from where the one before left the transaction.
LEMMA StartMerge ==
    ASSUME NEW c \in Calls, c.op = "UpsertGraph", NEW d, NEW m, NEW n \in 2..3, HasMerged(d, m, c, n, {}),
           NEW v, v = {x \in (IF n = 3 THEN Entity ELSE Relation) : Brought(c, x) # Absent}
    PROVE  HasMerged(d, m, c, n - 1, v)
<1>1. v = (IF n = 3 THEN Entity ELSE Relation) \cap Targets(c)
  BY GraphBrings, Tables DEF Targets
<1>2. Targets(c) \subseteq Entity \cup Relation
  BY Tables DEF Targets
<1>3. CASE n = 3
  BY <1>1, <1>3 DEF HasMerged
<1>4. CASE n = 2
  BY <1>1, <1>2, <1>4, Tables DEF HasMerged
<1> QED
  BY <1>3, <1>4

LEMMA StartRemoval ==
    ASSUME NEW c \in Calls, c.op = "RemoveGraphBySource", NEW d, NEW m, NEW l, NEW n \in 2..5,
           HasRemoved(d, m, c, n, {}, l),
           \A x \in Element : d[x] = Absent \/ (d[x] \in ElementRow /\ d[x].prov # {}),
           NEW v, v = {x \in (IF n > 3 THEN Entity ELSE Relation) :
                          Where(IF n \in {5, 3} THEN "strip" ELSE "collect", c, Sight(d, m, x))}
    PROVE  HasRemoved(d, m, c, n - 1, v, l)
<1>1. \A x \in Element : x \notin DOMAIN m => Sight(d, m, x) = d[x]
  BY DEF Sight
<1>2. \A x \in DOMAIN m : Sight(d, m, x) = m[x]
  BY DEF Sight
<1>3. CASE n \in {5, 3}
  <2>1. v = {x \in (IF n > 3 THEN Entity ELSE Relation) : Sight(d, m, x) # Absent}
    BY <1>3 DEF Where
  <2>2. \A x \in (IF n > 3 THEN Entity ELSE Relation) : d[x] = Absent \/ x \in DOMAIN m \/ x \in v
    BY <1>1, <2>1, Tables
  <2> QED
    BY <1>3, <2>1, <2>2, Tables DEF HasRemoved
<1>4. CASE n \in {4, 2}
  <2>1. v = {x \in (IF n > 3 THEN Entity ELSE Relation) : Sight(d, m, x) # Absent /\ Sight(d, m, x).prov = {}}
    BY <1>4 DEF Where
  <2>2. v \subseteq DOMAIN m
    BY <1>1, <2>1, Tables
  <2>3. \A x \in DOMAIN m \cap (IF n > 3 THEN Entity ELSE Relation) : m[x] = Absent \/ m[x].prov # {} \/ x \in v
    BY <1>2, <2>1
  <2> QED
    BY <1>4, <2>1, <2>2, <2>3, Tables DEF HasRemoved
<1> QED
  BY <1>3, <1>4

LEMMA StartWrite ==
    ASSUME NEW c \in Calls, c.op = "Upsert", NEW m, NEW n \in {2}, HasWritten(m, c, n, {}),
           NEW v, v = {x \in Chunk : Brought(c, x) # Absent}
    PROVE  HasWritten(m, c, n - 1, v)
  BY ChunksBring DEF HasWritten

LEMMA StartFilter ==
    ASSUME NEW c \in Calls, c.op = "RemoveByFilter", NEW d, NEW m, NEW l, NEW n \in {2},
           HasFiltered(d, m, c, n, {}, l),
           NEW v, v = {x \in Chunk : Where("delete", c, Sight(d, m, x))}
    PROVE  HasFiltered(d, m, c, n - 1, v, l)
<1>1. c.match # Absent
  BY PostgresAssumption DEF PostgresAssumption, WellFormed
<1>2. v = {x \in Chunk : d[x] # Absent /\ d[x] = c.match}
  BY DEF Where, HasFiltered, Sight
<1> QED
  BY <1>1, <1>2 DEF HasFiltered

LEMMA StartReplacement ==
    ASSUME NEW c \in Calls, c.op = "UpsertCommunities", NEW d, NEW m, NEW l, NEW n \in 2..3,
           HasReplaced(d, m, c, n, {}, l),
           NEW v, v = IF n = 3 THEN {x \in CommunityId : Where("delete", c, Sight(d, m, x))}
                               ELSE {x \in CommunityId : Brought(c, x) # Absent}
    PROVE  HasReplaced(d, m, c, n - 1, v, l)
<1>1. c.ids \subseteq CommunityId
  BY PostgresAssumption DEF PostgresAssumption, WellFormed
<1>2. CASE n = 3
  <2>1. v = {x \in CommunityId : d[x] # Absent}
    BY <1>2 DEF Where, HasReplaced, Sight
  <2> QED
    BY <1>2, <2>1 DEF HasReplaced
<1>3. CASE n = 2
  <2>1. v = c.ids
    BY <1>1, <1>3, CommunitiesBring
  <2> QED
    BY <1>1, <1>3, <2>1 DEF HasReplaced
<1> QED
  BY <1>2, <1>3

-----------------------------------------------------------------------------
\* One row visited.
LEMMA VisitMerge ==
    ASSUME NEW c \in Calls, c.op = "UpsertGraph", NEW d, NEW m, NEW n, NEW v, HasMerged(d, m, c, n, v),
           \A x \in Element : d[x] = Absent \/ (d[x] \in ElementRow /\ d[x].prov # {}),
           NEW y \in v, NEW w, w = With(m, y, Visited("merge", c, y, Sight(d, m, y)))
    PROVE  HasMerged(d, w, c, n, v \ {y}) /\ w[y] # Absent
<1>1. DOMAIN w = DOMAIN m \cup {y} /\ \A x \in DOMAIN m : x # y => w[x] = m[x]
  BY DEF With
<1>2. w[y] = Visited("merge", c, y, Sight(d, m, y))
  BY DEF With
<1>3. y \notin DOMAIN m /\ y \in Targets(c)
  BY DEF HasMerged
<1>4. w[y] = IF d[y] = Absent THEN Brought(c, y) ELSE Merged(d[y], Brought(c, y))
  BY <1>2, <1>3, VisitedRows DEF Sight
<1>5. w[y] # Absent
  <2>1. Brought(c, y) \in ElementRow /\ y \in Element
    BY <1>3, GraphBrings
  <2>2. d[y] = Absent \/ d[y] \in ElementRow
    BY <2>1
  <2>3. d[y] # Absent => Merged(d[y], Brought(c, y)) \in ElementRow
    BY <2>1, <2>2 DEF Merged, ElementRow
  <2> QED
    BY <1>4, <2>1, <2>3, Tables
<1> QED
  BY <1>1, <1>3, <1>4, <1>5 DEF HasMerged

LEMMA VisitRemoval ==
    ASSUME NEW c \in Calls, c.op = "RemoveGraphBySource", NEW d, NEW m, NEW l, NEW n \in 1..4, NEW v,
           HasRemoved(d, m, c, n, v, l),
           \A x \in Element : d[x] = Absent \/ (d[x] \in ElementRow /\ d[x].prov # {}),
           NEW y \in v,
           NEW w, w = With(m, y, Visited(IF n \in {4, 2} THEN "strip" ELSE "collect", c, y, Sight(d, m, y)))
    PROVE  HasRemoved(d, w, c, n, v \ {y}, l)
<1>1. DOMAIN w = DOMAIN m \cup {y} /\ \A x \in DOMAIN m : x # y => w[x] = m[x]
  BY DEF With
<1>2. w[y] = Visited(IF n \in {4, 2} THEN "strip" ELSE "collect", c, y, Sight(d, m, y))
  BY DEF With
<1>3. y \in Element /\ (n > 2 => y \in Entity) /\ (n <= 2 => y \in Relation)
  BY Tables DEF HasRemoved
<1>4. Stripped(d[y], Sight(d, m, y), c) \/ (y \notin DOMAIN m /\ Sight(d, m, y) = d[y])
  BY DEF HasRemoved, Sight
<1>5. d[y] = Absent \/ (d[y] \in ElementRow /\ d[y].prov # {} /\ d[y] # Absent)
  BY <1>3, Tables
<1>6. Sight(d, m, y) = Absent \/ (Sight(d, m, y) \in ElementRow /\ Sight(d, m, y) # Absent)
  BY <1>4, <1>5, Tables DEF Stripped, ElementRow
<1> DEFINE row == Sight(d, m, y)
<1> HIDE DEF row
<1>7. Stripped(d[y], w[y], c) /\ (n \in {3, 1} => w[y] = Absent \/ w[y].prov # {})
  <2>1. CASE n \in {4, 2}
    <3>1. w[y] = Visited("strip", c, y, row)
      BY <1>2, <2>1 DEF row
    <3>2. n \notin {3, 1}
      BY <2>1
    <3>3. CASE row = Absent
      <4>1. w[y] = Absent
        BY <3>1, <3>3, VisitedStripped
      <4>2. d[y] = Absent \/ Stripped(d[y], Absent, c)
        BY <1>4, <3>3 DEF row
      <4>3. Stripped(d[y], Absent, c)
        BY <4>2 DEF Stripped
      <4> QED
        BY <3>2, <4>1, <4>3
    <3>4. CASE row # Absent
      <4>1. row \in ElementRow
        BY <1>6, <3>4 DEF row
      <4>2. w[y] = [row EXCEPT !.prov = @ \ c.chunks]
        BY <3>1, <3>4, VisitedStripped
      <4>3. CASE row = d[y]
        BY <3>2, <3>4, <4>2, <4>3 DEF Stripped
      <4>4. CASE row = [d[y] EXCEPT !.prov = @ \ c.chunks] /\ d[y] \in ElementRow /\ d[y] # Absent
        <5>1. w[y] = [d[y] EXCEPT !.prov = @ \ c.chunks]
          BY <4>2, <4>4 DEF ElementRow
        <5> QED
          BY <3>2, <5>1, <4>4 DEF Stripped
      <4>5. row = d[y] \/ (row = [d[y] EXCEPT !.prov = @ \ c.chunks] /\ d[y] \in ElementRow /\ d[y] # Absent)
        BY <1>4, <1>5, <3>4 DEF Stripped, row
      <4> QED
        BY <4>3, <4>4, <4>5
    <3> QED
      BY <3>3, <3>4
  <2>2. CASE n \in {3, 1}
    <3>1. y \in DOMAIN m
      BY <2>2 DEF HasRemoved
    <3>2. w[y] = Visited("collect", c, y, row)
      BY <1>2, <2>2 DEF row
    <3>3. Where("collect", c, row) <=> row # Absent /\ row.prov = {}
      BY DEF Where
    <3>4. w[y] = IF row # Absent /\ row.prov = {} THEN Absent ELSE row
      BY <3>2, <3>3, VisitedRows
    <3>5. Stripped(d[y], row, c)
      BY <1>4, <3>1 DEF row
    <3>6. Stripped(d[y], w[y], c)
      BY <1>5, <3>4, <3>5 DEF Stripped, ElementRow
    <3> QED
      BY <3>4, <3>6
  <2> QED
    BY <2>1, <2>2
<1> QED
  BY <1>1, <1>3, <1>7, Tables DEF HasRemoved

LEMMA VisitWrite ==
    ASSUME NEW c \in Calls, c.op = "Upsert", NEW d, NEW m, NEW n, NEW v, HasWritten(m, c, n, v),
           NEW y \in v, NEW w, w = With(m, y, Visited("write", c, y, Sight(d, m, y)))
    PROVE  HasWritten(w, c, n, v \ {y})
<1>1. DOMAIN w = DOMAIN m \cup {y} /\ \A x \in DOMAIN m : x # y => w[x] = m[x]
  BY DEF With
<1>2. w[y] = Brought(c, y)
  BY VisitedRows DEF With
<1>3. y \in DOMAIN c.rows
  BY DEF HasWritten
<1> QED
  BY <1>1, <1>2, <1>3, ChunksBring DEF HasWritten

LEMMA VisitFilter ==
    ASSUME NEW c \in Calls, c.op = "RemoveByFilter", NEW d, NEW m, NEW l, NEW n, NEW v,
           HasFiltered(d, m, c, n, v, l),
           NEW y \in v, NEW w, w = With(m, y, Visited("delete", c, y, Sight(d, m, y)))
    PROVE  HasFiltered(d, w, c, n, v \ {y}, l)
<1>1. DOMAIN w = DOMAIN m \cup {y} /\ \A x \in DOMAIN m : x # y => w[x] = m[x]
  BY DEF With
<1>2. w[y] = IF Sight(d, m, y) # Absent /\ Sight(d, m, y) = c.match THEN Absent ELSE Sight(d, m, y)
  BY VisitedRows DEF With, Where
<1>3. Sight(d, m, y) = d[y] \/ Sight(d, m, y) = IF d[y] = c.match THEN Absent ELSE d[y]
  BY DEF Sight, HasFiltered
<1>4. c.match # Absent
  BY PostgresAssumption DEF PostgresAssumption, WellFormed
<1> QED
  BY <1>1, <1>2, <1>3, <1>4 DEF HasFiltered

LEMMA VisitReplacement ==
    ASSUME NEW c \in Calls, c.op = "UpsertCommunities", NEW d, NEW m, NEW l, NEW n \in 1..2, NEW v,
           HasReplaced(d, m, c, n, v, l),
           NEW y \in v,
           NEW w, w = With(m, y, Visited(IF n = 2 THEN "delete" ELSE "insert", c, y, Sight(d, m, y)))
    PROVE  HasReplaced(d, w, c, n, v \ {y}, l)
<1>1. DOMAIN w = DOMAIN m \cup {y} /\ \A x \in DOMAIN m : x # y => w[x] = m[x]
  BY DEF With
<1>2. w[y] = Visited(IF n = 2 THEN "delete" ELSE "insert", c, y, Sight(d, m, y))
  BY DEF With
<1>3. CASE n = 2
  <2>1. w[y] = Absent
    BY <1>2, <1>3, VisitedRows DEF Where
  <2> QED
    BY <1>1, <1>3, <2>1 DEF HasReplaced
<1>4. CASE n = 1
  <2>1. y \in c.ids
    BY <1>4 DEF HasReplaced
  <2>2. w[y] = c.ids
    BY <1>2, <1>4, <2>1, CommunitiesBring, VisitedRows
  <2> QED
    BY <1>1, <1>4, <2>1, <2>2 DEF HasReplaced
<1> QED
  BY <1>3, <1>4

-----------------------------------------------------------------------------
\* What one client does leaves the others where they are, as long as it does
\* not commit.
LEMMA OthersKeep ==
    ASSUME NEW q \in Client, Progress(q), db' = db, mine'[q] = mine[q], deleted'[q] = deleted[q],
           call'[q] = call[q], todo'[q] = todo[q], visiting'[q] = visiting[q], late'[q] = late[q]
    PROVE  Progress(q)'
  BY DEF Progress

\* A statement that starts is the next one of the plan.
LEMMA NextStatement ==
    ASSUME TypeOK, NEW p \in Client, Progress(p), Execute(p)
    PROVE  /\ call[p] \in Calls /\ call[p] # NoCall
           /\ OnPlan(call[p], todo[p]) /\ OnPlan(call[p], todo'[p])
           /\ Len(todo[p]) \in 2..5
           /\ Len(todo'[p]) = Len(todo[p]) - 1
           /\ Head(todo'[p]) = todo[p][2]
           /\ todo' = [todo EXCEPT ![p] = Tail(todo[p])]
           /\ visiting[p] = {}
           /\ Sound(db, mine[p], call[p], Len(todo[p]), {}, late[p])
<1>1. call[p] \in Calls /\ call[p] # NoCall /\ Len(todo[p]) > 1 /\ visiting[p] = {}
  BY DEF Execute, TypeOK
<1>2. OnPlan(call[p], todo[p]) /\ Sound(db, mine[p], call[p], Len(todo[p]), {}, late[p])
  BY <1>1 DEF Progress
<1>3. todo' = [todo EXCEPT ![p] = Tail(todo[p])] /\ todo'[p] = Tail(todo[p])
  BY DEF Execute, TypeOK
<1>4. Len(todo[p]) \in 1..5
  BY <1>1, <1>2, PlanHead
<1>5. Len(todo[p]) > 1
  BY <1>1
<1>6. Len(todo[p]) \in 2..5
  <2> DEFINE k == Len(todo[p])
  <2>1. k \in 1..5 /\ k > 1
    BY <1>4, <1>5
  <2> HIDE DEF k
  <2>2. k \in 2..5
    BY <2>1
  <2> QED
    BY <2>2 DEF k
<1> QED
  BY <1>1, <1>2, <1>3, <1>6, PlanStep

LEMMA ExecuteSound ==
    ASSUME TypeOK, NEW p \in Client, Progress(p), Execute(p)
    PROVE  Sound(db, mine[p], call[p], Len(todo'[p]), visiting'[p], late[p])
<1> DEFINE c == call[p]
           n == Len(todo[p])
           next == todo[p][2]
           m == mine[p]
           l == late[p]
           targets == {x \in next.table : IF next.verb \in Scans
                                          THEN Where(next.verb, c, Sees(p, x))
                                          ELSE Brought(c, x) # Absent}
<1>1. /\ c \in Calls
      /\ OnPlan(c, todo[p]) /\ OnPlan(c, todo'[p])
      /\ n \in 2..5
      /\ Len(todo'[p]) = n - 1
      /\ Head(todo'[p]) = next
      /\ visiting[p] = {}
      /\ Sound(db, m, c, n, {}, l)
  BY NextStatement
<1>2. /\ next.verb \in Reads => visiting'[p] = {}
      /\ next.verb \notin Reads => visiting'[p] = targets
  BY <1>1 DEF Execute, TypeOK
<1>3. \A x : Sees(p, x) = Sight(db, m, x)
  BY DEF Sees, Sight
<1>4. \A x \in Element : db[x] = Absent \/ (db[x] \in ElementRow /\ db[x].prov # {})
  BY DEF TypeOK
<1>5. n \in 2..5
  BY <1>1
<1> HIDE DEF c, n, next, m, l
<1>6. ASSUME c.op = "UpsertGraph" PROVE Sound(db, m, c, n - 1, visiting'[p], l)
  <2>1. n \in 2..3 /\ HasMerged(db, m, c, n, {})
    <3>1. n \in 1..3
      BY <1>1, <1>6, PlanHead DEF n
    <3>2. HasMerged(db, m, c, n, {})
      BY <1>1, <1>6 DEF Sound
    <3>3. n \in 2..3
      BY ONLY <1>5, <3>1
    <3> QED
      BY <3>2, <3>3
  <2>2. next = Statement("merge", IF n = 3 THEN Entity ELSE Relation)
    <3>1. (n - 1 = 2 => next = Statement("merge", Entity)) /\ (n - 1 = 1 => next = Statement("merge", Relation))
      BY <1>1, <1>6, PlanHead
    <3> QED
      BY <2>1, <3>1
  <2>3. visiting'[p] = {x \in (IF n = 3 THEN Entity ELSE Relation) : Brought(c, x) # Absent}
    BY <1>2, <2>2 DEF Statement, Reads, Scans
  <2>4. HasMerged(db, m, c, n - 1, visiting'[p])
    BY <1>1, <1>6, <2>1, <2>3, StartMerge
  <2> QED
    BY <1>6, <2>4 DEF Sound
<1>7. ASSUME c.op = "RemoveGraphBySource" PROVE Sound(db, m, c, n - 1, visiting'[p], l)
  <2>1. HasRemoved(db, m, c, n, {}, l)
    BY <1>1, <1>7 DEF Sound
  <2>2. next = Statement(IF n \in {5, 3} THEN "strip" ELSE "collect", IF n > 3 THEN Entity ELSE Relation)
    <3>1. /\ n - 1 = 4 => next = Statement("strip", Entity)
          /\ n - 1 = 3 => next = Statement("collect", Entity)
          /\ n - 1 = 2 => next = Statement("strip", Relation)
          /\ n - 1 = 1 => next = Statement("collect", Relation)
      BY <1>1, <1>7, PlanHead
    <3> QED
      BY <1>5, <3>1
  <2>3. visiting'[p] = {x \in (IF n > 3 THEN Entity ELSE Relation) :
                          Where(IF n \in {5, 3} THEN "strip" ELSE "collect", c, Sight(db, m, x))}
    BY <1>2, <1>3, <2>2 DEF Statement, Reads, Scans
  <2>4. HasRemoved(db, m, c, n - 1, visiting'[p], l)
    BY <1>1, <1>4, <1>5, <1>7, <2>1, <2>3, StartRemoval
  <2> QED
    BY <1>7, <2>4 DEF Sound
<1>8. ASSUME c.op = "Upsert" PROVE Sound(db, m, c, n - 1, visiting'[p], l)
  <2>1. n = 2 /\ HasWritten(m, c, n, {})
    <3>1. n \in 1..2
      BY <1>1, <1>8, PlanHead DEF n
    <3>2. HasWritten(m, c, n, {})
      BY <1>1, <1>8 DEF Sound
    <3>3. n = 2
      BY ONLY <1>5, <3>1
    <3> QED
      BY <3>2, <3>3
  <2>2. next = Statement("write", Chunk)
    <3>1. n - 1 = 1 => next = Statement("write", Chunk)
      BY <1>1, <1>8, PlanHead
    <3> QED
      BY <2>1, <3>1
  <2>3. visiting'[p] = {x \in Chunk : Brought(c, x) # Absent}
    BY <1>2, <2>2 DEF Statement, Reads, Scans
  <2>4. HasWritten(m, c, n - 1, visiting'[p])
    BY <1>1, <1>8, <2>1, <2>3, StartWrite
  <2> QED
    BY <1>8, <2>4 DEF Sound
<1>9. ASSUME c.op = "RemoveByFilter" PROVE Sound(db, m, c, n - 1, visiting'[p], l)
  <2>1. n = 2 /\ HasFiltered(db, m, c, n, {}, l)
    <3>1. n \in 1..2
      BY <1>1, <1>9, PlanHead DEF n
    <3>2. HasFiltered(db, m, c, n, {}, l)
      BY <1>1, <1>9 DEF Sound
    <3>3. n = 2
      BY ONLY <1>5, <3>1
    <3> QED
      BY <3>2, <3>3
  <2>2. next = Statement("delete", Chunk)
    <3>1. n - 1 = 1 => next = Statement("delete", Chunk)
      BY <1>1, <1>9, PlanHead
    <3> QED
      BY <2>1, <3>1
  <2>3. visiting'[p] = {x \in Chunk : Where("delete", c, Sight(db, m, x))}
    BY <1>2, <1>3, <2>2 DEF Statement, Reads, Scans
  <2>4. HasFiltered(db, m, c, n - 1, visiting'[p], l)
    BY <1>1, <1>9, <2>1, <2>3, StartFilter
  <2> QED
    BY <1>9, <2>4 DEF Sound
<1>10. ASSUME c.op = "UpsertCommunities" PROVE Sound(db, m, c, n - 1, visiting'[p], l)
  <2>1. n \in 2..3 /\ HasReplaced(db, m, c, n, {}, l)
    <3>1. n \in 1..3
      BY <1>1, <1>10, PlanHead DEF n
    <3>2. HasReplaced(db, m, c, n, {}, l)
      BY <1>1, <1>10 DEF Sound
    <3>3. n \in 2..3
      BY ONLY <1>5, <3>1
    <3> QED
      BY <3>2, <3>3
  <2>2. next = Statement(IF n = 3 THEN "delete" ELSE "insert", CommunityId)
    <3>1. (n - 1 = 2 => next = Statement("delete", CommunityId)) /\ (n - 1 = 1 => next = Statement("insert", CommunityId))
      BY <1>1, <1>10, PlanHead
    <3> QED
      BY <2>1, <3>1
  <2>3. visiting'[p] = IF n = 3 THEN {x \in CommunityId : Where("delete", c, Sight(db, m, x))}
                               ELSE {x \in CommunityId : Brought(c, x) # Absent}
    BY <1>2, <1>3, <2>2 DEF Statement, Reads, Scans
  <2>4. HasReplaced(db, m, c, n - 1, visiting'[p], l)
    BY <1>1, <1>10, <2>1, <2>3, StartReplacement
  <2> QED
    BY <1>10, <2>4 DEF Sound
<1>11. ASSUME c.op \in {"GraphSnapshot", "Neighborhood"} PROVE Sound(db, m, c, n - 1, visiting'[p], l)
  <2>1. HasRead(m, {})
    BY <1>1, <1>11 DEF Sound
  <2>2. next \in {Statement("walk", Entity), Statement("read", Entity), Statement("read", Relation)}
    <3>1. /\ n \in 1..4
          /\ n = 4 => c.op = "Neighborhood"
      BY <1>1, <1>11, PlanHead DEF n
    <3>2. /\ n - 1 = 3 /\ c.op = "Neighborhood" => next = Statement("walk", Entity)
          /\ n - 1 = 2 => next = Statement("read", Entity)
          /\ n - 1 = 1 => next = Statement("read", Relation)
      BY <1>1, <1>11, PlanHead
    <3> QED
      BY <1>5, <3>1, <3>2
  <2>3. visiting'[p] = {}
    BY <1>2, <2>2 DEF Statement, Reads
  <2> QED
    BY <1>11, <2>1, <2>3 DEF Sound, HasRead
<1>12. c.op \in {"UpsertGraph", "RemoveGraphBySource", "Upsert", "RemoveByFilter",
                 "UpsertCommunities", "GraphSnapshot", "Neighborhood"}
  BY <1>1, CallOps
<1>13. Sound(db, m, c, Len(todo'[p]), visiting'[p], l)
  BY <1>1, <1>6, <1>7, <1>8, <1>9, <1>10, <1>11, <1>12
<1> QED
  BY <1>13 DEF c, m, l

\* A transaction writes and visits rows of its tables.
LEMMA SoundKeys ==
    ASSUME NEW c \in Calls, NEW d, NEW m, NEW n, NEW v, NEW l, Sound(d, m, c, n, v, l)
    PROVE  DOMAIN m \subseteq Key /\ v \subseteq Key
<1>1. CASE c.op = "UpsertGraph"
  BY <1>1 DEF Sound, HasMerged, Targets, Key
<1>2. CASE c.op = "RemoveGraphBySource"
  <2>1. HasRemoved(d, m, c, n, v, l)
    BY <1>2 DEF Sound
  <2>2. DOMAIN m \subseteq Element /\ v \subseteq Element
    BY <2>1, Tables DEF HasRemoved
  <2> QED
    BY <2>2 DEF Key
<1>3. CASE c.op = "Upsert"
  BY <1>3, ChunksBring DEF Sound, HasWritten, Key
<1>4. CASE c.op = "RemoveByFilter"
  BY <1>4 DEF Sound, HasFiltered, Key
<1>5. CASE c.op = "UpsertCommunities"
  BY <1>5 DEF Sound, HasReplaced, Key
<1>6. CASE c.op \in {"GraphSnapshot", "Neighborhood"}
  BY <1>6 DEF Sound, HasRead
<1> QED
  BY CallOps, <1>1, <1>2, <1>3, <1>4, <1>5, <1>6

\* A statement starts.
LEMMA ExecuteInv ==
    ASSUME IInv, NEW p \in Client, Execute(p)
    PROVE  IInv'
<1> USE DEF IInv
<1>1. /\ db' = db /\ mine' = mine /\ deleted' = deleted /\ call' = call /\ calls' = calls /\ late' = late
      /\ todo' = [todo EXCEPT ![p] = Tail(todo[p])]
      /\ call[p] \in Calls /\ call[p] # NoCall
      /\ OnPlan(call[p], todo'[p])
  BY NextStatement DEF Execute
<1>2. Sound(db, mine[p], call[p], Len(todo'[p]), visiting'[p], late[p])
  BY ExecuteSound
<1>3. visiting'[p] \subseteq Key
  BY <1>1, <1>2, SoundKeys
<1>4. DOMAIN visiting' = Client /\ DOMAIN seen' = Client /\ \A q \in Client : q # p => visiting'[q] = visiting[q]
  BY DEF Execute, TypeOK
<1>5. visiting' \in [Client -> SUBSET Key]
  <2>1. visiting' = [q \in Client |-> visiting'[q]]
    BY DEF Execute, TypeOK
  <2>2. \A q \in Client : visiting'[q] \in SUBSET Key
    BY <1>3, <1>4 DEF TypeOK
  <2> QED
    BY <2>1, <2>2
<1>6. TypeOK'
  BY <1>1, <1>4, <1>5 DEF TypeOK
<1>7. LocksExclude' /\ DeletedAreGone'
  BY <1>1 DEF LocksExclude, DeletedAreGone
<1>8. ASSUME NEW q \in Client PROVE Progress(q)'
  <2>1. CASE q = p
    BY <1>1, <1>2, <2>1 DEF Progress
  <2>2. CASE q # p
    <3>1. todo'[q] = todo[q]
      BY <1>1, <2>2 DEF TypeOK
    <3> QED
      BY <1>1, <1>4, <2>2, <3>1, OthersKeep
  <2> QED
    BY <2>1, <2>2
<1> QED
  BY <1>6, <1>7, <1>8

\* A statement visits a row.
LEMMA VisitSound ==
    ASSUME TypeOK, NEW p \in Client, Progress(p), NEW x \in Key, Visit(p, x)
    PROVE  /\ call[p] \in Calls /\ call[p] # NoCall
           /\ OnPlan(call[p], todo[p])
           /\ mine' = [mine EXCEPT ![p] = With(mine[p], x, Visited(Head(todo[p]).verb, call[p], x, Sees(p, x)))]
           /\ Sound(db, mine'[p], call[p], Len(todo[p]), visiting[p] \ {x}, late[p])
           /\ Sees(p, x) = Absent => mine'[p][x] = Absent \/ Brought(call[p], x) # Absent
<1> DEFINE c == call[p]
           n == Len(todo[p])
           m == mine[p]
           v == visiting[p]
           l == late[p]
           verb == Head(todo[p]).verb
           w == With(m, x, Visited(verb, c, x, Sight(db, m, x)))
<1>1. x \in v /\ c # NoCall
  BY DEF Visit, Progress
<1>2. c \in Calls /\ OnPlan(c, todo[p]) /\ Sound(db, m, c, n, v, l)
  BY <1>1 DEF TypeOK, Progress
<1>3. Sees(p, x) = Sight(db, m, x)
  BY DEF Sees, Sight
<1>4. mine' = [mine EXCEPT ![p] = w] /\ mine'[p] = w
  BY <1>3 DEF Visit, TypeOK
<1>5. \A y \in Element : db[y] = Absent \/ (db[y] \in ElementRow /\ db[y].prov # {})
  BY DEF TypeOK
<1>6. n \in 1..5
  BY <1>2, PlanHead
<1>7. w[x] = Visited(verb, c, x, Sight(db, m, x))
  BY DEF With
<1> HIDE DEF c, n, m, v, l, verb, w
<1>8. ASSUME c.op = "UpsertGraph"
      PROVE  Sound(db, w, c, n, v \ {x}, l) /\ Brought(c, x) # Absent
  <2>1. HasMerged(db, m, c, n, v)
    BY <1>2, <1>8 DEF Sound
  <2>2. n # 3
    BY <1>1, <2>1 DEF HasMerged
  <2>3. n \in 1..2
    BY <2>1, <2>2 DEF HasMerged
  <2>4. verb = "merge"
    <3>1. (n = 2 => verb = "merge") /\ (n = 1 => verb = "merge")
      BY <1>2, <1>8, PlanHead DEF n, verb, Statement
    <3> QED
      BY <2>3, <3>1
  <2>5. HasMerged(db, w, c, n, v \ {x}) /\ w[x] # Absent
    BY <1>1, <1>2, <1>5, <1>8, <2>1, <2>4, VisitMerge DEF w
  <2>6. x \in Targets(c)
    BY <1>1, <2>1, <2>2, <2>3 DEF HasMerged
  <2> QED
    BY <1>2, <1>8, <2>5, <2>6, GraphBrings DEF Sound
<1>9. ASSUME c.op = "RemoveGraphBySource"
      PROVE  Sound(db, w, c, n, v \ {x}, l) /\ verb \in Scans
  <2>1. HasRemoved(db, m, c, n, v, l)
    BY <1>2, <1>9 DEF Sound
  <2>2. n # 5
    BY <1>1, <2>1 DEF HasRemoved
  <2>3. n \in 1..4
    BY <1>6, <2>2
  <2>4. verb = IF n \in {4, 2} THEN "strip" ELSE "collect"
    <3>1. /\ n = 4 => verb = "strip"
          /\ n = 3 => verb = "collect"
          /\ n = 2 => verb = "strip"
          /\ n = 1 => verb = "collect"
      BY <1>2, <1>9, PlanHead DEF n, verb, Statement
    <3> QED
      BY <2>3, <3>1
  <2>5. HasRemoved(db, w, c, n, v \ {x}, l)
    BY <1>1, <1>2, <1>5, <1>9, <2>1, <2>3, <2>4, VisitRemoval DEF w
  <2> QED
    BY <1>9, <2>4, <2>5 DEF Sound, Scans
<1>10. ASSUME c.op = "Upsert"
       PROVE  Sound(db, w, c, n, v \ {x}, l) /\ Brought(c, x) # Absent
  <2>1. HasWritten(m, c, n, v)
    BY <1>2, <1>10 DEF Sound
  <2>2. n = 1
    BY <1>1, <2>1 DEF HasWritten
  <2>3. verb = "write"
    BY <1>2, <1>10, <2>2, PlanHead DEF n, verb, Statement
  <2>4. HasWritten(w, c, n, v \ {x})
    BY <1>1, <1>2, <1>10, <2>1, <2>3, VisitWrite DEF w
  <2>5. x \in DOMAIN c.rows
    BY <1>1, <2>1, <2>2 DEF HasWritten
  <2> QED
    BY <1>2, <1>10, <2>4, <2>5, ChunksBring DEF Sound
<1>11. ASSUME c.op = "RemoveByFilter"
       PROVE  Sound(db, w, c, n, v \ {x}, l) /\ verb \in Scans
  <2>1. HasFiltered(db, m, c, n, v, l)
    BY <1>2, <1>11 DEF Sound
  <2>2. n = 1
    BY <1>1, <2>1 DEF HasFiltered
  <2>3. verb = "delete"
    BY <1>2, <1>11, <2>2, PlanHead DEF n, verb, Statement
  <2>4. HasFiltered(db, w, c, n, v \ {x}, l)
    BY <1>1, <1>2, <1>11, <2>1, <2>3, VisitFilter DEF w
  <2> QED
    BY <1>11, <2>3, <2>4 DEF Sound, Scans
<1>12. ASSUME c.op = "UpsertCommunities"
       PROVE  Sound(db, w, c, n, v \ {x}, l) /\ (verb \in Scans \/ Brought(c, x) # Absent)
  <2>1. HasReplaced(db, m, c, n, v, l)
    BY <1>2, <1>12 DEF Sound
  <2>2. n # 3
    BY <1>1, <2>1 DEF HasReplaced
  <2>3. n \in 1..2
    BY <2>1, <2>2 DEF HasReplaced
  <2>4. verb = IF n = 2 THEN "delete" ELSE "insert"
    <3>1. (n = 2 => verb = "delete") /\ (n = 1 => verb = "insert")
      BY <1>2, <1>12, PlanHead DEF n, verb, Statement
    <3> QED
      BY <2>3, <3>1
  <2>5. HasReplaced(db, w, c, n, v \ {x}, l)
    BY <1>1, <1>2, <1>12, <2>1, <2>3, <2>4, VisitReplacement DEF w
  <2>6. n = 1 => x \in c.ids
    BY <1>1, <2>1 DEF HasReplaced
  <2>7. verb \in Scans \/ Brought(c, x) # Absent
    BY <1>2, <1>12, <2>3, <2>4, <2>6, CommunitiesBring DEF Scans
  <2> QED
    BY <1>12, <2>5, <2>7 DEF Sound
<1>13. ~(c.op \in {"GraphSnapshot", "Neighborhood"})
  BY <1>1, <1>2 DEF Sound, HasRead
<1>14. Sound(db, w, c, n, v \ {x}, l) /\ (verb \in Scans \/ Brought(c, x) # Absent)
  BY <1>2, <1>8, <1>9, <1>10, <1>11, <1>12, <1>13, CallOps
<1>15. verb \in Scans /\ Sees(p, x) = Absent => w[x] = Absent
  BY <1>3, <1>7, VisitedAbsent
<1>16. /\ c \in Calls /\ c # NoCall
       /\ OnPlan(c, todo[p])
       /\ mine' = [mine EXCEPT ![p] = w]
       /\ Sound(db, mine'[p], c, n, v \ {x}, l)
       /\ Sees(p, x) = Absent => mine'[p][x] = Absent \/ Brought(c, x) # Absent
  BY <1>1, <1>2, <1>4, <1>14, <1>15
<1> QED
  BY <1>3, <1>16 DEF c, n, v, l, w, m, verb

LEMMA VisitInv ==
    ASSUME IInv, NEW p \in Client, NEW x \in Key, Visit(p, x)
    PROVE  IInv'
<1> USE DEF IInv
<1>1. /\ db' = db /\ call' = call /\ todo' = todo /\ calls' = calls /\ seen' = seen /\ late' = late
      /\ visiting' = [visiting EXCEPT ![p] = visiting[p] \ {x}]
      /\ ~Locked(p, x)
  BY DEF Visit
<1>2. /\ call[p] \in Calls /\ call[p] # NoCall
      /\ OnPlan(call[p], todo[p])
      /\ Sound(db, mine'[p], call[p], Len(todo[p]), visiting[p] \ {x}, late[p])
      /\ Sees(p, x) = Absent => mine'[p][x] = Absent \/ Brought(call[p], x) # Absent
  BY VisitSound
<1> DEFINE row == Visited(Head(todo[p]).verb, call[p], x, Sees(p, x))
<1>3. mine' = [mine EXCEPT ![p] = With(mine[p], x, row)]
  BY VisitSound
<1>4. deleted' = [deleted EXCEPT ![p] = IF row = Absent THEN deleted[p] \cup {x} ELSE deleted[p]]
  BY DEF Visit
<1> HIDE DEF row
<1>5. /\ DOMAIN mine' = Client
      /\ mine'[p] = With(mine[p], x, row)
      /\ \A q \in Client : q # p => mine'[q] = mine[q]
  BY <1>3 DEF TypeOK
<1>6. /\ DOMAIN mine'[p] = DOMAIN mine[p] \cup {x}
      /\ mine'[p][x] = row
      /\ \A y \in DOMAIN mine[p] : y # x => mine'[p][y] = mine[p][y]
  BY <1>5 DEF With
<1>7. /\ deleted' \in [Client -> SUBSET Key]
      /\ visiting' \in [Client -> SUBSET Key]
      /\ visiting'[p] = visiting[p] \ {x}
      /\ \A q \in Client : q # p => deleted'[q] = deleted[q] /\ visiting'[q] = visiting[q]
  BY <1>1, <1>4 DEF TypeOK
<1>8. TypeOK'
  <2>1. \A q \in Client : DOMAIN mine'[q] \subseteq Key
    BY <1>5, <1>6 DEF TypeOK
  <2> QED
    BY <1>1, <1>5, <1>7, <2>1 DEF TypeOK
<1>9. LocksExclude'
  <2> SUFFICES ASSUME NEW q \in Client, q # p
               PROVE  DOMAIN mine'[p] \cap DOMAIN mine'[q] = {}
    BY <1>5 DEF LocksExclude
  <2>1. x \notin DOMAIN mine[q]
    BY <1>1 DEF Locked
  <2> QED
    BY <1>5, <1>6, <2>1 DEF LocksExclude
<1>10. DeletedAreGone'
  <2> SUFFICES ASSUME NEW q \in Client, NEW y \in deleted'[q]
               PROVE  y \in DOMAIN mine'[q] /\ (mine'[q][y] = Absent \/ Brought(call[q], y) # Absent)
    BY <1>1 DEF DeletedAreGone
  <2>1. CASE q # p
    BY <1>5, <1>7, <2>1 DEF DeletedAreGone
  <2>2. CASE q = p /\ y # x
    <3>1. y \in deleted[p]
      BY <1>4, <2>2 DEF TypeOK
    <3> QED
      BY <1>6, <2>2, <3>1 DEF DeletedAreGone
  <2>3. CASE q = p /\ y = x /\ row # Absent
    <3>1. x \in deleted[p]
      BY <1>4, <2>3 DEF TypeOK
    <3>2. x \in DOMAIN mine[p] /\ (mine[p][x] = Absent \/ Brought(call[p], x) # Absent)
      BY <3>1 DEF DeletedAreGone
    <3>3. mine[p][x] = Absent => Sees(p, x) = Absent
      BY <3>2 DEF Sees
    <3> QED
      BY <1>2, <1>6, <2>3, <3>2, <3>3
  <2>4. CASE q = p /\ y = x /\ row = Absent
    BY <1>6, <2>4
  <2> QED
    BY <2>1, <2>2, <2>3, <2>4
<1>11. ASSUME NEW q \in Client PROVE Progress(q)'
  <2>1. CASE q = p
    BY <1>1, <1>2, <1>7, <2>1 DEF Progress
  <2>2. CASE q # p
    BY <1>1, <1>5, <1>7, <2>2, OthersKeep
  <2> QED
    BY <2>1, <2>2
<1> QED
  BY <1>8, <1>9, <1>10, <1>11

-----------------------------------------------------------------------------
\* A call begins, and a transaction is rolled back.
LEMMA InitInv == Init => IInv
<1> SUFFICES ASSUME Init PROVE IInv
  OBVIOUS
<1>1. \A x \in Element : x \in Key
  BY DEF Key
<1>2. \A p \in Client : DOMAIN mine[p] = {} /\ deleted[p] = {} /\ visiting[p] = {} /\ todo[p] = <<>> /\ call[p] = NoCall
  BY DEF Init, NoRows
<1>3. TypeOK
  BY <1>1, <1>2 DEF Init, TypeOK
<1>4. LocksExclude /\ DeletedAreGone /\ \A p \in Client : Progress(p)
  BY <1>2 DEF LocksExclude, DeletedAreGone, Progress
<1> QED
  BY <1>3, <1>4 DEF IInv

LEMMA FreshSound ==
    ASSUME NEW c \in Calls, NEW d, NEW m, DOMAIN m = {}, NEW l, NEW n,
           n = CASE c.op \in {"Upsert", "RemoveByFilter"} -> 2
                 [] c.op \in {"UpsertGraph", "UpsertCommunities", "GraphSnapshot"} -> 3
                 [] c.op = "Neighborhood" -> 4
                 [] c.op = "RemoveGraphBySource" -> 5
    PROVE  Sound(d, m, c, n, {}, l)
<1>1. CASE c.op = "UpsertGraph"
  BY <1>1 DEF Sound, HasMerged
<1>2. CASE c.op = "RemoveGraphBySource"
  BY <1>2 DEF Sound, HasRemoved
<1>3. CASE c.op = "Upsert"
  BY <1>3 DEF Sound, HasWritten
<1>4. CASE c.op = "RemoveByFilter"
  BY <1>4 DEF Sound, HasFiltered
<1>5. CASE c.op = "UpsertCommunities"
  BY <1>5 DEF Sound, HasReplaced
<1>6. CASE c.op \in {"GraphSnapshot", "Neighborhood"}
  BY <1>6 DEF Sound, HasRead
<1> QED
  BY CallOps, <1>1, <1>2, <1>3, <1>4, <1>5, <1>6

LEMMA BeginInv ==
    ASSUME IInv, NEW p \in Client, NEW c \in Calls, Begin(p, c)
    PROVE  IInv'
<1> USE DEF IInv
<1> DEFINE t == <<Statement("begin", {})>> \o Statements(c)
<1>1. /\ db' = db /\ mine' = mine /\ deleted' = deleted /\ visiting' = visiting /\ seen' = seen
      /\ call' = [call EXCEPT ![p] = c]
      /\ todo' = [todo EXCEPT ![p] = t]
      /\ late' = [late EXCEPT ![p] = {}]
      /\ calls' = calls + 1
      /\ call[p] = NoCall
  BY DEF Begin
<1> HIDE DEF t
<1>2. DOMAIN mine[p] = {} /\ visiting[p] = {} /\ deleted[p] = {}
  BY <1>1 DEF Progress
<1>3. TypeOK'
  BY <1>1 DEF TypeOK
<1>4. LocksExclude'
  BY <1>1 DEF LocksExclude
<1>5. \A q \in Client : q # p => call'[q] = call[q] /\ todo'[q] = todo[q] /\ late'[q] = late[q]
  BY <1>1 DEF TypeOK
<1>6. DeletedAreGone'
  BY <1>1, <1>2, <1>5 DEF DeletedAreGone
<1>7. call'[p] = c /\ todo'[p] = t /\ late'[p] = {} /\ c # NoCall
  BY <1>1, CallOps DEF TypeOK
<1>8. OnPlan(c, t)
  BY PlanStart DEF t
<1>9. Sound(db, mine[p], c, Len(t), {}, {})
  BY <1>2, PlanStart, FreshSound DEF t
<1>10. ASSUME NEW q \in Client PROVE Progress(q)'
  <2>1. CASE q = p
    BY <1>1, <1>2, <1>7, <1>8, <1>9, <2>1 DEF Progress
  <2>2. CASE q # p
    BY <1>1, <1>5, <2>2, OthersKeep
  <2> QED
    BY <2>1, <2>2
<1> QED
  BY <1>3, <1>4, <1>6, <1>10

LEMMA RollbackInv ==
    ASSUME IInv, NEW p \in Client, RolledBack(p)
    PROVE  IInv'
<1> USE DEF IInv
<1>1. /\ db' = db /\ calls' = calls
      /\ call' = [call EXCEPT ![p] = NoCall] /\ todo' = [todo EXCEPT ![p] = <<>>]
      /\ mine' = [mine EXCEPT ![p] = NoRows] /\ deleted' = [deleted EXCEPT ![p] = {}]
      /\ visiting' = [visiting EXCEPT ![p] = {}] /\ late' = [late EXCEPT ![p] = {}]
      /\ seen' = [seen EXCEPT ![p] = Unread]
  BY DEF RolledBack, End
<1>2. /\ call'[p] = NoCall /\ todo'[p] = <<>> /\ mine'[p] = NoRows /\ deleted'[p] = {} /\ visiting'[p] = {}
      /\ \A q \in Client : q # p =>
            /\ call'[q] = call[q] /\ todo'[q] = todo[q] /\ mine'[q] = mine[q] /\ deleted'[q] = deleted[q]
            /\ visiting'[q] = visiting[q] /\ late'[q] = late[q]
  BY <1>1 DEF TypeOK
<1>3. DOMAIN NoRows = {}
  BY DEF NoRows
<1>4. TypeOK'
  BY <1>1, <1>2, <1>3 DEF TypeOK
<1>5. LocksExclude' /\ DeletedAreGone'
  BY <1>2, <1>3 DEF LocksExclude, DeletedAreGone
<1>6. ASSUME NEW q \in Client PROVE Progress(q)'
  <2>1. CASE q = p
    BY <1>2, <1>3, <2>1 DEF Progress
  <2>2. CASE q # p
    BY <1>1, <1>2, <2>2, OthersKeep
  <2> QED
    BY <2>1, <2>2
<1> QED
  BY <1>4, <1>5, <1>6

-----------------------------------------------------------------------------
\* What a transaction commits.
LEMMA CommittedRows ==
    ASSUME NEW c \in Calls, NEW d, NEW m, NEW l, Sound(d, m, c, 1, {}, l),
           \A x \in Element : d[x] = Absent \/ (d[x] \in ElementRow /\ d[x].prov # {}),
           NEW x \in Element
    PROVE  Sight(d, m, x) = Absent \/ (Sight(d, m, x) \in ElementRow /\ Sight(d, m, x).prov # {})
<1>1. CASE x \notin DOMAIN m
  BY <1>1 DEF Sight
<1>2. CASE x \in DOMAIN m /\ c.op = "UpsertGraph"
  <2>1. HasMerged(d, m, c, 1, {})
    BY <1>2 DEF Sound
  <2>2. x \in Targets(c) /\ m[x] = IF d[x] = Absent THEN Brought(c, x) ELSE Merged(d[x], Brought(c, x))
    BY <1>2, <2>1 DEF HasMerged
  <2>3. Brought(c, x) \in ElementRow /\ Brought(c, x).prov # {}
    BY <1>2, <2>2, GraphBrings DEF Targets
  <2>4. d[x] # Absent => Merged(d[x], Brought(c, x)) \in ElementRow /\ Merged(d[x], Brought(c, x)).prov # {}
    BY <2>3 DEF Merged, ElementRow
  <2> QED
    BY <1>2, <2>2, <2>3, <2>4 DEF Sight
<1>3. CASE x \in DOMAIN m /\ c.op = "RemoveGraphBySource"
  <2>1. HasRemoved(d, m, c, 1, {}, l)
    BY <1>3 DEF Sound
  <2>2. Stripped(d[x], m[x], c) /\ (m[x] = Absent \/ m[x].prov # {})
    BY <1>3, <2>1, Tables DEF HasRemoved
  <2>3. m[x] = Absent \/ m[x] \in ElementRow
    BY <2>2 DEF Stripped, ElementRow
  <2> QED
    BY <1>3, <2>2, <2>3 DEF Sight
<1>4. CASE x \in DOMAIN m /\ c.op = "Upsert"
  BY <1>4, ChunksBring, Tables DEF Sound, HasWritten
<1>5. CASE x \in DOMAIN m /\ c.op = "RemoveByFilter"
  BY <1>5, Tables DEF Sound, HasFiltered
<1>6. CASE x \in DOMAIN m /\ c.op = "UpsertCommunities"
  BY <1>6, Tables DEF Sound, HasReplaced
<1>7. CASE x \in DOMAIN m /\ c.op \in {"GraphSnapshot", "Neighborhood"}
  BY <1>7 DEF Sound, HasRead
<1> QED
  BY CallOps, <1>1, <1>2, <1>3, <1>4, <1>5, <1>6, <1>7

\* A row a transaction wrote is gone, its call brought it, or it was there.
LEMMA WrittenRows ==
    ASSUME NEW c \in Calls, NEW d, NEW m, NEW n, NEW v, NEW l, Sound(d, m, c, n, v, l), NEW x \in DOMAIN m
    PROVE  m[x] = Absent \/ Brought(c, x) # Absent \/ m[x] = d[x] \/ (x \in Element /\ d[x] # Absent)
<1>1. CASE c.op = "UpsertGraph"
  <2>1. x \in Targets(c)
    BY <1>1 DEF Sound, HasMerged
  <2> QED
    BY <1>1, <2>1, GraphBrings
<1>2. CASE c.op = "RemoveGraphBySource"
  BY <1>2 DEF Sound, HasRemoved, Stripped
<1>3. CASE c.op = "Upsert"
  <2>1. x \in DOMAIN c.rows
    BY <1>3 DEF Sound, HasWritten
  <2> QED
    BY <1>3, <2>1, ChunksBring
<1>4. CASE c.op = "RemoveByFilter"
  BY <1>4 DEF Sound, HasFiltered
<1>5. CASE c.op = "UpsertCommunities"
  <2>1. m[x] = Absent \/ x \in c.ids
    BY <1>5 DEF Sound, HasReplaced
  <2> QED
    BY <1>5, <2>1, CommunitiesBring
<1>6. CASE c.op \in {"GraphSnapshot", "Neighborhood"}
  BY <1>6 DEF Sound, HasRead
<1> QED
  BY CallOps, <1>1, <1>2, <1>3, <1>4, <1>5, <1>6

\* Another transaction's commit does not disturb what this one has done: it
\* holds its rows locked, and what appears unseen counts as late.
LEMMA OtherCommits ==
    ASSUME NEW c \in Calls, NEW d, NEW m, NEW n, NEW v, NEW l, Sound(d, m, c, n, v, l),
           NEW d2, NEW v2, NEW l2,
           \A x \in DOMAIN m : d2[x] = d[x],
           \A x \in Key : d2[x] = d[x] \/ d2[x] = Absent \/ x \in l2 \/ (x \in Element /\ d[x] # Absent),
           \A x \in v \ v2 : d2[x] = Absent \/ x \in l2,
           (v \ v2) \cap DOMAIN m = {},
           l \subseteq l2, v2 \subseteq v,
           c.op \in {"UpsertGraph", "Upsert"} \/ (c.op = "UpsertCommunities" /\ n = 1) => v2 = v
    PROVE  Sound(d2, m, c, n, v2, l2)
<1>1. CASE c.op = "UpsertGraph"
  BY <1>1 DEF Sound, HasMerged
<1>2. CASE c.op = "RemoveGraphBySource"
  <2>1. HasRemoved(d, m, c, n, v, l)
    BY <1>2 DEF Sound
  <2>2. \A x \in Element :
          (x \in Entity /\ n <= 4) \/ (x \in Relation /\ n <= 2) =>
              d2[x] = Absent \/ x \in DOMAIN m \/ x \in v2 \/ x \in l2
    <3> SUFFICES ASSUME NEW x \in Element, (x \in Entity /\ n <= 4) \/ (x \in Relation /\ n <= 2)
                 PROVE  d2[x] = Absent \/ x \in DOMAIN m \/ x \in v2 \/ x \in l2
      OBVIOUS
    <3>1. d[x] = Absent \/ x \in DOMAIN m \/ x \in v \/ x \in l
      BY <2>1 DEF HasRemoved
    <3>2. x \in Key
      BY DEF Key
    <3> QED
      BY <3>1, <3>2
  <2>3. \A x \in DOMAIN m : Stripped(d2[x], m[x], c)
    BY <2>1 DEF HasRemoved
  <2>4. \A x \in DOMAIN m :
          (x \in Entity /\ n <= 3) \/ (x \in Relation /\ n = 1) =>
              m[x] = Absent \/ m[x].prov # {} \/ x \in v2
    BY <2>1 DEF HasRemoved
  <2>5. /\ n \in 1..5
        /\ n = 5 => DOMAIN m = {} /\ v2 = {}
        /\ DOMAIN m \subseteq Element
        /\ v2 \subseteq IF n > 2 THEN Entity ELSE Relation
        /\ n \in {1, 3} => v2 \subseteq DOMAIN m
    BY <2>1 DEF HasRemoved
  <2>6. HasRemoved(d2, m, c, n, v2, l2)
    BY <2>2, <2>3, <2>4, <2>5 DEF HasRemoved
  <2> QED
    BY <1>2, <2>6 DEF Sound
<1>3. CASE c.op = "Upsert"
  BY <1>3 DEF Sound, HasWritten
<1>4. CASE c.op = "RemoveByFilter"
  <2>1. HasFiltered(d, m, c, n, v, l)
    BY <1>4 DEF Sound
  <2>2. c.match # Absent
    BY <1>4, PostgresAssumption DEF PostgresAssumption, WellFormed
  <2>3. ASSUME n = 1, NEW x \in Chunk, d2[x] = c.match
        PROVE  x \in DOMAIN m \/ x \in v2 \/ x \in l2
    <3>1. x \in Key /\ x \notin Element
      BY Tables DEF Key
    <3>2. d[x] = c.match => x \in DOMAIN m \/ x \in v \/ x \in l
      BY <2>1, <2>3 DEF HasFiltered
    <3> QED
      BY <2>2, <2>3, <3>1, <3>2
  <2>4. HasFiltered(d2, m, c, n, v2, l2)
    BY <2>1, <2>3 DEF HasFiltered
  <2> QED
    BY <1>4, <2>4 DEF Sound
<1>5. CASE c.op = "UpsertCommunities"
  <2>1. HasReplaced(d, m, c, n, v, l)
    BY <1>5 DEF Sound
  <2>2. ASSUME n <= 2, NEW k \in CommunityId
        PROVE  d2[k] = Absent \/ k \in DOMAIN m \/ k \in v2 \/ k \in l2 \/ (n = 1 /\ k \in c.ids)
    <3>1. k \in Key /\ k \notin Element
      BY Tables DEF Key
    <3>2. d[k] = Absent \/ k \in DOMAIN m \/ k \in v \/ k \in l \/ (n = 1 /\ k \in c.ids)
      BY <2>1, <2>2 DEF HasReplaced
    <3> QED
      BY <3>1, <3>2
  <2>3. n = 1 => v2 = v
    BY <1>5
  <2>4. HasReplaced(d2, m, c, n, v2, l2)
    BY <2>1, <2>2, <2>3 DEF HasReplaced
  <2> QED
    BY <1>5, <2>4 DEF Sound
<1>6. CASE c.op \in {"GraphSnapshot", "Neighborhood"}
  BY <1>6 DEF Sound, HasRead
<1> QED
  BY CallOps, <1>1, <1>2, <1>3, <1>4, <1>5, <1>6

\* What a commit is, row by row and client by client.
LEMMA CommitStep ==
    ASSUME IInv, NEW p \in Client, Commit(p)
    PROVE  /\ call[p] \in Calls /\ call[p] # NoCall /\ visiting[p] = {}
           /\ Len(todo[p]) = 1 /\ OnPlan(call[p], todo[p])
           /\ Sound(db, mine[p], call[p], 1, {}, late[p])
           /\ DOMAIN db' = Key /\ \A x \in Key : db'[x] = Sight(db, mine[p], x)
           /\ call'[p] = NoCall /\ todo'[p] = <<>> /\ mine'[p] = NoRows /\ deleted'[p] = {} /\ visiting'[p] = {}
           /\ late'[p] = {}
           /\ \A q \in Client : q # p =>
                 /\ call'[q] = call[q] /\ todo'[q] = todo[q] /\ mine'[q] = mine[q] /\ deleted'[q] = deleted[q]
                 /\ visiting'[q] = IF todo[q] # <<>> /\ Head(todo[q]).verb \in Scans
                                   THEN visiting[q] \ deleted[p] ELSE visiting[q]
                 /\ late'[q] = late[q] \cup {x \in DOMAIN mine[p] : Brought(call[p], x) # Absent}
<1> USE DEF IInv
<1>1. call[p] \in Calls /\ call[p] # NoCall /\ visiting[p] = {} /\ Len(todo[p]) = 1
  BY DEF Commit, TypeOK
<1>2. OnPlan(call[p], todo[p]) /\ Sound(db, mine[p], call[p], 1, {}, late[p])
  BY <1>1 DEF Progress
<1>3. DOMAIN db' = Key /\ \A x \in Key : db'[x] = Sight(db, mine[p], x)
  BY DEF Commit, Sees, Sight
<1>4. /\ call' = [call EXCEPT ![p] = NoCall] /\ todo' = [todo EXCEPT ![p] = <<>>]
      /\ mine' = [mine EXCEPT ![p] = NoRows] /\ deleted' = [deleted EXCEPT ![p] = {}]
      /\ visiting' = [q \in Client |->
                       IF todo[q] # <<>> /\ Head(todo[q]).verb \in Scans
                       THEN visiting[q] \ deleted[p] ELSE visiting[q]]
      /\ late' = [q \in Client |->
                   IF q = p THEN {}
                   ELSE late[q] \cup {x \in DOMAIN mine[p] : Brought(call[p], x) # Absent}]
  BY DEF Commit, End
<1>5. visiting'[p] = {}
  BY <1>1, <1>4
<1> QED
  BY <1>1, <1>2, <1>3, <1>4, <1>5 DEF TypeOK

\* For another transaction.
LEMMA CommitForOthers ==
    ASSUME IInv, NEW p \in Client, Commit(p), NEW q \in Client, q # p
    PROVE  /\ \A x \in DOMAIN mine[q] : db'[x] = db[x]
           /\ \A x \in Key : \/ db'[x] = db[x] \/ db'[x] = Absent \/ x \in late'[q]
                             \/ (x \in Element /\ db[x] # Absent)
           /\ \A x \in visiting[q] \ visiting'[q] : db'[x] = Absent \/ x \in late'[q]
           /\ (visiting[q] \ visiting'[q]) \cap DOMAIN mine[q] = {}
           /\ visiting[q] \ visiting'[q] \subseteq deleted[p]
           /\ late[q] \subseteq late'[q] /\ visiting'[q] \subseteq visiting[q]
<1> USE DEF IInv
<1> DEFINE m == mine[p]
           c == call[p]
<1>1. /\ c \in Calls
      /\ Sound(db, m, c, 1, {}, late[p])
      /\ \A x \in Key : db'[x] = Sight(db, m, x)
      /\ visiting'[q] = visiting[q] \/ visiting'[q] = visiting[q] \ deleted[p]
      /\ late'[q] = late[q] \cup {x \in DOMAIN m : Brought(c, x) # Absent}
  BY CommitStep
<1>2. DOMAIN mine[q] \subseteq Key /\ DOMAIN m \subseteq Key /\ visiting[q] \subseteq Key
  BY DEF TypeOK
<1>3. DOMAIN m \cap DOMAIN mine[q] = {}
  BY DEF LocksExclude
<1>4. \A x \in deleted[p] : x \in DOMAIN m /\ (m[x] = Absent \/ Brought(c, x) # Absent)
  BY DEF DeletedAreGone
<1> HIDE DEF m, c
<1>5. \A x \in DOMAIN m : m[x] = Absent \/ Brought(c, x) # Absent \/ m[x] = db[x] \/ (x \in Element /\ db[x] # Absent)
  BY <1>1, WrittenRows
<1>6. \A x \in DOMAIN mine[q] : db'[x] = db[x]
  BY <1>1, <1>2, <1>3 DEF Sight
<1>7. ASSUME NEW x \in Key
      PROVE  db'[x] = db[x] \/ db'[x] = Absent \/ x \in late'[q] \/ (x \in Element /\ db[x] # Absent)
  <2>1. CASE x \in DOMAIN m
    BY <1>1, <1>5, <2>1 DEF Sight
  <2>2. CASE x \notin DOMAIN m
    BY <1>1, <2>2 DEF Sight
  <2> QED
    BY <2>1, <2>2
<1>8. \A x \in visiting[q] \ visiting'[q] : x \in deleted[p]
  BY <1>1
<1>9. ASSUME NEW x \in visiting[q] \ visiting'[q] PROVE db'[x] = Absent \/ x \in late'[q]
  <2>1. x \in Key /\ x \in DOMAIN m /\ (m[x] = Absent \/ Brought(c, x) # Absent)
    BY <1>2, <1>4, <1>8
  <2> QED
    BY <1>1, <2>1 DEF Sight
<1>10. (visiting[q] \ visiting'[q]) \cap DOMAIN mine[q] = {}
  BY <1>3, <1>4, <1>8
<1>11. late[q] \subseteq late'[q] /\ visiting'[q] \subseteq visiting[q]
  BY <1>1
<1> QED
  BY <1>6, <1>7, <1>8, <1>9, <1>10, <1>11

LEMMA CommitInv ==
    ASSUME IInv, NEW p \in Client, Commit(p)
    PROVE  IInv'
<1> USE DEF IInv
<1>1. DOMAIN NoRows = {}
  BY DEF NoRows
<1>2. \A x \in Element : db'[x] = Absent \/ (db'[x] \in ElementRow /\ db'[x].prov # {})
  <2> SUFFICES ASSUME NEW x \in Element
               PROVE  db'[x] = Absent \/ (db'[x] \in ElementRow /\ db'[x].prov # {})
    OBVIOUS
  <2>1. db'[x] = Sight(db, mine[p], x)
    BY CommitStep DEF Key
  <2>2. \A y \in Element : db[y] = Absent \/ (db[y] \in ElementRow /\ db[y].prov # {})
    BY DEF TypeOK
  <2>3. call[p] \in Calls /\ Sound(db, mine[p], call[p], 1, {}, late[p])
    BY CommitStep
  <2>4. Sight(db, mine[p], x) = Absent \/ (Sight(db, mine[p], x) \in ElementRow /\ Sight(db, mine[p], x).prov # {})
    BY <2>2, <2>3, CommittedRows
  <2> QED
    BY <2>1, <2>4
<1>3. TypeOK'
  <2>1. /\ call' = [call EXCEPT ![p] = NoCall] /\ todo' = [todo EXCEPT ![p] = <<>>]
        /\ mine' = [mine EXCEPT ![p] = NoRows] /\ deleted' = [deleted EXCEPT ![p] = {}]
        /\ seen' = [seen EXCEPT ![p] = Unread] /\ calls' = calls
        /\ visiting' = [q \in Client |->
                         IF todo[q] # <<>> /\ Head(todo[q]).verb \in Scans
                         THEN visiting[q] \ deleted[p] ELSE visiting[q]]
        /\ late' = [q \in Client |->
                     IF q = p THEN {}
                     ELSE late[q] \cup {x \in DOMAIN mine[p] : Brought(call[p], x) # Absent}]
    BY DEF Commit, End
  <2>2. visiting' \in [Client -> SUBSET Key] /\ late' \in [Client -> SUBSET Key]
    BY <2>1 DEF TypeOK
  <2>3. DOMAIN mine' = Client /\ \A q \in Client : DOMAIN mine'[q] \subseteq Key
    BY <1>1, <2>1 DEF TypeOK
  <2>4. DOMAIN db' = Key
    BY CommitStep
  <2> QED
    BY <1>2, <2>1, <2>2, <2>3, <2>4 DEF TypeOK
<1>4. LocksExclude' /\ DeletedAreGone'
  <2>1. mine'[p] = NoRows /\ deleted'[p] = {}
    BY CommitStep
  <2>2. \A q \in Client : q # p => mine'[q] = mine[q] /\ deleted'[q] = deleted[q] /\ call'[q] = call[q]
    BY CommitStep
  <2> QED
    BY <1>1, <2>1, <2>2 DEF LocksExclude, DeletedAreGone
<1>5. Progress(p)'
  BY <1>1, CommitStep DEF Progress
<1>6. ASSUME NEW q \in Client, q # p PROVE Progress(q)'
  <2>1. /\ call'[q] = call[q] /\ todo'[q] = todo[q] /\ mine'[q] = mine[q] /\ deleted'[q] = deleted[q]
        /\ visiting'[q] = IF todo[q] # <<>> /\ Head(todo[q]).verb \in Scans
                          THEN visiting[q] \ deleted[p] ELSE visiting[q]
    BY <1>6, CommitStep
  <2>2. CASE call[q] = NoCall
    BY <2>1, <2>2 DEF Progress
  <2>3. CASE call[q] # NoCall
    <3> DEFINE c == call[q]
               n == Len(todo[q])
               v == visiting[q]
    <3>1. c \in Calls /\ OnPlan(c, todo[q]) /\ Sound(db, mine[q], c, n, v, late[q])
      BY <2>3 DEF Progress, TypeOK
    <3>2. c.op \in {"UpsertGraph", "Upsert"} \/ (c.op = "UpsertCommunities" /\ n = 1) => visiting'[q] = v
      <4>0. v = {} \/ Head(todo[q]).verb \in {"merge", "write"} => visiting'[q] = v
        BY <2>1 DEF Scans
      <4>1. CASE c.op = "UpsertGraph"
        <5>1. n \in 1..3 /\ (n = 2 => Head(todo[q]).verb = "merge") /\ (n = 1 => Head(todo[q]).verb = "merge")
          BY <3>1, <4>1, PlanHead DEF Statement
        <5>2. n = 3 => v = {}
          BY <3>1, <4>1 DEF Sound, HasMerged
        <5> HIDE DEF n, v
        <5> QED
          BY ONLY <4>0, <5>1, <5>2
      <4>2. CASE c.op = "Upsert"
        <5>1. n \in 1..2 /\ (n = 1 => Head(todo[q]).verb = "write")
          BY <3>1, <4>2, PlanHead DEF Statement
        <5>2. n = 2 => v = {}
          BY <3>1, <4>2 DEF Sound, HasWritten
        <5> HIDE DEF n, v
        <5> QED
          BY ONLY <4>0, <5>1, <5>2
      <4>3. CASE c.op = "UpsertCommunities" /\ n = 1
        <5>1. Head(todo[q]).verb = "insert"
          BY <3>1, <4>3, PlanHead DEF Statement
        <5> QED
          BY <2>1, <5>1 DEF Scans
      <4> QED
        BY <4>1, <4>2, <4>3
    <3>3. Sound(db', mine[q], c, n, visiting'[q], late'[q])
      <4>1. /\ \A x \in DOMAIN mine[q] : db'[x] = db[x]
            /\ \A x \in Key : db'[x] = db[x] \/ db'[x] = Absent \/ x \in late'[q] \/ (x \in Element /\ db[x] # Absent)
            /\ \A x \in v \ visiting'[q] : db'[x] = Absent \/ x \in late'[q]
            /\ (v \ visiting'[q]) \cap DOMAIN mine[q] = {}
            /\ late[q] \subseteq late'[q] /\ visiting'[q] \subseteq v
        BY <1>6, CommitForOthers
      <4> HIDE DEF c, n, v
      <4> QED
        BY <3>1, <3>2, <4>1, OtherCommits
    <3> QED
      BY <2>1, <2>3, <3>1, <3>3 DEF Progress
  <2> QED
    BY <2>2, <2>3
<1> QED
  BY <1>3, <1>4, <1>5, <1>6

LEMMA IInvStep == IInv /\ [Next]_vars => IInv'
<1> SUFFICES ASSUME IInv, [Next]_vars PROVE IInv'
  OBVIOUS
<1>1. ASSUME NEW p \in Client, Execute(p) PROVE IInv'
  BY <1>1, ExecuteInv
<1>2. ASSUME NEW p \in Client, NEW x \in Key, Visit(p, x) PROVE IInv'
  BY <1>2, VisitInv
<1>3. ASSUME NEW p \in Client, Commit(p) PROVE IInv'
  BY <1>3, CommitInv
<1>4. ASSUME NEW p \in Client, KeyViolated(p) \/ DeadlockBroken(p) \/ Fail(p) PROVE IInv'
  BY <1>4, RollbackInv DEF KeyViolated, DeadlockBroken, Fail
<1>5. ASSUME NEW p \in Client, NEW c \in Calls, Begin(p, c) PROVE IInv'
  BY <1>5, BeginInv
<1>6. ASSUME UNCHANGED vars PROVE IInv'
  <2>1. \A q \in Client : Progress(q)'
    BY <1>6 DEF vars, IInv, Progress
  <2> QED
    BY <1>6, <2>1 DEF vars, IInv, TypeOK, LocksExclude, DeletedAreGone
<1> QED
  BY <1>1, <1>2, <1>3, <1>4, <1>5, <1>6 DEF Next, Transaction

\* Whatever transactions interleave, fail or deadlock: rows keep their types, a
\* row is written by one transaction at a time, and at each statement a
\* transaction has done to every row it could see exactly what its operation
\* does, and missed only what was committed since its call began.
THEOREM TransactionsStaySound == Spec => []IInv
  BY InitInv, IInvStep, PTL DEF Spec
-----------------------------------------------------------------------------
(***************************************************************************)
(* The committed graph.                                                    *)
(***************************************************************************)
RowProvenance(row) == IF row = Absent THEN {} ELSE row.prov
RowWeight(row)     == IF row = Absent THEN 0 ELSE row.weight

\* What a merge commits of each row.
LEMMA MergeCommits ==
    ASSUME NEW c \in Calls, c.op = "UpsertGraph", NEW d, NEW m, HasMerged(d, m, c, 1, {}),
           NEW x \in Element, d[x] = Absent \/ d[x] \in ElementRow
    PROVE  /\ RowProvenance(Sight(d, m, x)) = RowProvenance(d[x]) \cup c.graph.prov[x]
           /\ x \in Relation => RowWeight(Sight(d, m, x)) = RowWeight(d[x]) + c.graph.weight[x]
<1>1. /\ DOMAIN m = Targets(c)
      /\ \A y \in DOMAIN m : m[y] = IF d[y] = Absent THEN Brought(c, y) ELSE Merged(d[y], Brought(c, y))
  BY DEF HasMerged
<1>2. /\ c.graph.prov[x] \in SUBSET Chunk
      /\ x \in Relation => c.graph.weight[x] \in Nat
      /\ x \in Relation /\ c.graph.prov[x] = {} => c.graph.weight[x] = 0
  BY PostgresAssumption DEF PostgresAssumption, WellFormed, NsGraph
<1>3. x \in Relation => RowWeight(d[x]) \in Nat
  BY DEF RowWeight, ElementRow
<1>4. CASE x \notin Targets(c)
  <2>1. Sight(d, m, x) = d[x] /\ c.graph.prov[x] = {}
    BY <1>1, <1>4 DEF Sight, Targets
  <2> QED
    BY <1>2, <1>3, <2>1
<1>5. CASE x \in Targets(c)
  <2>1. Sight(d, m, x) = IF d[x] = Absent THEN Brought(c, x) ELSE Merged(d[x], Brought(c, x))
    BY <1>1, <1>5 DEF Sight
  <2>2. /\ Brought(c, x) \in ElementRow /\ Brought(c, x) # Absent
        /\ Brought(c, x).prov = c.graph.prov[x]
        /\ x \in Relation => Brought(c, x).weight = c.graph.weight[x]
    BY <1>5, GraphBrings
  <2>3. CASE d[x] = Absent
    BY <1>2, <2>1, <2>2, <2>3 DEF RowProvenance, RowWeight
  <2>4. CASE d[x] # Absent
    <3>1. d[x] \in ElementRow
      BY <2>4
    <3>2. Merged(d[x], Brought(c, x)) \in ElementRow
      BY <2>2, <3>1 DEF Merged, ElementRow
    <3>3. Merged(d[x], Brought(c, x)) # Absent
      BY <3>2, Tables
    <3> QED
      BY <2>1, <2>2, <2>4, <3>3 DEF RowProvenance, RowWeight, Merged
  <2> QED
    BY <2>3, <2>4
<1> QED
  BY <1>4, <1>5

\* What a removal commits of each row.
LEMMA RemovalCommits ==
    ASSUME NEW c \in Calls, c.op = "RemoveGraphBySource", NEW d, NEW m, NEW l, HasRemoved(d, m, c, 1, {}, l),
           NEW x \in Element, d[x] = Absent \/ (d[x] \in ElementRow /\ d[x].prov # {})
    PROVE  /\ x \in DOMAIN m =>
                 /\ RowProvenance(Sight(d, m, x)) = RowProvenance(d[x]) \ c.chunks
                 /\ RowWeight(Sight(d, m, x)) = IF RowProvenance(d[x]) \subseteq c.chunks THEN 0 ELSE RowWeight(d[x])
           /\ x \notin DOMAIN m => Sight(d, m, x) = d[x] /\ (d[x] = Absent \/ x \in l)
<1>1. CASE x \notin DOMAIN m
  BY <1>1, Tables DEF HasRemoved, Sight
<1>2. CASE x \in DOMAIN m
  <2>1. Sight(d, m, x) = m[x] /\ Stripped(d[x], m[x], c) /\ (m[x] = Absent \/ m[x].prov # {})
    BY <1>2, Tables DEF HasRemoved, Sight
  <2>2. CASE d[x] = Absent
    BY <1>2, <2>1, <2>2 DEF Stripped, RowProvenance, RowWeight
  <2>3. CASE d[x] # Absent /\ m[x] = [d[x] EXCEPT !.prov = @ \ c.chunks]
    <3>1. m[x] \in ElementRow /\ m[x].prov = d[x].prov \ c.chunks /\ m[x].weight = d[x].weight
      BY <2>3 DEF ElementRow
    <3>2. m[x] # Absent
      BY <3>1, Tables
    <3>3. RowProvenance(d[x]) = d[x].prov /\ RowWeight(d[x]) = d[x].weight
      BY <2>3 DEF RowProvenance, RowWeight
    <3>4. RowProvenance(m[x]) = m[x].prov /\ RowWeight(m[x]) = m[x].weight
      BY <3>2 DEF RowProvenance, RowWeight
    <3>5. ~(d[x].prov \subseteq c.chunks)
      BY <2>1, <3>1, <3>2
    <3> QED
      BY <1>2, <2>1, <3>1, <3>3, <3>4, <3>5
  <2>4. CASE d[x] # Absent /\ m[x] = Absent /\ d[x].prov \subseteq c.chunks
    BY <1>2, <2>1, <2>4 DEF RowProvenance, RowWeight
  <2> QED
    BY <2>1, <2>2, <2>3, <2>4 DEF Stripped
<1> QED
  BY <1>1, <1>2

\* The other operations write no element.
LEMMA OthersWriteNoElement ==
    ASSUME NEW c \in Calls, c.op \notin {"UpsertGraph", "RemoveGraphBySource"},
           NEW d, NEW m, NEW n, NEW v, NEW l, Sound(d, m, c, n, v, l)
    PROVE  DOMAIN m \cap Element = {}
<1>1. CASE c.op = "Upsert"
  BY <1>1, ChunksBring, Tables DEF Sound, HasWritten
<1>2. CASE c.op = "RemoveByFilter"
  BY <1>2, Tables DEF Sound, HasFiltered
<1>3. CASE c.op = "UpsertCommunities"
  BY <1>3, Tables DEF Sound, HasReplaced
<1>4. CASE c.op \in {"GraphSnapshot", "Neighborhood"}
  BY <1>4 DEF Sound, HasRead
<1> QED
  BY CallOps, <1>1, <1>2, <1>3, <1>4

-----------------------------------------------------------------------------
\* Whoever writes a new relation holds its endpoints locked.
LEMMA RelationLocksEnds ==
    ASSUME CoveringCalls, NEW c \in Calls, NEW d, NEW m, NEW l, Sound(d, m, c, 1, {}, l),
           NEW r \in Relation, Brought(c, r) # Absent
    PROVE  Ends[r] \subseteq DOMAIN m
<1>1. r \in Element /\ r \notin Chunk /\ r \notin CommunityId
  BY Tables
<1>2. c.op = "UpsertGraph"
  BY <1>1, ChunksBring, CommunitiesBring, OthersBringNothing, CallOps
<1>3. r \in Targets(c)
  BY <1>2, GraphBrings
<1>4. CoversRelations(c.graph)
  BY <1>2 DEF CoveringCalls
<1>5. Ends[r] \subseteq Entity
  BY GraphAssumption DEF GraphAssumption
<1>6. \A e \in Ends[r] : e \in Targets(c)
  BY <1>3, <1>4, <1>5, Tables DEF CoversRelations, Targets
<1> QED
  BY <1>2, <1>6 DEF Sound, HasMerged

\* A statement that looks for relations finds those that are there.
LEMMA ExecuteFinds ==
    ASSUME IInv, EdgesFound, NEW p \in Client, Execute(p)
    PROVE  EdgesFound'
<1>1. TypeOK /\ \A q \in Client : Progress(q)
  BY DEF IInv
<1>2. /\ db' = db /\ mine' = mine /\ call' = call
      /\ call[p] \in Calls /\ call[p] # NoCall
      /\ OnPlan(call[p], todo'[p])
      /\ Len(todo'[p]) = Len(todo[p]) - 1
      /\ Head(todo'[p]) = todo[p][2]
      /\ todo' = [todo EXCEPT ![p] = Tail(todo[p])]
      /\ visiting[p] = {}
      /\ Sound(db, mine[p], call[p], Len(todo[p]), {}, late[p])
  BY <1>1, NextStatement DEF Execute
<1>3. Len(todo[p]) \in 2..5
  BY <1>1, NextStatement
<1>4. \A q \in Client : q # p => visiting'[q] = visiting[q] /\ todo'[q] = todo[q]
  BY <1>1 DEF Execute, TypeOK
<1>5. FindsRelations(db, mine[p], call[p], Len(todo'[p]), visiting'[p])
  <2> SUFFICES ASSUME call[p].op = "RemoveGraphBySource", Len(todo'[p]) <= 2,
                      NEW r \in Relation, NEW e \in Ends[r], db[r] # Absent, e \in DOMAIN mine[p]
               PROVE  r \in DOMAIN mine[p] \/ r \in visiting'[p]
    BY DEF FindsRelations
  <2> DEFINE n == Len(todo[p])
             k == Len(todo'[p])
  <2>1. n \in 2..5 /\ k = n - 1 /\ k <= 2
    BY <1>2, <1>3
  <2> HIDE DEF n, k
  <2>2. n = 3 \/ n = 2
    BY <2>1
  <2>3. CASE n = 2
    <3>1. FindsRelations(db, mine[p], call[p], n, {})
      BY <1>2 DEF EdgesFound, n
    <3> QED
      BY <2>3, <3>1 DEF FindsRelations
  <2>4. CASE n = 3
    <3>1. k = 2
      BY <2>1, <2>4
    <3>2. todo[p][2] = Statement("strip", Relation)
      BY <1>2, <3>1, PlanHead DEF k
    <3>3. visiting'[p] = {x \in Relation : Where("strip", call[p], Sees(p, x))}
      BY <1>1, <3>2 DEF Execute, TypeOK, Statement, Scans, Reads
    <3>4. ASSUME r \notin DOMAIN mine[p] PROVE Where("strip", call[p], Sees(p, r))
      BY <3>4 DEF Where, Sees
    <3> QED
      BY <3>3, <3>4
  <2> QED
    BY <2>2, <2>3, <2>4
<1> SUFFICES ASSUME NEW q \in Client, call[q] # NoCall
             PROVE  FindsRelations(db, mine[q], call[q], Len(todo'[q]), visiting'[q])
  BY <1>2 DEF EdgesFound
<1>6. CASE q = p
  BY <1>5, <1>6
<1>7. CASE q # p
  BY <1>4, <1>7 DEF EdgesFound
<1> QED
  BY <1>6, <1>7

\* While it visits relations it meets no further endpoint.
LEMMA VisitFinds ==
    ASSUME IInv, EdgesFound, NEW p \in Client, NEW x \in Key, Visit(p, x)
    PROVE  EdgesFound'
<1>1. TypeOK /\ \A q \in Client : Progress(q)
  BY DEF IInv
<1>2. /\ db' = db /\ call' = call /\ todo' = todo
      /\ visiting' = [visiting EXCEPT ![p] = visiting[p] \ {x}]
      /\ x \in visiting[p] /\ call[p] # NoCall
  BY <1>1 DEF Visit, Progress
<1>3. /\ DOMAIN mine'[p] = DOMAIN mine[p] \cup {x}
      /\ \A q \in Client : q # p => mine'[q] = mine[q]
  BY <1>1 DEF Visit, With, TypeOK
<1>4. FindsRelations(db, mine'[p], call[p], Len(todo[p]), visiting[p] \ {x})
  <2> SUFFICES ASSUME call[p].op = "RemoveGraphBySource", Len(todo[p]) <= 2,
                      NEW r \in Relation, NEW e \in Ends[r], db[r] # Absent, e \in DOMAIN mine'[p]
               PROVE  r \in DOMAIN mine'[p] \/ r \in visiting[p] \ {x}
    BY DEF FindsRelations
  <2> DEFINE n == Len(todo[p])
  <2>1. n <= 2 /\ HasRemoved(db, mine[p], call[p], n, visiting[p], late[p])
    BY <1>1, <1>2 DEF Progress, Sound
  <2>2. FindsRelations(db, mine[p], call[p], n, visiting[p])
    BY <1>2 DEF EdgesFound
  <2> HIDE DEF n
  <2>3. n \in 1..5
    BY <2>1 DEF HasRemoved
  <2>4. x \in Relation
    BY <1>2, <2>1, <2>3 DEF HasRemoved
  <2>5. e \in Entity
    BY GraphAssumption DEF GraphAssumption
  <2>6. e \in DOMAIN mine[p]
    BY <1>3, <2>4, <2>5, Tables
  <2>7. r \in DOMAIN mine[p] \/ r \in visiting[p]
    BY <2>1, <2>2, <2>6 DEF FindsRelations
  <2> QED
    BY <1>3, <2>7
<1>5. visiting'[p] = visiting[p] \ {x} /\ \A q \in Client : q # p => visiting'[q] = visiting[q]
  BY <1>1, <1>2 DEF TypeOK
<1> SUFFICES ASSUME NEW q \in Client, call[q] # NoCall
             PROVE  FindsRelations(db, mine'[q], call[q], Len(todo[q]), visiting'[q])
  BY <1>2 DEF EdgesFound
<1>6. CASE q = p
  BY <1>4, <1>5, <1>6
<1>7. CASE q # p
  BY <1>3, <1>5, <1>7 DEF EdgesFound
<1> QED
  BY <1>6, <1>7

\* A relation that another transaction commits has endpoints that one had
\* locked; a relation it deleted is no longer there.
LEMMA CommitFinds ==
    ASSUME CoveringCalls, IInv, EdgesFound, NEW p \in Client, Commit(p)
    PROVE  EdgesFound'
<1>1. /\ call[p] \in Calls /\ call'[p] = NoCall
      /\ Sound(db, mine[p], call[p], 1, {}, late[p])
      /\ \A x \in Key : db'[x] = Sight(db, mine[p], x)
      /\ \A q \in Client : q # p => call'[q] = call[q] /\ todo'[q] = todo[q] /\ mine'[q] = mine[q]
  BY CommitStep
<1> SUFFICES ASSUME NEW q \in Client, q # p, call[q] # NoCall
             PROVE  FindsRelations(db', mine[q], call[q], Len(todo[q]), visiting'[q])
  BY <1>1 DEF EdgesFound
<1>2. FindsRelations(db, mine[q], call[q], Len(todo[q]), visiting[q])
  BY DEF EdgesFound
<1>3. visiting[q] \ visiting'[q] \subseteq deleted[p]
  BY CommitForOthers
<1> SUFFICES ASSUME call[q].op = "RemoveGraphBySource", Len(todo[q]) <= 2,
                    NEW r \in Relation, NEW e \in Ends[r], db'[r] # Absent, e \in DOMAIN mine[q]
             PROVE  r \in DOMAIN mine[q] \/ r \in visiting'[q]
  BY DEF FindsRelations
<1>4. Brought(call[p], r) = Absent
  <2>1. SUFFICES ASSUME Brought(call[p], r) # Absent PROVE FALSE
    OBVIOUS
  <2>2. e \in DOMAIN mine[p]
    BY <1>1, <2>1, RelationLocksEnds
  <2> QED
    BY <2>2 DEF IInv, LocksExclude
<1>5. r \in Key /\ db'[r] = Sight(db, mine[p], r)
  BY <1>1, Tables DEF Key
<1>6. db[r] # Absent
  <2>1. CASE r \in DOMAIN mine[p]
    BY <1>1, <1>4, <1>5, <2>1, WrittenRows DEF Sight
  <2>2. CASE r \notin DOMAIN mine[p]
    BY <1>5, <2>2 DEF Sight
  <2> QED
    BY <2>1, <2>2
<1>7. r \notin deleted[p]
  BY <1>4, <1>5 DEF IInv, DeletedAreGone, Sight
<1>8. r \in DOMAIN mine[q] \/ r \in visiting[q]
  BY <1>2, <1>6 DEF FindsRelations
<1> QED
  BY <1>3, <1>7, <1>8

LEMMA EdgesFoundStep == CoveringCalls /\ IInv /\ EdgesFound /\ [Next]_vars => EdgesFound'
<1> SUFFICES ASSUME CoveringCalls, IInv, EdgesFound, [Next]_vars PROVE EdgesFound'
  OBVIOUS
<1>1. ASSUME NEW p \in Client, Execute(p) PROVE EdgesFound'
  BY <1>1, ExecuteFinds
<1>2. ASSUME NEW p \in Client, NEW x \in Key, Visit(p, x) PROVE EdgesFound'
  BY <1>2, VisitFinds
<1>3. ASSUME NEW p \in Client, Commit(p) PROVE EdgesFound'
  BY <1>3, CommitFinds
<1>4. ASSUME NEW p \in Client, KeyViolated(p) \/ DeadlockBroken(p) \/ Fail(p) PROVE EdgesFound'
  <2>1. /\ db' = db /\ call'[p] = NoCall
        /\ \A q \in Client : q # p => call'[q] = call[q] /\ todo'[q] = todo[q] /\ mine'[q] = mine[q]
                                      /\ visiting'[q] = visiting[q]
    BY <1>4 DEF KeyViolated, DeadlockBroken, Fail, RolledBack, End, IInv, TypeOK
  <2> QED
    BY <2>1 DEF EdgesFound
<1>5. ASSUME NEW p \in Client, NEW c \in Calls, Begin(p, c) PROVE EdgesFound'
  <2> DEFINE t == <<Statement("begin", {})>> \o Statements(c)
  <2>1. /\ db' = db /\ mine' = mine /\ visiting' = visiting
        /\ call' = [call EXCEPT ![p] = c] /\ todo' = [todo EXCEPT ![p] = t]
    BY <1>5 DEF Begin
  <2>2. c.op = "RemoveGraphBySource" => Len(t) = 5
    BY PlanStart
  <2> HIDE DEF t
  <2>3. FindsRelations(db, mine[p], c, Len(t), visiting[p])
    <3>1. ~(c.op = "RemoveGraphBySource" /\ Len(t) <= 2)
      BY <2>2
    <3> QED
      BY <3>1, Zenon DEF FindsRelations
  <2>4. /\ call'[p] = c /\ todo'[p] = t
        /\ \A q \in Client : q # p => call'[q] = call[q] /\ todo'[q] = todo[q]
    BY <2>1 DEF IInv, TypeOK
  <2> QED
    BY <2>1, <2>3, <2>4 DEF EdgesFound
<1>6. CASE UNCHANGED vars
  BY <1>6 DEF vars, EdgesFound
<1> QED
  BY <1>1, <1>2, <1>3, <1>4, <1>5, <1>6 DEF Next, Transaction

\* However transactions interleave, fail or deadlock, no committed relation is
\* left without an endpoint.
LEMMA CommitCovers ==
    ASSUME CoveringCalls, IInv, EdgesFound, NoCommittedRelationDangles, NEW p \in Client, Commit(p)
    PROVE  NoCommittedRelationDangles'
<1> DEFINE c == call[p]
           m == mine[p]
           l == late[p]
           Was(x) == RowProvenance(db[x])
           Is(x)  == RowProvenance(Sight(db, m, x))
<1>1. /\ c \in Calls /\ c # NoCall /\ visiting[p] = {} /\ Len(todo[p]) = 1
      /\ Sound(db, m, c, 1, {}, l)
      /\ \A x \in Key : db'[x] = Sight(db, m, x)
  BY CommitStep
<1>2. \A x \in Element : db[x] = Absent \/ (db[x] \in ElementRow /\ db[x].prov # {})
  BY DEF IInv, TypeOK
<1>3. \A r \in Relation : \A e \in Ends[r] : r \in Element /\ e \in Element
  BY GraphAssumption, Tables DEF GraphAssumption
<1>4. \A r \in Relation : \A e \in Ends[r] : Was(r) \subseteq Was(e)
  BY <1>3 DEF NoCommittedRelationDangles, CoversRelations, CommittedGraph, RowProvenance
<1>5. ASSUME \A r \in Relation : \A e \in Ends[r] : Is(r) \subseteq Is(e)
      PROVE  NoCommittedRelationDangles'
  <2>1. \A x \in Element : RowProvenance(db'[x]) = Is(x)
    BY <1>1 DEF Key
  <2>2. CommittedGraph'.prov = [x \in Element |-> RowProvenance(db'[x])]
    BY DEF CommittedGraph, RowProvenance
  <2> HIDE DEF Is
  <2>3. \A x \in Element : CommittedGraph'.prov[x] = Is(x)
    BY <2>1, <2>2
  <2>4. \A r \in Relation : \A e \in Ends[r] : CommittedGraph'.prov[r] \subseteq CommittedGraph'.prov[e]
    BY <1>3, <1>5, <2>3
  <2> QED
    BY <2>4 DEF NoCommittedRelationDangles, CoversRelations
<1>6. FindsRelations(db, m, c, 1, {})
  BY <1>1 DEF EdgesFound
<1> SUFFICES ASSUME NEW r \in Relation, NEW e \in Ends[r] PROVE Is(r) \subseteq Is(e)
  BY <1>5
<1> HIDE DEF c, m, l
<1>7. r \in Element /\ e \in Element /\ Was(r) \subseteq Was(e)
  BY <1>3, <1>4
<1>8. CASE c.op = "UpsertGraph"
  <2>1. HasMerged(db, m, c, 1, {})
    BY <1>1, <1>8 DEF Sound
  <2>2. Is(r) = Was(r) \cup c.graph.prov[r] /\ Is(e) = Was(e) \cup c.graph.prov[e]
    BY <1>1, <1>2, <1>7, <1>8, <2>1, MergeCommits
  <2>3. c.graph.prov[r] \subseteq c.graph.prov[e]
    BY <1>1, <1>8 DEF CoveringCalls, CoversRelations
  <2> QED
    BY <1>7, <2>2, <2>3
<1>9. CASE c.op = "RemoveGraphBySource"
  <2>1. HasRemoved(db, m, c, 1, {}, l)
    BY <1>1, <1>9 DEF Sound
  <2>2. \A x \in {r, e} : IF x \in DOMAIN m THEN Is(x) = Was(x) \ c.chunks ELSE Is(x) = Was(x)
    BY <1>1, <1>2, <1>7, <1>9, <2>1, RemovalCommits
  <2>3. e \in DOMAIN m => r \in DOMAIN m \/ Was(r) = {}
    BY <1>6, <1>9 DEF FindsRelations, RowProvenance
  <2> HIDE DEF Is, Was
  <2> QED
    BY <1>7, <2>2, <2>3
<1>10. CASE c.op \notin {"UpsertGraph", "RemoveGraphBySource"}
  <2>1. DOMAIN m \cap Element = {}
    BY <1>1, <1>10, OthersWriteNoElement
  <2> QED
    BY <1>7, <2>1 DEF Sight
<1> QED
  BY <1>8, <1>9, <1>10

LEMMA OtherStepsKeepRows ==
    ASSUME [Next]_vars, ~(\E p \in Client : Commit(p))
    PROVE  db' = db
  BY DEF Next, Transaction, Execute, Visit, KeyViolated, DeadlockBroken, Fail, RolledBack, Begin, vars

LEMMA CoversStep ==
    CoveringCalls /\ IInv /\ EdgesFound /\ NoCommittedRelationDangles /\ [Next]_vars
        => NoCommittedRelationDangles'
<1> SUFFICES ASSUME CoveringCalls, IInv, EdgesFound, NoCommittedRelationDangles, [Next]_vars
             PROVE  NoCommittedRelationDangles'
  OBVIOUS
<1>1. CASE \E p \in Client : Commit(p)
  BY <1>1, CommitCovers
<1>2. CASE ~(\E p \in Client : Commit(p))
  BY <1>2, OtherStepsKeepRows DEF NoCommittedRelationDangles, CoversRelations, CommittedGraph
<1> QED
  BY <1>1, <1>2

LEMMA InitCovers == Init => EdgesFound /\ NoCommittedRelationDangles
<1> SUFFICES ASSUME Init PROVE EdgesFound /\ NoCommittedRelationDangles
  OBVIOUS
<1>1. \A p \in Client : call[p] = NoCall
  BY DEF Init
<1>2. \A x \in Element : db[x] = Absent
  BY DEF Init, Key
<1>3. NoCommittedRelationDangles
  BY <1>2, Tables DEF NoCommittedRelationDangles, CoversRelations, CommittedGraph
<1> QED
  BY <1>1, <1>3 DEF EdgesFound

\* If callers give a relation only together with its endpoints, every chunk
\* that is evidence for a committed relation is evidence for both of its
\* committed endpoints, however UpsertGraph and RemoveGraphBySource overlap.
THEOREM NoRelationDangles ==
    ASSUME CoveringCalls
    PROVE  Spec => []NoCommittedRelationDangles
<1>1. Init => IInv /\ EdgesFound /\ NoCommittedRelationDangles
  BY InitInv, InitCovers
<1>2. IInv /\ EdgesFound /\ NoCommittedRelationDangles /\ [Next]_vars
        => (IInv /\ EdgesFound /\ NoCommittedRelationDangles)'
  BY IInvStep, EdgesFoundStep, CoversStep
<1> QED
  BY <1>1, <1>2, PTL DEF Spec

-----------------------------------------------------------------------------
(***************************************************************************)
(* The readers.                                                            *)
(***************************************************************************)
IsRead(c) == c.op \in {"GraphSnapshot", "Neighborhood"}

\* A walk reaches entities.
LEMMA WalkReaches ==
    ASSUME NEW seeds, NEW hops
    PROVE  Walk(seeds, hops) \subseteq Entity
<1>1. \A r \in Stored(Relation) : Ends[r] \subseteq Entity
  BY GraphAssumption DEF GraphAssumption, Stored
<1>2. \A S : S \subseteq Entity => Neighbours(S) \subseteq Entity
  BY <1>1 DEF Neighbours
<1>3. seeds \cap Stored(Entity) \subseteq Entity
  BY DEF Stored
<1> DEFINE S == seeds \cap Stored(Entity)
<1>4. Walk(seeds, hops) = CASE hops = 0 -> S [] hops = 1 -> Neighbours(S) [] OTHER -> Neighbours(Neighbours(S))
  BY DEF Walk
<1> HIDE DEF S
<1>5. S \subseteq Entity /\ Neighbours(S) \subseteq Entity /\ Neighbours(Neighbours(S)) \subseteq Entity
  BY <1>2, <1>3 DEF S
<1> QED
  BY <1>4, <1>5

\* A query of a reader: the walk, the entities, or the relations.
LEMMA ExecuteReads ==
    ASSUME IInv, ReadersKnow, NEW p \in Client, Execute(p), IsRead(call[p])
    PROVE  /\ seen'[p] \in [reached : SUBSET Entity, got : SUBSET Element]
           /\ Len(todo'[p]) \in 1..3
           /\ Len(todo'[p]) = 3 => seen'[p].got = seen[p].got
           /\ Len(todo'[p]) = 2 =>
                 /\ seen'[p].reached = seen[p].reached
                 /\ seen'[p].got = seen[p].got \cup {x \in Stored(Entity) : x \in seen[p].reached}
           /\ Len(todo'[p]) = 1 =>
                 seen'[p].got = seen[p].got \cup {r \in Stored(Relation) : Ends[r] \subseteq seen[p].reached}
<1> DEFINE c == call[p]
           n == Len(todo[p])
           k == Len(todo'[p])
           next == todo[p][2]
           s == seen[p]
<1>1. TypeOK /\ Progress(p)
  BY DEF IInv
<1>2. c \in Calls /\ OnPlan(c, todo[p]) /\ OnPlan(c, todo'[p]) /\ Head(todo'[p]) = next
  BY <1>1, NextStatement
<1>3. n \in 2..5 /\ k = n - 1
  BY <1>1, NextStatement
<1>4. n \in 1..4
  BY <1>2, PlanHead DEF IsRead
<1>5. /\ n = 4 => c.op = "Neighborhood"
      /\ k = 3 /\ c.op = "Neighborhood" => next = Statement("walk", Entity)
      /\ k = 2 => next = Statement("read", Entity)
      /\ k = 1 => next = Statement("read", Relation)
  BY <1>2, PlanHead DEF IsRead
<1>6. s \in [reached : SUBSET Entity, got : SUBSET Element]
  BY DEF ReadersKnow
<1>7. next.verb \in Reads => seen'[p] = Read(p, next)
  BY DEF Execute, ReadersKnow
<1> HIDE DEF n, k, next
<1>8. k \in 1..3
  BY <1>3, <1>4
<1>9. ASSUME k = 3
      PROVE  seen'[p] \in [reached : SUBSET Entity, got : SUBSET Element] /\ seen'[p].got = s.got
  <2>1. next = Statement("walk", Entity)
    BY <1>3, <1>4, <1>5, <1>9
  <2>2. seen'[p] = [s EXCEPT !.reached = Walk(c.seeds, c.hops)]
    BY <1>7, <2>1 DEF Statement, Reads, Read
  <2> QED
    BY <1>6, <2>2, WalkReaches
<1>10. ASSUME k = 2
       PROVE  /\ seen'[p] \in [reached : SUBSET Entity, got : SUBSET Element]
              /\ seen'[p].reached = s.reached
              /\ seen'[p].got = s.got \cup {x \in Stored(Entity) : x \in s.reached}
  <2>1. seen'[p] = Read(p, Statement("read", Entity))
    BY <1>5, <1>7, <1>10 DEF Statement, Reads
  <2>2. seen'[p] = [s EXCEPT !.got = @ \cup {x \in Stored(Entity) : Among(x, s.reached)}]
    BY <2>1 DEF Statement, Read
  <2>3. {x \in Stored(Entity) : Among(x, s.reached)} = {x \in Stored(Entity) : x \in s.reached}
    BY Tables DEF Among, Stored
  <2>4. {x \in Stored(Entity) : x \in s.reached} \subseteq Element
    BY Tables DEF Stored
  <2> QED
    BY <1>6, <2>2, <2>3, <2>4
<1>11. ASSUME k = 1
       PROVE  /\ seen'[p] \in [reached : SUBSET Entity, got : SUBSET Element]
              /\ seen'[p].got = s.got \cup {r \in Stored(Relation) : Ends[r] \subseteq s.reached}
  <2>1. seen'[p] = Read(p, Statement("read", Relation))
    BY <1>5, <1>7, <1>11 DEF Statement, Reads
  <2>2. seen'[p] = [s EXCEPT !.got = @ \cup {x \in Stored(Relation) : Among(x, s.reached)}]
    BY <2>1 DEF Statement, Read
  <2>3. {x \in Stored(Relation) : Among(x, s.reached)} = {r \in Stored(Relation) : Ends[r] \subseteq s.reached}
    BY DEF Among, Stored
  <2>4. {r \in Stored(Relation) : Ends[r] \subseteq s.reached} \subseteq Element
    BY Tables DEF Stored
  <2> QED
    BY <1>6, <2>2, <2>3, <2>4
<1>12. seen'[p] \in [reached : SUBSET Entity, got : SUBSET Element]
  BY <1>8, <1>9, <1>10, <1>11
<1> QED
  BY <1>8, <1>9, <1>10, <1>11, <1>12 DEF k

\* What a reader knows after its query: of a relation that is there, both
\* endpoints are there too, and it has got them or they are late.
LEMMA ExecuteKnows ==
    ASSUME IInv, NoCommittedRelationDangles, ReadersKnow, NEW p \in Client, Execute(p)
    PROVE  ReadersKnow'
<1> DEFINE c == call[p]
           n == Len(todo[p])
           k == Len(todo'[p])
           s == seen[p]
           t == seen'[p]
           l == late[p]
<1>1. TypeOK /\ Progress(p)
  BY DEF IInv
<1>2. /\ db' = db /\ call' = call /\ late' = late /\ c \in Calls /\ c # NoCall
      /\ OnPlan(c, todo'[p]) /\ Head(todo'[p]) = todo[p][2]
      /\ \A q \in Client : q # p => todo'[q] = todo[q]
  BY <1>1, NextStatement DEF Execute, TypeOK
<1>3. HasQueried(db, c, n, s, l)
  BY <1>2 DEF ReadersKnow
<1>4. n \in 2..5 /\ k = n - 1
  BY <1>1, NextStatement
<1>5. t \in [reached : SUBSET Entity, got : SUBSET Element] /\ HasQueried(db, c, k, t, l)
  <2>1. CASE ~IsRead(c)
    <3>1. seen' = seen
      <4>1. /\ c.op = "UpsertGraph" => k \in 1..2 /\ Head(todo'[p]).verb = "merge"
        <5>1. c.op = "UpsertGraph" => k \in 1..3 /\ n \in 1..3
          BY <1>1, <1>2, NextStatement, PlanHead
        <5>2. c.op = "UpsertGraph" => (k = 2 => Head(todo'[p]).verb = "merge") /\ (k = 1 => Head(todo'[p]).verb = "merge")
          BY <1>2, PlanHead DEF Statement
        <5> HIDE DEF k, n
        <5> QED
          BY <1>4, <5>1, <5>2
      <4>2. c.op = "RemoveGraphBySource" => Head(todo'[p]).verb \in Scans
        <5>1. c.op = "RemoveGraphBySource" =>
                 /\ k = 4 => Head(todo'[p]).verb \in Scans
                 /\ k = 3 => Head(todo'[p]).verb \in Scans
                 /\ k = 2 => Head(todo'[p]).verb \in Scans
                 /\ k = 1 => Head(todo'[p]).verb \in Scans
          BY <1>2, PlanHead DEF Statement, Scans
        <5> HIDE DEF k, n
        <5> QED
          BY <1>4, <5>1
      <4>3. c.op \in {"Upsert", "RemoveByFilter"} => Head(todo'[p]).verb \in {"write", "delete"}
        <5>1. c.op \in {"Upsert", "RemoveByFilter"} => n \in 1..2 /\ (k = 1 => Head(todo'[p]).verb \in {"write", "delete"})
          BY <1>1, <1>2, NextStatement, PlanHead DEF Statement
        <5> HIDE DEF k, n
        <5> QED
          BY <1>4, <5>1
      <4>4. c.op = "UpsertCommunities" => Head(todo'[p]).verb \in {"delete", "insert"}
        <5>1. c.op = "UpsertCommunities" => n \in 1..3
          BY <1>1, <1>2, NextStatement, PlanHead
        <5>2. c.op = "UpsertCommunities" => /\ k = 2 => Head(todo'[p]).verb \in {"delete", "insert"}
                                            /\ k = 1 => Head(todo'[p]).verb \in {"delete", "insert"}
          BY <1>2, PlanHead DEF Statement
        <5> HIDE DEF k, n
        <5> QED
          BY <1>4, <5>1, <5>2
      <4>5. todo[p][2].verb \notin Reads
        BY <1>2, <2>1, <4>1, <4>2, <4>3, <4>4, CallOps DEF IsRead, Reads, Scans
      <4> QED
        BY <4>5 DEF Execute
    <3>2. s.got = {}
      BY <1>3, <2>1 DEF HasQueried, IsRead
    <3> QED
      BY <2>1, <3>1, <3>2 DEF HasQueried, IsRead, ReadersKnow
  <2>2. CASE IsRead(c)
    <3>1. t \in [reached : SUBSET Entity, got : SUBSET Element] /\ k \in 1..3
      BY <2>2, ExecuteReads
    <3>2. /\ k = 3 => t.got = s.got
          /\ k = 2 => t.reached = s.reached /\ t.got = s.got \cup {x \in Stored(Entity) : x \in s.reached}
          /\ k = 1 => t.got = s.got \cup {r \in Stored(Relation) : Ends[r] \subseteq s.reached}
      BY <2>2, ExecuteReads
    <3> HIDE DEF k, n, s, t, c, l
    <3>3. n >= 2 /\ s.got \cap Relation = {}
      BY <1>3, <1>4 DEF HasQueried
    <3>4. CASE k = 3
      BY <2>2, <3>1, <3>2, <3>3, <3>4 DEF HasQueried, IsRead
    <3>5. CASE k = 2
      <4>1. t.got \cap Relation = {}
        BY <3>2, <3>3, <3>5, Tables DEF Stored
      <4>2. \A x \in Entity \cap t.reached : db[x] = Absent \/ x \in t.got \/ x \in l
        BY <3>2, <3>5 DEF Stored
      <4> QED
        BY <2>2, <3>1, <3>5, <4>1, <4>2 DEF HasQueried, IsRead
    <3>6. CASE k = 1
      <4>1. n = 2
        BY <1>4, <3>6
      <4>2. \A x \in Entity \cap s.reached : db[x] = Absent \/ x \in s.got \/ x \in l
        BY <1>3, <2>2, <4>1 DEF HasQueried, IsRead
      <4>3. ASSUME NEW r \in t.got \cap Relation, NEW e \in Ends[r] PROVE e \in t.got \cup l
        <5>1. db[r] # Absent /\ e \in s.reached
          BY <3>2, <3>3, <3>6 DEF Stored
        <5>2. e \in Entity /\ e \in Element /\ r \in Element
          BY GraphAssumption, Tables DEF GraphAssumption
        <5>3. db[r].prov # {}
          BY <1>1, <5>1, <5>2 DEF TypeOK
        <5>4. db[e] # Absent
          BY <5>1, <5>2, <5>3 DEF NoCommittedRelationDangles, CoversRelations, CommittedGraph
        <5> QED
          BY <3>2, <3>6, <4>2, <5>1, <5>2, <5>4
      <4> QED
        BY <2>2, <3>1, <3>6, <4>3 DEF HasQueried, IsRead
    <3> QED
      BY <3>1, <3>4, <3>5, <3>6
  <2> QED
    BY <2>1, <2>2
<1>6. /\ DOMAIN seen' = Client /\ seen' = [q \in Client |-> seen'[q]]
      /\ \A q \in Client : q # p => seen'[q] = seen[q]
  BY DEF Execute, ReadersKnow
<1>7. seen' \in [Client -> [reached : SUBSET Entity, got : SUBSET Element]]
  <2>1. \A q \in Client : seen'[q] \in [reached : SUBSET Entity, got : SUBSET Element]
    BY <1>5, <1>6 DEF ReadersKnow
  <2> QED
    BY <1>6, <2>1
<1>8. ASSUME NEW q \in Client
      PROVE  IF call[q] = NoCall THEN seen'[q].got = {}
             ELSE HasQueried(db, call[q], Len(todo'[q]), seen'[q], late[q])
  <2>1. CASE q = p
    BY <1>2, <1>5, <2>1
  <2>2. CASE q # p
    BY <1>2, <1>6, <2>2 DEF ReadersKnow
  <2> QED
    BY <2>1, <2>2
<1> QED
  BY <1>2, <1>7, <1>8 DEF ReadersKnow

\* What others commit meanwhile was there before, or is late.
LEMMA CommitKnows ==
    ASSUME IInv, ReadersKnow, NEW p \in Client, Commit(p)
    PROVE  ReadersKnow'
<1>1. /\ call'[p] = NoCall /\ seen' = [seen EXCEPT ![p] = Unread]
      /\ \A q \in Client : q # p => call'[q] = call[q] /\ todo'[q] = todo[q]
  BY CommitStep DEF Commit, End
<1>2. Unread \in [reached : SUBSET Entity, got : SUBSET Element] /\ Unread.got = {}
  BY DEF Unread
<1>3. ASSUME NEW q \in Client, q # p, call[q] # NoCall
      PROVE  HasQueried(db', call[q], Len(todo[q]), seen[q], late'[q])
  <2>1. HasQueried(db, call[q], Len(todo[q]), seen[q], late[q])
    BY <1>3 DEF ReadersKnow
  <2>2. /\ \A x \in Key : db'[x] = db[x] \/ db'[x] = Absent \/ x \in late'[q] \/ (x \in Element /\ db[x] # Absent)
        /\ late[q] \subseteq late'[q]
    BY <1>3, CommitForOthers
  <2>3. Entity \subseteq Key
    BY Tables DEF Key
  <2> QED
    BY <2>1, <2>2, <2>3 DEF HasQueried
<1>4. seen' \in [Client -> [reached : SUBSET Entity, got : SUBSET Element]]
  BY <1>1, <1>2 DEF ReadersKnow
<1>5. seen'[p] = Unread /\ \A q \in Client : q # p => seen'[q] = seen[q]
  BY <1>1 DEF ReadersKnow
<1> QED
  BY <1>1, <1>2, <1>3, <1>4, <1>5 DEF ReadersKnow

LEMMA ReadersStep ==
    IInv /\ NoCommittedRelationDangles /\ ReadersKnow /\ [Next]_vars => ReadersKnow'
<1> SUFFICES ASSUME IInv, NoCommittedRelationDangles, ReadersKnow, [Next]_vars PROVE ReadersKnow'
  OBVIOUS
<1>1. ASSUME NEW p \in Client, Execute(p) PROVE ReadersKnow'
  BY <1>1, ExecuteKnows
<1>2. ASSUME NEW p \in Client, NEW x \in Key, Visit(p, x) PROVE ReadersKnow'
  BY <1>2 DEF Visit, ReadersKnow
<1>3. ASSUME NEW p \in Client, Commit(p) PROVE ReadersKnow'
  BY <1>3, CommitKnows
<1>4. ASSUME NEW p \in Client, KeyViolated(p) \/ DeadlockBroken(p) \/ Fail(p) PROVE ReadersKnow'
  <2>1. /\ db' = db /\ call'[p] = NoCall /\ seen' = [seen EXCEPT ![p] = Unread]
        /\ \A q \in Client : q # p => call'[q] = call[q] /\ todo'[q] = todo[q] /\ late'[q] = late[q]
    BY <1>4 DEF KeyViolated, DeadlockBroken, Fail, RolledBack, End, IInv, TypeOK
  <2>2. Unread \in [reached : SUBSET Entity, got : SUBSET Element] /\ Unread.got = {}
    BY DEF Unread
  <2> QED
    BY <2>1, <2>2 DEF ReadersKnow
<1>5. ASSUME NEW p \in Client, NEW c \in Calls, Begin(p, c) PROVE ReadersKnow'
  <2> DEFINE t == <<Statement("begin", {})>> \o Statements(c)
  <2>1. /\ db' = db /\ seen' = seen /\ call[p] = NoCall
        /\ call' = [call EXCEPT ![p] = c] /\ todo' = [todo EXCEPT ![p] = t] /\ late' = [late EXCEPT ![p] = {}]
    BY <1>5 DEF Begin
  <2>2. c.op \in {"GraphSnapshot", "Neighborhood"} => Len(t) # 2
    BY PlanStart
  <2> HIDE DEF t
  <2>3. seen[p].got = {}
    BY <2>1 DEF ReadersKnow
  <2>4. HasQueried(db, c, Len(t), seen[p], {})
    BY <2>2, <2>3 DEF HasQueried
  <2>5. /\ call'[p] = c /\ todo'[p] = t /\ late'[p] = {}
        /\ \A q \in Client : q # p => call'[q] = call[q] /\ todo'[q] = todo[q] /\ late'[q] = late[q]
    BY <2>1 DEF IInv, TypeOK
  <2>6. c # NoCall
    BY CallOps
  <2> QED
    BY <2>1, <2>4, <2>5, <2>6 DEF ReadersKnow
<1>6. CASE UNCHANGED vars
  BY <1>6 DEF vars, ReadersKnow
<1> QED
  BY <1>1, <1>2, <1>3, <1>4, <1>5, <1>6 DEF Next, Transaction

LEMMA InitReaders == Init => ReadersKnow
  BY DEF Init, ReadersKnow, Unread

LEMMA ReadersErr == IInv /\ ReadersKnow => ReadsErrForward
<1> SUFFICES ASSUME IInv, ReadersKnow, NEW p \in Client, NEW r \in seen[p].got \cap Relation, Len(todo[p]) = 1
             PROVE  Ends[r] \subseteq seen[p].got \cup late[p]
  BY DEF ReadsErrForward
<1>1. call[p] # NoCall
  BY DEF ReadersKnow
<1> QED
  BY <1>1 DEF ReadersKnow, HasQueried

\* A relation a reader returns without one of its endpoints is newer than the
\* entities the reader returns.
THEOREM ReadersErrForward ==
    ASSUME CoveringCalls
    PROVE  Spec => []ReadsErrForward
<1> DEFINE Inv == IInv /\ EdgesFound /\ NoCommittedRelationDangles /\ ReadersKnow
<1>1. Init => Inv
  BY InitInv, InitCovers, InitReaders
<1>2. Inv /\ [Next]_vars => Inv'
  BY IInvStep, EdgesFoundStep, CoversStep, ReadersStep
<1>3. Inv => ReadsErrForward
  BY ReadersErr
<1> QED
  BY <1>1, <1>2, <1>3, PTL DEF Spec

-----------------------------------------------------------------------------
(***************************************************************************)
(* The contract of the in-memory store.                                    *)
(***************************************************************************)
\* What a commit leaves of the graph: it missed what others committed since
\* its call began and it did not write.
LEMMA CommitGraph ==
    ASSUME IInv, NEW p \in Client, Commit(p)
    PROVE  CommittedGraph' = Contract!GraphAfter(call[p], late[p] \ DOMAIN mine[p])
<1> DEFINE c == call[p]
           m == mine[p]
           l == late[p]
           g == CommittedGraph
           missed == l \ DOMAIN m
<1>1. /\ c \in Calls /\ Sound(db, m, c, 1, {}, l)
      /\ \A x \in Key : db'[x] = Sight(db, m, x)
  BY CommitStep
<1>2. \A x \in Element : db[x] = Absent \/ (db[x] \in ElementRow /\ db[x].prov # {})
  BY DEF IInv, TypeOK
<1>3. \A x \in Element : db'[x] = Sight(db, m, x)
  BY <1>1 DEF Key
<1>4. g = [prov   |-> [x \in Element |-> RowProvenance(db[x])],
           weight |-> [r \in Relation |-> RowWeight(db[r])]]
  BY DEF CommittedGraph, RowProvenance, RowWeight
<1>5. CommittedGraph' = [prov   |-> [x \in Element |-> RowProvenance(db'[x])],
                         weight |-> [r \in Relation |-> RowWeight(db'[r])]]
  BY DEF CommittedGraph, RowProvenance, RowWeight
<1>6. Relation \subseteq Element
  BY Tables
<1>7. CommittedGraph' = [prov   |-> [x \in Element |-> RowProvenance(Sight(db, m, x))],
                         weight |-> [r \in Relation |-> RowWeight(Sight(db, m, r))]]
  BY <1>3, <1>5, <1>6
<1> HIDE DEF c, m, l, g
<1>8. CASE c.op = "UpsertGraph"
  <2>1. HasMerged(db, m, c, 1, {})
    BY <1>1, <1>8 DEF Sound
  <2>2. \A x \in Element : /\ RowProvenance(Sight(db, m, x)) = RowProvenance(db[x]) \cup c.graph.prov[x]
                           /\ x \in Relation => RowWeight(Sight(db, m, x)) = RowWeight(db[x]) + c.graph.weight[x]
    BY <1>1, <1>2, <1>8, <2>1, MergeCommits
  <2>3. CommittedGraph' = [prov   |-> [x \in Element |-> RowProvenance(db[x]) \cup c.graph.prov[x]],
                           weight |-> [r \in Relation |-> RowWeight(db[r]) + c.graph.weight[r]]]
    BY <1>6, <1>7, <2>2
  <2>4. CommittedGraph' = UpsertGraph(g, c.graph)
    BY <1>4, <2>3 DEF UpsertGraph
  <2> QED
    BY <1>8, <2>4 DEF Contract!GraphAfter, Contract!UpsertGraph, UpsertGraph, Contract!Element, Element, c, g
<1>9. CASE c.op = "RemoveGraphBySource"
  <2>1. HasRemoved(db, m, c, 1, {}, l)
    BY <1>1, <1>9 DEF Sound
  <2>2. ASSUME NEW x \in Element
        PROVE  /\ RowProvenance(Sight(db, m, x)) = IF x \in missed THEN RowProvenance(db[x])
                                                   ELSE RowProvenance(db[x]) \ c.chunks
               /\ RowWeight(Sight(db, m, x)) = IF x \in missed THEN RowWeight(db[x])
                                               ELSE IF RowProvenance(db[x]) \subseteq c.chunks THEN 0
                                               ELSE RowWeight(db[x])
    <3>1. CASE x \in DOMAIN m
      BY <1>1, <1>2, <1>9, <2>1, <3>1, RemovalCommits
    <3>2. CASE x \notin DOMAIN m
      <4>1. Sight(db, m, x) = db[x] /\ (db[x] = Absent \/ x \in l)
        BY <1>1, <1>2, <1>9, <2>1, <3>2, RemovalCommits
      <4> QED
        BY <3>2, <4>1 DEF RowProvenance, RowWeight
    <3> QED
      BY <3>1, <3>2
  <2> DEFINE rest == RemoveGraphBySource(g, c.chunks)
  <2>3. /\ \A x \in Element : g.prov[x] = RowProvenance(db[x]) /\ rest.prov[x] = RowProvenance(db[x]) \ c.chunks
        /\ \A r \in Relation :
              /\ g.weight[r] = RowWeight(db[r])
              /\ rest.weight[r] = IF RowProvenance(db[r]) \subseteq c.chunks THEN 0 ELSE RowWeight(db[r])
    BY <1>4, <1>6 DEF RemoveGraphBySource
  <2> HIDE DEF missed, rest
  <2>4. CommittedGraph' =
            [prov   |-> [x \in Element |-> IF x \in missed THEN g.prov[x] ELSE rest.prov[x]],
             weight |-> [r \in Relation |-> IF r \in missed THEN g.weight[r] ELSE rest.weight[r]]]
    BY <1>6, <1>7, <2>2, <2>3
  <2> QED
    BY <1>9, <2>4 DEF Contract!GraphAfter, Contract!RemoveGraphBySource, RemoveGraphBySource,
                      Contract!Element, Element, c, g, rest, missed, l, m
<1>10. CASE c.op \notin {"UpsertGraph", "RemoveGraphBySource"}
  <2>1. DOMAIN m \cap Element = {}
    BY <1>1, <1>10, OthersWriteNoElement
  <2>2. \A x \in Element : Sight(db, m, x) = db[x]
    BY <2>1 DEF Sight
  <2>3. CommittedGraph' = g
    BY <1>4, <1>6, <1>7, <2>2
  <2> QED
    BY <1>10, <2>3 DEF Contract!GraphAfter, c, g
<1> QED
  BY <1>8, <1>9, <1>10

\* What it leaves of the chunks.
LEMMA CommitChunks ==
    ASSUME IInv, NEW p \in Client, Commit(p)
    PROVE  [x \in Chunk |-> db'[x]] =
             CASE call[p].op = "Upsert" ->
                    [x \in Chunk |-> IF x \in DOMAIN call[p].rows THEN call[p].rows[x] ELSE db[x]]
               [] call[p].op = "RemoveByFilter" ->
                    [x \in Chunk |-> IF db[x] = call[p].match /\ x \notin late[p] \ DOMAIN mine[p]
                                     THEN Absent ELSE db[x]]
               [] OTHER -> [x \in Chunk |-> db[x]]
<1> DEFINE c == call[p]
           m == mine[p]
           l == late[p]
<1>1. /\ c \in Calls /\ Sound(db, m, c, 1, {}, l)
      /\ \A x \in Key : db'[x] = Sight(db, m, x)
  BY CommitStep
<1>2. \A x \in Chunk : db'[x] = Sight(db, m, x)
  BY <1>1 DEF Key
<1> HIDE DEF c, m, l
<1>3. CASE c.op = "Upsert"
  <2>1. \A x \in Chunk : Sight(db, m, x) = IF x \in DOMAIN c.rows THEN c.rows[x] ELSE db[x]
    BY <1>1, <1>3 DEF Sound, HasWritten, Sight
  <2> QED
    BY <1>2, <1>3, <2>1 DEF c
<1>4. CASE c.op = "RemoveByFilter"
  <2>1. HasFiltered(db, m, c, 1, {}, l)
    BY <1>1, <1>4 DEF Sound
  <2>2. \A x \in Chunk : Sight(db, m, x) = IF db[x] = c.match /\ x \notin l \ DOMAIN m THEN Absent ELSE db[x]
    BY <2>1 DEF HasFiltered, Sight
  <2> QED
    BY <1>2, <1>4, <2>2 DEF c, l, m
<1>5. CASE c.op \notin {"Upsert", "RemoveByFilter"}
  <2>1. DOMAIN m \cap Chunk = {}
    <3>1. CASE c.op = "UpsertGraph"
      BY <1>1, <3>1, Tables DEF Sound, HasMerged, Targets
    <3>2. CASE c.op = "RemoveGraphBySource"
      BY <1>1, <3>2, Tables DEF Sound, HasRemoved
    <3>3. CASE c.op = "UpsertCommunities"
      BY <1>1, <3>3, Tables DEF Sound, HasReplaced
    <3>4. CASE c.op \in {"GraphSnapshot", "Neighborhood"}
      BY <1>1, <3>4 DEF Sound, HasRead
    <3> QED
      BY <1>1, <1>5, <3>1, <3>2, <3>3, <3>4, CallOps
  <2>2. \A x \in Chunk : Sight(db, m, x) = db[x]
    BY <2>1 DEF Sight
  <2> QED
    BY <1>2, <1>5, <2>2 DEF c
<1> QED
  BY <1>3, <1>4, <1>5

\* What it leaves of the communities.
LEMMA CommitCommunities ==
    ASSUME IInv, NEW p \in Client, Commit(p)
    PROVE  [k \in CommunityId |-> db'[k]] =
             IF call[p].op = "UpsertCommunities"
             THEN [k \in CommunityId |-> IF k \in call[p].ids THEN call[p].ids
                                         ELSE IF k \in late[p] \ DOMAIN mine[p] THEN db[k] ELSE Absent]
             ELSE [k \in CommunityId |-> db[k]]
<1> DEFINE c == call[p]
           m == mine[p]
           l == late[p]
<1>1. /\ c \in Calls /\ Sound(db, m, c, 1, {}, l)
      /\ \A x \in Key : db'[x] = Sight(db, m, x)
  BY CommitStep
<1>2. \A k \in CommunityId : db'[k] = Sight(db, m, k)
  BY <1>1 DEF Key
<1> HIDE DEF c, m, l
<1>3. CASE c.op = "UpsertCommunities"
  <2>1. HasReplaced(db, m, c, 1, {}, l)
    BY <1>1, <1>3 DEF Sound
  <2>2. \A k \in CommunityId :
           Sight(db, m, k) = IF k \in c.ids THEN c.ids ELSE IF k \in l \ DOMAIN m THEN db[k] ELSE Absent
    BY <2>1 DEF HasReplaced, Sight
  <2> QED
    BY <1>2, <1>3, <2>2 DEF c, l, m
<1>4. CASE c.op # "UpsertCommunities"
  <2>1. DOMAIN m \cap CommunityId = {}
    <3>1. CASE c.op = "UpsertGraph"
      BY <1>1, <3>1, Tables DEF Sound, HasMerged, Targets
    <3>2. CASE c.op = "RemoveGraphBySource"
      BY <1>1, <3>2, Tables DEF Sound, HasRemoved
    <3>3. CASE c.op = "Upsert"
      BY <1>1, <3>3, Tables, ChunksBring DEF Sound, HasWritten
    <3>4. CASE c.op = "RemoveByFilter"
      BY <1>1, <3>4, Tables DEF Sound, HasFiltered
    <3>5. CASE c.op \in {"GraphSnapshot", "Neighborhood"}
      BY <1>1, <3>5 DEF Sound, HasRead
    <3> QED
      BY <1>1, <1>4, <3>1, <3>2, <3>3, <3>4, <3>5, CallOps
  <2>2. \A k \in CommunityId : Sight(db, m, k) = db[k]
    BY <2>1 DEF Sight
  <2> QED
    BY <1>2, <1>4, <2>2 DEF c
<1> QED
  BY <1>3, <1>4

\* What it writes, as opposed to takes away.
LEMMA CommitWrites ==
    ASSUME IInv, NEW p \in Client, Commit(p)
    PROVE  {x \in DOMAIN mine[p] : Brought(call[p], x) # Absent} = Contract!Writes(call[p])
<1> DEFINE c == call[p]
           m == mine[p]
<1>1. c \in Calls /\ Sound(db, m, c, 1, {}, late[p])
  BY CommitStep
<1> HIDE DEF c, m
<1>2. CASE c.op = "UpsertGraph"
  <2>1. {x \in DOMAIN m : Brought(c, x) # Absent} = Targets(c)
    BY <1>1, <1>2, GraphBrings DEF Sound, HasMerged
  <2> QED
    BY <1>2, <2>1 DEF Contract!Writes, Contract!Element, Element, Targets, c, m
<1>3. CASE c.op = "Upsert"
  <2>1. {x \in DOMAIN m : Brought(c, x) # Absent} = DOMAIN c.rows
    BY <1>1, <1>3, ChunksBring DEF Sound, HasWritten
  <2> QED
    BY <1>3, <2>1 DEF Contract!Writes, c, m
<1>4. CASE c.op = "UpsertCommunities"
  <2>1. c.ids \subseteq DOMAIN m
    BY <1>1, <1>4 DEF Sound, HasReplaced
  <2>2. {x \in DOMAIN m : Brought(c, x) # Absent} = c.ids
    BY <1>1, <1>4, <2>1, CommunitiesBring
  <2> QED
    BY <1>4, <2>2 DEF Contract!Writes, c, m
<1>5. CASE c.op \notin {"UpsertGraph", "Upsert", "UpsertCommunities"}
  <2>1. {x \in DOMAIN m : Brought(c, x) # Absent} = {}
    BY <1>5, OthersBringNothing
  <2> QED
    BY <1>5, <2>1 DEF Contract!Writes, c, m
<1> QED
  BY <1>2, <1>3, <1>4, <1>5

LEMMA CommitApplies ==
    ASSUME IInv, NEW p \in Client, Commit(p)
    PROVE  Contract!Apply(p)
<1> DEFINE missed == late[p] \ DOMAIN mine[p]
<1>1. call[p] # NoCall /\ call' = [call EXCEPT ![p] = NoCall]
  BY DEF Commit, End
<1>2. late' = [q \in Client |-> IF q = p THEN {} ELSE late[q] \cup Contract!Writes(call[p])]
  <2>1. late' = [q \in Client |->
                   IF q = p THEN {}
                   ELSE late[q] \cup {x \in DOMAIN mine[p] : Brought(call[p], x) # Absent}]
    BY DEF Commit
  <2> QED
    BY <2>1, CommitWrites
<1>3. missed \in SUBSET late[p]
  OBVIOUS
<1>4. CommittedGraph' = Contract!GraphAfter(call[p], missed)
  BY CommitGraph
<1>5. [x \in Chunk |-> db'[x]] = Contract!ChunksAfter(call[p], missed)
  <2> DEFINE before == [x \in Chunk |-> db[x]]
  <2>1. \A x \in Chunk : before[x] = db[x]
    OBVIOUS
  <2>2. Contract!ChunksAfter(call[p], missed) =
             CASE call[p].op = "Upsert" ->
                    [x \in Chunk |-> IF x \in DOMAIN call[p].rows THEN call[p].rows[x] ELSE before[x]]
               [] call[p].op = "RemoveByFilter" ->
                    [x \in Chunk |-> IF before[x] = call[p].match /\ x \notin missed
                                     THEN Absent ELSE before[x]]
               [] OTHER -> before
    BY DEF Contract!ChunksAfter
  <2> HIDE DEF missed
  <2>3. Contract!ChunksAfter(call[p], missed) =
             CASE call[p].op = "Upsert" ->
                    [x \in Chunk |-> IF x \in DOMAIN call[p].rows THEN call[p].rows[x] ELSE db[x]]
               [] call[p].op = "RemoveByFilter" ->
                    [x \in Chunk |-> IF db[x] = call[p].match /\ x \notin missed THEN Absent ELSE db[x]]
               [] OTHER -> [x \in Chunk |-> db[x]]
    BY <2>1, <2>2
  <2> QED
    BY <2>3, CommitChunks DEF missed
<1>6. [k \in CommunityId |-> db'[k]] = Contract!CommunitiesAfter(call[p], missed)
  BY CommitCommunities DEF Contract!CommunitiesAfter
<1> HIDE DEF missed
<1> QED
  BY <1>1, <1>2, <1>3, <1>4, <1>5, <1>6 DEF Contract!Apply

LEMMA ContractStep == IInv /\ [Next]_vars => [Contract!ContractNext]_(Contract!contractVars)
<1> SUFFICES ASSUME IInv, [Next]_vars PROVE [Contract!ContractNext]_(Contract!contractVars)
  OBVIOUS
<1>1. ASSUME db' = db, call' = call, late' = late PROVE UNCHANGED Contract!contractVars
  BY <1>1 DEF Contract!contractVars, CommittedGraph
<1>2. ASSUME NEW p \in Client, Execute(p) PROVE UNCHANGED Contract!contractVars
  BY <1>1, <1>2 DEF Execute
<1>3. ASSUME NEW p \in Client, NEW x \in Key, Visit(p, x) PROVE UNCHANGED Contract!contractVars
  BY <1>1, <1>3 DEF Visit
<1>4. ASSUME NEW p \in Client, Commit(p) PROVE Contract!ContractNext
  BY <1>4, CommitApplies DEF Contract!ContractNext
<1>5. ASSUME NEW p \in Client, KeyViolated(p) \/ DeadlockBroken(p) \/ Fail(p) PROVE Contract!ContractNext
  <2>1. call[p] # NoCall
    <3>1. Progress(p)
      BY DEF IInv
    <3> QED
      BY <1>5, <3>1 DEF Progress, KeyViolated, DeadlockBroken, WaitsFor, Fail
  <2>2. RolledBack(p)
    BY <1>5 DEF KeyViolated, DeadlockBroken, Fail
  <2>3. Contract!Refuse(p)
    BY <2>1, <2>2 DEF RolledBack, End, Contract!Refuse, CommittedGraph
  <2> QED
    BY <2>3 DEF Contract!ContractNext
<1>6. ASSUME NEW p \in Client, NEW c \in Calls, Begin(p, c) PROVE Contract!ContractNext
  <2>1. Contract!Begin(p, c)
    BY <1>6 DEF Begin, Contract!Begin, CommittedGraph
  <2> QED
    BY <2>1 DEF Contract!ContractNext
<1>7. ASSUME UNCHANGED vars PROVE UNCHANGED Contract!contractVars
  BY <1>1, <1>7 DEF vars
<1> QED
  BY <1>2, <1>3, <1>4, <1>5, <1>6, <1>7 DEF Next, Transaction

LEMMA ContractStart == Init => Contract!ContractInit
<1> SUFFICES ASSUME Init PROVE Contract!ContractInit
  OBVIOUS
<1>1. \A x \in Key : db[x] = Absent
  BY DEF Init
<1>2. CommittedGraph = EmptyGraph
  BY <1>1, Tables DEF CommittedGraph, EmptyGraph, Key
<1>3. [x \in Chunk |-> db[x]] = [x \in Chunk |-> Absent] /\ [k \in CommunityId |-> db[k]] = [k \in CommunityId |-> Absent]
  BY <1>1 DEF Key
<1> QED
  BY <1>2, <1>3 DEF Init, Contract!ContractInit, Contract!EmptyGraph, EmptyGraph, Contract!Element, Element

\* The transactions implement the contract the in-memory store keeps under its
\* lock: a call takes effect at its commit as a whole or not at all, upserts
\* overwrite nothing of each other, and a call that takes something away
\* misses no more than others committed since it began.
THEOREM TransactionsKeepContract == Spec => StoreKeepsContract
<1>1. Init => Contract!ContractInit
  BY ContractStart
<1>2. IInv /\ [Next]_vars => [Contract!ContractNext]_(Contract!contractVars)
  BY ContractStep
<1> QED
  BY <1>1, <1>2, TransactionsStaySound, PTL DEF Spec, StoreKeepsContract, Contract!ContractSpec
=============================================================================
