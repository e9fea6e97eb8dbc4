----------------------- MODULE FactsReplicationProofs -----------------------
(***************************************************************************)
(* Proofs about FactsReplication.tla, for every set of facts, every set of *)
(* replicas and every bound.                                               *)
(*                                                                         *)
(* The invariant relates a replica to the history of what the master       *)
(* published and not to the master's memory, which is ahead of it.  What a *)
(* replica holds is that history before its cursor, up to additions that a *)
(* later deletion undoes: a synchronisation leaves those out.  The same    *)
(* step then carries a replica over one event, and Read over a stream.     *)
(***************************************************************************)
EXTENDS FactsReplication, FiniteSetTheorems, WellFoundedInduction, TLAPS

(* An addition that a later deletion undoes. *)
Undone(P, e) ==
  /\ e.op = "add"
  /\ \E d \in P : d.op = "remove" /\ d.fact = e.fact /\ d.id > e.id

(* The events have identifiers of their own, all given out before n, and   *)
(* a fact is deleted before it is added again.                             *)
History(P, n) ==
  /\ P \subseteq Events /\ IsFiniteSet(P)
  /\ \A e \in P : 1 <= e.id /\ e.id < n
  /\ \A d, e \in P : d.id = e.id => d = e
  /\ \A d, e \in P :
       d.op = "add" /\ e.op = "add" /\ d.fact = e.fact /\ d.id < e.id
         => \E z \in P : /\ z.op = "remove" /\ z.fact = d.fact
                         /\ d.id < z.id /\ z.id < e.id

(* These facts are the whole history. *)
Stored(P, s) ==
  /\ \A f \in Triples : s[f] # NoId =>
       Event("add", s[f], f) \in P /\ ~Undone(P, Event("add", s[f], f))
  /\ \A e \in P : e.op = "add" => s[e.fact] = e.id \/ Undone(P, e)

(* These facts are the history before the cursor. *)
CaughtUp(P, s, c) ==
  /\ \A f \in Triples : s[f] # NoId =>
       /\ Event("add", s[f], f) \in P /\ s[f] < c
       /\ \A d \in P : d.op = "remove" /\ d.fact = f /\ d.id < c => d.id < s[f]
  /\ \A e \in P : e.op = "add" /\ e.id < c => s[e.fact] = e.id \/ Undone(P, e)

(* The events of a stream. *)
Elems(q) == {q[i] : i \in DOMAIN q}

Increasing(q) == \A i, j \in DOMAIN q : i < j => q[i].id < q[j].id

(* No event that counts is missing before one of the stream. *)
NoGap(P, c, q) ==
  /\ Elems(q) \subseteq P /\ Increasing(q)
  /\ \A i \in DOMAIN q : \A e \in P :
       c <= e.id /\ e.id < q[i].id => e \in Elems(q) \/ Undone(P, e)

(* No event that counts is missing at all. *)
Complete(P, c, q) ==
  /\ q \in Seq(Events) /\ Elems(q) \subseteq P /\ Increasing(q)
  /\ \A e \in P : c <= e.id => e \in Elems(q) \/ Undone(P, e)

-----------------------------------------------------------------------------
(* Every set of natural numbers that is not empty has a least one.         *)
LEMMA Least ==
  ASSUME NEW S \in SUBSET Nat, S # {}
  PROVE  \E n \in S : \A m \in S : n <= m
<1> DEFINE R == OpToRel(<, Nat)
<1>1. IsWellFoundedOn(R, Nat)
  BY NatLessThanWellFounded
<1>2. \A x, y \in Nat : x < y => <<x, y>> \in R
  BY DEF OpToRel
<1> HIDE DEF R
<1>3. PICK x \in S : \A y \in S : ~ (<<y, x>> \in R)
  BY <1>1, WFMin
<1>4. ASSUME NEW m \in S
      PROVE  x <= m
  <2>1. ~ (m < x)
    BY <1>2, <1>3
  <2>2. QED
    BY <2>1
<1>5. QED
  BY <1>4

(* Finite sets of events: a part has no more elements than the whole, and  *)
(* fewer when it is not the whole.                                         *)
LEMMA PartIsSmaller ==
  ASSUME NEW S, IsFiniteSet(S), NEW T \in SUBSET S
  PROVE  /\ IsFiniteSet(T) /\ Cardinality(T) \in Nat /\ Cardinality(S) \in Nat
         /\ Cardinality(T) <= Cardinality(S)
         /\ T # S => Cardinality(T) < Cardinality(S)
<1>1. IsFiniteSet(T) /\ Cardinality(T) <= Cardinality(S)
  BY FS_Subset
<1>2. Cardinality(S) = Cardinality(T) => S = T
  BY FS_Subset
<1>3. Cardinality(T) \in Nat /\ Cardinality(S) \in Nat
  BY <1>1, FS_CardinalityType
<1>4. QED
  BY <1>1, <1>2, <1>3

(* ById puts a finite set of events in the order of their identifiers.     *)
LEMMA ByIdSorts ==
  ASSUME NEW S \in SUBSET Events, IsFiniteSet(S),
         \A d, e \in S : d.id = e.id => d = e
  PROVE  ById(S) \in Seq(Events) /\ Elems(ById(S)) = S /\ Increasing(ById(S))
<1> DEFINE upTo(e) == {d \in S : d.id <= e.id}
           rank(e) == Cardinality(upTo(e))
           n == Cardinality(S)
<1>1. n \in Nat
  BY FS_CardinalityType
<1>2. \A e \in S : e.id \in Int
  BY DEF Events, Ids
<1>3. ASSUME NEW e \in S
      PROVE  IsFiniteSet(upTo(e)) /\ rank(e) \in 1 .. n
  <2>1. upTo(e) \in SUBSET S /\ e \in upTo(e)
    BY <1>2
  <2>2. IsFiniteSet(upTo(e)) /\ rank(e) \in Nat /\ rank(e) <= n
    BY <2>1, PartIsSmaller
  <2>3. rank(e) # 0
    BY <2>1, <2>2, FS_EmptySet
  <2>4. QED
    BY <2>2, <2>3, <1>1
<1>4. ASSUME NEW d \in S, NEW e \in S, d.id < e.id
      PROVE  rank(d) < rank(e)
  <2>1. upTo(d) \in SUBSET upTo(e) /\ e \in upTo(e) /\ e \notin upTo(d)
    BY <1>2, <1>4
  <2>2. QED
    BY <2>1, <1>3, PartIsSmaller
<1>r. \A e \in S : rank(e) \in 1 .. n
  BY <1>3
<1> HIDE DEF rank, n
<1>5. \A d, e \in S : rank(d) = rank(e) => d = e
  <2>1. SUFFICES ASSUME NEW d \in S, NEW e \in S, rank(d) = rank(e)
                 PROVE  d.id = e.id
    OBVIOUS
  <2>2. rank(d) \in Int /\ rank(e) \in Int /\ d.id \in Int /\ e.id \in Int
    BY <1>1, <1>2, <1>r
  <2>3. QED
    BY <1>4, <2>1, <2>2
<1>6. \A i \in 1 .. n : \E e \in S : rank(e) = i
  <2> DEFINE F == [e \in S |-> rank(e)]
  <2>1. F \in Injection(S, 1 .. n)
    BY <1>r, <1>5 DEF Injection, IsInjective
  <2>2. IsFiniteSet(1 .. n) /\ Cardinality(1 .. n) = n
    <3>1. IsFiniteSet(1 .. n) /\ Cardinality(1 .. n) = IF 1 > n THEN 0 ELSE n - 1 + 1
      BY <1>1, FS_Interval
    <3>2. QED
      BY <3>1, <1>1
  <2>3. F \in Surjection(S, 1 .. n)
    BY <2>1, <2>2, FS_Injection DEF n
  <2>4. QED
    BY <2>3 DEF Surjection
<1>7. ById(S) = [i \in 1 .. n |-> CHOOSE e \in S : rank(e) = i]
  BY DEF ById, rank, n
<1> DEFINE q == ById(S)
<1>8. \A i \in 1 .. n : q[i] \in S /\ rank(q[i]) = i
  BY <1>6, <1>7
<1>9. DOMAIN q = 1 .. n /\ q \in [1 .. n -> Events]
  BY <1>7, <1>8
<1> HIDE DEF q
<1>10. q \in Seq(Events)
  BY <1>1, <1>9
<1>11. Elems(q) = S
  <2>1. ASSUME NEW e \in S
        PROVE  e \in Elems(q)
    <3>1. rank(e) \in 1 .. n
      BY <1>r
    <3>2. q[rank(e)] = e
      BY <3>1, <1>5, <1>8
    <3>3. QED
      BY <3>1, <3>2, <1>9 DEF Elems
  <2>2. QED
    BY <2>1, <1>8, <1>9 DEF Elems
<1>12. Increasing(q)
  <2>1. SUFFICES ASSUME NEW i \in 1 .. n, NEW j \in 1 .. n, i < j
                 PROVE  q[i].id < q[j].id
    BY <1>9 DEF Increasing
  <2>2. q[i] \in S /\ q[j] \in S /\ rank(q[i]) = i /\ rank(q[j]) = j
    BY <1>8
  <2>3. q[i].id \in Int /\ q[j].id \in Int
    BY <2>2, <1>2
  <2>4. q[i].id # q[j].id
    BY <2>1, <2>2, <1>1
  <2>5. ~ (q[j].id < q[i].id)
    <3>1. SUFFICES ASSUME q[j].id < q[i].id
                   PROVE  FALSE
      OBVIOUS
    <3>2. rank(q[j]) < rank(q[i])
      BY <3>1, <2>2, <1>4
    <3>3. i \in Int /\ j \in Int
      BY <1>1
    <3>4. QED
      BY <3>2, <3>3, <2>1, <2>2
  <2>6. QED
    BY <2>3, <2>4, <2>5
<1>13. QED
  BY <1>10, <1>11, <1>12 DEF q

-----------------------------------------------------------------------------
(* A replica and the history.                                              *)

(* The parts of an event. *)
LEMMA EventParts ==
  ASSUME NEW P, NEW n, History(P, n), NEW e \in P
  PROVE  /\ e \in Events /\ e.id \in Nat /\ e.id # NoId /\ e.fact \in Triples
         /\ e.op \in {"add", "remove"}
         /\ e.op = "add" => e = Event("add", e.id, e.fact)
BY DEF History, Events, Ids, NoId, Event

(* Facts that are the history before the cursor are the history before the *)
(* next event once it is applied, if only undone additions are in between. *)
LEMMA ApplyAdvances ==
  ASSUME NEW P, NEW n, History(P, n), NEW s \in Stores, NEW c \in Nat,
         CaughtUp(P, s, c), NEW e \in P, c <= e.id,
         \A d \in P : c <= d.id /\ d.id < e.id => Undone(P, d)
  PROVE  Apply(s, e) \in Stores /\ CaughtUp(P, Apply(s, e), e.id + 1)
<1> DEFINE t == Apply(s, e)
<1>1. /\ e \in Events /\ e.id \in Nat /\ e.id # NoId /\ e.fact \in Triples
      /\ e.op \in {"add", "remove"} /\ e.id \in Ids
  BY EventParts DEF Events
<1>2. \A d \in P : d.id \in Nat /\ d.id # NoId /\ d.fact \in Triples
  BY EventParts
<1>3. \A f \in Triples : s[f] \in Nat
  BY DEF Stores, Ids
<1>4. ASSUME e.op = "add"
      PROVE  s[e.fact] = NoId
  <2>1. SUFFICES ASSUME s[e.fact] # NoId
                 PROVE  FALSE
    OBVIOUS
  <2> DEFINE w == Event("add", s[e.fact], e.fact)
  <2>2. w \in P /\ s[e.fact] < c
    BY <1>1, <2>1 DEF CaughtUp
  <2>3. w.op = "add" /\ w.id = s[e.fact] /\ w.fact = e.fact
    BY DEF Event
  <2> HIDE DEF w
  <2>4. w.id < e.id
    BY <1>1, <1>3, <2>2, <2>3
  <2>5. PICK z \in P : /\ z.op = "remove" /\ z.fact = w.fact
                       /\ w.id < z.id /\ z.id < e.id
    BY <1>4, <2>2, <2>3, <2>4 DEF History
  <2>6. ~ (z.id < c)
    <3>1. SUFFICES ASSUME z.id < c
                   PROVE  FALSE
      OBVIOUS
    <3>2. z.id < s[e.fact]
      BY <1>1, <2>1, <2>3, <2>5, <3>1 DEF CaughtUp
    <3>3. QED
      BY <3>2, <2>3, <2>5, <1>1, <1>2, <1>3
  <2>7. Undone(P, z)
    BY <2>5, <2>6, <1>2
  <2>8. QED
    BY <2>7, <2>5 DEF Undone
<1>5. /\ t \in Stores
      /\ t[e.fact] = IF e.op = "add" THEN e.id ELSE NoId
      /\ \A f \in Triples : f # e.fact => t[f] = s[f]
  <2>1. NoId \in Ids
    BY UwMaxAssumption DEF NoId, Ids
  <2>2. CASE e.op = "add"
    <3>1. t = [s EXCEPT ![e.fact] = e.id]
      BY <2>2, <1>4 DEF Apply
    <3>2. QED
      BY <3>1, <2>2, <1>1 DEF Stores
  <2>3. CASE e.op = "remove"
    <3>1. t = [s EXCEPT ![e.fact] = NoId]
      BY <2>3 DEF Apply
    <3>2. QED
      BY <3>1, <2>1, <2>3, <1>1 DEF Stores
  <2>4. QED
    BY <2>2, <2>3, <1>1
<1> HIDE DEF t
<1>6. ASSUME NEW f \in Triples, t[f] # NoId
      PROVE  /\ Event("add", t[f], f) \in P /\ t[f] < e.id + 1
             /\ \A d \in P : d.op = "remove" /\ d.fact = f /\ d.id < e.id + 1
                               => d.id < t[f]
  <2>1. CASE f = e.fact
    <3>1. e.op = "add" /\ t[f] = e.id
      BY <2>1, <1>5, <1>6
    <3>2. Event("add", t[f], f) = e
      BY <3>1, <2>1, EventParts
    <3>3. \A d \in P : d.op = "remove" => d.id # e.id
      BY <3>1 DEF History
    <3>4. QED
      BY <3>1, <3>2, <3>3, <1>1, <1>2
  <2>2. CASE f # e.fact
    <3>1. t[f] = s[f]
      BY <2>2, <1>5
    <3>2. /\ Event("add", s[f], f) \in P /\ s[f] < c
          /\ \A d \in P : d.op = "remove" /\ d.fact = f /\ d.id < c => d.id < s[f]
      BY <3>1, <1>6 DEF CaughtUp
    <3>3. ASSUME NEW d \in P, d.op = "remove", d.fact = f, d.id < e.id + 1
          PROVE  d.id < c
      <4>1. d.id # e.id
        BY <2>2, <3>3 DEF History
      <4>2. ~ Undone(P, d)
        BY <3>3 DEF Undone
      <4>3. d.id \in Nat /\ e.id \in Nat
        BY <1>1, <1>2
      <4>4. QED
        BY <3>3, <4>1, <4>2, <4>3
    <3>4. s[f] < e.id + 1
      BY <3>2, <1>1, <1>3
    <3>5. QED
      BY <3>1, <3>2, <3>3, <3>4
  <2>3. QED
    BY <2>1, <2>2
<1>7. ASSUME NEW d \in P, d.op = "add", d.id < e.id + 1
      PROVE  t[d.fact] = d.id \/ Undone(P, d)
  <2>1. CASE d.id = e.id
    <3>1. d = e
      BY <2>1 DEF History
    <3>2. QED
      BY <3>1, <1>5, <1>7
  <2>2. CASE d.id # e.id /\ c <= d.id
    BY <2>2, <1>7, <1>1, <1>2
  <2>3. CASE d.id < c
    <3>1. s[d.fact] = d.id \/ Undone(P, d)
      BY <1>7, <2>3 DEF CaughtUp
    <3>2. CASE s[d.fact] = d.id /\ d.fact # e.fact
      BY <3>2, <1>2, <1>5
    <3>3. CASE s[d.fact] = d.id /\ d.fact = e.fact
      <4>1. e.op = "remove"
        BY <3>3, <1>1, <1>2, <1>4
      <4>2. e.id > d.id
        BY <2>3, <1>1, <1>2
      <4>3. QED
        BY <4>1, <4>2, <3>3, <1>7 DEF Undone
    <3>4. QED
      BY <3>1, <3>2, <3>3
  <2>4. QED
    BY <2>1, <2>2, <2>3, <1>1, <1>2
<1>8. CaughtUp(P, t, e.id + 1)
  BY <1>6, <1>7 DEF CaughtUp
<1>9. QED
  BY <1>5, <1>8 DEF t

(* Facts that are the history before a cursor no event that counts has     *)
(* reached are the whole history.                                          *)
LEMMA CaughtUpIsStored ==
  ASSUME NEW P, NEW n, History(P, n), NEW s \in Stores, NEW t \in Stores,
         NEW c \in Nat, CaughtUp(P, s, c), Stored(P, t),
         \A e \in P : e.id < c \/ Undone(P, e)
  PROVE  s = t
<1>1. \A f \in Triples : s[f] \in Nat /\ t[f] \in Nat
  BY DEF Stores, Ids
<1>2. ASSUME NEW f \in Triples
      PROVE  s[f] = t[f]
  <2>1. CASE t[f] # NoId
    <3> DEFINE a == Event("add", t[f], f)
    <3>1. a \in P /\ ~ Undone(P, a)
      BY <2>1 DEF Stored
    <3>2. a.id < c /\ a.op = "add" /\ a.fact = f /\ a.id = t[f]
      BY <3>1 DEF Event
    <3> HIDE DEF a
    <3>3. QED
      BY <3>1, <3>2 DEF CaughtUp
  <2>2. CASE t[f] = NoId /\ s[f] # NoId
    <3> DEFINE a == Event("add", s[f], f)
    <3>1. a \in P /\ \A d \in P : d.op = "remove" /\ d.fact = f /\ d.id < c => d.id < s[f]
      BY <2>2 DEF CaughtUp
    <3>2. a.op = "add" /\ a.fact = f /\ a.id = s[f]
      BY DEF Event
    <3> HIDE DEF a
    <3>3. Undone(P, a)
      BY <3>1, <3>2, <2>2 DEF Stored
    <3>4. PICK d \in P : d.op = "remove" /\ d.fact = a.fact /\ d.id > a.id
      BY <3>3 DEF Undone
    <3>5. ~ Undone(P, d)
      BY <3>4 DEF Undone
    <3>6. d.id < s[f]
      BY <3>1, <3>2, <3>4, <3>5
    <3>7. d.id \in Nat
      BY EventParts
    <3>8. QED
      BY <3>2, <3>4, <3>6, <3>7, <1>1
  <2>3. QED
    BY <2>1, <2>2
<1>3. QED
  BY <1>2 DEF Stores

-----------------------------------------------------------------------------
(* What a replica reads.                                                   *)

(* A cursor, once the replica has read i events. *)
CursorAfter(c, q, i) ==
  IF i = 0 THEN c ELSE IF q[i].id < c THEN c ELSE q[i].id + 1

(* Apply keeps to the facts and identifiers.                               *)
LEMMA ApplyType ==
  ASSUME NEW s \in Stores, NEW e \in Events
  PROVE  Apply(s, e) \in Stores
<1>1. NoId \in Ids /\ e.id \in Ids /\ e.fact \in Triples
  BY UwMaxAssumption DEF NoId, Ids, Events
<1>2. QED
  BY <1>1 DEF Apply, Stores

(* Read goes through the events one by one, and Apply those not stale.     *)
LEMMA ReadSteps ==
  ASSUME NEW r \in Replicas, copy[r] \in Stores, NEW q \in Seq(Events)
  PROVE  \E g \in [0 .. Len(q) -> Stores] :
           /\ g[0] = copy[r]
           /\ \A i \in 1 .. Len(q) :
                g[i] = IF Stale(r, q[i]) THEN g[i - 1] ELSE Apply(g[i - 1], q[i])
           /\ Read(r, q) = g[Len(q)]
<1> DEFINE n == Len(q)
           step(s, i) == IF Stale(r, q[i]) THEN s ELSE Apply(s, q[i])
           Ok(g, k) == /\ g \in [0 .. k -> Stores] /\ g[0] = copy[r]
                       /\ \A i \in 1 .. k : g[i] = step(g[i - 1], i)
<1>1. n \in Nat /\ \A i \in 1 .. n : q[i] \in Events
  OBVIOUS
<1>2. \A s \in Stores : \A i \in 1 .. n : step(s, i) \in Stores
  BY <1>1, ApplyType
<1> HIDE DEF n, step
<1>3. Ok([i \in 0 .. 0 |-> copy[r]], 0)
  OBVIOUS
<1>4. ASSUME NEW k \in 1 .. n, NEW g, Ok(g, k - 1)
      PROVE  \E h : Ok(h, k)
  <2> DEFINE h == [i \in 0 .. k |-> IF i = k THEN step(g[k - 1], k) ELSE g[i]]
  <2>1. h \in [0 .. k -> Stores] /\ h[0] = copy[r]
    BY <1>1, <1>2, <1>4
  <2>2. ASSUME NEW i \in 1 .. k
        PROVE  h[i] = step(h[i - 1], i)
    <3>1. h[i - 1] = g[i - 1]
      BY <1>1
    <3>2. CASE i = k
      BY <3>1, <3>2, <1>1
    <3>3. CASE i # k
      <4>1. i \in 1 .. k - 1 /\ h[i] = g[i]
        BY <3>3, <1>1
      <4>2. QED
        BY <4>1, <3>1, <1>4
    <3>4. QED
      BY <3>2, <3>3
  <2>3. QED
    BY <2>1, <2>2
<1>5. \A k \in 0 .. n : \E g : Ok(g, k)
  <2> DEFINE Has(k) == \E g : Ok(g, k)
             Bad == {k \in 0 .. n : ~ Has(k)}
  <2>1. Has(0)
    BY <1>3
  <2>2. \A k \in 1 .. n : Has(k - 1) => Has(k)
    BY <1>4
  <2> HIDE DEF Has
  <2>3. SUFFICES ASSUME Bad # {}
                 PROVE  FALSE
    BY DEF Has
  <2>4. Bad \in SUBSET Nat
    BY <1>1
  <2>5. PICK k \in Bad : \A m \in Bad : k <= m
    BY <2>3, <2>4, Least
  <2>6. k \in 1 .. n
    BY <2>1, <2>5, <1>1
  <2>7. k - 1 \in 0 .. n /\ k - 1 \notin Bad
    BY <2>5, <2>6, <1>1
  <2>8. QED
    BY <2>2, <2>5, <2>6, <2>7
<1>6. PICK g : Ok(g, n)
  <2>1. n \in 0 .. n
    BY <1>1
  <2> HIDE DEF Ok
  <2>2. QED
    BY <1>5, <2>1
<1> DEFINE Reads(h) ==
             h = [i \in 0 .. n |->
                    IF i = 0 THEN copy[r]
                    ELSE IF Stale(r, q[i]) THEN h[i - 1]
                    ELSE Apply(h[i - 1], q[i])]
           read == CHOOSE h : Reads(h)
<1>7. Reads(g)
  BY <1>1, <1>6 DEF step
<1>8. Reads(read)
  <2> HIDE DEF Reads
  <2>1. QED
    BY <1>7
<1>9. Read(r, q) = read[n]
  BY DEF Read, n
<1> HIDE DEF read
<1>10. DOMAIN read = 0 .. n /\ read[0] = copy[r]
  BY <1>1, <1>8
<1>11. \A i \in 1 .. n : read[i] = step(read[i - 1], i)
  BY <1>1, <1>8 DEF step
<1> HIDE DEF Reads
<1>12. \A i \in 0 .. n : read[i] \in Stores
  <2> DEFINE Out == {i \in 0 .. n : read[i] \notin Stores}
  <2>1. SUFFICES ASSUME Out # {}
                 PROVE  FALSE
    OBVIOUS
  <2>2. Out \in SUBSET Nat
    BY <1>1
  <2>3. PICK k \in Out : \A m \in Out : k <= m
    BY <2>1, <2>2, Least
  <2>4. k \in 1 .. n
    BY <2>3, <1>1, <1>10
  <2>5. k - 1 \in 0 .. n /\ read[k - 1] \in Stores
    BY <2>3, <2>4, <1>1
  <2>6. QED
    BY <2>3, <2>4, <2>5, <1>2, <1>11
<1>13. read \in [0 .. n -> Stores]
  <2>1. read = [i \in 0 .. n |-> read[i]]
    BY <1>8 DEF Reads
  <2>2. QED
    BY <2>1, <1>12
<1>14. QED
  BY <1>9, <1>10, <1>11, <1>13 DEF n, step

(* A replica that reads a stream in which nothing that counts is missing   *)
(* from its cursor on comes to the facts of the master.                    *)
LEMMA ReadCompletes ==
  ASSUME nextId \in Nat, History(published, nextId), store \in Stores,
         Stored(published, store), NEW r \in Replicas, copy[r] \in Stores,
         cursor[r] \in Nat, CaughtUp(published, copy[r], cursor[r]),
         NEW q, Complete(published, cursor[r], q)
  PROVE  Read(r, q) = store
<1> DEFINE c == cursor[r]
           n == Len(q)
           at(i) == CursorAfter(c, q, i)
<1>1. /\ q \in Seq(Events) /\ n \in Nat /\ DOMAIN q = 1 .. n
      /\ \A i \in 1 .. n : q[i] \in published /\ q[i].id \in Nat
  <2>1. q \in Seq(Events) /\ \A i \in DOMAIN q : q[i] \in published
    BY DEF Complete, Elems
  <2>2. \A i \in DOMAIN q : q[i].id \in Nat
    BY <2>1, EventParts
  <2>3. QED
    BY <2>1, <2>2
<1>2. \A i, j \in 1 .. n : i < j => q[i].id < q[j].id
  BY <1>1 DEF Complete, Increasing
<1>3. \A e \in published : c <= e.id /\ ~ Undone(published, e)
                             => \E j \in 1 .. n : e = q[j]
  BY <1>1 DEF Complete, Elems
<1>4. \A e \in published : e.id \in Nat
  BY EventParts
<1>5. PICK g \in [0 .. n -> Stores] :
        /\ g[0] = copy[r]
        /\ \A i \in 1 .. n :
             g[i] = IF Stale(r, q[i]) THEN g[i - 1] ELSE Apply(g[i - 1], q[i])
        /\ Read(r, q) = g[n]
  BY <1>1, ReadSteps
<1>6. c \in Nat /\ at(0) = c /\ \A i \in 0 .. n : at(i) \in Nat /\ c <= at(i)
  BY <1>1 DEF CursorAfter
<1>7. \A i \in 1 .. n : at(i) = IF q[i].id < c THEN c ELSE q[i].id + 1
  BY <1>1 DEF CursorAfter
<1> HIDE DEF n, at
<1>8. \A i \in 0 .. n : CaughtUp(published, g[i], at(i))
  <2> DEFINE Bad == {i \in 0 .. n : ~ CaughtUp(published, g[i], at(i))}
  <2>1. SUFFICES ASSUME Bad # {}
                 PROVE  FALSE
    OBVIOUS
  <2>2. Bad \in SUBSET Nat
    BY <1>1
  <2>3. PICK i \in Bad : \A m \in Bad : i <= m
    BY <2>1, <2>2, Least
  <2>4. i \in 1 .. n
    BY <2>3, <1>1, <1>5, <1>6
  <2>5. i - 1 \in 0 .. n /\ CaughtUp(published, g[i - 1], at(i - 1))
    BY <2>3, <2>4, <1>1
  <2>6. /\ g[i - 1] \in Stores /\ at(i - 1) \in Nat /\ c <= at(i - 1)
        /\ q[i] \in published /\ q[i].id \in Nat
    BY <2>4, <2>5, <1>1, <1>5, <1>6
  <2>7. i - 1 # 0 => /\ i - 1 \in 1 .. n /\ q[i - 1].id \in Nat
                     /\ q[i - 1].id < q[i].id /\ q[i - 1].id < at(i - 1)
    <3>1. SUFFICES ASSUME i - 1 # 0
                   PROVE  /\ i - 1 \in 1 .. n /\ q[i - 1].id \in Nat
                          /\ q[i - 1].id < q[i].id /\ q[i - 1].id < at(i - 1)
      OBVIOUS
    <3>2. i - 1 \in 1 .. n /\ i - 1 < i
      BY <3>1, <2>4, <1>1
    <3>3. q[i - 1].id \in Nat /\ q[i - 1].id < q[i].id
      BY <3>2, <2>4, <1>1, <1>2
    <3>4. q[i - 1].id < at(i - 1)
      BY <3>2, <3>3, <1>6, <1>7
    <3>5. QED
      BY <3>2, <3>3, <3>4
  <2>8. at(i - 1) = IF i - 1 = 0 \/ q[i - 1].id < c THEN c ELSE q[i - 1].id + 1
    BY <2>7, <1>6, <1>7
  <2>9. CASE q[i].id < c
    <3>1. at(i - 1) = c /\ at(i) = c
      BY <2>4, <2>6, <2>7, <2>8, <2>9, <1>6, <1>7
    <3>2. g[i] = g[i - 1]
      BY <2>4, <2>9, <1>5 DEF Stale
    <3>3. QED
      BY <3>1, <3>2, <2>3, <2>5
  <2>10. CASE ~ (q[i].id < c)
    <3>1. g[i] = Apply(g[i - 1], q[i]) /\ at(i) = q[i].id + 1
      BY <2>4, <2>10, <1>5, <1>7 DEF Stale
    <3>2. at(i - 1) <= q[i].id
      BY <2>6, <2>7, <2>8, <2>10, <1>6
    <3>3. ASSUME NEW d \in published, at(i - 1) <= d.id, d.id < q[i].id
          PROVE  Undone(published, d)
      <4>1. SUFFICES ASSUME ~ Undone(published, d)
                     PROVE  FALSE
        OBVIOUS
      <4>2. d.id \in Nat /\ c <= d.id
        BY <3>3, <2>6, <1>4, <1>6
      <4>3. PICK j \in 1 .. n : d = q[j]
        BY <4>1, <4>2, <1>3
      <4>4. j \in Nat /\ i \in Nat
        BY <2>4, <1>1
      <4>5. j < i
        <5>1. ~ (i < j) /\ i # j
          BY <2>4, <2>6, <3>3, <4>2, <4>3, <1>2
        <5>2. QED
          BY <5>1, <4>4
      <4>6. i - 1 # 0 /\ ~ (i - 1 < j)
        BY <4>3, <4>4, <4>5, <1>1
      <4>7. i - 1 \in 1 .. n /\ q[i - 1].id \in Nat /\ q[i - 1].id < at(i - 1)
        BY <2>7, <4>6
      <4>8. d.id <= q[i - 1].id
        <5>1. j = i - 1 \/ j < i - 1
          BY <4>4, <4>6
        <5>2. QED
          BY <5>1, <4>2, <4>3, <4>7, <1>2
      <4>9. QED
        BY <3>3, <4>2, <4>7, <4>8, <2>6
    <3>4. CaughtUp(published, Apply(g[i - 1], q[i]), q[i].id + 1)
      BY <2>5, <2>6, <3>2, <3>3, ApplyAdvances
    <3>5. QED
      BY <3>1, <3>4, <2>3
  <2>11. QED
    BY <2>9, <2>10
<1>9. ASSUME NEW e \in published
      PROVE  e.id < at(n) \/ Undone(published, e)
  <2>1. SUFFICES ASSUME ~ Undone(published, e)
                 PROVE  e.id < at(n)
    OBVIOUS
  <2>2. e.id \in Nat /\ at(n) \in Nat /\ c <= at(n)
    BY <1>1, <1>4, <1>6
  <2>3. CASE e.id < c
    BY <2>2, <2>3, <1>6
  <2>4. CASE ~ (e.id < c)
    <3>1. PICK j \in 1 .. n : e = q[j]
      BY <2>1, <2>2, <2>4, <1>3, <1>6
    <3>2. n \in 1 .. n /\ q[n].id \in Nat /\ (j = n \/ j < n)
      BY <3>1, <1>1
    <3>3. e.id <= q[n].id
      BY <3>1, <3>2, <2>2, <1>2
    <3>4. at(n) = q[n].id + 1
      BY <3>2, <3>3, <2>2, <2>4, <1>6, <1>7
    <3>5. QED
      BY <3>2, <3>3, <3>4, <2>2
  <2>5. QED
    BY <2>3, <2>4
<1>10. n \in 0 .. n /\ g[n] \in Stores /\ at(n) \in Nat
  BY <1>1, <1>5, <1>6
<1>11. CaughtUp(published, g[n], at(n))
  BY <1>8, <1>10
<1>12. g[n] = store
  BY <1>9, <1>10, <1>11, CaughtUpIsStored
<1>13. QED
  BY <1>5, <1>12

-----------------------------------------------------------------------------
(* One more event is published.                                            *)

(* It goes to the end of the history.                                      *)
LEMMA HistoryGrows ==
  ASSUME NEW P, NEW n \in Nat, n # 0, History(P, n), NEW a \in Events, a.id = n,
         a.op = "add" =>
           \A e \in P : e.op = "add" /\ e.fact = a.fact => Undone(P, e)
  PROVE  History(P \cup {a}, n + 1)
<1> DEFINE Q == P \cup {a}
<1>1. \A e \in P : e.id \in Nat /\ 1 <= e.id /\ e.id < n
  BY EventParts DEF History
<1>2. Q \subseteq Events /\ IsFiniteSet(Q)
  BY FS_AddElement DEF History
<1>3. \A e \in Q : 1 <= e.id /\ e.id < n + 1
  BY <1>1
<1>4. \A d, e \in Q : d.id = e.id => d = e
  BY <1>1 DEF History
<1>5. ASSUME NEW d \in Q, NEW e \in Q, d.op = "add", e.op = "add",
             d.fact = e.fact, d.id < e.id
      PROVE  \E z \in Q : /\ z.op = "remove" /\ z.fact = d.fact
                          /\ d.id < z.id /\ z.id < e.id
  <2>1. d \in P
    BY <1>1, <1>5
  <2>2. CASE e \in P
    <3>1. \E z \in P : /\ z.op = "remove" /\ z.fact = d.fact
                       /\ d.id < z.id /\ z.id < e.id
      BY <1>5, <2>1, <2>2 DEF History
    <3>2. QED
      BY <3>1
  <2>3. CASE e = a
    <3>1. PICK z \in P : z.op = "remove" /\ z.fact = d.fact /\ z.id > d.id
      BY <1>5, <2>1, <2>3 DEF Undone
    <3>2. d.id < z.id /\ z.id < e.id
      BY <3>1, <2>1, <2>3, <1>1
    <3>3. QED
      BY <3>1, <3>2
  <2>4. QED
    BY <2>2, <2>3
<1>6. QED
  BY <1>2, <1>3, <1>4, <1>5 DEF History

(* What is undone stays undone.                                            *)
LEMMA UndoneStays ==
  ASSUME NEW P, NEW a, NEW e, Undone(P, e)
  PROVE  Undone(P \cup {a}, e)
BY DEF Undone

(* A replica has not come to it yet.                                       *)
LEMMA CaughtUpGrows ==
  ASSUME NEW P, NEW n \in Nat, NEW a, a.id = n, NEW s, NEW c \in Nat, c <= n,
         CaughtUp(P, s, c)
  PROVE  CaughtUp(P \cup {a}, s, c)
<1>1. ~ (a.id < c)
  OBVIOUS
<1>2. ASSUME NEW f \in Triples, s[f] # NoId
      PROVE  /\ Event("add", s[f], f) \in P \cup {a} /\ s[f] < c
             /\ \A d \in P \cup {a} :
                  d.op = "remove" /\ d.fact = f /\ d.id < c => d.id < s[f]
  BY <1>1, <1>2 DEF CaughtUp
<1>3. ASSUME NEW e \in P \cup {a}, e.op = "add", e.id < c
      PROVE  s[e.fact] = e.id \/ Undone(P \cup {a}, e)
  <2>1. s[e.fact] = e.id \/ Undone(P, e)
    BY <1>1, <1>3 DEF CaughtUp
  <2>2. QED
    BY <2>1, UndoneStays
<1>4. QED
  BY <1>2, <1>3 DEF CaughtUp

(* The events of a stream have identifiers.                                *)
LEMMA StreamIds ==
  ASSUME NEW P, NEW n, History(P, n), NEW q, Elems(q) \subseteq P
  PROVE  \A i \in DOMAIN q : q[i] \in P /\ q[i].id \in Nat
BY EventParts DEF Elems

(* It is not missing from a stream that does not reach it.                 *)
LEMMA NoGapGrows ==
  ASSUME NEW P, NEW n \in Nat, History(P, n), NEW a, a.id = n, NEW c, NEW q,
         NoGap(P, c, q)
  PROVE  NoGap(P \cup {a}, c, q)
<1>1. \A i \in DOMAIN q : q[i].id \in Nat /\ q[i].id < n
  BY StreamIds DEF NoGap, History
<1>2. ASSUME NEW i \in DOMAIN q, NEW e \in P \cup {a}, c <= e.id, e.id < q[i].id
      PROVE  e \in Elems(q) \/ Undone(P \cup {a}, e)
  <2>1. e \in P
    BY <1>1, <1>2
  <2>2. QED
    BY <1>2, <2>1, UndoneStays DEF NoGap
<1>3. QED
  BY <1>2 DEF NoGap

(* A complete stream has no gap.                                           *)
LEMMA CompleteHasNoGap ==
  ASSUME NEW P, NEW c, NEW q, Complete(P, c, q)
  PROVE  NoGap(P, c, q)
BY DEF Complete, NoGap

(* A stream it is put at the end of stays complete.                        *)
LEMMA CompleteGrows ==
  ASSUME NEW P, NEW n \in Nat, History(P, n), NEW a \in Events, a.id = n,
         NEW c, NEW q, Complete(P, c, q)
  PROVE  Complete(P \cup {a}, c, Append(q, a))
<1> DEFINE p == Append(q, a)
<1>1. q \in Seq(Events) /\ Len(q) \in Nat /\ DOMAIN q = 1 .. Len(q)
  BY DEF Complete
<1>2. /\ p \in Seq(Events) /\ DOMAIN p = 1 .. Len(q) + 1
      /\ p[Len(q) + 1] = a /\ \A i \in 1 .. Len(q) : p[i] = q[i]
  BY <1>1
<1> HIDE DEF p
<1>3. Elems(p) = Elems(q) \cup {a}
  <2>1. \A i \in 1 .. Len(q) + 1 : i \in 1 .. Len(q) \/ i = Len(q) + 1
    BY <1>1
  <2>2. \A i \in 1 .. Len(q) : i \in 1 .. Len(q) + 1
    BY <1>1
  <2>3. Len(q) + 1 \in 1 .. Len(q) + 1
    BY <1>1
  <2>4. Elems(p) = {p[i] : i \in 1 .. Len(q) + 1} /\ Elems(q) = {q[i] : i \in 1 .. Len(q)}
    BY <1>1, <1>2 DEF Elems
  <2>5. QED
    BY <1>2, <2>1, <2>2, <2>3, <2>4
<1>4. \A i \in 1 .. Len(q) : q[i] \in P /\ q[i].id \in Nat /\ q[i].id < n
  BY <1>1, StreamIds DEF Complete, History
<1>5. Increasing(p)
  <2>1. SUFFICES ASSUME NEW i \in 1 .. Len(q) + 1, NEW j \in 1 .. Len(q) + 1, i < j
                 PROVE  p[i].id < p[j].id
    BY <1>2 DEF Increasing
  <2>2. i \in 1 .. Len(q) /\ p[i] = q[i]
    BY <1>1, <1>2, <2>1
  <2>3. CASE j = Len(q) + 1
    BY <2>2, <2>3, <1>2, <1>4
  <2>4. CASE j \in 1 .. Len(q)
    BY <2>1, <2>2, <2>4, <1>1, <1>2 DEF Complete, Increasing
  <2>5. QED
    BY <2>3, <2>4, <1>1
<1>6. ASSUME NEW e \in P \cup {a}, c <= e.id
      PROVE  e \in Elems(p) \/ Undone(P \cup {a}, e)
  <2>1. e \in P => e \in Elems(q) \/ Undone(P, e)
    BY <1>6 DEF Complete
  <2>2. QED
    BY <2>1, <1>3, UndoneStays
<1>7. Elems(p) \subseteq P \cup {a}
  BY <1>3 DEF Complete
<1>8. QED
  BY <1>2, <1>5, <1>6, <1>7 DEF Complete, p

(* A stream that is complete from a cursor is so from a later one.         *)
LEMMA CompleteLater ==
  ASSUME NEW P, NEW n, History(P, n), NEW c \in Nat, NEW b \in Nat, c <= b,
         NEW q, Complete(P, c, q)
  PROVE  Complete(P, b, q)
<1>1. \A e \in P : e.id \in Nat
  BY EventParts
<1>2. \A e \in P : b <= e.id => c <= e.id
  BY <1>1
<1>3. QED
  BY <1>2 DEF Complete

(* A stream cut short has no gap.                                          *)
LEMMA NoGapCut ==
  ASSUME NEW P, NEW n, History(P, n), NEW c, NEW q \in Seq(Events),
         NoGap(P, c, q), NEW k \in 0 .. Len(q)
  PROVE  SubSeq(q, 1, k) \in Seq(Events) /\ NoGap(P, c, SubSeq(q, 1, k))
<1> DEFINE p == SubSeq(q, 1, k)
<1>1. /\ p \in Seq(Events) /\ DOMAIN p = 1 .. k
      /\ \A i \in 1 .. k : i \in 1 .. Len(q) /\ p[i] = q[i]
  OBVIOUS
<1> HIDE DEF p
<1>2. DOMAIN q = 1 .. Len(q) /\ \A i \in 1 .. Len(q) : q[i] \in P /\ q[i].id \in Nat
  <2>1. DOMAIN q = 1 .. Len(q)
    OBVIOUS
  <2>2. QED
    BY <2>1, StreamIds DEF NoGap
<1>3. Elems(p) \subseteq P /\ Increasing(p)
  BY <1>1, <1>2 DEF Elems, NoGap, Increasing
<1>4. ASSUME NEW i \in 1 .. k, NEW e \in P, c <= e.id, e.id < p[i].id
      PROVE  e \in Elems(p) \/ Undone(P, e)
  <2>1. CASE e \in Elems(q)
    <3>1. PICK j \in 1 .. Len(q) : e = q[j]
      BY <2>1, <1>2 DEF Elems
    <3>2. ~ (i < j)
      BY <3>1, <1>1, <1>2, <1>4 DEF NoGap, Increasing
    <3>3. j \in 1 .. k /\ e = p[j]
      BY <3>1, <3>2, <1>1
    <3>4. QED
      BY <3>3, <1>1 DEF Elems
  <2>2. CASE e \notin Elems(q)
    BY <2>2, <1>1, <1>2, <1>4 DEF NoGap
  <2>3. QED
    BY <2>1, <2>2
<1>5. QED
  BY <1>1, <1>3, <1>4 DEF NoGap, p

(* A stream whose first event the replica has passed has no gap without it *)
(* and is complete without it if it was.                                   *)
LEMMA TailKeeps ==
  ASSUME NEW P, NEW n, History(P, n), NEW c \in Nat, NEW b \in Nat, c <= b,
         NEW q \in Seq(Events), q # <<>>, Head(q).id < b
  PROVE  /\ Tail(q) \in Seq(Events)
         /\ NoGap(P, c, q) => NoGap(P, b, Tail(q))
         /\ Complete(P, c, q) => Complete(P, b, Tail(q))
<1> DEFINE p == Tail(q)
<1>1. /\ p \in Seq(Events) /\ Len(q) \in Nat /\ Len(q) # 0
      /\ DOMAIN p = 1 .. Len(q) - 1 /\ DOMAIN q = 1 .. Len(q)
      /\ \A i \in 1 .. Len(q) - 1 : i + 1 \in 1 .. Len(q) /\ p[i] = q[i + 1]
      /\ Head(q) = q[1]
  OBVIOUS
<1> HIDE DEF p
<1>2. \A e \in P : e.id \in Nat
  BY EventParts
<1>3. Elems(p) \subseteq Elems(q)
  BY <1>1 DEF Elems
<1>4. Increasing(q) => Increasing(p)
  <2>1. SUFFICES ASSUME Increasing(q),
                        NEW i \in 1 .. Len(q) - 1, NEW j \in 1 .. Len(q) - 1, i < j
                 PROVE  p[i].id < p[j].id
    BY <1>1 DEF Increasing
  <2>2. i + 1 < j + 1 /\ i + 1 \in 1 .. Len(q) /\ j + 1 \in 1 .. Len(q)
    BY <1>1, <2>1
  <2>3. QED
    BY <1>1, <2>1, <2>2 DEF Increasing
<1>5. ASSUME NEW e \in P, b <= e.id, e \in Elems(q)
      PROVE  e \in Elems(p)
  <2>1. PICK j \in 1 .. Len(q) : e = q[j]
    BY <1>1, <1>5 DEF Elems
  <2>2. j # 1
    BY <2>1, <1>1, <1>2, <1>5
  <2>3. j - 1 \in 1 .. Len(q) - 1 /\ p[j - 1] = q[j]
    BY <2>2, <1>1
  <2>4. QED
    BY <2>1, <2>3, <1>1 DEF Elems
<1>6. \A e \in P : b <= e.id => c <= e.id
  BY <1>2
<1>7. ASSUME NoGap(P, c, q)
      PROVE  NoGap(P, b, p)
  <2>1. ASSUME NEW i \in DOMAIN p, NEW e \in P, b <= e.id, e.id < p[i].id
        PROVE  e \in Elems(p) \/ Undone(P, e)
    BY <1>1, <1>5, <1>6, <1>7, <2>1 DEF NoGap
  <2>2. QED
    BY <1>3, <1>4, <1>7, <2>1 DEF NoGap
<1>8. ASSUME Complete(P, c, q)
      PROVE  Complete(P, b, p)
  BY <1>1, <1>3, <1>4, <1>5, <1>6, <1>8 DEF Complete
<1>9. QED
  BY <1>1, <1>7, <1>8 DEF p

(* Nothing is missing before an event of the empty stream.                 *)
LEMMA NoGapEmpty ==
  ASSUME NEW P, NEW c
  PROVE  << >> \in Seq(Events) /\ NoGap(P, c, << >>)
BY DEF NoGap, Elems, Increasing

(* A fact that is added is stored, and its earlier additions are undone.   *)
LEMMA StoredAdds ==
  ASSUME NEW P, NEW n \in Ids, n # NoId, History(P, n), NEW s \in Stores,
         Stored(P, s), NEW f \in Triples, s[f] = NoId
  PROVE  /\ \A e \in P : e.op = "add" /\ e.fact = f => Undone(P, e)
         /\ Stored(P \cup {Event("add", n, f)}, [s EXCEPT ![f] = n])
<1> DEFINE a == Event("add", n, f)
           t == [s EXCEPT ![f] = n]
<1>1. a.op = "add" /\ a.id = n /\ a.fact = f /\ a = Event("add", n, f)
  BY DEF Event
<1>n. n \in Nat
  BY DEF Ids
<1>2. n \in Nat /\ \A e \in P : e.id \in Nat /\ e.id < n /\ e.id # NoId
  BY <1>n, EventParts DEF History
<1>3. t[f] = n /\ \A g \in Triples : g # f => t[g] = s[g]
  BY DEF Stores
<1> HIDE DEF a, t
<1>4. \A e \in P : e.op = "add" /\ e.fact = f => Undone(P, e)
  BY <1>2 DEF Stored
<1>5. \A e : Undone(P \cup {a}, e) /\ e # a => Undone(P, e)
  BY <1>1 DEF Undone
<1>6. ~ Undone(P \cup {a}, a)
  <2>1. \A d \in P \cup {a} : ~ (d.id > n)
    BY <1>1, <1>2
  <2>2. QED
    BY <2>1, <1>1 DEF Undone
<1>7. ASSUME NEW g \in Triples, t[g] # NoId
      PROVE  /\ Event("add", t[g], g) \in P \cup {a}
             /\ ~ Undone(P \cup {a}, Event("add", t[g], g))
  <2>1. CASE g = f
    BY <2>1, <1>1, <1>3, <1>6
  <2>2. CASE g # f
    <3>1. /\ Event("add", t[g], g) \in P
          /\ ~ Undone(P, Event("add", t[g], g))
      BY <2>2, <1>3, <1>7 DEF Stored
    <3>2. Event("add", t[g], g) # a
      BY <3>1, <1>1, <1>2
    <3>3. QED
      BY <3>1, <3>2, <1>5
  <2>3. QED
    BY <2>1, <2>2
<1>8. ASSUME NEW e \in P \cup {a}, e.op = "add"
      PROVE  t[e.fact] = e.id \/ Undone(P \cup {a}, e)
  <2>1. CASE e = a
    BY <2>1, <1>1, <1>3
  <2>2. CASE e \in P /\ e.fact = f
    BY <2>2, <1>4, <1>8, UndoneStays
  <2>3. CASE e \in P /\ e.fact # f
    <3>1. t[e.fact] = s[e.fact]
      BY <2>3, <1>3, EventParts
    <3>2. s[e.fact] = e.id \/ Undone(P, e)
      BY <2>3, <1>8 DEF Stored
    <3>3. QED
      BY <3>1, <3>2, UndoneStays
  <2>4. QED
    BY <2>1, <2>2, <2>3
<1>9. Stored(P \cup {a}, t)
  BY <1>7, <1>8 DEF Stored
<1>10. QED
  BY <1>4, <1>9 DEF a, t

(* A fact that is removed is stored no more, and its additions are undone. *)
LEMMA StoredRemoves ==
  ASSUME NEW P, NEW n \in Ids, History(P, n), NEW s \in Stores,
         Stored(P, s), NEW f \in Triples
  PROVE  Stored(P \cup {Event("remove", n, f)}, [s EXCEPT ![f] = NoId])
<1> DEFINE a == Event("remove", n, f)
           t == [s EXCEPT ![f] = NoId]
<1>1. a.op = "remove" /\ a.id = n /\ a.fact = f
  BY DEF Event
<1>n. n \in Nat
  BY DEF Ids
<1>2. n \in Nat /\ \A e \in P : e.id \in Nat /\ e.id < n
  BY <1>n, EventParts DEF History
<1>3. t[f] = NoId /\ \A g \in Triples : g # f => t[g] = s[g]
  BY DEF Stores
<1> HIDE DEF a, t
<1>4. \A e : Undone(P \cup {a}, e) /\ e.fact # f => Undone(P, e)
  BY <1>1 DEF Undone
<1>5. ASSUME NEW g \in Triples, t[g] # NoId
      PROVE  /\ Event("add", t[g], g) \in P \cup {a}
             /\ ~ Undone(P \cup {a}, Event("add", t[g], g))
  <2>1. g # f /\ t[g] = s[g]
    BY <1>3, <1>5
  <2>2. Event("add", s[g], g) \in P /\ ~ Undone(P, Event("add", s[g], g))
    BY <2>1, <1>5 DEF Stored
  <2>3. Event("add", s[g], g).fact = g
    BY DEF Event
  <2>4. ~ Undone(P \cup {a}, Event("add", s[g], g))
    BY <2>1, <2>2, <2>3, <1>4
  <2>5. QED
    BY <2>1, <2>2, <2>4
<1>6. ASSUME NEW e \in P \cup {a}, e.op = "add"
      PROVE  t[e.fact] = e.id \/ Undone(P \cup {a}, e)
  <2>1. e \in P
    BY <1>1, <1>6
  <2>2. CASE e.fact = f
    <3>1. a \in P \cup {a} /\ a.id > e.id
      BY <2>1, <1>1, <1>2
    <3>2. QED
      BY <3>1, <2>2, <1>1, <1>6 DEF Undone
  <2>3. CASE e.fact # f
    <3>1. t[e.fact] = s[e.fact]
      BY <2>1, <2>3, <1>3, EventParts
    <3>2. s[e.fact] = e.id \/ Undone(P, e)
      BY <2>1, <1>6 DEF Stored
    <3>3. QED
      BY <3>1, <3>2, UndoneStays
  <2>4. QED
    BY <2>2, <2>3
<1>7. Stored(P \cup {a}, t)
  BY <1>5, <1>6 DEF Stored
<1>8. QED
  BY <1>7 DEF a, t

-----------------------------------------------------------------------------
(* The invariant.                                                          *)

(* The master's memory is what it published, unless its log failed. *)
Published ==
  /\ History(published, nextId)
  /\ removeLog = {e \in published : e.op = "remove"}
  /\ ~failed => Stored(published, store)

(* A replica is at its cursor, and what is on its way continues from there.*)
Replicated(r) ==
  /\ cursor[r] <= nextId /\ hello[r] <= cursor[r]
  /\ CaughtUp(published, copy[r], cursor[r])
  /\ NoGap(published, cursor[r], down[r])
  /\ session[r] = "up" => conn[r] = "open" /\ Complete(published, cursor[r], down[r])
  /\ session[r] \in {"dialed", "greeted"} => hello[r] # NoId

Inv ==
  /\ TypeOK
  /\ Published
  /\ \A r \in Replicas : Replicated(r)

(* A synchronisation leaves out nothing that counts.                       *)
LEMMA SyncCompletes ==
  ASSUME TypeOK, Published, ~failed, NEW c \in Nat, c # NoId
  PROVE  Complete(published, c, Sync(c))
<1> DEFINE A == {Event("add", store[f], f) : f \in {g \in Triples : store[g] >= c}}
           S == {e \in removeLog : e.id >= c} \cup A
<1>1. /\ History(published, nextId) /\ Stored(published, store)
      /\ removeLog = {e \in published : e.op = "remove"}
  BY DEF Published
<1>2. \A f \in Triples : store[f] \in Nat
  BY DEF TypeOK, Stores, Ids
<1>3. A \subseteq published
  <2>1. SUFFICES ASSUME NEW f \in Triples, store[f] >= c
                 PROVE  Event("add", store[f], f) \in published
    OBVIOUS
  <2>2. store[f] # NoId
    BY <2>1, <1>2 DEF NoId
  <2>3. QED
    BY <2>2, <1>1 DEF Stored
<1>4. \A e \in published : e.id \in Nat
  BY <1>1, EventParts
<1>5. ASSUME NEW e \in published, c <= e.id
      PROVE  e \in S \/ Undone(published, e)
  <2>1. CASE e.op = "remove"
    BY <2>1, <1>1, <1>4, <1>5
  <2>2. CASE e.op = "add" /\ ~ Undone(published, e)
    <3>1. store[e.fact] = e.id /\ e.fact \in Triples /\ e = Event("add", e.id, e.fact)
      BY <2>2, <1>1, EventParts DEF Stored
    <3>2. store[e.fact] >= c
      BY <3>1, <1>4, <1>5
    <3>3. QED
      BY <3>1, <3>2
  <2>3. QED
    BY <2>1, <2>2, <1>1, EventParts
<1>6. S \subseteq published
  BY <1>1, <1>3
<1>7. Sync(c) = ById(S)
  BY DEF Sync
<1> HIDE DEF S
<1>8. /\ IsFiniteSet(S) /\ S \in SUBSET Events
      /\ \A d, e \in S : d.id = e.id => d = e
  BY <1>1, <1>6, FS_Subset DEF History
<1>9. ById(S) \in Seq(Events) /\ Elems(ById(S)) = S /\ Increasing(ById(S))
  BY <1>8, ByIdSorts
<1>10. QED
  BY <1>5, <1>6, <1>7, <1>9 DEF Complete

-----------------------------------------------------------------------------
(* The steps.                                                              *)

(* The bounds of an identifier.                                            *)
LEMMA IdFacts ==
  /\ UwMax \in Nat \ {0} /\ NoId \in Ids /\ NoId = 0
  /\ \A x \in Ids : x \in Nat
  /\ \A x \in 1 .. UwMax : x \in Nat /\ x # NoId /\ x \in Ids
  /\ \A x \in Nat : x <= UwMax => x \in Ids
BY UwMaxAssumption DEF Ids, NoId

(* Broadcast keeps the types.                                              *)
LEMMA BroadcastTypes ==
  ASSUME TypeOK, NEW e \in Events, Broadcast(e)
  PROVE  /\ published' \in SUBSET Events
         /\ conn' \in [Replicas -> {"none", "open", "dead"}]
         /\ session' \in [Replicas -> {"none", "dialed", "greeted", "up"}]
         /\ down' \in [Replicas -> Seq(Events)]
<1>1. /\ published \in SUBSET Events
      /\ conn \in [Replicas -> {"none", "open", "dead"}]
      /\ session \in [Replicas -> {"none", "dialed", "greeted", "up"}]
      /\ down \in [Replicas -> Seq(Events)]
  BY DEF TypeOK
<1>2. \A r \in Replicas : Append(down[r], e) \in Seq(Events)
  BY <1>1
<1>3. QED
  BY <1>1, <1>2 DEF Broadcast

(* The master's own writes keep the types.                                 *)
LEMMA MasterTypes ==
  ASSUME TypeOK, NEW f \in Triples, MasterAdd(f) \/ MasterRemove(f)
  PROVE  /\ store' \in Stores /\ nextId' \in 1 .. UwMax
         /\ removeLog' \in SUBSET Events /\ failed' \in BOOLEAN
         /\ published' \in SUBSET Events
         /\ conn' \in [Replicas -> {"none", "open", "dead"}]
         /\ session' \in [Replicas -> {"none", "dialed", "greeted", "up"}]
         /\ down' \in [Replicas -> Seq(Events)]
<1>1. /\ store \in Stores /\ nextId \in 1 .. UwMax /\ removeLog \in SUBSET Events
      /\ failed \in BOOLEAN
  BY DEF TypeOK
<1>2. nextId \in Ids /\ NoId \in Ids
  BY <1>1, IdFacts
<1>3. Event("add", nextId, f) \in Events /\ Event("remove", nextId, f) \in Events
  BY <1>2 DEF Event, Events
<1>4. nextId < UwMax /\ nextId' = nextId + 1
  BY DEF MasterAdd, MasterRemove
<1>5. nextId' \in 1 .. UwMax
  BY <1>1, <1>4, IdFacts
<1>6. store' \in Stores
  BY <1>1, <1>2 DEF MasterAdd, MasterRemove, Stores
<1>7. removeLog' \in SUBSET Events /\ failed' \in BOOLEAN
  BY <1>1, <1>3 DEF MasterAdd, MasterRemove
<1>8. Broadcast(Event("add", nextId, f)) \/ Broadcast(Event("remove", nextId, f))
  BY DEF MasterAdd, MasterRemove
<1>9. QED
  BY <1>3, <1>5, <1>6, <1>7, <1>8, BroadcastTypes

(* Every step keeps the types.                                             *)
LEMMA TypeStep ==
  ASSUME Inv, [Next]_vars
  PROVE  TypeOK'
<1> USE DEF master, replica, ends, wires
<1>1. /\ store \in Stores /\ nextId \in 1 .. UwMax
      /\ removeLog \in SUBSET Events
      /\ failed \in BOOLEAN
      /\ published \in SUBSET Events
      /\ conn \in [Replicas -> {"none", "open", "dead"}]
      /\ accepting \in Replicas \cup {"idle", "stopped"}
      /\ copy \in [Replicas -> Stores]
      /\ cursor \in [Replicas -> 1 .. UwMax]
      /\ link \in [Replicas -> {"none", "dialing", "open", "dead"}]
      /\ session \in [Replicas -> {"none", "dialed", "greeted", "up"}]
      /\ hello \in [Replicas -> Ids]
      /\ down \in [Replicas -> Seq(Events)]
      /\ up \in [Replicas -> Seq(Writes)]
  BY DEF Inv, TypeOK
<1>2. \A r \in Replicas : cursor[r] \in Ids /\ hello[r] \in Nat
  BY <1>1, IdFacts
<1>3. << >> \in Seq(Events) /\ << >> \in Seq(Writes)
  OBVIOUS
<1>4. ASSUME NEW r \in Replicas, ~ failed, session[r] = "greeted"
      PROVE  /\ Sync(hello[r]) \in Seq(Events)
             /\ \A n \in 0 .. Len(Sync(hello[r])) :
                  SubSeq(Sync(hello[r]), 1, n) \in Seq(Events)
  <2>1. hello[r] # NoId
    BY <1>4 DEF Inv, Replicated
  <2>2. Sync(hello[r]) \in Seq(Events)
    BY <2>1, <1>2, <1>4, SyncCompletes DEF Inv, Complete
  <2>3. QED
    BY <2>2
<1>5. ASSUME NEW f \in Triples, MasterWrite(f)
      PROVE  TypeOK'
  <2>1. MasterAdd(f) \/ MasterRemove(f)
    BY <1>5 DEF MasterWrite
  <2>2. /\ store' \in Stores /\ nextId' \in 1 .. UwMax
        /\ removeLog' \in SUBSET Events /\ failed' \in BOOLEAN
        /\ published' \in SUBSET Events
        /\ conn' \in [Replicas -> {"none", "open", "dead"}]
        /\ session' \in [Replicas -> {"none", "dialed", "greeted", "up"}]
        /\ down' \in [Replicas -> Seq(Events)]
    BY <2>1, MasterTypes DEF Inv
  <2>3. UNCHANGED <<copy, cursor, accepting, link, hello, up>>
    BY <1>5 DEF MasterWrite
  <2>4. QED
    BY <1>1, <2>2, <2>3 DEF TypeOK
<1>6. ASSUME NEW f \in Triples, MasterLogFails(f)
      PROVE  TypeOK'
  <2>1. nextId' \in 1 .. UwMax /\ nextId \in Ids /\ NoId \in Ids
    BY <1>1, <1>6, IdFacts DEF MasterLogFails
  <2>2. store' \in Stores
    BY <1>1, <1>6, <2>1 DEF MasterLogFails, Stores
  <2>3. QED
    BY <1>1, <1>6, <2>1, <2>2 DEF MasterLogFails, TypeOK
<1>7. CASE MasterTransaction
  <2>1. nextId' \in 1 .. UwMax
    BY <1>1, <1>7, IdFacts DEF MasterTransaction
  <2>2. QED
    BY <1>1, <1>7, <2>1 DEF MasterTransaction, TypeOK
<1>8. CASE MasterCloseAll
  BY <1>1, <1>3, <1>8 DEF MasterCloseAll, TypeOK
<1>9. CASE AcceptorStart
  BY <1>1, <1>9 DEF AcceptorStart, TypeOK
<1>10. ASSUME NEW r \in Replicas, ApplyForwarded(r)
       PROVE  TypeOK'
  <2> DEFINE w == Head(up[r])
  <2>1. w.fact \in Triples /\ Tail(up[r]) \in Seq(Writes)
    <3>1. up[r] \in Seq(Writes) /\ up[r] # << >>
      BY <1>1, <1>10 DEF ApplyForwarded
    <3>2. w \in Writes /\ Tail(up[r]) \in Seq(Writes)
      BY <3>1
    <3>3. QED
      BY <3>2 DEF Writes
  <2>2. /\ up' = [up EXCEPT ![r] = Tail(@)]
        /\ UNCHANGED <<copy, cursor, accepting, link, hello>>
    BY <1>10 DEF ApplyForwarded
  <2>3. up' \in [Replicas -> Seq(Writes)]
    BY <1>1, <2>1, <2>2
  <2>4. /\ store' \in Stores /\ nextId' \in 1 .. UwMax
        /\ removeLog' \in SUBSET Events /\ failed' \in BOOLEAN
        /\ published' \in SUBSET Events
        /\ conn' \in [Replicas -> {"none", "open", "dead"}]
        /\ session' \in [Replicas -> {"none", "dialed", "greeted", "up"}]
        /\ down' \in [Replicas -> Seq(Events)]
    <3>1. CASE MasterAdd(w.fact) \/ MasterRemove(w.fact)
      BY <2>1, <3>1, MasterTypes DEF Inv
    <3>2. CASE ~ (MasterAdd(w.fact) \/ MasterRemove(w.fact))
      BY <1>1, <1>10, <3>2 DEF ApplyForwarded
    <3>3. QED
      BY <3>1, <3>2
  <2>5. QED
    BY <1>1, <2>2, <2>3, <2>4 DEF TypeOK
<1>11. ASSUME NEW r \in Replicas, MasterHangsUp(r)
       PROVE  TypeOK'
  BY <1>1, <1>11 DEF MasterHangsUp, TypeOK
<1>12. ASSUME NEW r \in Replicas, Dial(r)
       PROVE  TypeOK'
  BY <1>1, <1>2, <1>12 DEF Dial, TypeOK
<1>13. ASSUME NEW r \in Replicas, Refuse(r)
       PROVE  TypeOK'
  BY <1>1, <1>13 DEF Refuse, TypeOK
<1>14. ASSUME NEW r \in Replicas, Greet(r)
       PROVE  TypeOK'
  BY <1>1, <1>3, <1>14 DEF Greet, TypeOK
<1>15. ASSUME NEW r \in Replicas, Accept(r)
       PROVE  TypeOK'
  BY <1>1, <1>4, <1>15 DEF Accept, SyncAllowed, TypeOK
<1>16. ASSUME NEW r \in Replicas, AcceptFails(r)
       PROVE  TypeOK'
  BY <1>1, <1>4, <1>16 DEF AcceptFails, SyncAllowed, TypeOK
<1>17. ASSUME NEW r \in Replicas, Register(r)
       PROVE  TypeOK'
  BY <1>1, <1>17 DEF Register, TypeOK
<1>18. ASSUME NEW r \in Replicas, RegisterFails(r)
       PROVE  TypeOK'
  BY <1>1, <1>3, <1>18 DEF RegisterFails, TypeOK
<1>19. ASSUME NEW r \in Replicas, Deliver(r)
       PROVE  TypeOK'
  <2> DEFINE e == Head(down[r])
  <2>1. down[r] \in Seq(Events) /\ down[r] # << >>
    BY <1>1, <1>19 DEF Deliver
  <2>2. e \in Events /\ Tail(down[r]) \in Seq(Events) /\ e \in Elems(down[r])
    BY <2>1 DEF Elems
  <2>3. e \in published
    BY <2>2 DEF Inv, Replicated, NoGap
  <2>4. 1 <= e.id /\ e.id < nextId /\ e.id \in Nat
    BY <2>2, <2>3, IdFacts DEF Inv, Published, History, Events
  <2>5. NextCursor(e) \in 1 .. UwMax
    BY <2>4, <1>1, IdFacts DEF NextCursor
  <2>6. Apply(copy[r], e) \in Stores
    BY <2>2, <1>1, ApplyType
  <2>7. QED
    BY <1>1, <1>19, <2>2, <2>5, <2>6 DEF Deliver, TypeOK
<1>20. ASSUME NEW r \in Replicas, DeliverFails(r)
       PROVE  TypeOK'
  BY <1>1, <1>3, <1>20 DEF DeliverFails, TypeOK
<1>21. ASSUME NEW r \in Replicas, ReplicaHangsUp(r)
       PROVE  TypeOK'
  BY <1>1, <1>21 DEF ReplicaHangsUp, TypeOK
<1>22. ASSUME NEW r \in Replicas, ReplicaCloseAll(r)
       PROVE  TypeOK'
  BY <1>1, <1>3, <1>22 DEF ReplicaCloseAll, TypeOK
<1>23. ASSUME NEW r \in Replicas, NEW w \in Writes, Forward(r, w)
       PROVE  TypeOK'
  <2>1. Append(up[r], w) \in Seq(Writes)
    BY <1>1
  <2>2. QED
    BY <1>1, <1>23, <2>1 DEF Forward, TypeOK
<1>24. ASSUME NEW r \in Replicas, Break(r)
       PROVE  TypeOK'
  BY <1>1, <1>24 DEF Break, TypeOK
<1>25. ASSUME NEW r \in Replicas, Lose(r)
       PROVE  TypeOK'
  <2>1. down[r] # << >> => Front(down[r]) \in Seq(Events)
    BY <1>1 DEF Front
  <2>2. up[r] # << >> => Front(up[r]) \in Seq(Writes)
    BY <1>1 DEF Front
  <2>3. QED
    BY <1>1, <1>25, <2>1, <2>2 DEF Lose, TypeOK
<1>26. CASE UNCHANGED vars
  BY <1>1, <1>26 DEF TypeOK, vars
<1>27. QED
  BY <1>5, <1>6, <1>7, <1>8, <1>9, <1>10, <1>11, <1>12, <1>13, <1>14, <1>15,
     <1>16, <1>17, <1>18, <1>19, <1>20, <1>21, <1>22, <1>23, <1>24, <1>25, <1>26
     DEF Next

(* Taking an identifier that no event carries changes no history.          *)
LEMMA HistoryLater ==
  ASSUME NEW P, NEW n \in Nat, History(P, n)
  PROVE  History(P, n + 1)
<1>1. \A e \in P : e.id \in Nat /\ 1 <= e.id /\ e.id < n
  BY EventParts DEF History
<1>2. \A e \in P : 1 <= e.id /\ e.id < n + 1
  BY <1>1
<1>3. QED
  BY <1>2 DEF History

(* The master's own writes keep its memory and what it published together. *)
LEMMA WritePublishes ==
  ASSUME Inv, NEW f \in Triples, MasterAdd(f) \/ MasterRemove(f)
  PROVE  Published'
<1>1. /\ store \in Stores /\ nextId \in Nat /\ nextId # NoId /\ nextId \in Ids
      /\ NoId = 0
  BY IdFacts DEF Inv, TypeOK
<1>2. /\ ~ failed /\ ~ failed' /\ nextId' = nextId + 1
  BY DEF MasterAdd, MasterRemove
<1>3. /\ History(published, nextId) /\ Stored(published, store)
      /\ removeLog = {e \in published : e.op = "remove"}
  BY <1>2 DEF Inv, Published
<1>4. CASE MasterAdd(f)
  <2> DEFINE a == Event("add", nextId, f)
  <2>1. a \in Events /\ a.id = nextId /\ a.op = "add" /\ a.fact = f
    BY <1>1 DEF Event, Events
  <2>2. /\ store[f] = NoId /\ store' = [store EXCEPT ![f] = nextId]
        /\ published' = published \cup {a} /\ removeLog' = removeLog
    BY <1>4 DEF MasterAdd, Broadcast
  <2>3. /\ \A e \in published : e.op = "add" /\ e.fact = f => Undone(published, e)
        /\ Stored(published \cup {a}, [store EXCEPT ![f] = nextId])
    BY <1>1, <1>3, <2>2, StoredAdds
  <2> HIDE DEF a
  <2>4. History(published \cup {a}, nextId + 1)
    BY <1>1, <1>3, <2>1, <2>3, HistoryGrows
  <2>5. removeLog = {e \in published \cup {a} : e.op = "remove"}
    BY <1>3, <2>1
  <2>6. QED
    BY <1>2, <2>2, <2>3, <2>4, <2>5 DEF Published
<1>5. CASE MasterRemove(f)
  <2> DEFINE a == Event("remove", nextId, f)
  <2>1. a \in Events /\ a.id = nextId /\ a.op = "remove" /\ a.fact = f
    BY <1>1 DEF Event, Events
  <2>2. /\ store' = [store EXCEPT ![f] = NoId]
        /\ published' = published \cup {a} /\ removeLog' = removeLog \cup {a}
    BY <1>5 DEF MasterRemove, Broadcast
  <2>3. Stored(published \cup {a}, [store EXCEPT ![f] = NoId])
    BY <1>1, <1>3, StoredRemoves
  <2> HIDE DEF a
  <2>4. History(published \cup {a}, nextId + 1)
    BY <1>1, <1>3, <2>1, HistoryGrows
  <2>5. removeLog \cup {a} = {e \in published \cup {a} : e.op = "remove"}
    BY <1>3, <2>1
  <2>6. QED
    BY <1>2, <2>2, <2>3, <2>4, <2>5 DEF Published
<1>6. QED
  BY <1>4, <1>5

(* A broadcast leaves no replica without the event that is still connected.*)
LEMMA BroadcastReaches ==
  ASSUME Inv, NEW a \in Events, a.id = nextId, Broadcast(a), nextId' = nextId + 1,
         UNCHANGED <<replica, hello>>, NEW x \in Replicas
  PROVE  Replicated(x)'
<1>1. /\ nextId \in Nat /\ cursor[x] \in Nat /\ hello[x] \in Nat
      /\ down[x] \in Seq(Events)
  BY IdFacts DEF Inv, TypeOK
<1>2. Replicated(x) /\ History(published, nextId)
  BY DEF Inv, Published
<1>3. /\ copy' = copy /\ cursor' = cursor /\ hello' = hello
      /\ published' = published \cup {a}
  BY DEF Broadcast, replica
<1>4. cursor[x] <= nextId + 1 /\ hello[x] <= cursor[x]
  BY <1>1, <1>2 DEF Replicated
<1>5. CaughtUp(published \cup {a}, copy[x], cursor[x])
  BY <1>1, <1>2, CaughtUpGrows DEF Replicated
<1>6. NoGap(published \cup {a}, cursor[x], down[x])
  BY <1>1, <1>2, NoGapGrows DEF Replicated
<1>7. session[x] = "up" =>
        Complete(published \cup {a}, cursor[x], Append(down[x], a))
  BY <1>1, <1>2, CompleteGrows DEF Replicated
<1>8. session[x] = "up" =>
        NoGap(published \cup {a}, cursor[x], Append(down[x], a))
  BY <1>7, CompleteHasNoGap
<1>9. PICK lost \in SUBSET {r \in Replicas : conn[r] = "open"} :
        /\ down' = [r \in Replicas |->
                      IF conn[r] = "open" /\ r \notin lost /\ session[r] = "up"
                      THEN Append(down[r], a) ELSE down[r]]
        /\ conn' = [r \in Replicas |-> IF r \in lost THEN "dead" ELSE conn[r]]
        /\ session' = [r \in Replicas |->
                         IF r \in lost /\ session[r] = "up" THEN "none"
                         ELSE session[r]]
  BY DEF Broadcast
<1>10. /\ down'[x] = IF conn[x] = "open" /\ x \notin lost /\ session[x] = "up"
                     THEN Append(down[x], a) ELSE down[x]
       /\ conn'[x] = IF x \in lost THEN "dead" ELSE conn[x]
       /\ session'[x] = IF x \in lost /\ session[x] = "up" THEN "none"
                        ELSE session[x]
  BY <1>9
<1>11. NoGap(published', cursor'[x], down'[x])
  BY <1>3, <1>6, <1>8, <1>10
<1>12. session'[x] = "up" =>
         conn'[x] = "open" /\ Complete(published', cursor'[x], down'[x])
  BY <1>2, <1>3, <1>7, <1>10 DEF Replicated
<1>13. session'[x] \in {"dialed", "greeted"} => hello'[x] # NoId
  BY <1>2, <1>3, <1>10 DEF Replicated
<1>14. QED
  BY <1>3, <1>4, <1>5, <1>11, <1>12, <1>13 DEF Replicated

(* The master's own writes reach the replicas.                             *)
LEMMA WriteReaches ==
  ASSUME Inv, NEW f \in Triples, MasterAdd(f) \/ MasterRemove(f),
         UNCHANGED <<replica, hello>>, NEW x \in Replicas
  PROVE  Replicated(x)'
<1>1. nextId \in Ids /\ nextId' = nextId + 1
  BY IdFacts DEF Inv, TypeOK, MasterAdd, MasterRemove
<1>2. \A o \in {"add", "remove"} :
        Event(o, nextId, f) \in Events /\ Event(o, nextId, f).id = nextId
  BY <1>1 DEF Event, Events
<1>3. PICK o \in {"add", "remove"} : Broadcast(Event(o, nextId, f))
  BY DEF MasterAdd, MasterRemove
<1>4. PICK n : n = nextId
  OBVIOUS
<1>5. Broadcast(Event(o, n, f))
  BY <1>3, <1>4
<1>6. QED
  BY <1>1, <1>2, <1>4, <1>5, BroadcastReaches

(* Every step keeps the memory and the history together.                   *)
LEMMA PublishedStep ==
  ASSUME Inv, [Next]_vars
  PROVE  Published'
<1>1. Published /\ nextId \in Nat
  BY IdFacts DEF Inv, TypeOK
<1>2. CASE \E f \in Triples : MasterAdd(f) \/ MasterRemove(f)
  BY <1>2, WritePublishes
<1>3. CASE \E f \in Triples : MasterLogFails(f)
  <2>1. /\ nextId' = nextId + 1 /\ failed' /\ published' = published
        /\ removeLog' = removeLog
    BY <1>3 DEF MasterLogFails
  <2>2. History(published, nextId + 1)
    BY <1>1, HistoryLater DEF Published
  <2>3. QED
    BY <1>1, <2>1, <2>2 DEF Published
<1>4. CASE MasterTransaction
  <2>1. /\ nextId' = nextId + 1 /\ published' = published /\ store' = store
        /\ removeLog' = removeLog /\ failed' = failed
    BY <1>4 DEF MasterTransaction
  <2>2. History(published, nextId + 1)
    BY <1>1, HistoryLater DEF Published
  <2>3. QED
    BY <1>1, <2>1, <2>2 DEF Published
<1>5. CASE UNCHANGED master
  BY <1>1, <1>5 DEF Published, master
<1>6. ASSUME NEW r \in Replicas, ApplyForwarded(r)
      PROVE  Published'
  <2> DEFINE w == Head(up[r])
  <2>1. up[r] \in Seq(Writes) /\ up[r] # << >>
    BY <1>6 DEF ApplyForwarded, Inv, TypeOK
  <2>2. w \in Writes
    BY <2>1
  <2>3. w.fact \in Triples
    BY <2>2 DEF Writes
  <2>4. MasterAdd(w.fact) \/ MasterRemove(w.fact) \/ UNCHANGED master
    BY <1>6 DEF ApplyForwarded
  <2>5. QED
    BY <2>3, <2>4, <1>2, <1>5
<1>7. (\E f \in Triples : MasterWrite(f)) => \E f \in Triples : MasterAdd(f) \/ MasterRemove(f)
  BY DEF MasterWrite
<1>8. MasterCloseAll \/ AcceptorStart => UNCHANGED master
  BY DEF MasterCloseAll, AcceptorStart
<1>9. ASSUME NEW r \in Replicas,
             \/ MasterHangsUp(r) \/ Dial(r) \/ Refuse(r) \/ Greet(r) \/ Accept(r)
             \/ AcceptFails(r) \/ Register(r) \/ RegisterFails(r)
      PROVE  UNCHANGED master
  BY <1>9 DEF MasterHangsUp, Dial, Refuse, Greet, Accept, AcceptFails, Register,
              RegisterFails
<1>10. ASSUME NEW r \in Replicas,
              \/ Deliver(r) \/ DeliverFails(r) \/ ReplicaHangsUp(r)
              \/ ReplicaCloseAll(r) \/ (\E w \in Writes : Forward(r, w))
              \/ Break(r) \/ Lose(r)
       PROVE  UNCHANGED master
  BY <1>10 DEF Deliver, DeliverFails, ReplicaHangsUp, ReplicaCloseAll, Forward,
               Break, Lose
<1>11. UNCHANGED vars => UNCHANGED master
  BY DEF vars
<1>12. QED
  BY <1>2, <1>3, <1>4, <1>5, <1>6, <1>7, <1>8, <1>9, <1>10, <1>11 DEF Next

(* What a step has to keep when it applies no event.                       *)
LEMMA ReplicatedKept ==
  ASSUME NEW x \in Replicas, Replicated(x), UNCHANGED <<published, replica>>,
         cursor[x] <= nextId', hello'[x] <= cursor[x],
         NoGap(published, cursor[x], down'[x]),
         session'[x] = "up" =>
           conn'[x] = "open" /\ Complete(published, cursor[x], down'[x]),
         session'[x] \in {"dialed", "greeted"} => hello'[x] # NoId
  PROVE  Replicated(x)'
BY DEF Replicated, replica

(* A synchronisation continues from the cursor of the replica.             *)
LEMMA SyncContinues ==
  ASSUME Inv, ~ failed, NEW x \in Replicas, session[x] = "greeted"
  PROVE  /\ Complete(published, cursor[x], Sync(hello[x]))
         /\ NoGap(published, cursor[x], Sync(hello[x]))
         /\ \A n \in 0 .. Len(Sync(hello[x])) :
              NoGap(published, cursor[x], SubSeq(Sync(hello[x]), 1, n))
<1>1. /\ cursor[x] \in Nat /\ hello[x] \in Nat /\ hello[x] # NoId
      /\ hello[x] <= cursor[x] /\ History(published, nextId)
  BY IdFacts DEF Inv, TypeOK, Replicated, Published
<1>2. Complete(published, hello[x], Sync(hello[x]))
  BY <1>1, SyncCompletes DEF Inv
<1>3. Complete(published, cursor[x], Sync(hello[x]))
  BY <1>1, <1>2, CompleteLater
<1>4. NoGap(published, cursor[x], Sync(hello[x])) /\ Sync(hello[x]) \in Seq(Events)
  BY <1>3, CompleteHasNoGap DEF Complete
<1>5. QED
  BY <1>1, <1>3, <1>4, NoGapCut

(* A replica that takes an event from its stream stays at its cursor.      *)
LEMMA DeliverKeeps ==
  ASSUME Inv, NEW x \in Replicas, Deliver(x)
  PROVE  Replicated(x)'
<1> DEFINE e == Head(down[x])
           c == cursor[x]
<1>1. /\ down[x] \in Seq(Events) /\ down[x] # << >> /\ c \in Nat /\ nextId \in Nat
      /\ copy[x] \in Stores /\ hello[x] \in Nat
  BY IdFacts DEF Inv, TypeOK, Deliver
<1>2. Replicated(x) /\ History(published, nextId)
  BY DEF Inv, Published
<1>3. NoGap(published, c, down[x]) /\ CaughtUp(published, copy[x], c)
  BY <1>2 DEF Replicated
<1>4. 1 \in DOMAIN down[x] /\ e = down[x][1] /\ DOMAIN down[x] = 1 .. Len(down[x])
  BY <1>1
<1>5. e \in published /\ e.id \in Nat /\ e.id < nextId
  <2>1. e \in published
    BY <1>3, <1>4 DEF NoGap, Elems
  <2>2. e.id \in Nat
    BY <2>1, <1>2, EventParts
  <2>3. e.id < nextId
    BY <2>1, <1>2 DEF History
  <2>4. QED
    BY <2>1, <2>2, <2>3
<1>6. /\ UNCHANGED <<published, nextId, conn, session, hello>>
      /\ down'[x] = Tail(down[x])
  BY <1>1 DEF Deliver, master, ends, Inv, TypeOK
<1>7. CASE Stale(x, e)
  <2>1. UNCHANGED replica /\ e.id < c
    BY <1>7 DEF Deliver, Stale
  <2>2. /\ NoGap(published, c, Tail(down[x]))
        /\ Complete(published, c, down[x]) => Complete(published, c, Tail(down[x]))
    BY <2>1, <1>1, <1>2, <1>3, TailKeeps
  <2>3. QED
    BY <2>1, <2>2, <1>2, <1>6, ReplicatedKept DEF Replicated
<1>8. CASE ~ Stale(x, e)
  <2> DEFINE b == e.id + 1
  <2>1. c <= e.id
    BY <1>1, <1>5, <1>8 DEF Stale
  <2>2. b \in Nat /\ c <= b /\ e.id < b /\ b <= nextId /\ hello[x] <= b
    BY <2>1, <1>1, <1>2, <1>5 DEF Replicated
  <2>3. copy'[x] = Apply(copy[x], e) /\ cursor'[x] = b
    BY <1>8 DEF Deliver, NextCursor, Inv, TypeOK
  <2>4. ASSUME NEW d \in published, c <= d.id, d.id < e.id
        PROVE  Undone(published, d)
    <3>1. d \in Elems(down[x]) \/ Undone(published, d)
      BY <2>4, <1>3, <1>4 DEF NoGap
    <3>2. ASSUME NEW j \in DOMAIN down[x], d = down[x][j]
          PROVE  FALSE
      <4>1. j = 1 \/ 1 < j
        BY <1>4, <3>2
      <4>2. e.id = d.id \/ e.id < d.id
        BY <4>1, <1>3, <1>4, <3>2 DEF NoGap, Increasing
      <4>3. d.id \in Nat
        BY <1>2, EventParts
      <4>4. QED
        BY <4>2, <4>3, <1>5, <2>4
    <3>3. QED
      BY <3>1, <3>2 DEF Elems
  <2>5. CaughtUp(published, Apply(copy[x], e), b)
    BY <2>1, <2>4, <1>1, <1>2, <1>3, <1>5, ApplyAdvances
  <2>6. /\ NoGap(published, b, Tail(down[x]))
        /\ Complete(published, c, down[x]) => Complete(published, b, Tail(down[x]))
    BY <2>2, <1>1, <1>2, <1>3, TailKeeps
  <2> HIDE DEF b
  <2>7. QED
    BY <2>2, <2>3, <2>5, <2>6, <1>2, <1>6 DEF Replicated
<1>9. QED
  BY <1>7, <1>8

(* Every step keeps every replica at its cursor.                           *)
LEMMA ReplicatedStep ==
  ASSUME Inv, [Next]_vars, NEW x \in Replicas
  PROVE  Replicated(x)'
<1> USE DEF master, replica, ends, wires
<1>1. /\ nextId \in Nat /\ cursor[x] \in Nat /\ hello[x] \in Nat /\ cursor[x] # NoId
      /\ conn \in [Replicas -> {"none", "open", "dead"}]
      /\ session \in [Replicas -> {"none", "dialed", "greeted", "up"}]
      /\ hello \in [Replicas -> Ids]
      /\ down \in [Replicas -> Seq(Events)]
      /\ copy \in [Replicas -> Stores] /\ cursor \in [Replicas -> 1 .. UwMax]
  BY IdFacts DEF Inv, TypeOK
<1>2. Replicated(x) /\ History(published, nextId)
  BY DEF Inv, Published
<1>3. /\ cursor[x] <= nextId /\ hello[x] <= cursor[x] /\ cursor[x] <= nextId + 1
      /\ NoGap(published, cursor[x], down[x])
      /\ session[x] = "up" => conn[x] = "open" /\ Complete(published, cursor[x], down[x])
      /\ session[x] \in {"dialed", "greeted"} => hello[x] # NoId
      /\ NoGap(published, cursor[x], << >>)
  BY <1>1, <1>2, NoGapEmpty DEF Replicated
<1>4. ASSUME NEW f \in Triples, MasterWrite(f)
      PROVE  Replicated(x)'
  BY <1>4, WriteReaches DEF MasterWrite
<1>5. ASSUME NEW f \in Triples, MasterLogFails(f)
      PROVE  Replicated(x)'
  BY <1>2, <1>3, <1>5, ReplicatedKept DEF MasterLogFails
<1>6. CASE MasterTransaction
  BY <1>2, <1>3, <1>6, ReplicatedKept DEF MasterTransaction
<1>7. CASE MasterCloseAll
  BY <1>1, <1>2, <1>3, <1>7, ReplicatedKept DEF MasterCloseAll
<1>8. CASE AcceptorStart
  BY <1>2, <1>3, <1>8, ReplicatedKept DEF AcceptorStart
<1>9. ASSUME NEW r \in Replicas, ApplyForwarded(r)
      PROVE  Replicated(x)'
  <2> DEFINE w == Head(up[r])
  <2>1. up[r] \in Seq(Writes) /\ up[r] # << >>
    BY <1>9 DEF ApplyForwarded, Inv, TypeOK
  <2>2. w \in Writes
    BY <2>1
  <2>3. w.fact \in Triples
    BY <2>2 DEF Writes
  <2>4. CASE MasterAdd(w.fact) \/ MasterRemove(w.fact)
    BY <1>9, <2>3, <2>4, WriteReaches DEF ApplyForwarded
  <2>5. CASE ~ (MasterAdd(w.fact) \/ MasterRemove(w.fact))
    <3>1. /\ UNCHANGED <<master, replica, hello, down>>
          /\ \/ UNCHANGED <<conn, session>>
             \/ /\ conn' = [conn EXCEPT ![r] = "dead"]
                /\ session' = [session EXCEPT ![r] = "none"]
      BY <1>9, <2>5 DEF ApplyForwarded
    <3>2. QED
      BY <1>1, <1>2, <1>3, <3>1, ReplicatedKept
  <2>6. QED
    BY <2>4, <2>5
<1>10. ASSUME NEW r \in Replicas, MasterHangsUp(r)
       PROVE  Replicated(x)'
  BY <1>1, <1>2, <1>3, <1>10, ReplicatedKept DEF MasterHangsUp
<1>11. ASSUME NEW r \in Replicas, Dial(r)
       PROVE  Replicated(x)'
  <2>1. /\ hello'[x] = IF x = r THEN cursor[x] ELSE hello[x]
        /\ session'[x] = IF x = r THEN "dialed" ELSE session[x]
    BY <1>1, <1>11 DEF Dial
  <2>2. hello'[x] <= cursor[x]
    BY <2>1, <1>1, <1>3
  <2>3. QED
    BY <1>1, <1>2, <1>3, <1>11, <2>1, <2>2, ReplicatedKept DEF Dial
<1>12. ASSUME NEW r \in Replicas, Refuse(r)
       PROVE  Replicated(x)'
  BY <1>1, <1>2, <1>3, <1>12, ReplicatedKept DEF Refuse
<1>13. ASSUME NEW r \in Replicas, Greet(r)
       PROVE  Replicated(x)'
  BY <1>1, <1>2, <1>3, <1>13, ReplicatedKept DEF Greet
<1>14. ASSUME NEW r \in Replicas, Accept(r)
       PROVE  Replicated(x)'
  <2>1. /\ UNCHANGED <<master, replica, hello>> /\ ~ failed
        /\ conn'[x] = IF x = r THEN "open" ELSE conn[x]
    BY <1>1, <1>14 DEF Accept, SyncAllowed
  <2>2. CASE x = r /\ session[x] = "greeted"
    <3>1. session'[x] = "up" /\ down'[x] = Sync(hello[x])
      BY <1>1, <1>14, <2>2 DEF Accept
    <3>2. QED
      BY <1>2, <1>3, <2>1, <2>2, <3>1, SyncContinues, ReplicatedKept
  <2>3. CASE ~ (x = r /\ session[x] = "greeted")
    <3>1. session'[x] = session[x] /\ down'[x] = down[x]
      BY <1>1, <1>14, <2>3 DEF Accept
    <3>2. QED
      BY <1>2, <1>3, <2>1, <3>1, ReplicatedKept
  <2>4. QED
    BY <2>2, <2>3
<1>15. ASSUME NEW r \in Replicas, AcceptFails(r)
       PROVE  Replicated(x)'
  <2>1. /\ UNCHANGED <<master, replica, conn, hello>>
        /\ session'[x] = IF x = r /\ session[x] = "greeted" THEN "none" ELSE session[x]
    BY <1>1, <1>15 DEF AcceptFails
  <2>2. CASE x = r /\ session[x] = "greeted" /\ SyncAllowed(hello[x])
    <3>1. PICK n \in 0 .. Len(Sync(hello[x])) :
            down'[x] = SubSeq(Sync(hello[x]), 1, n)
      BY <1>1, <1>15, <2>2 DEF AcceptFails
    <3>2. NoGap(published, cursor[x], down'[x])
      BY <2>2, <3>1, SyncContinues DEF SyncAllowed
    <3>3. QED
      BY <1>2, <1>3, <2>1, <2>2, <3>2, ReplicatedKept
  <2>3. CASE ~ (x = r /\ session[x] = "greeted" /\ SyncAllowed(hello[x]))
    <3>1. down'[x] = down[x]
      BY <1>1, <1>15, <2>3 DEF AcceptFails
    <3>2. QED
      BY <1>2, <1>3, <2>1, <3>1, ReplicatedKept
  <2>4. QED
    BY <2>2, <2>3
<1>16. ASSUME NEW r \in Replicas, Register(r)
       PROVE  Replicated(x)'
  BY <1>2, <1>3, <1>16, ReplicatedKept DEF Register
<1>17. ASSUME NEW r \in Replicas, RegisterFails(r)
       PROVE  Replicated(x)'
  BY <1>1, <1>2, <1>3, <1>17, ReplicatedKept DEF RegisterFails
<1>18. ASSUME NEW r \in Replicas, Deliver(r)
       PROVE  Replicated(x)'
  <2>1. CASE r = x
    BY <1>18, <2>1, DeliverKeeps
  <2>2. CASE r # x
    <3>1. /\ UNCHANGED <<published, nextId, conn, session, hello>>
          /\ down'[x] = down[x] /\ copy'[x] = copy[x] /\ cursor'[x] = cursor[x]
      BY <1>1, <1>18, <2>2 DEF Deliver
    <3>2. QED
      BY <3>1, <1>2 DEF Replicated
  <2>3. QED
    BY <2>1, <2>2
<1>19. ASSUME NEW r \in Replicas, DeliverFails(r)
       PROVE  Replicated(x)'
  BY <1>1, <1>2, <1>3, <1>19, ReplicatedKept DEF DeliverFails
<1>20. ASSUME NEW r \in Replicas, ReplicaHangsUp(r)
       PROVE  Replicated(x)'
  BY <1>2, <1>3, <1>20, ReplicatedKept DEF ReplicaHangsUp
<1>21. ASSUME NEW r \in Replicas, ReplicaCloseAll(r)
       PROVE  Replicated(x)'
  BY <1>1, <1>2, <1>3, <1>21, ReplicatedKept DEF ReplicaCloseAll
<1>22. ASSUME NEW r \in Replicas, NEW w \in Writes, Forward(r, w)
       PROVE  Replicated(x)'
  BY <1>2, <1>3, <1>22, ReplicatedKept DEF Forward
<1>23. ASSUME NEW r \in Replicas, Break(r)
       PROVE  Replicated(x)'
  BY <1>1, <1>2, <1>3, <1>23, ReplicatedKept DEF Break
<1>24. ASSUME NEW r \in Replicas, Lose(r)
       PROVE  Replicated(x)'
  <2>1. UNCHANGED <<master, replica, ends>>
    BY <1>24 DEF Lose
  <2>2. CASE down'[x] = down[x]
    BY <1>2, <1>3, <2>1, <2>2, ReplicatedKept
  <2>3. CASE down'[x] # down[x]
    <3>1. r = x /\ session[x] = "none" /\ down[x] # << >> /\ down'[x] = Front(down[x])
      BY <1>1, <1>24, <2>3 DEF Lose
    <3>2. /\ down[x] \in Seq(Events) /\ Len(down[x]) - 1 \in 0 .. Len(down[x])
          /\ down'[x] = SubSeq(down[x], 1, Len(down[x]) - 1)
      BY <1>1, <3>1 DEF Front
    <3>3. NoGap(published, cursor[x], down'[x])
      BY <1>2, <1>3, <3>2, NoGapCut
    <3>4. session'[x] = "none"
      BY <2>1, <3>1
    <3>5. QED
      BY <1>2, <1>3, <2>1, <3>3, <3>4, ReplicatedKept
  <2>4. QED
    BY <2>2, <2>3
<1>25. CASE UNCHANGED vars
  BY <1>2, <1>3, <1>25, ReplicatedKept DEF vars
<1>26. QED
  BY <1>4, <1>5, <1>6, <1>7, <1>8, <1>9, <1>10, <1>11, <1>12, <1>13, <1>14,
     <1>15, <1>16, <1>17, <1>18, <1>19, <1>20, <1>21, <1>22, <1>23, <1>24, <1>25
     DEF Next

(* The initial states.                                                     *)
LEMMA InvInit ==
  ASSUME Init
  PROVE  Inv
<1>1. NoId \in Ids /\ 1 \in 1 .. UwMax /\ << >> \in Seq(Events) /\ << >> \in Seq(Writes)
  BY UwMaxAssumption, IdFacts
<1>2. TypeOK
  BY <1>1 DEF Init, TypeOK, Stores
<1>3. Published
  <2>1. IsFiniteSet({})
    BY FS_EmptySet
  <2>2. History({}, 1)
    BY <2>1 DEF History
  <2>3. Stored({}, [f \in Triples |-> NoId])
    BY DEF Stored
  <2>4. QED
    BY <2>2, <2>3 DEF Init, Published
<1>4. ASSUME NEW r \in Replicas
      PROVE  Replicated(r)
  <2>1. CaughtUp({}, [f \in Triples |-> NoId], 1)
    BY DEF CaughtUp
  <2>2. NoGap({}, 1, << >>)
    BY NoGapEmpty
  <2>3. /\ published = {} /\ nextId = 1 /\ copy[r] = [f \in Triples |-> NoId]
        /\ cursor[r] = 1 /\ hello[r] = 0 /\ session[r] = "none" /\ down[r] = << >>
    BY DEF Init, NoId
  <2>4. QED
    BY <2>1, <2>2, <2>3 DEF Replicated
<1>5. QED
  BY <1>2, <1>3, <1>4 DEF Inv

(* The invariant is inductive.                                             *)
THEOREM ReplicationInvariant == Spec => []Inv
<1>1. Init => Inv
  BY InvInit
<1>2. Inv /\ [Next]_vars => Inv'
  <2>1. SUFFICES ASSUME Inv, [Next]_vars
                 PROVE  Inv'
    OBVIOUS
  <2>2. TypeOK' /\ Published'
    BY <2>1, TypeStep, PublishedStep
  <2>3. \A x \in Replicas : Replicated(x)'
    BY <2>1, ReplicatedStep
  <2>4. QED
    BY <2>2, <2>3 DEF Inv
<1>3. QED
  BY <1>1, <1>2, PTL DEF Spec

-----------------------------------------------------------------------------
(* What follows from it.                                                   *)

(* The variables keep their types: no identifier outgrows UW_MAX.          *)
THEOREM ReplicationTypes == Spec => []TypeOK
<1>1. Inv => TypeOK
  BY DEF Inv
<1>2. QED
  BY <1>1, ReplicationInvariant, PTL

(* facts_connection_sync never refuses a cursor, and facts_connection_apply*)
(* leaves a replica with facts that are all older than its cursor.         *)
THEOREM CursorStaysBehind == Spec => []CursorBehind
<1>1. ASSUME Inv
      PROVE  CursorBehind
  <2>1. ASSUME NEW r \in Replicas
        PROVE  /\ hello[r] <= cursor[r] /\ cursor[r] <= nextId
               /\ \A f \in Triples : copy[r][f] < cursor[r]
    <3>1. Replicated(r) /\ cursor[r] \in 1 .. UwMax /\ NoId = 0
      BY <1>1 DEF Inv, TypeOK, NoId
    <3>2. ASSUME NEW f \in Triples
          PROVE  copy[r][f] < cursor[r]
      <4>1. CASE copy[r][f] = NoId
        BY <3>1, <4>1
      <4>2. CASE copy[r][f] # NoId
        BY <3>1, <4>2 DEF Replicated, CaughtUp
      <4>3. QED
        BY <4>1, <4>2
    <3>3. QED
      BY <3>1, <3>2 DEF Replicated
  <2>2. QED
    BY <2>1 DEF CursorBehind
<1>2. Inv => CursorBehind
  BY <1>1
<1>3. QED
  BY <1>2, ReplicationInvariant, PTL

(* A replica holds nothing that facts_broadcast_add never sent: what a     *)
(* failed log left in the master's memory stays there.                     *)
THEOREM OnlyPublishedFacts == Spec => []NothingUnpublished
<1>1. Inv => NothingUnpublished
  BY DEF Inv, Replicated, CaughtUp, NothingUnpublished
<1>2. QED
  BY <1>1, ReplicationInvariant, PTL

(* What facts_connection_sync sends from the cursor of a replica brings it *)
(* to the facts of the master, wherever it was cut off.                    *)
THEOREM SyncFromCursor == Spec => []ResumesFromCursor
<1>1. ASSUME Inv
      PROVE  ResumesFromCursor
  <2>1. SUFFICES ASSUME ~ failed, NEW r \in Replicas
                 PROVE  Read(r, Sync(cursor[r])) = store
    BY DEF ResumesFromCursor
  <2>2. /\ nextId \in Nat /\ store \in Stores /\ copy[r] \in Stores
        /\ cursor[r] \in Nat /\ cursor[r] # NoId
    BY <1>1, IdFacts DEF Inv, TypeOK
  <2>3. /\ History(published, nextId) /\ Stored(published, store)
        /\ CaughtUp(published, copy[r], cursor[r])
    BY <1>1, <2>1 DEF Inv, Published, Replicated
  <2>4. Complete(published, cursor[r], Sync(cursor[r]))
    BY <1>1, <2>1, <2>2, SyncCompletes DEF Inv
  <2>5. QED
    BY <2>2, <2>3, <2>4, ReadCompletes
<1>2. Inv => ResumesFromCursor
  BY <1>1
<1>3. QED
  BY <1>2, ReplicationInvariant, PTL

(* What is on its way to a connected replica brings it to the facts of the *)
(* master: the synchronisation and the broadcasts after it lose nothing.   *)
THEOREM StreamIsComplete == Spec => []StreamCompletes
<1>1. ASSUME Inv
      PROVE  StreamCompletes
  <2>1. SUFFICES ASSUME ~ failed, NEW r \in Replicas, session[r] = "up"
                 PROVE  Read(r, down[r]) = store
    BY DEF StreamCompletes
  <2>2. /\ nextId \in Nat /\ store \in Stores /\ copy[r] \in Stores
        /\ cursor[r] \in Nat
    BY <1>1, IdFacts DEF Inv, TypeOK
  <2>3. /\ History(published, nextId) /\ Stored(published, store)
        /\ CaughtUp(published, copy[r], cursor[r])
        /\ Complete(published, cursor[r], down[r])
    BY <1>1, <2>1 DEF Inv, Published, Replicated
  <2>4. QED
    BY <2>2, <2>3, ReadCompletes
<1>2. Inv => StreamCompletes
  BY <1>1
<1>3. QED
  BY <1>2, ReplicationInvariant, PTL

=============================================================================
