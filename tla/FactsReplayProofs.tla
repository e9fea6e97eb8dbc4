-------------------------- MODULE FactsReplayProofs --------------------------
(***************************************************************************)
(* Proofs about FactsReplay.tla, for every set of facts, every UW_MAX and  *)
(* every depth of transactions: what the log file and the replicas are     *)
(* given is in order and replays to the committed facts.                   *)
(*                                                                         *)
(* The invariant of FactsProofs.tla says that the undo logs lead back from *)
(* the store.  ReplayInv adds that what is still to be published leads     *)
(* forward to it, and that identifiers grow from the records written to    *)
(* the actions still to be published and on to next_id.                    *)
(***************************************************************************)
EXTENDS FactsReplay, FactsProofs, FiniteSetTheorems, WellFoundedInduction

(* The identifiers of a sequence of events or actions. *)
IdsIn(q) == {q[i].id : i \in 1 .. Len(q)}

Before(S, T) == \A x \in S, y \in T : x < y

Ascending(q) == \A i, j \in 1 .. Len(q) : i < j => q[i].id < q[j].id

Descending(q) == \A i, j \in 1 .. Len(q) : i < j => q[i].id > q[j].id

(* Identifiers of actions that are still to be published, and the next.    *)
IdsAhead(p, t, n) ==
  IdsIn(p) \cup (UNION {IdsIn(t[i].log) : i \in 1 .. Len(t)}) \cup {n}

(* Records or events, all of them older than the identifiers in S. *)
InOrder(q, S) == Ascending(q) /\ Before(IdsIn(q), S)

(* The logs of a stack of transactions, newest action first. *)
StackNumbered(t, n) ==
  \A i \in 1 .. Len(t) :
    /\ Descending(t[i].log) /\ Before(IdsIn(t[i].log), {n})
    /\ \A j \in 1 .. Len(t) :
         i < j => Before(IdsIn(t[j].log), IdsIn(t[i].log))

(* Identifiers grow from what is written to what is pending to next_id. *)
Numbered ==
  /\ InOrder(disk, IdsAhead(pub, txns, nextId))
  /\ InOrder(sent, IdsAhead(pub, txns, nextId))
  /\ InOrder(pub, {nextId})
  /\ StackNumbered(txns, nextId)

(* The hooks have seen the records of the file, and the replicas no other. *)
Announced ==
  HasLog =>
    /\ ~failed => disk = hooked
    /\ failed => disk = hooked \/ \E e \in Events : disk = Append(hooked, e)
    /\ ToSet(sent) \subseteq ToSet(hooked)

(* What is still to be published leads forward to the store. *)
LeadsForth(q, s) ==
  /\ q # <<>> => s = After(q[Len(q)])
  /\ \A k \in 1 .. Len(q) - 1 : q[k + 1].before = After(q[k])
  /\ \A k \in 1 .. Len(q) : WellLogged(q[k])

(* The replicas want every action of a database that counts its servers. *)
Wanted(q) == ServerCount => \A k \in 1 .. Len(q) : q[k].broadcast

Pending ==
  /\ LeadsForth(pub, store) /\ Wanted(pub)
  /\ \A i \in 1 .. Len(txns) : Wanted(txns[i].log)

(* Log and replicas replay to the facts committed so far. *)
Replayed ==
  ~failed =>
    /\ HasLog => Replay(disk) = Published
    /\ Connected /\ ServerCount => Replay(sent) = Published

ReplayInv == Numbered /\ Announced /\ Pending /\ Replayed

-----------------------------------------------------------------------------
(* Replaying events.                                                       *)

(* Every set of natural numbers that is not empty has a least one.         *)
LEMMA Least ==
  ASSUME NEW S \in SUBSET Nat, S # {}
  PROVE  \E n \in S : \A m \in S : n <= m
<1> DEFINE R == OpToRel(<, Nat)
<1>1. IsWellFoundedOn(R, Nat)
  BY NatLessThanWellFounded
<1>2. \A x, y \in Nat : x < y => <<x, y>> \in R
  BY DEF OpToRel
<1> HIDE DEF R
<1>3. PICK x \in S : \A y \in S : ~ (<<y, x>> \in R)
  BY <1>1, WFMin
<1>4. ASSUME NEW m \in S
      PROVE  x <= m
  <2>1. ~ (m < x)
    BY <1>2, <1>3
  <2>2. QED
    BY <2>1
<1>5. QED
  BY <1>4

(* Apply keeps to the facts and identifiers.                               *)
LEMMA ApplyType ==
  ASSUME NEW s \in Stores, NEW e \in Events
  PROVE  Apply(s, e) \in Stores
<1>1. NoId \in Ids /\ e.id \in Ids /\ e.fact \in Triples
  BY UwMaxAssumption DEF NoId, Ids, Events
<1>2. QED
  BY <1>1 DEF Apply, Stores

(* The stores a replay goes through. *)
Trace(g, s, q) ==
  /\ g \in [0 .. Len(q) -> Stores] /\ g[0] = s
  /\ \A i \in 1 .. Len(q) : g[i] = Apply(g[i - 1], q[i])

(* They are determined by the events.                                      *)
LEMMA TraceIsUnique ==
  ASSUME NEW s, NEW q \in Seq(Events), NEW p \in Seq(Events),
         Len(p) <= Len(q), \A i \in 1 .. Len(p) : p[i] = q[i],
         NEW g, Trace(g, s, p), NEW h, Trace(h, s, q)
  PROVE  \A i \in 0 .. Len(p) : g[i] = h[i]
<1> DEFINE Bad == {i \in 0 .. Len(p) : g[i] # h[i]}
<1>1. SUFFICES ASSUME Bad # {}
               PROVE  FALSE
  OBVIOUS
<1>2. Len(p) \in Nat /\ Len(q) \in Nat /\ Bad \in SUBSET Nat
  OBVIOUS
<1>3. PICK k \in Bad : \A m \in Bad : k <= m
  BY <1>1, <1>2, Least
<1>4. k # 0
  BY <1>3 DEF Trace
<1>5. k \in 1 .. Len(p) /\ k \in 1 .. Len(q) /\ k - 1 \in 0 .. Len(p)
  BY <1>2, <1>3, <1>4
<1>6. k - 1 \notin Bad
  BY <1>2, <1>3, <1>5
<1>7. g[k - 1] = h[k - 1]
  BY <1>5, <1>6
<1>8. g[k] = Apply(g[k - 1], p[k]) /\ h[k] = Apply(h[k - 1], q[k])
  BY <1>5 DEF Trace
<1>9. QED
  BY <1>3, <1>5, <1>7, <1>8

(* Every sequence of events has them, and a replay ends with the last.     *)
LEMMA ReplayTrace ==
  ASSUME NEW s \in Stores, NEW q \in Seq(Events)
  PROVE  \E g : Trace(g, s, q) /\ ReplayOn(s, q) = g[Len(q)]
<1> DEFINE n == Len(q)
           Ok(g, k) == /\ g \in [0 .. k -> Stores] /\ g[0] = s
                       /\ \A i \in 1 .. k : g[i] = Apply(g[i - 1], q[i])
<1>1. n \in Nat /\ \A i \in 1 .. n : q[i] \in Events
  OBVIOUS
<1>2. \A r \in Stores : \A i \in 1 .. n : Apply(r, q[i]) \in Stores
  BY <1>1, ApplyType
<1> HIDE DEF n
<1>3. Ok([i \in 0 .. 0 |-> s], 0)
  OBVIOUS
<1>4. ASSUME NEW k \in 1 .. n, NEW g, Ok(g, k - 1)
      PROVE  \E h : Ok(h, k)
  <2> DEFINE h == [i \in 0 .. k |-> IF i = k THEN Apply(g[k - 1], q[k]) ELSE g[i]]
  <2>1. h \in [0 .. k -> Stores] /\ h[0] = s
    BY <1>1, <1>2, <1>4
  <2>2. ASSUME NEW i \in 1 .. k
        PROVE  h[i] = Apply(h[i - 1], q[i])
    <3>1. h[i - 1] = g[i - 1]
      BY <1>1
    <3>2. CASE i = k
      BY <3>1, <3>2, <1>1
    <3>3. CASE i # k
      <4>1. i \in 1 .. k - 1 /\ h[i] = g[i]
        BY <3>3, <1>1
      <4>2. QED
        BY <4>1, <3>1, <1>4
    <3>4. QED
      BY <3>2, <3>3
  <2>3. QED
    BY <2>1, <2>2
<1>5. \A k \in 0 .. n : \E g : Ok(g, k)
  <2> DEFINE Has(k) == \E g : Ok(g, k)
             Bad == {k \in 0 .. n : ~ Has(k)}
  <2>1. Has(0)
    BY <1>3
  <2>2. \A k \in 1 .. n : Has(k - 1) => Has(k)
    BY <1>4
  <2> HIDE DEF Has
  <2>3. SUFFICES ASSUME Bad # {}
                 PROVE  FALSE
    BY DEF Has
  <2>4. Bad \in SUBSET Nat
    BY <1>1
  <2>5. PICK k \in Bad : \A m \in Bad : k <= m
    BY <2>3, <2>4, Least
  <2>6. k \in 1 .. n
    BY <2>1, <2>5, <1>1
  <2>7. k - 1 \in 0 .. n /\ k - 1 \notin Bad
    BY <2>5, <2>6, <1>1
  <2>8. QED
    BY <2>2, <2>5, <2>6, <2>7
<1>6. PICK g : Ok(g, n)
  <2>1. n \in 0 .. n
    BY <1>1
  <2> HIDE DEF Ok
  <2>2. QED
    BY <1>5, <2>1
<1> DEFINE Replays(h) ==
             h = [i \in 0 .. n |-> IF i = 0 THEN s ELSE Apply(h[i - 1], q[i])]
           replay == CHOOSE h : Replays(h)
<1>7. Replays(g)
  BY <1>1, <1>6
<1>8. Replays(replay)
  <2> HIDE DEF Replays
  <2>1. QED
    BY <1>7
<1>9. ReplayOn(s, q) = replay[n]
  BY DEF ReplayOn, n
<1> HIDE DEF replay
<1>10. DOMAIN replay = 0 .. n /\ replay[0] = s
  BY <1>1, <1>8
<1>11. \A i \in 1 .. n : replay[i] = Apply(replay[i - 1], q[i])
  BY <1>1, <1>8
<1> HIDE DEF Replays
<1>12. \A i \in 0 .. n : replay[i] \in Stores
  <2> DEFINE Out == {i \in 0 .. n : replay[i] \notin Stores}
  <2>1. SUFFICES ASSUME Out # {}
                 PROVE  FALSE
    OBVIOUS
  <2>2. Out \in SUBSET Nat
    BY <1>1
  <2>3. PICK k \in Out : \A m \in Out : k <= m
    BY <2>1, <2>2, Least
  <2>4. k \in 1 .. n
    BY <2>3, <1>1, <1>10
  <2>5. k - 1 \in 0 .. n /\ replay[k - 1] \in Stores
    BY <2>3, <2>4, <1>1
  <2>6. QED
    BY <2>3, <2>4, <2>5, <1>2, <1>11
<1>13. replay \in [0 .. n -> Stores]
  <2>1. replay = [i \in 0 .. n |-> replay[i]]
    BY <1>8 DEF Replays
  <2>2. QED
    BY <2>1, <1>12
<1>14. QED
  BY <1>9, <1>10, <1>11, <1>13 DEF n, Trace

(* One more event is applied to what the others replay to.                 *)
LEMMA ReplayAppend ==
  ASSUME NEW s \in Stores, NEW q \in Seq(Events), NEW e \in Events
  PROVE  ReplayOn(s, Append(q, e)) = Apply(ReplayOn(s, q), e)
<1> DEFINE p == Append(q, e)
<1>1. /\ p \in Seq(Events) /\ Len(p) = Len(q) + 1 /\ Len(q) \in Nat
      /\ p[Len(q) + 1] = e /\ \A i \in 1 .. Len(q) : p[i] = q[i]
  OBVIOUS
<1> HIDE DEF p
<1>2. PICK g : Trace(g, s, q) /\ ReplayOn(s, q) = g[Len(q)]
  BY ReplayTrace
<1>3. PICK h : Trace(h, s, p) /\ ReplayOn(s, p) = h[Len(p)]
  BY <1>1, ReplayTrace
<1>4. Len(q) <= Len(p) /\ \A i \in 1 .. Len(q) : q[i] = p[i]
  BY <1>1
<1>5. \A i \in 0 .. Len(q) : g[i] = h[i]
  BY <1>1, <1>2, <1>3, <1>4, TraceIsUnique
<1>6. Len(q) + 1 \in 1 .. Len(p) /\ Len(q) \in 0 .. Len(q) /\ (Len(q) + 1) - 1 = Len(q)
  BY <1>1
<1>7. h[Len(q) + 1] = Apply(h[Len(q)], e)
  BY <1>1, <1>3, <1>6 DEF Trace
<1>8. QED
  BY <1>1, <1>2, <1>3, <1>5, <1>6, <1>7 DEF p

(* No event changes nothing.                                               *)
LEMMA ReplayNothing ==
  ASSUME NEW s \in Stores
  PROVE  ReplayOn(s, << >>) = s
<1>1. << >> \in Seq(Events) /\ Len(<< >>) = 0
  OBVIOUS
<1>2. PICK g : Trace(g, s, << >>) /\ ReplayOn(s, << >>) = g[Len(<< >>)]
  BY <1>1, ReplayTrace
<1>3. QED
  BY <1>1, <1>2 DEF Trace

-----------------------------------------------------------------------------
(* Identifiers in order.                                                   *)

(* A sequence of records with identifiers that are numbers.                *)
Records(q) == /\ Len(q) \in Nat
              /\ \A i \in 1 .. Len(q) : q[i].id \in Nat

(* Events and actions have such identifiers.                               *)
LEMMA RecordTypes ==
  /\ \A q \in Seq(Events) : Records(q)
  /\ \A q \in Seq(Actions) : Records(q)
<1>1. Ids \subseteq Nat
  BY UwMaxAssumption DEF Ids
<1>2. ASSUME NEW q \in Seq(Events) PROVE Records(q)
  <2>1. Len(q) \in Nat /\ \A i \in 1 .. Len(q) : q[i] \in Events
    OBVIOUS
  <2>2. QED
    BY <1>1, <2>1 DEF Events, Records
<1>3. ASSUME NEW q \in Seq(Actions) PROVE Records(q)
  <2>1. Len(q) \in Nat /\ \A i \in 1 .. Len(q) : q[i] \in Actions
    OBVIOUS
  <2>2. QED
    BY <1>1, <2>1 DEF Actions, Records
<1>4. QED
  BY <1>2, <1>3

(* The identifiers of what is pending are numbers.                         *)
LEMMA AheadTypes ==
  ASSUME NEW p \in Seq(Actions), NEW t \in Seq(Transactions), NEW n \in Nat
  PROVE  IdsAhead(p, t, n) \subseteq Nat
<1>1. IdsIn(p) \subseteq Nat
  BY RecordTypes DEF IdsIn, Records
<1>2. ASSUME NEW i \in 1 .. Len(t) PROVE IdsIn(t[i].log) \subseteq Nat
  BY LogTypes, RecordTypes DEF IdsIn, Records
<1>3. ASSUME NEW x \in IdsAhead(p, t, n) PROVE x \in Nat
  <2>1. CASE x \in UNION {IdsIn(t[i].log) : i \in 1 .. Len(t)}
    <3>1. PICK i \in 1 .. Len(t) : x \in IdsIn(t[i].log)
      BY <2>1
    <3>2. QED
      BY <1>2, <3>1
  <2>2. CASE x \in IdsIn(p) \/ x = n
    BY <1>1, <2>2
  <2>3. QED
    BY <1>3, <2>1, <2>2, Zenon DEF IdsAhead
<1>4. QED
  BY <1>3

(* What is written stays older than what is pending, as long as nothing    *)
(* older becomes pending.                                                  *)
LEMMA InOrderKept ==
  ASSUME NEW q, Records(q), NEW S \in SUBSET Nat, NEW T \in SUBSET Nat,
         InOrder(q, S), \A y \in T : \E x \in S : x <= y
  PROVE  InOrder(q, T)
<1>1. ASSUME NEW x \in IdsIn(q), NEW y \in T PROVE x < y
  <2>1. x \in Nat
    BY DEF IdsIn, Records
  <2>2. PICK z \in S : z <= y
    OBVIOUS
  <2>3. x < z
    BY <2>2 DEF InOrder, Before
  <2>4. QED
    BY <2>1, <2>2, <2>3
<1>2. QED
  BY <1>1 DEF InOrder, Before

(* The oldest of what is pending is written next.                          *)
LEMMA InOrderAppend ==
  ASSUME NEW q \in Seq(Events), NEW e \in Events,
         NEW S \in SUBSET Nat, NEW T \in SUBSET Nat,
         InOrder(q, S), e.id \in S, \A y \in T : e.id < y
  PROVE  InOrder(Append(q, e), T)
<1> DEFINE p == Append(q, e)
<1>1. /\ p \in Seq(Events) /\ Len(p) = Len(q) + 1 /\ Len(q) \in Nat
      /\ p[Len(q) + 1] = e /\ \A i \in 1 .. Len(q) : p[i] = q[i]
  OBVIOUS
<1>2. Records(q) /\ e.id \in Nat
  BY RecordTypes
<1> HIDE DEF p
<1>3. \A i \in 1 .. Len(q) : q[i].id < e.id
  BY DEF InOrder, Before, IdsIn
<1>4. ASSUME NEW i \in 1 .. Len(p), NEW j \in 1 .. Len(p), i < j
      PROVE  p[i].id < p[j].id
  <2>1. i \in 1 .. Len(q) /\ (j = Len(q) + 1 \/ j \in 1 .. Len(q))
    BY <1>1, <1>4
  <2>2. CASE j = Len(q) + 1
    BY <1>1, <1>3, <2>1, <2>2
  <2>3. CASE j \in 1 .. Len(q)
    <3>1. q[i].id < q[j].id
      BY <2>1, <2>3, <1>4 DEF InOrder, Ascending
    <3>2. QED
      BY <1>1, <2>1, <2>3, <3>1
  <2>4. QED
    BY <2>1, <2>2, <2>3
<1>5. ASSUME NEW i \in 1 .. Len(p), NEW y \in T PROVE p[i].id < y
  <2>1. CASE i \in 1 .. Len(q)
    <3>1. p[i].id \in Nat /\ p[i].id < e.id /\ e.id < y /\ y \in Nat
      BY <1>1, <1>2, <1>3, <2>1 DEF Records
    <3>2. QED
      BY <1>2, <3>1
  <2>2. CASE i = Len(q) + 1
    BY <1>1, <2>2
  <2>3. QED
    BY <1>1, <2>1, <2>2
<1>6. QED
  BY <1>4, <1>5 DEF InOrder, Ascending, Before, IdsIn, p

(* An identifier that is given out is above all that were.                 *)
LEMMA StackGrows ==
  ASSUME NEW t \in Seq(Transactions), NEW n \in Nat, NEW m \in Nat, n <= m,
         StackNumbered(t, n)
  PROVE  StackNumbered(t, m)
<1>1. ASSUME NEW i \in 1 .. Len(t) PROVE Before(IdsIn(t[i].log), {m})
  <2>1. Records(t[i].log)
    BY LogTypes, RecordTypes
  <2>2. Before(IdsIn(t[i].log), {n})
    BY DEF StackNumbered
  <2>3. ASSUME NEW k \in 1 .. Len(t[i].log) PROVE t[i].log[k].id < m
    <3>1. t[i].log[k].id \in Nat /\ t[i].log[k].id < n
      BY <2>1, <2>2 DEF Records, Before, IdsIn
    <3>2. QED
      BY <3>1
  <2>4. QED
    BY <2>3 DEF Before, IdsIn
<1>2. QED
  BY <1>1 DEF StackNumbered

(* The log of the innermost transaction is replaced.                       *)
LEMMA StackLog ==
  ASSUME NEW t \in Seq(Transactions), t # <<>>, NEW l \in Seq(Actions),
         NEW n \in Nat, StackNumbered(t, n), Descending(l),
         Before(IdsIn(l), {n}),
         \A j \in 2 .. Len(t) : Before(IdsIn(t[j].log), IdsIn(l))
  PROVE  StackNumbered([t EXCEPT ![1].log = l], n)
<1> DEFINE u == [t EXCEPT ![1].log = l]
<1>1. /\ u \in Seq(Transactions) /\ Len(u) = Len(t) /\ u[1].log = l
      /\ \A i \in 2 .. Len(t) : u[i] = t[i]
  BY LogReplaced
<1>2. Len(t) \in Nat
  OBVIOUS
<1> HIDE DEF u
<1>3. ASSUME NEW i \in 1 .. Len(t)
      PROVE  /\ Descending(u[i].log) /\ Before(IdsIn(u[i].log), {n})
             /\ \A j \in 1 .. Len(t) :
                  i < j => Before(IdsIn(u[j].log), IdsIn(u[i].log))
  <2>1. CASE i = 1
    <3>1. \A j \in 1 .. Len(t) : i < j => j \in 2 .. Len(t)
      BY <1>2, <2>1
    <3>2. QED
      BY <1>1, <2>1, <3>1
  <2>2. CASE i # 1
    <3>1. i \in 2 .. Len(t) /\ \A j \in 1 .. Len(t) : i < j => j \in 2 .. Len(t)
      BY <1>2, <2>2
    <3>2. QED
      BY <1>1, <3>1 DEF StackNumbered
  <2>3. QED
    BY <2>1, <2>2
<1>4. QED
  BY <1>1, <1>3 DEF StackNumbered, u

(* A transaction opens with an empty log.                                  *)
LEMMA StackOpen ==
  ASSUME NEW t \in Seq(Transactions), NEW u \in Seq(Transactions),
         Len(u) = Len(t) + 1, u[1].log = <<>>,
         \A i \in 1 .. Len(t) : u[i + 1] = t[i],
         NEW n \in Nat, StackNumbered(t, n)
  PROVE  StackNumbered(u, n)
<1>1. IdsIn(<<>>) = {} /\ Descending(<<>>) /\ Len(t) \in Nat
  BY DEF IdsIn, Descending
<1>2. \A i \in 1 .. Len(u) : i # 1 => i - 1 \in 1 .. Len(t) /\ u[i] = t[i - 1]
  <2>1. ASSUME NEW i \in 1 .. Len(u), i # 1
        PROVE  i - 1 \in 1 .. Len(t) /\ u[i] = t[i - 1]
    <3>1. i - 1 \in 1 .. Len(t) /\ (i - 1) + 1 = i
      BY <1>1, <2>1
    <3>2. QED
      BY <3>1
  <2>2. QED
    BY <2>1
<1>3. ASSUME NEW i \in 1 .. Len(u)
      PROVE  /\ Descending(u[i].log) /\ Before(IdsIn(u[i].log), {n})
             /\ \A j \in 1 .. Len(u) :
                  i < j => Before(IdsIn(u[j].log), IdsIn(u[i].log))
  <2>1. CASE i = 1
    BY <1>1, <2>1 DEF Before
  <2>2. CASE i # 1
    <3>1. \A j \in 1 .. Len(u) : i < j => j # 1 /\ i - 1 < j - 1
      BY <1>1, <2>2
    <3>2. QED
      BY <1>2, <2>2, <3>1 DEF StackNumbered
  <2>3. QED
    BY <2>1, <2>2
<1>4. QED
  BY <1>3 DEF StackNumbered

(* The innermost transaction is closed.                                    *)
LEMMA StackClose ==
  ASSUME NEW t \in Seq(Transactions), t # <<>>, NEW n \in Nat,
         StackNumbered(t, n)
  PROVE  StackNumbered(Tail(t), n)
<1>1. /\ Len(t) \in Nat \ {0} /\ Len(Tail(t)) = Len(t) - 1
      /\ \A k \in 1 .. Len(t) - 1 : Tail(t)[k] = t[k + 1]
  BY TailFacts
<1>2. ASSUME NEW i \in 1 .. Len(Tail(t))
      PROVE  /\ i + 1 \in 1 .. Len(t) /\ Tail(t)[i] = t[i + 1]
             /\ \A j \in 1 .. Len(Tail(t)) : i < j => i + 1 < j + 1
  BY <1>1
<1>3. QED
  BY <1>2 DEF StackNumbered

(* An action is logged under the next identifier.                          *)
LEMMA StackPush ==
  ASSUME NEW t \in Seq(Transactions), t # <<>>, NEW n \in Nat,
         StackNumbered(t, n), NEW a \in Actions, a.id = n
  PROVE  StackNumbered([t EXCEPT ![1].log = <<a>> \o t[1].log], n + 1)
<1> DEFINE l == <<a>> \o t[1].log
<1>1. 1 \in 1 .. Len(t) /\ Len(t) \in Nat
  OBVIOUS
<1>2. t[1].log \in Seq(Actions) /\ <<a>> \in Seq(Actions)
  BY <1>1, LogTypes
<1>3. /\ l \in Seq(Actions) /\ Len(l) = Len(t[1].log) + 1 /\ l[1] = a
      /\ Len(t[1].log) \in Nat
      /\ \A k \in 2 .. Len(l) : k - 1 \in 1 .. Len(t[1].log) /\ l[k] = t[1].log[k - 1]
  BY <1>2
<1> HIDE DEF l
<1>4. StackNumbered(t, n + 1)
  BY StackGrows
<1>5. \A k \in 1 .. Len(t[1].log) : t[1].log[k].id < n
  BY <1>1 DEF StackNumbered, Before, IdsIn
<1>6. Records(t[1].log) /\ Records(l)
  BY <1>2, <1>3, RecordTypes
<1>7. Descending(l)
  <2>1. ASSUME NEW i \in 1 .. Len(l), NEW j \in 1 .. Len(l), i < j
        PROVE  l[i].id > l[j].id
    <3>1. j \in 2 .. Len(l) /\ j - 1 \in 1 .. Len(t[1].log)
          /\ l[j] = t[1].log[j - 1]
      BY <1>3, <2>1
    <3>2. CASE i = 1
      BY <1>3, <1>5, <3>1, <3>2
    <3>3. CASE i # 1
      <4>1. i \in 2 .. Len(l) /\ i - 1 < j - 1
        BY <1>3, <2>1, <3>3
      <4>2. QED
        BY <1>1, <1>3, <3>1, <4>1 DEF StackNumbered, Descending
    <3>4. QED
      BY <3>2, <3>3
  <2>2. QED
    BY <2>1 DEF Descending
<1>8. Before(IdsIn(l), {n + 1})
  <2>1. ASSUME NEW k \in 1 .. Len(l) PROVE l[k].id < n + 1
    <3>1. CASE k = 1
      BY <1>3, <3>1
    <3>2. CASE k # 1
      <4>1. k \in 2 .. Len(l)
        BY <1>3, <3>2
      <4>2. l[k].id < n /\ l[k].id \in Nat
        BY <1>3, <1>5, <1>6, <4>1 DEF Records
      <4>3. QED
        BY <4>2
    <3>3. QED
      BY <3>1, <3>2
  <2>2. QED
    BY <2>1 DEF Before, IdsIn
<1>9. ASSUME NEW j \in 2 .. Len(t) PROVE Before(IdsIn(t[j].log), IdsIn(l))
  <2>1. j \in 1 .. Len(t) /\ 1 < j
    BY <1>1
  <2>2. /\ Before(IdsIn(t[j].log), {n})
        /\ Before(IdsIn(t[j].log), IdsIn(t[1].log))
    BY <1>1, <2>1 DEF StackNumbered
  <2>3. ASSUME NEW k \in 1 .. Len(l), NEW x \in IdsIn(t[j].log)
        PROVE  x < l[k].id
    <3>1. CASE k = 1
      BY <1>3, <2>2, <3>1 DEF Before
    <3>2. CASE k # 1
      <4>1. k \in 2 .. Len(l)
        BY <1>3, <3>2
      <4>2. l[k].id \in IdsIn(t[1].log)
        BY <1>3, <4>1 DEF IdsIn
      <4>3. QED
        BY <2>2, <4>2 DEF Before
    <3>3. QED
      BY <3>1, <3>2
  <2>4. QED
    BY <2>3 DEF Before, IdsIn
<1>10. n + 1 \in Nat
  OBVIOUS
<1>11. QED
  BY <1>3, <1>4, <1>7, <1>8, <1>9, <1>10, StackLog DEF l

(* The newest action of the innermost transaction is undone.               *)
LEMMA StackPop ==
  ASSUME NEW t \in Seq(Transactions), t # <<>>, NEW n \in Nat,
         StackNumbered(t, n), t[1].log # <<>>
  PROVE  StackNumbered([t EXCEPT ![1].log = Tail(t[1].log)], n)
<1> DEFINE l == Tail(t[1].log)
<1>1. 1 \in 1 .. Len(t) /\ Len(t) \in Nat
  OBVIOUS
<1>2. t[1].log \in Seq(Actions)
  BY <1>1, LogTypes
<1>3. /\ l \in Seq(Actions) /\ Len(l) = Len(t[1].log) - 1
      /\ Len(t[1].log) \in Nat \ {0}
      /\ \A k \in 1 .. Len(t[1].log) - 1 : l[k] = t[1].log[k + 1]
  BY <1>2, TailFacts
<1> HIDE DEF l
<1>4. ASSUME NEW k \in 1 .. Len(l)
      PROVE  /\ k + 1 \in 1 .. Len(t[1].log) /\ l[k] = t[1].log[k + 1]
             /\ \A j \in 1 .. Len(l) : k < j => k + 1 < j + 1
  BY <1>3
<1>5. Descending(t[1].log) /\ Before(IdsIn(t[1].log), {n})
  BY <1>1 DEF StackNumbered
<1>6. IdsIn(l) \subseteq IdsIn(t[1].log)
  BY <1>4 DEF IdsIn
<1>7. Descending(l)
  BY <1>4, <1>5 DEF Descending
<1>8. Before(IdsIn(l), {n})
  BY <1>5, <1>6 DEF Before
<1>9. ASSUME NEW j \in 2 .. Len(t) PROVE Before(IdsIn(t[j].log), IdsIn(l))
  <2>1. j \in 1 .. Len(t) /\ 1 < j
    BY <1>1
  <2>2. Before(IdsIn(t[j].log), IdsIn(t[1].log))
    BY <1>1, <2>1 DEF StackNumbered
  <2>3. QED
    BY <1>6, <2>2 DEF Before
<1>10. QED
  BY <1>3, <1>7, <1>8, <1>9, StackLog DEF l

(* Reading newest first what was written oldest first, and the reverse.    *)
LEMMA ReverseFacts ==
  ASSUME NEW q \in Seq(Actions)
  PROVE  /\ Reverse(q) \in Seq(Actions) /\ Len(Reverse(q)) = Len(q)
         /\ Len(q) \in Nat
         /\ \A k \in 1 .. Len(q) :
              /\ (Len(q) - k) + 1 \in 1 .. Len(q)
              /\ Reverse(q)[k] = q[(Len(q) - k) + 1]
<1>1. Len(q) \in Nat /\ \A k \in 1 .. Len(q) : q[k] \in Actions
  OBVIOUS
<1>2. \A k \in 1 .. Len(q) : (Len(q) - k) + 1 \in 1 .. Len(q)
  BY <1>1
<1>3. Reverse(q) = [k \in 1 .. Len(q) |-> q[(Len(q) - k) + 1]]
  BY DEF Reverse
<1>4. \A k \in 1 .. Len(q) : q[(Len(q) - k) + 1] \in Actions
  BY <1>1, <1>2
<1>5. Reverse(q) \in Seq(Actions) /\ Len(Reverse(q)) = Len(q)
  BY <1>1, <1>3, <1>4
<1>6. QED
  BY <1>1, <1>2, <1>3, <1>5

(* The log of an outermost transaction is published oldest first.          *)
LEMMA ReverseInOrder ==
  ASSUME NEW q \in Seq(Actions), NEW n \in Nat,
         Descending(q), Before(IdsIn(q), {n})
  PROVE  InOrder(Reverse(q), {n}) /\ IdsIn(Reverse(q)) \subseteq IdsIn(q)
<1> DEFINE p == Reverse(q)
           at(k) == (Len(q) - k) + 1
<1>1. /\ Len(p) = Len(q) /\ Len(q) \in Nat
      /\ \A k \in 1 .. Len(q) : at(k) \in 1 .. Len(q) /\ p[k] = q[at(k)]
  BY ReverseFacts
<1>2. \A i, j \in 1 .. Len(q) : i < j => at(j) < at(i)
  BY <1>1
<1> HIDE DEF p, at
<1>3. Records(q)
  BY RecordTypes
<1>4. Ascending(p)
  <2>1. ASSUME NEW i \in 1 .. Len(p), NEW j \in 1 .. Len(p), i < j
        PROVE  p[i].id < p[j].id
    <3>1. /\ at(i) \in 1 .. Len(q) /\ at(j) \in 1 .. Len(q) /\ at(j) < at(i)
          /\ p[i] = q[at(i)] /\ p[j] = q[at(j)]
      BY <1>1, <1>2, <2>1
    <3>2. q[at(j)].id > q[at(i)].id
      BY <3>1 DEF Descending
    <3>3. QED
      BY <1>3, <3>1, <3>2 DEF Records
  <2>2. QED
    BY <2>1 DEF Ascending
<1>5. IdsIn(p) \subseteq IdsIn(q)
  BY <1>1 DEF IdsIn
<1>6. QED
  BY <1>4, <1>5 DEF InOrder, Before, p

(* A nested transaction ends: its actions are newer than those it joins.   *)
LEMMA StackMerge ==
  ASSUME NEW t \in Seq(Transactions), Len(t) > 1, NEW n \in Nat,
         StackNumbered(t, n)
  PROVE  LET u == [Tail(t) EXCEPT ![1].log = t[1].log \o t[2].log] IN
         /\ StackNumbered(u, n)
         /\ \A i \in 1 .. Len(u) :
              \A x \in IdsIn(u[i].log) : \E j \in 1 .. Len(t) : x \in IdsIn(t[j].log)
         /\ u \in Seq(Transactions) /\ Len(u) = Len(t) - 1
         /\ \A i \in 1 .. Len(u) : u[i].base = t[i + 1].base
<1> DEFINE r == Tail(t)
           l == t[1].log \o t[2].log
           u == [r EXCEPT ![1].log = l]
<1>1. /\ Len(t) \in Nat \ {0, 1} /\ t # <<>>
      /\ 1 \in 1 .. Len(t) /\ 2 \in 1 .. Len(t)
  <2>1. Len(t) \in Nat /\ (t = <<>> => Len(t) = 0) /\ Len(t) > 1
    OBVIOUS
  <2> DEFINE n0 == Len(t)
  <2>2. n0 \in Nat \ {0, 1} /\ 1 \in 1 .. n0 /\ 2 \in 1 .. n0
    <3>1. n0 \in Nat /\ n0 > 1
      BY <2>1
    <3> HIDE DEF n0
    <3>2. QED
      BY <3>1
  <2>3. t # <<>>
    BY <2>1
  <2>4. QED
    BY <2>2, <2>3
<1>2. /\ r \in Seq(Transactions) /\ Len(r) = Len(t) - 1 /\ r # <<>>
      /\ \A k \in 1 .. Len(t) - 1 : r[k] = t[k + 1]
  BY <1>1, TailFacts
<1>3. t[1].log \in Seq(Actions) /\ t[2].log \in Seq(Actions)
  BY <1>1, LogTypes
<1> HIDE DEF r
<1>4. /\ l \in Seq(Actions) /\ Len(l) = Len(t[1].log) + Len(t[2].log)
      /\ \A k \in 1 .. Len(t[1].log) : l[k] = t[1].log[k]
      /\ \A k \in 1 .. Len(t[2].log) : l[Len(t[1].log) + k] = t[2].log[k]
      /\ Len(t[1].log) \in Nat /\ Len(t[2].log) \in Nat
  <2>1. Len(t[1].log) \in Nat /\ Len(t[2].log) \in Nat
    BY <1>3
  <2> DEFINE p == t[1].log
             q == t[2].log
  <2>2. p \in Seq(Actions) /\ q \in Seq(Actions)
    BY <1>3
  <2> HIDE DEF p, q
  <2>3. /\ p \o q \in Seq(Actions) /\ Len(p \o q) = Len(p) + Len(q)
        /\ \A k \in 1 .. Len(p) : (p \o q)[k] = p[k]
        /\ \A k \in 1 .. Len(q) : (p \o q)[Len(p) + k] = q[k]
    BY <2>2, ConcatFacts
  <2>4. QED
    BY <2>1, <2>3 DEF p, q
<1> HIDE DEF l
<1>5. /\ u \in Seq(Transactions) /\ Len(u) = Len(r) /\ u[1].log = l
      /\ \A i \in 2 .. Len(r) : u[i] = r[i]
      /\ \A i \in 1 .. Len(r) : u[i].base = r[i].base
  BY <1>2, <1>4, LogReplaced
<1> HIDE DEF u
<1>6. StackNumbered(r, n)
  BY <1>1, StackClose DEF r
<1>7. Descending(t[1].log) /\ Descending(t[2].log)
      /\ Before(IdsIn(t[1].log), {n}) /\ Before(IdsIn(t[2].log), {n})
      /\ Before(IdsIn(t[2].log), IdsIn(t[1].log))
  <2>1. 1 < 2
    OBVIOUS
  <2>2. QED
    BY <1>1, <2>1, Zenon DEF StackNumbered
<1>8. ASSUME NEW k \in 1 .. Len(l)
      PROVE  \/ k \in 1 .. Len(t[1].log) /\ l[k] = t[1].log[k]
             \/ /\ k > Len(t[1].log)
                /\ k - Len(t[1].log) \in 1 .. Len(t[2].log)
                /\ l[k] = t[2].log[k - Len(t[1].log)]
  <2>1. CASE k \in 1 .. Len(t[1].log)
    BY <1>4, <2>1
  <2>2. CASE k \notin 1 .. Len(t[1].log)
    <3> DEFINE m == Len(t[1].log)
               w == Len(t[2].log)
    <3>1. /\ k > m /\ k - m \in 1 .. w /\ m + (k - m) = k
      <4>1. m \in Nat /\ w \in Nat /\ k \in 1 .. m + w /\ k \notin 1 .. m
        BY <1>4, <2>2
      <4> HIDE DEF m, w
      <4>2. QED
        BY <4>1
    <3>2. QED
      BY <1>4, <3>1
  <2>3. QED
    BY <2>1, <2>2
<1>9. \A x \in IdsIn(l) : x \in IdsIn(t[1].log) \/ x \in IdsIn(t[2].log)
  BY <1>8 DEF IdsIn
<1>10. Descending(l)
  <2>1. ASSUME NEW i \in 1 .. Len(l), NEW j \in 1 .. Len(l), i < j
        PROVE  l[i].id > l[j].id
    <3>1. CASE j \in 1 .. Len(t[1].log)
      <4>1. i \in 1 .. Len(t[1].log)
        BY <1>4, <2>1, <3>1
      <4>2. QED
        BY <1>4, <1>7, <2>1, <3>1, <4>1 DEF Descending
    <3>2. CASE i \notin 1 .. Len(t[1].log)
      <4>1. /\ i - Len(t[1].log) \in 1 .. Len(t[2].log)
            /\ l[i] = t[2].log[i - Len(t[1].log)]
        BY <1>8, <3>2
      <4>2. j \notin 1 .. Len(t[1].log)
        BY <1>4, <2>1, <3>2
      <4>3. /\ j - Len(t[1].log) \in 1 .. Len(t[2].log)
            /\ l[j] = t[2].log[j - Len(t[1].log)]
        BY <1>8, <4>2
      <4>4. i - Len(t[1].log) < j - Len(t[1].log)
        BY <1>4, <2>1
      <4>5. QED
        BY <1>7, <4>1, <4>3, <4>4 DEF Descending
    <3>3. CASE i \in 1 .. Len(t[1].log) /\ j \notin 1 .. Len(t[1].log)
      <4>1. l[i].id \in IdsIn(t[1].log)
        BY <1>4, <3>3 DEF IdsIn
      <4>2. l[j].id \in IdsIn(t[2].log)
        BY <1>8, <3>3 DEF IdsIn
      <4>3. Records(t[1].log) /\ Records(t[2].log)
        BY <1>3, RecordTypes
      <4>4. l[i].id \in Nat /\ l[j].id \in Nat
        BY <4>1, <4>2, <4>3 DEF Records, IdsIn
      <4>5. l[j].id < l[i].id
        BY <1>7, <4>1, <4>2 DEF Before
      <4>6. QED
        BY <4>4, <4>5
    <3>4. QED
      BY <3>1, <3>2, <3>3
  <2>2. QED
    BY <2>1 DEF Descending
<1>11. Before(IdsIn(l), {n})
  BY <1>7, <1>9 DEF Before
<1>12. ASSUME NEW j \in 2 .. Len(r) PROVE Before(IdsIn(r[j].log), IdsIn(l))
  <2>1. j + 1 \in 1 .. Len(t) /\ 1 < j + 1 /\ 2 < j + 1 /\ r[j] = t[j + 1]
    BY <1>1, <1>2
  <2>2. /\ Before(IdsIn(t[j + 1].log), IdsIn(t[1].log))
        /\ Before(IdsIn(t[j + 1].log), IdsIn(t[2].log))
    BY <1>1, <2>1 DEF StackNumbered
  <2>3. QED
    BY <1>9, <2>1, <2>2 DEF Before
<1>13. StackNumbered(u, n)
  BY <1>2, <1>4, <1>6, <1>10, <1>11, <1>12, StackLog DEF u
<1>14. ASSUME NEW i \in 1 .. Len(u), NEW x \in IdsIn(u[i].log)
       PROVE  \E j \in 1 .. Len(t) : x \in IdsIn(t[j].log)
  <2>1. CASE i = 1
    BY <1>1, <1>5, <1>9, <2>1
  <2>2. CASE i # 1
    <3>1. i \in 2 .. Len(r) /\ i + 1 \in 1 .. Len(t) /\ u[i] = t[i + 1]
      BY <1>1, <1>2, <1>5, <2>2
    <3>2. QED
      BY <3>1
  <2>3. QED
    BY <2>1, <2>2
<1>15. \A i \in 1 .. Len(u) : u[i].base = t[i + 1].base
  BY <1>2, <1>5
<1>16. QED
  BY <1>2, <1>5, <1>13, <1>14, <1>15 DEF u, l, r

(* Nothing older becomes pending.                                          *)
LEMMA AheadFrame ==
  ASSUME NEW p, NEW t, NEW n \in Nat, NEW p2, NEW t2, NEW n2 \in Nat, n <= n2,
         IdsAhead(p, t, n) \subseteq Nat,
         \A x \in IdsIn(p2) : x \in IdsAhead(p, t, n),
         \A i \in 1 .. Len(t2) : \A x \in IdsIn(t2[i].log) : x \in IdsAhead(p, t, n)
  PROVE  \A y \in IdsAhead(p2, t2, n2) : \E x \in IdsAhead(p, t, n) : x <= y
<1> DEFINE S == IdsAhead(p, t, n)
<1>1. n \in S
  BY DEF IdsAhead
<1>2. \A y \in S : y <= y
  OBVIOUS
<1>3. ASSUME NEW y \in IdsAhead(p2, t2, n2)
      PROVE  y \in S \/ y = n2
  <2>1. CASE y \in UNION {IdsIn(t2[i].log) : i \in 1 .. Len(t2)}
    <3>1. PICK i \in 1 .. Len(t2) : y \in IdsIn(t2[i].log)
      BY <2>1
    <3>2. QED
      BY <3>1
  <2>2. CASE y \in IdsIn(p2) \/ y = n2
    BY <2>2
  <2>3. QED
    BY <1>3, <2>1, <2>2 DEF IdsAhead
<1> HIDE DEF S
<1>4. QED
  BY <1>1, <1>2, <1>3 DEF S

(* What is pending, one by one.                                            *)
LEMMA AheadMembers ==
  ASSUME NEW p, NEW t, NEW n
  PROVE  /\ n \in IdsAhead(p, t, n)
         /\ \A x \in IdsIn(p) : x \in IdsAhead(p, t, n)
         /\ \A i \in 1 .. Len(t) :
              \A x \in IdsIn(t[i].log) : x \in IdsAhead(p, t, n)
<1>1. ASSUME NEW i \in 1 .. Len(t), NEW x \in IdsIn(t[i].log)
      PROVE  x \in UNION {IdsIn(t[j].log) : j \in 1 .. Len(t)}
  OBVIOUS
<1>2. QED
  BY <1>1 DEF IdsAhead

-----------------------------------------------------------------------------
(* What a step does to the records, the replicas and what is pending.      *)

Logs(a) ==
  /\ a \in Actions /\ a.id = nextId /\ (ServerCount => a.broadcast)
  /\ a.before = store /\ store' = After(a)
  /\ a.op = "add" <=> ~Stored(a.fact)
  /\ IF a.op = "add" THEN RefTwice(a.fact) ELSE UNCHANGED usage
  /\ txns # <<>> /\ txns' = [txns EXCEPT ![1].log = <<a>> \o txns[1].log]
  /\ nextId' = nextId + 1
  /\ UNCHANGED <<pub, disk, failed, hooked, sent, removeLog>>

Commits(e) ==
  /\ e \in Events /\ txns = <<>> /\ pub = <<>> /\ ~failed
  /\ store' = Apply(store, e)
  /\ e.op = "add" <=> ~Stored(e.fact)
  /\ IF e.op = "add" THEN Ref(e.fact) ELSE Unref(e.fact)
  /\ nextId' \in {nextId, nextId + 1}
  /\ HasLog \/ ServerCount \/ e.op = "add" => e.id = nextId /\ nextId' = nextId + 1
  /\ WriteRecord(e) /\ Retain(e)
  /\ \E wanted \in BOOLEAN : /\ Broadcast(e, wanted)
                             /\ ServerCount => wanted
                             /\ wanted => ServerCount \/ e.op = "add"
  /\ UNCHANGED <<txns, pub>>

IsNotLogged(e) ==
  /\ e \in Events /\ txns = <<>> /\ pub = <<>> /\ ~failed
  /\ e.id = nextId /\ nextId' = nextId + 1
  /\ WriteFails(e)
  /\ UNCHANGED <<store, usage, txns, pub, sent, removeLog>>

Quiet ==
  /\ nextId <= nextId'
  /\ UNCHANGED <<store, usage, txns, pub, disk, failed, hooked, sent, removeLog>>

Opens ==
  /\ pub = <<>>
  /\ txns' = <<[id |-> nextId, log |-> <<>>, base |-> store]>> \o txns
  /\ nextId' = nextId + 1
  /\ UNCHANGED <<store, usage, pub, disk, failed, hooked, sent, removeLog>>

Joins ==
  /\ Len(txns) > 1
  /\ txns' = [Tail(txns) EXCEPT ![1].log = txns[1].log \o txns[2].log]
  /\ UNCHANGED <<store, usage, nextId, pub, disk, failed, hooked, sent, removeLog>>

StartsToPublish ==
  /\ Len(txns) = 1 /\ txns' = <<>>
  /\ pub' = Reverse(txns[1].log)
  /\ UNCHANGED <<store, usage, nextId, disk, failed, hooked, sent, removeLog>>

Publishes ==
  /\ txns = <<>> /\ pub # <<>> /\ ~failed
  /\ WriteRecord(EventOf(pub[1])) /\ Retain(EventOf(pub[1]))
  /\ Broadcast(EventOf(pub[1]), pub[1].broadcast)
  /\ pub' = Tail(pub)
  /\ Unref(pub[1].fact)
  /\ UNCHANGED <<store, nextId, txns>>

GivesUp ==
  /\ txns = <<>> /\ pub # <<>>
  /\ pub' = Tail(pub)
  /\ \/ failed /\ UNCHANGED <<disk, failed, hooked>>
     \/ ~failed /\ WriteFails(EventOf(pub[1]))
  /\ Unref(pub[1].fact)
  /\ UNCHANGED <<store, nextId, txns, sent, removeLog>>

Undoes ==
  /\ txns # <<>> /\ txns[1].log # <<>>
  /\ txns' = [txns EXCEPT ![1].log = Tail(txns[1].log)]
  /\ LET a == txns[1].log[1] IN
       /\ a \in Actions /\ WellLogged(a)
       /\ store = After(a) /\ store' = a.before
       /\ usage' = IF a.op = "add"
                   THEN [t \in Tags |-> usage[t] - 2 * Uses(a.fact, t)]
                   ELSE usage
  /\ UNCHANGED <<nextId, pub, disk, failed, hooked, sent, removeLog>>

Closes ==
  /\ txns # <<>> /\ txns[1].log = <<>> /\ txns' = Tail(txns)
  /\ UNCHANGED <<store, usage, nextId, pub, disk, failed, hooked, sent, removeLog>>

(* Nothing waits to be published while a transaction is open.              *)
LEMMA PublishedBefore ==
  ASSUME Inv, txns # <<>> \/ phase # "publishing"
  PROVE  pub = <<>>
BY DEF Inv, StageInv

(* The action that facts_add_fact_local or facts_remove_fact_local logs.   *)
LEMMA LogActionLogs ==
  ASSUME Inv, NEW op \in {"add", "remove"}, NEW f \in Triples,
         NEW b \in BOOLEAN, ServerCount => b, InTransaction, TakeId,
         LogAction(op, f, nextId, b), op = "add" <=> ~Stored(f),
         store' = [store EXCEPT ![f] = IF op = "add" THEN nextId ELSE NoId],
         IF op = "add" THEN RefTwice(f) ELSE UNCHANGED usage,
         UNCHANGED <<pub, disk, failed, hooked, sent, removeLog>>
  PROVE  \E a \in Actions : Logs(a)
<1> DEFINE a == [op |-> op, id |-> nextId, fact |-> f, broadcast |-> b,
                 oldId |-> IF op = "add" THEN nextId ELSE store[f],
                 before |-> store]
<1>1. store \in Stores /\ nextId \in Ids /\ nextId' = nextId + 1
  BY TakeIdFacts DEF Inv, TypeOK
<1>2. store[f] \in Ids
  BY <1>1 DEF Stores
<1>3. a \in Actions
  BY <1>1, <1>2 DEF Actions
<1>4. txns' = [txns EXCEPT ![1].log = <<a>> \o txns[1].log]
  BY DEF LogAction
<1>5. /\ a.id = nextId /\ a.broadcast = b /\ a.op = op /\ a.fact = f
      /\ a.before = store
  OBVIOUS
<1> HIDE DEF a
<1>6. store' = After(a)
  BY <1>5 DEF After
<1>7. QED
  BY <1>1, <1>3, <1>4, <1>5, <1>6 DEF Logs, InTransaction

(* Outside a transaction a fact is added by the event that is recorded.    *)
LEMMA AddAloneCommits ==
  ASSUME Inv, phase = "idle", NEW f \in Triples, AddAlone(f)
  PROVE  Commits(Event("add", nextId, f))
<1> DEFINE e == Event("add", nextId, f)
<1>1. /\ store \in Stores /\ nextId \in Ids /\ nextId' = nextId + 1
      /\ nextId' \in {nextId, nextId + 1}
  BY TakeIdFacts DEF Inv, TypeOK, AddAlone
<1>2. e \in Events
  BY <1>1, EventTypes
<1>3. e.op = "add" /\ e.id = nextId /\ e.fact = f
  BY DEF Event
<1>4. store[f] = NoId /\ store' = [store EXCEPT ![f] = nextId]
  BY DEF AddAlone, Stored, Link
<1>5. store' = Apply(store, e)
  BY <1>3, <1>4 DEF Apply
<1>6. /\ txns = <<>> /\ ~failed /\ WriteRecord(e) /\ Broadcast(e, TRUE)
      /\ UNCHANGED <<txns, pub>>
  BY DEF AddAlone, InTransaction, Writable, txnState
<1>7. pub = <<>>
  BY PublishedBefore
<1>8. ~Stored(f) /\ Ref(f) /\ removeLog' = removeLog
  BY DEF AddAlone
<1>9. Retain(e)
  BY <1>3, <1>8 DEF Retain
<1> HIDE DEF e
<1>10. QED
  BY <1>1, <1>2, <1>3, <1>5, <1>6, <1>7, <1>8, <1>9 DEF Commits, e

(* So is it removed.                                                       *)
LEMMA RemoveAloneCommits ==
  ASSUME Inv, phase = "idle", NEW f \in Triples, RemoveAlone(f)
  PROVE  \E e \in Events : Commits(e)
<1> DEFINE numbered == HasLog \/ ServerCount
           e == Event("remove", IF numbered THEN nextId ELSE NoId, f)
<1>1. store \in Stores /\ nextId \in Ids /\ NoId \in Ids
  BY UwMaxAssumption DEF Inv, TypeOK, Ids, NoId
<1>2. e \in Events
  BY <1>1, EventTypes
<1>3. e.op = "remove" /\ e.fact = f /\ (numbered => e.id = nextId)
  BY DEF Event
<1>4. store' = [store EXCEPT ![f] = NoId]
  BY DEF RemoveAlone, Unlink
<1>5. store' = Apply(store, e)
  BY <1>3, <1>4 DEF Apply
<1>6. /\ txns = <<>> /\ ~failed /\ WriteRecord(e) /\ Broadcast(e, ServerCount)
      /\ UNCHANGED <<txns, pub>>
      /\ IF numbered THEN TakeId ELSE UNCHANGED nextId
  BY DEF RemoveAlone, InTransaction, Writable, txnState
<1>7. pub = <<>>
  BY PublishedBefore
<1>8. /\ numbered => nextId' = nextId + 1
      /\ nextId' \in {nextId, nextId + 1}
  BY <1>6 DEF TakeId
<1>9. ServerCount \in BOOLEAN
  BY FlagsAssumption
<1>10. /\ HasLog \/ ServerCount \/ e.op = "add" => e.id = nextId /\ nextId' = nextId + 1
  BY <1>3, <1>8
<1> HIDE DEF e
<1>11. \E wanted \in BOOLEAN : /\ Broadcast(e, wanted)
                               /\ ServerCount => wanted
                               /\ wanted => ServerCount \/ e.op = "add"
  BY <1>6, <1>9
<1>12. Stored(f) /\ Unref(f) /\ Retain(e)
  BY DEF RemoveAlone, e
<1>13. QED
  BY <1>2, <1>3, <1>5, <1>6, <1>7, <1>8, <1>10, <1>11, <1>12 DEF Commits

(* A record that cannot be written was for the next identifier.            *)
LEMMA FailedRecordIsNotLogged ==
  ASSUME Inv, phase = "idle", ~InTransaction, Writable, TakeId,
         NEW op \in {"add", "remove"}, NEW f \in Triples,
         WriteFails(Event(op, nextId, f)),
         UNCHANGED <<store, usage, txns, pub, sent, removeLog>>
  PROVE  \E e \in Events : IsNotLogged(e)
<1>1. nextId \in Ids /\ nextId' = nextId + 1
  BY TakeIdFacts DEF Inv, TypeOK
<1>2. Event(op, nextId, f) \in Events /\ Event(op, nextId, f).id = nextId
  BY <1>1, EventTypes DEF Event
<1>3. pub = <<>>
  BY PublishedBefore
<1>4. QED
  BY <1>1, <1>2, <1>3 DEF IsNotLogged, InTransaction, Writable

Step ==
  \/ \E a \in Actions : Logs(a)
  \/ \E e \in Events : Commits(e) \/ IsNotLogged(e)
  \/ Quiet \/ Opens \/ Joins \/ StartsToPublish
  \/ Publishes \/ GivesUp \/ Undoes \/ Closes

(* An ended transaction joins the enclosing one or starts to publish.      *)
LEMMA EndSteps ==
  ASSUME Inv, TransactionEnd
  PROVE  Joins \/ StartsToPublish
<1>1. /\ txns \in Seq(Transactions) /\ txns # <<>>
  <2>1. txns \in Seq(Transactions) /\ (txns = <<>> => Len(txns) = 0)
    BY DEF Inv, TypeOK
  <2>2. Len(txns) > 1 \/ Len(txns) = 1
    BY DEF TransactionEnd, EndInner, EndOutermost
  <2>3. QED
    BY <2>1, <2>2
<1>2. Head(txns) = txns[1]
  BY <1>1
<1>3. CASE EndInner
  <2>1. Tail(txns)[1] = txns[2]
    <3>1. /\ Len(txns) \in Nat /\ 1 \in 1 .. Len(txns) - 1 /\ 1 + 1 = 2
      BY <1>1, <1>3 DEF EndInner
    <3>2. Tail(txns)[1] = txns[1 + 1]
      BY <1>1, <3>1, TailFacts
    <3>3. QED
      BY <3>1, <3>2
  <2>2. txns' = [Tail(txns) EXCEPT ![1].log = txns[1].log \o txns[2].log]
    BY <1>2, <1>3, <2>1 DEF EndInner
  <2>3. QED
    BY <1>3, <2>2 DEF Joins, EndInner, data, output, logFile
<1>4. CASE EndOutermost
  BY <1>2, <1>4 DEF EndOutermost, StartsToPublish, data, output, logFile
<1>5. QED
  BY <1>3, <1>4 DEF TransactionEnd

(* What a call of the application does.                                    *)
LEMMA CallSteps ==
  ASSUME Inv, Call
  PROVE  Step
<1>1. /\ phase = "idle" /\ pub = <<>> /\ nextId \in 1 .. UwMax
      /\ ServerCount \in BOOLEAN
  BY PublishedBefore, FlagsAssumption DEF Call, Inv, TypeOK
<1>2. TakeId => nextId' = nextId + 1 /\ nextId <= nextId' /\ nextId \in Ids
  BY <1>1, TakeIdFacts
<1>3. ASSUME NEW f \in Triples, AddInTransaction(f) PROVE Step
  BY <1>3, LogActionLogs DEF AddInTransaction, Link, output, logFile, Step
<1>4. ASSUME NEW f \in Triples, RemoveInTransaction(f) PROVE Step
  BY <1>1, <1>4, LogActionLogs DEF RemoveInTransaction, Unlink, output, logFile, Step
<1>5. ASSUME NEW f \in Triples, AddAlone(f) PROVE Step
  <2>1. Event("add", nextId, f) \in Events
    BY <1>2, <1>5, EventTypes DEF AddAlone
  <2>2. Commits(Event("add", nextId, f))
    BY <1>1, <1>5, AddAloneCommits
  <2>3. QED
    BY <2>1, <2>2 DEF Step
<1>6. ASSUME NEW f \in Triples, RemoveAlone(f) PROVE Step
  BY <1>1, <1>6, RemoveAloneCommits DEF Step
<1>7. ASSUME NEW f \in Triples, AddRunsOutOfMemory(f) PROVE Step
  BY <1>2, <1>7 DEF AddRunsOutOfMemory, data, txnState, output, logFile, Quiet, Step
<1>8. ASSUME NEW f \in Triples, AddNotLogged(f) PROVE Step
  <2>1. UNCHANGED <<store, index, usage>>
    BY <1>8, UnwoundLeavesNothing DEF AddNotLogged, Inv, TypeOK
  <2>2. QED
    BY <1>1, <1>8, <2>1, FailedRecordIsNotLogged DEF AddNotLogged, txnState, Step
<1>9. ASSUME NEW f \in Triples, RemoveRunsOutOfMemory(f) PROVE Step
  BY <1>2, <1>9 DEF RemoveRunsOutOfMemory, data, txnState, output, logFile, Quiet, Step
<1>10. ASSUME NEW f \in Triples, RemoveNotLogged(f) PROVE Step
  BY <1>1, <1>10, FailedRecordIsNotLogged DEF RemoveNotLogged, data, txnState, Step
<1>11. ASSUME TransactionStart \/ \E f \in Triples : ReplaceTags(f) \/ RemoveTags(f)
       PROVE  Step
  <2>1. /\ TakeId /\ UNCHANGED <<store, usage, pub, disk, failed, hooked, sent, removeLog>>
        /\ txns' = <<[id |-> nextId, log |-> <<>>, base |-> store]>> \o txns
    BY <1>11 DEF TransactionStart, ReplaceTags, RemoveTags, JobStart, data,
       output, logFile
  <2>2. QED
    BY <1>1, <1>2, <2>1 DEF Opens, Step
<1>12. ASSUME TransactionEnd PROVE Step
  BY <1>12, EndSteps DEF Step
<1>13. ASSUME NEW n \in 1 .. MaxDepth, Rollback(n) PROVE Step
  <2>1. nextId <= nextId
    BY <1>1
  <2>2. QED
    BY <1>13, <2>1 DEF Rollback, data, output, logFile, Quiet, Step
<1>14. QED
  BY <1>3, <1>4, <1>5, <1>6, <1>7, <1>8, <1>9, <1>10, <1>11, <1>12, <1>13 DEF Call

(* What the holder of the lock does before it returns.                     *)
LEMMA FinishSteps ==
  ASSUME Inv, Finish
  PROVE  Step
<1>1. /\ nextId \in 1 .. UwMax /\ ServerCount \in BOOLEAN
      /\ pub \in Seq(Actions) /\ txns \in Seq(Transactions)
  BY FlagsAssumption DEF Inv, TypeOK
<1>2. nextId <= nextId
  BY <1>1
<1>3. pub # <<>> => Head(pub) = pub[1] /\ txns = <<>>
  BY <1>1 DEF Inv, StageInv
<1>4. CASE PublishNext
  BY <1>3, <1>4 DEF PublishNext, Publishes, Step
<1>5. CASE PublishFails
  BY <1>3, <1>5 DEF PublishFails, GivesUp, Step
<1>6. CASE Discard
  BY <1>3, <1>6 DEF Discard, output, logFile, GivesUp, Step
<1>7. CASE PublishDone \/ JobReturn
  BY <1>2, <1>7 DEF PublishDone, JobReturn, data, output, logFile, Quiet, Step
<1>8. phase = "rolling" => txns # <<>> /\ Head(txns) = txns[1]
  <2>1. phase = "rolling" => unwind \in 1 .. Len(txns)
    BY DEF Inv, StageInv
  <2>2. unwind \in 1 .. Len(txns) => txns # <<>> /\ Head(txns) = txns[1]
    BY <1>1
  <2>3. QED
    BY <2>1, <2>2
<1>9. ASSUME UndoAdd \/ UndoRemove, UNCHANGED jobState PROVE Step
  <2>1. nextId' = nextId
    BY <1>9, UndoRemoveInv DEF UndoAdd
  <2>2. UNCHANGED <<pub, disk, failed, hooked, sent, removeLog>>
    BY <1>9 DEF UndoAdd, UndoRemove, output, logFile
  <2>3. Undoing("add") \/ Undoing("remove")
    BY <1>9 DEF UndoAdd, UndoRemove
  <2>4. /\ txns # <<>> /\ txns[1].log # <<>>
        /\ txns' = [txns EXCEPT ![1].log = Tail(txns[1].log)]
    BY <1>8, <2>3 DEF Undoing
  <2> DEFINE a == Head(Head(txns).log)
  <2>5. a = txns[1].log[1]
    <3>1. txns[1].log \in Seq(Actions)
      BY <1>1, <1>8, <2>3, LogTypes DEF Undoing
    <3>2. QED
      BY <1>8, <2>3, <2>4, <3>1 DEF Undoing
  <2>6. a \in Actions /\ WellLogged(a) /\ store = After(a)
    BY <2>3, UndoFacts
  <2>7. store' = a.before
    BY <1>9, UndoAddInv, UndoRemoveInv
  <2>8. usage' = IF a.op = "add"
                 THEN [t \in Tags |-> usage[t] - 2 * Uses(a.fact, t)]
                 ELSE usage
    <3>1. CASE UndoAdd
      BY <3>1 DEF UndoAdd, Undoing
    <3>2. CASE UndoRemove
      <4>1. a.op = "remove"
        BY <3>2 DEF UndoRemove, Undoing
      <4>2. ~Stored(a.fact)
        BY <2>6, <4>1 DEF After, Actions, Stores, Stored
      <4>3. QED
        BY <3>2, <4>1, <4>2 DEF UndoRemove
    <3>3. QED
      BY <1>9, <3>1, <3>2
  <2> HIDE DEF a
  <2>9. QED
    BY <2>1, <2>2, <2>4, <2>5, <2>6, <2>7, <2>8 DEF Undoes, Step
<1>10. CASE UndoneTransaction
  BY <1>8, <1>10 DEF UndoneTransaction, data, output, logFile, Closes, Step
<1>11. ASSUME JobStep PROVE Step
  <2>1. todo \in SUBSET Triples /\ toAdd \in SUBSET Triples
    BY DEF Inv, TypeOK
  <2>2. CASE JobRemove
    <3>1. PICK f \in Triples : RemoveInTransaction(f)
      BY <2>1, <2>2 DEF JobRemove
    <3>2. QED
      BY <1>1, <3>1, LogActionLogs DEF RemoveInTransaction, Unlink, output, logFile, Step
  <2>3. CASE JobAdd
    <3>1. PICK f \in Triples : AddInTransaction(f)
      BY <2>1, <2>3 DEF JobAdd
    <3>2. QED
      BY <3>1, LogActionLogs DEF AddInTransaction, Link, output, logFile, Step
  <2>4. CASE JobFails
    <3>1. nextId <= nextId'
      BY <1>1, <1>2, <2>4, TakeIdFacts DEF JobFails
    <3>2. QED
      BY <2>4, <3>1 DEF JobFails, data, output, logFile, Quiet, Step
  <2>5. CASE JobEnd
    BY <2>5, EndSteps DEF JobEnd, Step
  <2>6. QED
    BY <1>11, <2>2, <2>3, <2>4, <2>5 DEF JobStep
<1>12. QED
  BY <1>4, <1>5, <1>6, <1>7, <1>9, <1>10, <1>11 DEF Finish

(* Every step is one of these.                                             *)
LEMMA StepKinds ==
  ASSUME Inv, [Next]_vars
  PROVE  Step
<1>1. CASE UNCHANGED vars
  <2>1. nextId \in 1 .. UwMax
    BY DEF Inv, TypeOK
  <2>2. nextId <= nextId'
    BY <1>1, <2>1 DEF vars
  <2>3. QED
    BY <1>1, <2>2 DEF vars, data, txnState, output, logFile, Quiet, Step
<1>2. QED
  BY <1>1, CallSteps, FinishSteps DEF Next

-----------------------------------------------------------------------------
(* Identifiers stay in order.                                              *)

(* Types of the state the proofs below speak of.                           *)
Typed ==
  /\ store \in Stores /\ nextId \in Nat /\ nextId \in Ids
  /\ txns \in Seq(Transactions) /\ pub \in Seq(Actions)
  /\ disk \in Seq(Events) /\ hooked \in Seq(Events) /\ sent \in Seq(Events)
  /\ IdsAhead(pub, txns, nextId) \subseteq Nat

(* They follow from those of the variables.                                *)
LEMMA TypedFacts == Inv => Typed
<1> SUFFICES ASSUME Inv PROVE Typed
  OBVIOUS
<1>1. nextId \in Nat /\ nextId \in Ids
  <2>1. nextId \in 1 .. UwMax
    BY DEF Inv, TypeOK
  <2>2. QED
    BY <2>1, UwMaxAssumption DEF Ids
<1>2. txns \in Seq(Transactions) /\ pub \in Seq(Actions)
  BY DEF Inv, TypeOK
<1>3. IdsAhead(pub, txns, nextId) \subseteq Nat
  BY <1>1, <1>2, AheadTypes
<1>4. QED
  BY <1>1, <1>2, <1>3 DEF Inv, TypeOK, Typed

(* A step that writes nothing, and after which nothing older is pending.   *)
LEMMA NumberedFrame ==
  ASSUME Typed, Typed', Numbered, UNCHANGED <<disk, sent>>, nextId <= nextId',
         \A x \in IdsIn(pub') : x \in IdsAhead(pub, txns, nextId),
         \A i \in 1 .. Len(txns') :
           \A x \in IdsIn(txns'[i].log) : x \in IdsAhead(pub, txns, nextId),
         InOrder(pub', {nextId'}), StackNumbered(txns', nextId')
  PROVE  Numbered'
<1> DEFINE S == IdsAhead(pub, txns, nextId)
           T == IdsAhead(pub', txns', nextId')
<1>1. S \in SUBSET Nat /\ T \in SUBSET Nat /\ nextId \in Nat /\ nextId' \in Nat
  BY DEF Typed
<1>2. \A y \in T : \E x \in S : x <= y
  BY <1>1, AheadFrame
<1>3. Records(disk) /\ Records(sent)
  BY RecordTypes DEF Typed
<1>4. InOrder(disk, S) /\ InOrder(sent, S)
  BY DEF Numbered
<1> HIDE DEF S, T
<1>5. InOrder(disk, T) /\ InOrder(sent, T)
  BY <1>1, <1>2, <1>3, <1>4, InOrderKept
<1>6. QED
  BY <1>5 DEF Numbered, T

(* No event of an empty sequence is out of order.                          *)
LEMMA EmptyInOrder == \A S : InOrder(<<>>, S) /\ IdsIn(<<>>) = {}
BY DEF InOrder, Ascending, Before, IdsIn

(* An action is logged.                                                    *)
LEMMA LogsNumbered ==
  ASSUME Inv, Typed, Typed', Numbered, NEW a \in Actions, Logs(a)
  PROVE  Numbered'
<1>1. /\ txns # <<>> /\ txns \in Seq(Transactions) /\ nextId \in Nat
      /\ nextId' = nextId + 1 /\ a.id = nextId /\ pub' = pub /\ pub = <<>>
      /\ txns' = [txns EXCEPT ![1].log = <<a>> \o txns[1].log]
      /\ UNCHANGED <<disk, sent>> /\ StackNumbered(txns, nextId)
  BY PublishedBefore DEF Typed, Logs, Numbered
<1>2. StackNumbered(txns', nextId')
  <2>1. StackNumbered([txns EXCEPT ![1].log = <<a>> \o txns[1].log], nextId + 1)
    BY <1>1, StackPush
  <2>2. QED
    BY <1>1, <2>1
<1>3. nextId <= nextId'
  BY <1>1
<1>4. InOrder(pub', {nextId'}) /\ IdsIn(pub') = {}
  BY <1>1, EmptyInOrder
<1>5. ASSUME NEW i \in 1 .. Len(txns'), NEW x \in IdsIn(txns'[i].log)
      PROVE  x \in IdsAhead(pub, txns, nextId)
  <2> DEFINE l == <<a>> \o txns[1].log
  <2>1. txns[1].log \in Seq(Actions) /\ 1 \in 1 .. Len(txns) /\ Len(txns) \in Nat
    <3>1. 1 \in 1 .. Len(txns) /\ Len(txns) \in Nat
      BY <1>1
    <3>2. QED
      BY <1>1, <3>1, LogTypes
  <2>2. /\ l \in Seq(Actions) /\ Len(l) = Len(txns[1].log) + 1 /\ l[1] = a
        /\ Len(txns[1].log) \in Nat
        /\ \A k \in 2 .. Len(l) : k - 1 \in 1 .. Len(txns[1].log)
                                  /\ l[k] = txns[1].log[k - 1]
    BY <2>1
  <2> HIDE DEF l
  <2>3. /\ Len(txns') = Len(txns) /\ txns'[1].log = l
        /\ \A k \in 2 .. Len(txns) : txns'[k] = txns[k]
    BY <1>1, <2>2, LogReplaced DEF l
  <2>4. CASE i = 1
    <3>1. PICK k \in 1 .. Len(l) : x = l[k].id
      BY <2>3, <2>4 DEF IdsIn
    <3>2. CASE k = 1
      BY <1>1, <2>2, <3>1, <3>2, AheadMembers
    <3>3. CASE k # 1
      <4>1. k \in 2 .. Len(l)
        BY <2>2, <3>3
      <4>2. x \in IdsIn(txns[1].log)
        BY <2>2, <3>1, <4>1 DEF IdsIn
      <4>3. QED
        BY <2>1, <4>2, AheadMembers
    <3>4. QED
      BY <3>2, <3>3
  <2>5. CASE i # 1
    <3>1. i \in 2 .. Len(txns) /\ i \in 1 .. Len(txns)
      BY <2>1, <2>3, <2>5
    <3>2. x \in IdsIn(txns[i].log)
      BY <2>3, <3>1
    <3>3. QED
      BY <3>1, <3>2, AheadMembers
  <2>6. QED
    BY <2>4, <2>5
<1>6. QED
  BY <1>1, <1>2, <1>3, <1>4, <1>5, NumberedFrame

(* Identifiers are consumed, if at all.                                    *)
LEMMA QuietNumbered ==
  ASSUME Typed, Typed', Numbered, Quiet
  PROVE  Numbered'
<1>1. /\ nextId \in Nat /\ nextId' \in Nat /\ nextId <= nextId'
      /\ UNCHANGED <<txns, pub, disk, sent>> /\ txns \in Seq(Transactions)
      /\ StackNumbered(txns, nextId) /\ InOrder(pub, {nextId})
  BY DEF Typed, Quiet, Numbered
<1>2. StackNumbered(txns, nextId')
  BY <1>1, StackGrows
<1>3. InOrder(pub, {nextId'})
  <2>1. Records(pub) /\ {nextId} \in SUBSET Nat /\ {nextId'} \in SUBSET Nat
    BY <1>1, RecordTypes DEF Typed
  <2>2. \A y \in {nextId'} : \E x \in {nextId} : x <= y
    BY <1>1
  <2>3. QED
    BY <1>1, <2>1, <2>2, InOrderKept
<1>4. QED
  BY <1>1, <1>2, <1>3, AheadMembers, NumberedFrame

(* A transaction opens.                                                    *)
LEMMA OpensNumbered ==
  ASSUME Inv, Typed, Typed', Numbered, Opens
  PROVE  Numbered'
<1>1. /\ nextId \in Nat /\ nextId \in Ids /\ nextId' = nextId + 1
      /\ pub = <<>> /\ pub' = <<>> /\ UNCHANGED <<disk, sent>>
      /\ txns \in Seq(Transactions) /\ store \in Stores /\ Chain(txns, store)
      /\ txns' = <<[id |-> nextId, log |-> <<>>, base |-> store]>> \o txns
      /\ StackNumbered(txns, nextId)
  BY UndoChainIsChain DEF Inv, Typed, Opens, Numbered
<1>2. /\ txns' \in Seq(Transactions) /\ Len(txns') = Len(txns) + 1
      /\ txns'[1].log = <<>> /\ \A i \in 1 .. Len(txns) : txns'[i + 1] = txns[i]
  BY <1>1, ChainOpen
<1>3. nextId <= nextId' /\ nextId' \in Nat /\ Len(txns) \in Nat
  BY <1>1
<1>4. StackNumbered(txns, nextId')
  BY <1>1, <1>3, StackGrows
<1>5. StackNumbered(txns', nextId')
  BY <1>1, <1>2, <1>3, <1>4, StackOpen
<1>6. ASSUME NEW i \in 1 .. Len(txns'), NEW x \in IdsIn(txns'[i].log)
      PROVE  x \in IdsAhead(pub, txns, nextId)
  <2>1. i # 1
    BY <1>2, EmptyInOrder
  <2>2. i - 1 \in 1 .. Len(txns) /\ (i - 1) + 1 = i
    BY <1>2, <1>3, <2>1
  <2>3. txns'[i] = txns[i - 1]
    BY <1>2, <2>2
  <2>4. QED
    BY <2>2, <2>3, AheadMembers
<1>7. QED
  BY <1>1, <1>3, <1>5, <1>6, EmptyInOrder, NumberedFrame

(* A nested transaction ends.                                              *)
LEMMA JoinsNumbered ==
  ASSUME Inv, Typed, Typed', Numbered, Joins
  PROVE  Numbered'
<1>1. /\ nextId \in Nat /\ nextId' = nextId /\ pub' = pub
      /\ UNCHANGED <<disk, sent>> /\ txns \in Seq(Transactions) /\ Len(txns) > 1
      /\ txns' = [Tail(txns) EXCEPT ![1].log = txns[1].log \o txns[2].log]
      /\ StackNumbered(txns, nextId) /\ InOrder(pub, {nextId})
  BY DEF Typed, Joins, Numbered
<1>2. /\ StackNumbered(txns', nextId)
      /\ \A i \in 1 .. Len(txns') :
           \A x \in IdsIn(txns'[i].log) :
             \E j \in 1 .. Len(txns) : x \in IdsIn(txns[j].log)
  BY <1>1, StackMerge
<1>3. nextId <= nextId
  BY <1>1
<1>4. QED
  BY <1>1, <1>2, <1>3, AheadMembers, NumberedFrame

(* An outermost transaction ends.                                          *)
LEMMA StartsToPublishNumbered ==
  ASSUME Inv, Typed, Typed', Numbered, StartsToPublish
  PROVE  Numbered'
<1>1. /\ nextId \in Nat /\ nextId' = nextId
      /\ UNCHANGED <<disk, sent>> /\ txns \in Seq(Transactions) /\ Len(txns) = 1
      /\ txns' = <<>> /\ pub' = Reverse(txns[1].log)
      /\ StackNumbered(txns, nextId)
  BY DEF Typed, StartsToPublish, Numbered
<1>2. 1 \in 1 .. Len(txns) /\ nextId <= nextId
  BY <1>1
<1>3. txns[1].log \in Seq(Actions)
  BY <1>1, <1>2, LogTypes
<1>4. Descending(txns[1].log) /\ Before(IdsIn(txns[1].log), {nextId})
  BY <1>1, <1>2 DEF StackNumbered
<1>5. InOrder(pub', {nextId}) /\ IdsIn(pub') \subseteq IdsIn(txns[1].log)
  BY <1>1, <1>3, <1>4, ReverseInOrder
<1>6. \A x \in IdsIn(pub') : x \in IdsAhead(pub, txns, nextId)
  BY <1>2, <1>5, AheadMembers
<1>7. StackNumbered(txns', nextId') /\ 1 .. Len(txns') = {}
  BY <1>1 DEF StackNumbered
<1>8. QED
  BY <1>1, <1>2, <1>5, <1>6, <1>7, NumberedFrame

(* A rollback undoes an action.                                            *)
LEMMA UndoesNumbered ==
  ASSUME Inv, Typed, Typed', Numbered, Undoes
  PROVE  Numbered'
<1>1. /\ nextId \in Nat /\ nextId' = nextId /\ pub' = pub
      /\ UNCHANGED <<disk, sent>> /\ txns \in Seq(Transactions) /\ txns # <<>>
      /\ txns[1].log # <<>>
      /\ txns' = [txns EXCEPT ![1].log = Tail(txns[1].log)]
      /\ StackNumbered(txns, nextId) /\ InOrder(pub, {nextId})
  BY DEF Typed, Undoes, Numbered
<1>2. StackNumbered(txns', nextId)
  BY <1>1, StackPop
<1>3. 1 \in 1 .. Len(txns) /\ nextId <= nextId /\ Len(txns) \in Nat
  BY <1>1
<1>4. txns[1].log \in Seq(Actions)
  BY <1>1, <1>3, LogTypes
<1>5. /\ Tail(txns[1].log) \in Seq(Actions)
      /\ Len(Tail(txns[1].log)) = Len(txns[1].log) - 1
      /\ Len(txns[1].log) \in Nat
      /\ \A k \in 1 .. Len(txns[1].log) - 1 :
           Tail(txns[1].log)[k] = txns[1].log[k + 1]
  BY <1>1, <1>4, TailFacts
<1>6. \A k \in 1 .. Len(txns[1].log) - 1 : k + 1 \in 1 .. Len(txns[1].log)
  BY <1>5
<1>7. IdsIn(Tail(txns[1].log)) \subseteq IdsIn(txns[1].log)
  BY <1>5, <1>6 DEF IdsIn
<1>8. /\ Len(txns') = Len(txns) /\ txns'[1].log = Tail(txns[1].log)
      /\ \A k \in 2 .. Len(txns) : txns'[k] = txns[k]
  BY <1>1, <1>5, LogReplaced
<1>9. ASSUME NEW i \in 1 .. Len(txns'), NEW x \in IdsIn(txns'[i].log)
      PROVE  x \in IdsAhead(pub, txns, nextId)
  <2>1. CASE i = 1
    BY <1>3, <1>7, <1>8, <2>1, AheadMembers
  <2>2. CASE i # 1
    <3>1. i \in 2 .. Len(txns) /\ i \in 1 .. Len(txns)
      BY <1>3, <1>8, <2>2
    <3>2. QED
      BY <1>8, <3>1, AheadMembers
  <2>3. QED
    BY <2>1, <2>2
<1>10. QED
  BY <1>1, <1>2, <1>3, <1>9, AheadMembers, NumberedFrame

(* A rolled back transaction is closed.                                    *)
LEMMA ClosesNumbered ==
  ASSUME Inv, Typed, Typed', Numbered, Closes
  PROVE  Numbered'
<1>1. /\ nextId \in Nat /\ nextId' = nextId /\ pub' = pub
      /\ UNCHANGED <<disk, sent>> /\ txns \in Seq(Transactions) /\ txns # <<>>
      /\ txns' = Tail(txns)
      /\ StackNumbered(txns, nextId) /\ InOrder(pub, {nextId})
  BY DEF Typed, Closes, Numbered
<1>2. StackNumbered(txns', nextId) /\ nextId <= nextId
  BY <1>1, StackClose
<1>3. /\ Len(txns) \in Nat \ {0} /\ Len(txns') = Len(txns) - 1
      /\ \A k \in 1 .. Len(txns) - 1 : txns'[k] = txns[k + 1]
  BY <1>1, TailFacts
<1>4. \A i \in 1 .. Len(txns') : i + 1 \in 1 .. Len(txns) /\ txns'[i] = txns[i + 1]
  BY <1>3
<1>5. ASSUME NEW i \in 1 .. Len(txns'), NEW x \in IdsIn(txns'[i].log)
      PROVE  x \in IdsAhead(pub, txns, nextId)
  BY <1>4, AheadMembers
<1>6. QED
  BY <1>1, <1>2, <1>5, AheadMembers, NumberedFrame

(* The oldest pending identifier may be recorded and sent.                 *)
LEMMA RecordNumbered ==
  ASSUME Typed, Typed', Numbered, NEW e \in Events,
         e.id \in IdsAhead(pub, txns, nextId),
         \A y \in IdsAhead(pub', txns', nextId') : e.id < y,
         disk' \in {disk, Append(disk, e)}, sent' \in {sent, Append(sent, e)},
         InOrder(pub', {nextId'}), StackNumbered(txns', nextId')
  PROVE  Numbered'
<1> DEFINE S == IdsAhead(pub, txns, nextId)
           T == IdsAhead(pub', txns', nextId')
<1>1. S \in SUBSET Nat /\ T \in SUBSET Nat /\ disk \in Seq(Events) /\ sent \in Seq(Events)
  BY DEF Typed
<1>2. e.id \in S /\ \A y \in T : e.id < y
  OBVIOUS
<1>3. InOrder(disk, S) /\ InOrder(sent, S)
  BY DEF Numbered
<1> HIDE DEF S, T
<1>4. \A y \in T : \E x \in S : x <= y
  <2>1. ASSUME NEW y \in T PROVE e.id <= y
    <3>1. e.id \in Nat /\ y \in Nat /\ e.id < y
      BY <1>1, <1>2
    <3>2. QED
      BY <3>1
  <2>2. QED
    BY <1>2, <2>1
<1>5. Records(disk) /\ Records(sent)
  BY <1>1, RecordTypes
<1>6. InOrder(disk, T) /\ InOrder(sent, T)
  BY <1>1, <1>3, <1>4, <1>5, InOrderKept
<1>7. InOrder(Append(disk, e), T) /\ InOrder(Append(sent, e), T)
  BY <1>1, <1>2, <1>3, InOrderAppend
<1>8. InOrder(disk', T) /\ InOrder(sent', T)
  BY <1>6, <1>7
<1>9. QED
  BY <1>8 DEF Numbered, T

(* What is pending outside a transaction.                                  *)
LEMMA AheadAlone ==
  ASSUME NEW p, NEW n, NEW y \in IdsAhead(p, <<>>, n)
  PROVE  y \in IdsIn(p) \/ y = n
<1>1. \A i \in 1 .. Len(<<>>) : FALSE
  OBVIOUS
<1>2. UNION {IdsIn(<<>>[i].log) : i \in 1 .. Len(<<>>)} = {}
  BY <1>1
<1>3. QED
  BY <1>2 DEF IdsAhead

(* Outside a transaction the next identifier is recorded.                  *)
LEMMA AloneNumbered ==
  ASSUME Typed, Typed', Numbered, NEW e \in Events, txns = <<>>, pub = <<>>,
         UNCHANGED <<txns, pub>>, e.id = nextId, nextId' = nextId + 1,
         disk' \in {disk, Append(disk, e)}, sent' \in {sent, Append(sent, e)}
  PROVE  Numbered'
<1>1. nextId \in Nat /\ nextId < nextId' /\ e.id \in IdsAhead(pub, txns, nextId)
  BY AheadMembers DEF Typed
<1>2. \A y \in IdsAhead(pub', txns', nextId') : e.id < y
  BY <1>1, AheadAlone, EmptyInOrder
<1>3. InOrder(pub', {nextId'}) /\ StackNumbered(txns', nextId')
  BY EmptyInOrder DEF StackNumbered
<1>4. QED
  BY <1>1, <1>2, <1>3, RecordNumbered

(* What a write leaves in the file.                                        *)
LEMMA WriteOutcomes ==
  ASSUME NEW e
  PROVE  /\ WriteRecord(e) \/ WriteFails(e) => disk' \in {disk, Append(disk, e)}
         /\ \A b : Broadcast(e, b) => sent' \in {sent, Append(sent, e)}
BY DEF WriteRecord, WriteFails, Broadcast

(* A fact is added or removed outside a transaction.                       *)
LEMMA CommitsNumbered ==
  ASSUME Typed, Typed', Numbered, NEW e \in Events, Commits(e)
  PROVE  Numbered'
<1>1. PICK wanted \in BOOLEAN : /\ Broadcast(e, wanted)
                                /\ wanted => ServerCount \/ e.op = "add"
  BY DEF Commits
<1>2. /\ disk' \in {disk, Append(disk, e)} /\ sent' \in {sent, Append(sent, e)}
      /\ txns = <<>> /\ pub = <<>> /\ UNCHANGED <<txns, pub>>
      /\ nextId' \in {nextId, nextId + 1}
  BY <1>1, WriteOutcomes DEF Commits
<1>3. CASE HasLog \/ ServerCount \/ e.op = "add"
  BY <1>2, <1>3, AloneNumbered DEF Commits
<1>4. CASE ~ (HasLog \/ ServerCount \/ e.op = "add")
  <2>1. UNCHANGED <<disk, sent>>
    BY <1>1, <1>4 DEF Commits, WriteRecord, Broadcast
  <2>2. nextId <= nextId'
    BY <1>2 DEF Typed
  <2>3. InOrder(pub', {nextId'}) /\ StackNumbered(txns', nextId')
    BY <1>2, EmptyInOrder DEF StackNumbered
  <2>4. QED
    BY <1>2, <2>1, <2>2, <2>3, AheadMembers, NumberedFrame
<1>5. QED
  BY <1>3, <1>4

(* A record outside a transaction is not written.                          *)
LEMMA IsNotLoggedNumbered ==
  ASSUME Typed, Typed', Numbered, NEW e \in Events, IsNotLogged(e)
  PROVE  Numbered'
BY WriteOutcomes, AloneNumbered DEF IsNotLogged

(* The first action to be published is older than the others.              *)
LEMMA FirstIsOldest ==
  ASSUME Typed, Numbered, txns = <<>>, pub # <<>>
  PROVE  /\ pub[1] \in Actions /\ EventOf(pub[1]) \in Events
         /\ EventOf(pub[1]).id = pub[1].id
         /\ pub[1].id \in IdsAhead(pub, txns, nextId)
         /\ \A y \in IdsAhead(Tail(pub), txns, nextId) : pub[1].id < y
         /\ InOrder(Tail(pub), {nextId})
<1>1. /\ pub \in Seq(Actions) /\ Len(pub) \in Nat \ {0} /\ pub[1] \in Actions
      /\ Len(Tail(pub)) = Len(pub) - 1
      /\ \A k \in 1 .. Len(pub) - 1 : Tail(pub)[k] = pub[k + 1]
  BY TailFacts DEF Typed
<1>2. 1 \in 1 .. Len(pub) /\ \A k \in 1 .. Len(pub) - 1 : k + 1 \in 1 .. Len(pub) /\ 1 < k + 1
  BY <1>1
<1>3. EventOf(pub[1]) \in Events /\ EventOf(pub[1]).id = pub[1].id
  BY <1>1, EventOfTypes DEF EventOf, Event
<1>4. pub[1].id \in IdsIn(pub)
  BY <1>2 DEF IdsIn
<1>5. InOrder(pub, {nextId})
  BY DEF Numbered
<1>6. \A k \in 1 .. Len(pub) - 1 : pub[1].id < pub[k + 1].id
  BY <1>2, <1>5 DEF InOrder, Ascending
<1>7. \A x \in IdsIn(Tail(pub)) : x \in IdsIn(pub) /\ pub[1].id < x
  BY <1>1, <1>2, <1>6 DEF IdsIn
<1>8. pub[1].id < nextId
  BY <1>4, <1>5 DEF InOrder, Before
<1>9. \A y \in IdsAhead(Tail(pub), txns, nextId) : pub[1].id < y
  BY <1>7, <1>8, AheadAlone
<1>10. InOrder(Tail(pub), {nextId})
  <2>1. \A i, j \in 1 .. Len(pub) - 1 : i < j => i + 1 < j + 1
    BY <1>1
  <2>2. Ascending(Tail(pub))
    BY <1>1, <1>2, <1>5, <2>1 DEF InOrder, Ascending
  <2>3. QED
    BY <1>5, <1>7, <2>2 DEF InOrder, Before
<1>11. QED
  BY <1>1, <1>3, <1>4, <1>9, <1>10, AheadMembers

(* A turn of the publication loop.                                         *)
LEMMA PublicationNumbered ==
  ASSUME Typed, Typed', Numbered, Publishes \/ GivesUp
  PROVE  Numbered'
<1> DEFINE e == EventOf(pub[1])
<1>1. /\ txns = <<>> /\ pub # <<>> /\ txns' = txns /\ nextId' = nextId
      /\ pub' = Tail(pub)
  BY DEF Publishes, GivesUp
<1>2. /\ e \in Events /\ e.id \in IdsAhead(pub, txns, nextId)
      /\ \A y \in IdsAhead(pub', txns', nextId') : e.id < y
      /\ InOrder(pub', {nextId'})
  BY <1>1, FirstIsOldest
<1>3. disk' \in {disk, Append(disk, e)} /\ sent' \in {sent, Append(sent, e)}
  BY WriteOutcomes DEF Publishes, GivesUp
<1>4. StackNumbered(txns', nextId')
  BY <1>1 DEF StackNumbered
<1> HIDE DEF e
<1>5. QED
  BY <1>2, <1>3, <1>4, RecordNumbered

(* So identifiers are in order after every step.                           *)
LEMMA StepNumbered ==
  ASSUME Inv, Inv', Numbered, Step
  PROVE  Numbered'
<1>1. Typed /\ Typed'
  <2>1. Inv => Typed
    BY TypedFacts
  <2>2. (Inv => Typed)'
    BY TypedFacts, PTL
  <2>3. QED
    BY <2>1, <2>2
<1>2. QED
  BY <1>1, LogsNumbered, CommitsNumbered, IsNotLoggedNumbered, QuietNumbered,
     OpensNumbered, JoinsNumbered, StartsToPublishNumbered, PublicationNumbered,
     UndoesNumbered, ClosesNumbered DEF Step

-----------------------------------------------------------------------------
(* What is announced is logged.                                            *)

(* The elements of a sequence that grows.                                  *)
LEMMA AppendElements ==
  ASSUME NEW q \in Seq(Events), NEW e \in Events
  PROVE  ToSet(Append(q, e)) = ToSet(q) \cup {e}
<1>1. /\ DOMAIN Append(q, e) = 1 .. Len(q) + 1 /\ DOMAIN q = 1 .. Len(q)
      /\ Len(q) \in Nat /\ Append(q, e)[Len(q) + 1] = e
      /\ \A i \in 1 .. Len(q) : Append(q, e)[i] = q[i]
  OBVIOUS
<1>2. \A i : i \in 1 .. Len(q) + 1 <=> i \in 1 .. Len(q) \/ i = Len(q) + 1
  BY <1>1
<1>3. QED
  BY <1>1, <1>2 DEF ToSet

(* A record, its hooks and its event.                                      *)
LEMMA RecordAnnounced ==
  ASSUME Typed, Announced, ~failed, NEW e \in Events, WriteRecord(e),
         sent' \in {sent, Append(sent, e)}
  PROVE  Announced'
<1>1. CASE HasLog
  <2>1. /\ disk = hooked /\ ToSet(sent) \subseteq ToSet(hooked)
        /\ disk' = Append(disk, e) /\ hooked' = Append(hooked, e) /\ ~failed'
    BY <1>1 DEF Announced, WriteRecord
  <2>2. /\ ToSet(Append(hooked, e)) = ToSet(hooked) \cup {e}
        /\ ToSet(Append(sent, e)) = ToSet(sent) \cup {e}
    BY AppendElements DEF Typed
  <2>3. ToSet(sent') \subseteq ToSet(hooked')
    BY <2>1, <2>2
  <2>4. QED
    BY <2>1, <2>3 DEF Announced
<1>2. QED
  BY <1>1 DEF Announced

(* A record that fails is not announced.                                   *)
LEMMA FailureAnnounced ==
  ASSUME Announced, ~failed, NEW e \in Events, WriteFails(e), UNCHANGED sent
  PROVE  Announced'
<1>1. /\ HasLog /\ disk' \in {disk, Append(disk, e)} /\ hooked' = hooked /\ failed'
  BY DEF WriteFails
<1>2. disk = hooked /\ ToSet(sent') \subseteq ToSet(hooked')
  BY <1>1 DEF Announced
<1>3. QED
  BY <1>1, <1>2 DEF Announced

(* Nothing is announced that is not logged, after every step.              *)
LEMMA StepAnnounced ==
  ASSUME Inv, Announced, Step
  PROVE  Announced'
<1>1. Typed
  BY TypedFacts
<1>2. ASSUME UNCHANGED <<disk, failed, hooked, sent>> PROVE Announced'
  BY <1>2 DEF Announced
<1>3. ASSUME NEW e \in Events, Commits(e) PROVE Announced'
  BY <1>1, <1>3, WriteOutcomes, RecordAnnounced DEF Commits
<1>4. ASSUME NEW e \in Events, IsNotLogged(e) PROVE Announced'
  BY <1>4, FailureAnnounced DEF IsNotLogged
<1>5. pub # <<>> => EventOf(pub[1]) \in Events
  <2>1. pub # <<>> => pub[1] \in Actions
    BY <1>1, TailFacts DEF Typed
  <2>2. QED
    BY <2>1, EventOfTypes
<1>6. CASE Publishes
  BY <1>1, <1>5, <1>6, WriteOutcomes, RecordAnnounced DEF Publishes
<1>7. CASE GivesUp
  <2>1. CASE failed
    BY <1>2, <1>7, <2>1 DEF GivesUp
  <2>2. CASE ~failed
    BY <1>5, <1>7, <2>2, FailureAnnounced DEF GivesUp
  <2>3. QED
    BY <2>1, <2>2
<1>8. QED
  BY <1>2, <1>3, <1>4, <1>6, <1>7 DEF Step, Logs, Quiet, Opens, Joins,
     StartsToPublish, Undoes, Closes

-----------------------------------------------------------------------------
(* What is pending leads forward to the store.                             *)

(* An undo log read backwards: the oldest action changed the store the     *)
(* transaction started from, the newest led to the present one.            *)
LEMMA ReverseLeadsForth ==
  ASSUME NEW q \in Seq(Actions), NEW s, NEW base, LeadsBack(q, s, base),
         \A k \in 1 .. Len(q) : WellLogged(q[k])
  PROVE  /\ LeadsForth(Reverse(q), s)
         /\ q = <<>> => Reverse(q) = <<>>
         /\ q # <<>> => Reverse(q) # <<>> /\ Reverse(q)[1].before = base
<1> DEFINE p == Reverse(q)
           n == Len(q)
<1>1. /\ p \in Seq(Actions) /\ Len(p) = n /\ n \in Nat
      /\ \A k \in 1 .. n : (n - k) + 1 \in 1 .. n /\ p[k] = q[(n - k) + 1]
  BY ReverseFacts
<1>2. q = <<>> <=> n = 0
  OBVIOUS
<1>3. p = <<>> <=> n = 0
  BY <1>1
<1> HIDE DEF p, n
<1>4. \A k \in 1 .. n : WellLogged(p[k])
  BY <1>1 DEF n
<1>5. ASSUME n # 0 PROVE s = After(p[n]) /\ p[1].before = base
  <2>1. n \in 1 .. n /\ 1 \in 1 .. n /\ (n - n) + 1 = 1 /\ (n - 1) + 1 = n
    BY <1>1, <1>5
  <2>2. p[n] = q[1] /\ p[1] = q[n]
    <3>1. p[n] = q[(n - n) + 1] /\ p[1] = q[(n - 1) + 1]
      BY <1>1, <2>1
    <3>2. QED
      BY <2>1, <3>1
  <2>3. s = After(q[1]) /\ base = q[n].before
    BY <1>2, <1>5 DEF LeadsBack, n
  <2>4. QED
    BY <2>2, <2>3
<1>6. ASSUME NEW k \in 1 .. n - 1 PROVE p[k + 1].before = After(p[k])
  <2>1. /\ k \in 1 .. n /\ k + 1 \in 1 .. n /\ n - k \in 1 .. n - 1
        /\ (n - (k + 1)) + 1 = n - k
    BY <1>1
  <2>2. p[k] = q[(n - k) + 1] /\ p[k + 1] = q[n - k]
    <3>1. p[k] = q[(n - k) + 1] /\ p[k + 1] = q[(n - (k + 1)) + 1]
      BY <1>1, <2>1
    <3>2. QED
      BY <2>1, <3>1
  <2>3. \A j \in 1 .. n - 1 : q[j].before = After(q[j + 1])
    BY DEF LeadsBack, n
  <2>4. q[n - k].before = After(q[(n - k) + 1])
    BY <2>1, <2>3
  <2>5. QED
    BY <2>2, <2>4
<1>7. LeadsForth(p, s)
  BY <1>1, <1>3, <1>4, <1>5, <1>6 DEF LeadsForth
<1>8. QED
  BY <1>2, <1>3, <1>5, <1>7 DEF p

(* The first action is published.                                          *)
LEMMA LeadsForthTail ==
  ASSUME NEW q \in Seq(Actions), q # <<>>, NEW s, LeadsForth(q, s)
  PROVE  /\ LeadsForth(Tail(q), s) /\ WellLogged(q[1]) /\ q[1] \in Actions
         /\ After(q[1]) = IF Tail(q) = <<>> THEN s ELSE Tail(q)[1].before
         /\ \A k \in 1 .. Len(Tail(q)) : k + 1 \in 1 .. Len(q) /\ Tail(q)[k] = q[k + 1]
<1> DEFINE p == Tail(q)
           n == Len(q)
<1>1. /\ n \in Nat \ {0} /\ p \in Seq(Actions) /\ Len(p) = n - 1
      /\ \A k \in 1 .. n - 1 : p[k] = q[k + 1]
      /\ q[1] \in Actions /\ (p = <<>> <=> n = 1)
  BY TailFacts
<1> HIDE DEF p
<1>2. /\ s = After(q[n])
      /\ \A k \in 1 .. n - 1 : q[k + 1].before = After(q[k])
      /\ \A k \in 1 .. n : WellLogged(q[k])
  BY DEF LeadsForth
<1> HIDE DEF n
<1>3. \A k \in 1 .. n - 1 : k + 1 \in 1 .. n
  BY <1>1
<1>4. p # <<>> => s = After(p[Len(p)])
  <2>1. p # <<>> => n - 1 \in 1 .. n - 1 /\ (n - 1) + 1 = n
    BY <1>1
  <2>2. p # <<>> => p[n - 1] = q[n]
    BY <1>1, <2>1
  <2>3. QED
    BY <1>1, <1>2, <2>2
<1>5. ASSUME NEW k \in 1 .. Len(p) - 1 PROVE p[k + 1].before = After(p[k])
  <2>1. k \in 1 .. n - 1 /\ k + 1 \in 1 .. n - 1
    BY <1>1
  <2>2. QED
    BY <1>1, <1>2, <2>1
<1>6. \A k \in 1 .. Len(p) : WellLogged(p[k])
  BY <1>1, <1>2, <1>3
<1>7. LeadsForth(p, s)
  BY <1>4, <1>5, <1>6 DEF LeadsForth
<1>8. After(q[1]) = IF p = <<>> THEN s ELSE p[1].before
  <2>1. CASE n = 1
    BY <1>1, <1>2, <2>1
  <2>2. CASE n # 1
    <3>1. 1 \in 1 .. n - 1 /\ 1 + 1 = 2
      BY <1>1, <2>2
    <3>2. p[1] = q[2] /\ q[2].before = After(q[1])
      BY <1>1, <1>2, <3>1
    <3>3. QED
      BY <1>1, <2>2, <3>2
  <2>3. QED
    BY <2>1, <2>2
<1>9. 1 \in 1 .. n
  BY <1>1
<1>10. QED
  BY <1>1, <1>2, <1>3, <1>7, <1>8, <1>9 DEF p, n

(* Nothing is pending after it.                                            *)
LEMMA NothingLeadsForth == \A s : LeadsForth(<<>>, s) /\ Wanted(<<>>)
BY DEF LeadsForth, Wanted

(* The actions of a stack of transactions that are wanted by the replicas. *)
AllWanted(t) == \A i \in 1 .. Len(t) : Wanted(t[i].log)

(* The log of the innermost transaction is replaced.                       *)
LEMMA WantedLog ==
  ASSUME NEW t \in Seq(Transactions), t # <<>>, NEW l \in Seq(Actions),
         AllWanted(t), Wanted(l)
  PROVE  AllWanted([t EXCEPT ![1].log = l])
<1> DEFINE u == [t EXCEPT ![1].log = l]
<1>1. /\ Len(u) = Len(t) /\ u[1].log = l /\ Len(t) \in Nat
      /\ \A i \in 2 .. Len(t) : u[i] = t[i]
  BY LogReplaced
<1> HIDE DEF u
<1>2. ASSUME NEW i \in 1 .. Len(u) PROVE Wanted(u[i].log)
  <2>1. CASE i = 1
    BY <1>1, <2>1
  <2>2. CASE i # 1
    <3>1. i \in 2 .. Len(t) /\ i \in 1 .. Len(t)
      BY <1>1, <2>2
    <3>2. QED
      BY <1>1, <3>1 DEF AllWanted
  <2>3. QED
    BY <2>1, <2>2
<1>3. QED
  BY <1>2 DEF AllWanted, u

(* The actions of one log after those of another.                          *)
LEMMA WantedConcat ==
  ASSUME NEW p \in Seq(Actions), NEW q \in Seq(Actions), Wanted(p), Wanted(q)
  PROVE  p \o q \in Seq(Actions) /\ Wanted(p \o q)
<1> DEFINE m == Len(p)
           n == Len(q)
           r == p \o q
<1>1. /\ r \in Seq(Actions) /\ Len(r) = m + n /\ m \in Nat /\ n \in Nat
      /\ \A k \in 1 .. m : r[k] = p[k]
      /\ \A k \in 1 .. n : r[m + k] = q[k]
  <2>1. m \in Nat /\ n \in Nat
    OBVIOUS
  <2>2. QED
    BY <2>1, ConcatFacts
<1>2. ServerCount => (\A k \in 1 .. m : p[k].broadcast) /\ (\A k \in 1 .. n : q[k].broadcast)
  BY DEF Wanted
<1> HIDE DEF m, n, r
<1>3. ASSUME ServerCount, NEW k \in 1 .. Len(r) PROVE r[k].broadcast
  <2>1. CASE k \in 1 .. m
    BY <1>1, <1>2, <1>3, <2>1
  <2>2. CASE k \notin 1 .. m
    <3>1. k - m \in 1 .. n /\ m + (k - m) = k
      BY <1>1, <2>2
    <3>2. r[k] = q[k - m]
      BY <1>1, <3>1
    <3>3. QED
      BY <1>2, <1>3, <3>1, <3>2
  <2>3. QED
    BY <2>1, <2>2
<1>4. QED
  BY <1>1, <1>3 DEF Wanted, r

(* The tail of a log.                                                      *)
LEMMA WantedTail ==
  ASSUME NEW S, NEW q \in Seq(S), q # <<>>, Wanted(q)
  PROVE  Wanted(Tail(q))
<1>1. /\ Len(q) \in Nat \ {0} /\ Len(Tail(q)) = Len(q) - 1
      /\ \A k \in 1 .. Len(q) - 1 : Tail(q)[k] = q[k + 1]
  BY TailFacts
<1>2. \A k \in 1 .. Len(q) - 1 : k + 1 \in 1 .. Len(q)
  BY <1>1
<1>3. QED
  BY <1>1, <1>2 DEF Wanted

(* Transactions but the innermost.                                         *)
LEMMA AllWantedTail ==
  ASSUME NEW t \in Seq(Transactions), t # <<>>, AllWanted(t)
  PROVE  AllWanted(Tail(t))
<1>1. /\ Len(t) \in Nat \ {0} /\ Len(Tail(t)) = Len(t) - 1
      /\ \A k \in 1 .. Len(t) - 1 : Tail(t)[k] = t[k + 1]
  BY TailFacts
<1>2. \A k \in 1 .. Len(t) - 1 : k + 1 \in 1 .. Len(t)
  BY <1>1
<1>3. QED
  BY <1>1, <1>2 DEF AllWanted

(* What is pending leads forward to the store after every step.            *)
LEMMA StepPending ==
  ASSUME Inv, Pending, Step
  PROVE  Pending'
<1>1. /\ txns \in Seq(Transactions) /\ pub \in Seq(Actions) /\ store \in Stores
      /\ nextId \in Ids /\ Chain(txns, store) /\ AllWanted(txns)
      /\ LeadsForth(pub, store) /\ Wanted(pub)
  BY TypedFacts, UndoChainIsChain DEF Inv, Typed, Pending, AllWanted
<1>2. txns # <<>> => pub = <<>> /\ 1 \in 1 .. Len(txns)
                     /\ txns[1].log \in Seq(Actions) /\ Wanted(txns[1].log)
  <2>1. txns # <<>> => 1 \in 1 .. Len(txns)
    BY <1>1
  <2>2. QED
    BY <1>1, <2>1, PublishedBefore, LogTypes DEF AllWanted
<1>3. ASSUME AllWanted(txns'), LeadsForth(pub', store'), Wanted(pub')
      PROVE  Pending'
  BY <1>3 DEF Pending, AllWanted
<1>4. AllWanted(<<>>)
  BY DEF AllWanted
<1>5. ASSUME NEW a \in Actions, Logs(a) PROVE Pending'
  <2>1. txns # <<>> /\ (ServerCount => a.broadcast) /\ <<a>> \in Seq(Actions)
    BY <1>5 DEF Logs
  <2>2. Wanted(<<a>>)
    BY <2>1 DEF Wanted
  <2>3. <<a>> \o txns[1].log \in Seq(Actions) /\ Wanted(<<a>> \o txns[1].log)
    BY <1>2, <2>1, <2>2, WantedConcat
  <2>4. AllWanted(txns')
    BY <1>1, <1>5, <2>3, WantedLog DEF Logs
  <2>5. QED
    BY <1>2, <1>3, <1>5, <2>4, NothingLeadsForth DEF Logs
<1>6. ASSUME NEW e \in Events, Commits(e) \/ IsNotLogged(e) PROVE Pending'
  BY <1>3, <1>4, <1>6, NothingLeadsForth DEF Commits, IsNotLogged
<1>7. CASE Quiet
  BY <1>1, <1>3, <1>7 DEF Quiet
<1>8. CASE Opens
  <2>1. /\ Len(txns') = Len(txns) + 1 /\ Len(txns) \in Nat /\ txns'[1].log = <<>>
        /\ \A i \in 1 .. Len(txns) : txns'[i + 1] = txns[i]
    BY <1>1, <1>8, ChainOpen DEF Opens
  <2>2. ASSUME NEW i \in 1 .. Len(txns') PROVE Wanted(txns'[i].log)
    <3>1. CASE i = 1
      BY <2>1, <3>1, NothingLeadsForth
    <3>2. CASE i # 1
      <4>1. i - 1 \in 1 .. Len(txns) /\ (i - 1) + 1 = i
        BY <2>1, <3>2
      <4>2. txns'[i] = txns[i - 1]
        BY <2>1, <4>1
      <4>3. QED
        BY <1>1, <4>1, <4>2 DEF AllWanted
    <3>3. QED
      BY <3>1, <3>2
  <2>3. AllWanted(txns')
    BY <2>2 DEF AllWanted
  <2>4. QED
    BY <1>1, <1>3, <1>8, <2>3 DEF Opens
<1>9. CASE Joins
  <2>1. /\ Len(txns) \in Nat /\ Len(txns) > 1 /\ txns # <<>> /\ 2 \in 1 .. Len(txns)
    <3>1. Len(txns) \in Nat /\ Len(txns) > 1 /\ (txns = <<>> => Len(txns) = 0)
      BY <1>1, <1>9 DEF Joins
    <3>2. QED
      BY <3>1
  <2>2. Tail(txns) \in Seq(Transactions) /\ Tail(txns) # <<>> /\ AllWanted(Tail(txns))
    <3>1. Tail(txns) \in Seq(Transactions) /\ (Tail(txns) = <<>> <=> Len(txns) = 1)
      BY <1>1, <2>1, TailFacts
    <3>2. Len(txns) # 1
      <4> DEFINE n == Len(txns)
      <4>1. n \in Nat /\ n > 1
        BY <2>1
      <4> HIDE DEF n
      <4>2. n # 1
        BY <4>1
      <4>3. QED
        BY <4>2 DEF n
    <3>3. QED
      BY <1>1, <2>1, <3>1, <3>2, AllWantedTail
  <2>3. txns[2].log \in Seq(Actions) /\ Wanted(txns[2].log)
    BY <1>1, <2>1, LogTypes DEF AllWanted
  <2>4. txns[1].log \o txns[2].log \in Seq(Actions)
        /\ Wanted(txns[1].log \o txns[2].log)
    BY <1>2, <2>1, <2>3, WantedConcat
  <2>5. AllWanted(txns')
    BY <1>9, <2>2, <2>4, WantedLog DEF Joins
  <2>6. QED
    BY <1>1, <1>3, <1>9, <2>5 DEF Joins
<1>10. CASE StartsToPublish
  <2>1. txns # <<>> /\ txns' = <<>> /\ pub' = Reverse(txns[1].log) /\ store' = store
    <3>1. Len(txns) = 1
      BY <1>10 DEF StartsToPublish
    <3>2. txns = <<>> => Len(txns) = 0
      OBVIOUS
    <3>3. QED
      BY <1>10, <3>1, <3>2 DEF StartsToPublish
  <2>2. /\ LeadsBack(txns[1].log, store, txns[1].base)
        /\ \A k \in 1 .. Len(txns[1].log) : WellLogged(txns[1].log[k])
    BY <1>1, <1>2, <2>1 DEF Chain
  <2>3. LeadsForth(pub', store')
    BY <1>2, <2>1, <2>2, ReverseLeadsForth
  <2>4. Wanted(pub')
    BY <1>2, <2>1, ReverseFacts DEF Wanted
  <2>5. QED
    BY <1>3, <1>4, <2>1, <2>3, <2>4
<1>11. CASE Publishes \/ GivesUp
  <2>1. /\ pub # <<>> /\ txns = <<>> /\ txns' = txns /\ pub' = Tail(pub)
        /\ store' = store
    BY <1>11 DEF Publishes, GivesUp
  <2>2. LeadsForth(pub', store') /\ Wanted(pub')
    BY <1>1, <2>1, LeadsForthTail, WantedTail
  <2>3. QED
    BY <1>3, <1>4, <2>1, <2>2
<1>12. CASE Undoes
  <2>1. txns # <<>> /\ txns[1].log # <<>>
    BY <1>12 DEF Undoes
  <2>2. Tail(txns[1].log) \in Seq(Actions) /\ Wanted(Tail(txns[1].log))
    BY <1>2, <2>1, TailFacts, WantedTail
  <2>3. AllWanted(txns')
    BY <1>1, <1>12, <2>1, <2>2, WantedLog DEF Undoes
  <2>4. QED
    BY <1>2, <1>3, <1>12, <2>1, <2>3, NothingLeadsForth DEF Undoes
<1>13. CASE Closes
  <2>1. AllWanted(txns')
    BY <1>1, <1>13, AllWantedTail DEF Closes
  <2>2. QED
    BY <1>1, <1>3, <1>13, <2>1 DEF Closes
<1>14. QED
  BY <1>5, <1>6, <1>7, <1>8, <1>9, <1>10, <1>11, <1>12, <1>13 DEF Step

-----------------------------------------------------------------------------
(* Log and replicas replay to what is committed.                           *)

Nothing == [f \in Triples |-> NoId]

(* An action replays as it was made.                                       *)
LEMMA EventReplays ==
  ASSUME NEW a \in Actions, WellLogged(a)
  PROVE  Apply(a.before, EventOf(a)) = After(a)
<1>1. /\ EventOf(a).op = a.op /\ EventOf(a).id = a.id /\ EventOf(a).fact = a.fact
      /\ a.op \in {"add", "remove"}
  BY DEF EventOf, Event, Actions
<1>2. QED
  BY <1>1 DEF Apply, After, WellLogged

(* One more record replays to one more step.                               *)
LEMMA ReplayGrows ==
  ASSUME NEW q \in Seq(Events), NEW e \in Events
  PROVE  Replay(Append(q, e)) = Apply(Replay(q), e)
<1>1. Nothing \in Stores
  BY UwMaxAssumption DEF Nothing, Stores, Ids, NoId
<1>2. QED
  BY <1>1, ReplayAppend DEF Replay, Nothing

(* Nothing is committed by this step.                                      *)
LEMMA ReplayedFrame ==
  ASSUME Replayed, UNCHANGED <<disk, sent>>, failed' = failed, Published' = Published
  PROVE  Replayed'
BY DEF Replayed

(* What one event commits is recorded, and sent to those who want it.      *)
LEMMA ReplayedGrows ==
  ASSUME Typed, Replayed, NEW e \in Events, Published' = Apply(Published, e),
         ~failed, WriteRecord(e), NEW wanted \in BOOLEAN, Broadcast(e, wanted),
         ServerCount => wanted
  PROVE  Replayed'
<1>1. disk \in Seq(Events) /\ sent \in Seq(Events)
  BY DEF Typed
<1>2. HasLog => Replay(disk') = Published'
  <2>1. HasLog => Replay(disk) = Published /\ disk' = Append(disk, e)
    BY DEF Replayed, WriteRecord
  <2>2. Replay(Append(disk, e)) = Apply(Replay(disk), e)
    BY <1>1, ReplayGrows
  <2>3. QED
    BY <2>1, <2>2
<1>3. Connected /\ ServerCount => Replay(sent') = Published'
  <2>1. Connected /\ ServerCount => Replay(sent) = Published /\ sent' = Append(sent, e)
    BY DEF Replayed, Broadcast
  <2>2. Replay(Append(sent, e)) = Apply(Replay(sent), e)
    BY <1>1, ReplayGrows
  <2>3. QED
    BY <2>1, <2>2
<1>4. QED
  BY <1>2, <1>3 DEF Replayed

(* The store the outermost transaction started from.                       *)
LEMMA PublishedInTransaction ==
  ASSUME txns # <<>>
  PROVE  Published = txns[Len(txns)].base
BY DEF Published

(* The same after a step.                                                  *)
LEMMA PublishedInTransactionPrime ==
  ASSUME txns' # <<>>
  PROVE  Published' = txns'[Len(txns')].base
BY DEF Published

(* Outside a transaction: what the next action to be published changed.    *)
LEMMA PublishedAlone ==
  ASSUME txns = <<>>
  PROVE  Published = IF pub # <<>> THEN Head(pub).before ELSE store
BY DEF Published

(* The same after a step.                                                  *)
LEMMA PublishedAlonePrime ==
  ASSUME txns' = <<>>
  PROVE  Published' = IF pub' # <<>> THEN Head(pub').before ELSE store'
BY DEF Published

(* What a step on the innermost transaction leaves committed.              *)
LEMMA InnermostPublished ==
  ASSUME Typed, txns # <<>>, NEW l \in Seq(Actions),
         txns' = [txns EXCEPT ![1].log = l]
  PROVE  Published' = Published
<1>1. txns \in Seq(Transactions) /\ Len(txns) \in Nat /\ Len(txns) \in 1 .. Len(txns)
  BY DEF Typed
<1>2. /\ txns' \in Seq(Transactions) /\ Len(txns') = Len(txns)
      /\ \A i \in 1 .. Len(txns) : txns'[i].base = txns[i].base
  BY <1>1, LogReplaced
<1>3. txns' # <<>>
  <2>1. Len(txns') # 0
    BY <1>1, <1>2
  <2>2. QED
    BY <2>1
<1>4. QED
  BY <1>1, <1>2, <1>3, PublishedInTransaction, PublishedInTransactionPrime

(* Opening a transaction commits nothing.                                  *)
LEMMA OpensPublished ==
  ASSUME Inv, Typed, Opens
  PROVE  Published' = Published
<1>1. /\ txns \in Seq(Transactions) /\ store \in Stores /\ nextId \in Ids
      /\ Chain(txns, store) /\ Len(txns) \in Nat /\ pub = <<>>
  BY UndoChainIsChain DEF Inv, Typed, Opens
<1>2. /\ txns' \in Seq(Transactions) /\ Len(txns') = Len(txns) + 1
      /\ txns'[1].base = store
      /\ \A i \in 1 .. Len(txns) : txns'[i + 1] = txns[i]
  BY <1>1, ChainOpen DEF Opens
<1>3. Len(txns') # 0
  BY <1>1, <1>2
<1>4. txns' # <<>>
  BY <1>3
<1>5. Published' = txns'[Len(txns) + 1].base
  BY <1>2, <1>4, PublishedInTransactionPrime
<1>6. CASE txns = <<>>
  <2>1. Len(txns) + 1 = 1
    BY <1>6
  <2>2. QED
    BY <1>1, <1>2, <1>5, <1>6, <2>1, PublishedAlone
<1>7. CASE txns # <<>>
  <2>1. Len(txns) \in 1 .. Len(txns)
    BY <1>1, <1>7
  <2>2. QED
    BY <1>2, <1>5, <1>7, <2>1, PublishedInTransaction
<1>8. QED
  BY <1>6, <1>7

(* The end of a nested transaction commits nothing.                        *)
LEMMA JoinsPublished ==
  ASSUME Typed, Numbered, Joins
  PROVE  Published' = Published
<1>1. /\ txns \in Seq(Transactions) /\ Len(txns) \in Nat /\ Len(txns) > 1
      /\ StackNumbered(txns, nextId) /\ nextId \in Nat
      /\ txns' = [Tail(txns) EXCEPT ![1].log = txns[1].log \o txns[2].log]
  BY DEF Typed, Numbered, Joins
<1>2. /\ Len(txns') = Len(txns) - 1
      /\ \A i \in 1 .. Len(txns') : txns'[i].base = txns[i + 1].base
  BY <1>1, StackMerge
<1>3. /\ Len(txns') \in 1 .. Len(txns') /\ Len(txns') + 1 = Len(txns)
      /\ Len(txns') # 0 /\ Len(txns) # 0
  BY <1>1, <1>2
<1>4. txns # <<>> /\ txns' # <<>>
  BY <1>3
<1>5. QED
  BY <1>2, <1>3, <1>4, PublishedInTransaction, PublishedInTransactionPrime

(* Nor does that of an outermost one, before its first action is published. *)
LEMMA StartsToPublishPublished ==
  ASSUME Inv, Typed, StartsToPublish
  PROVE  Published' = Published
<1>1. /\ txns \in Seq(Transactions) /\ Len(txns) = 1 /\ Chain(txns, store)
      /\ txns' = <<>> /\ pub' = Reverse(txns[1].log) /\ store' = store
  BY UndoChainIsChain DEF Inv, Typed, StartsToPublish
<1>2. 1 \in 1 .. Len(txns) /\ txns # <<>>
  <2>1. txns = <<>> => Len(txns) = 0
    OBVIOUS
  <2>2. Len(txns) = 1
    BY <1>1
  <2>3. QED
    BY <2>1, <2>2
<1>3. /\ txns[1].log \in Seq(Actions)
      /\ LeadsBack(txns[1].log, store, txns[1].base)
      /\ \A k \in 1 .. Len(txns[1].log) : WellLogged(txns[1].log[k])
  BY <1>1, <1>2, LogTypes DEF Chain
<1>4. Published = txns[1].base
  BY <1>1, <1>2, PublishedInTransaction
<1>5. CASE txns[1].log = <<>>
  <2>1. pub' = <<>> /\ store = txns[1].base
    BY <1>1, <1>3, <1>5, ReverseLeadsForth DEF LeadsBack
  <2>2. QED
    BY <1>1, <1>4, <2>1, PublishedAlonePrime
<1>6. CASE txns[1].log # <<>>
  <2>1. pub' # <<>> /\ pub'[1].before = txns[1].base
    BY <1>1, <1>3, <1>6, ReverseLeadsForth
  <2>2. pub' \in Seq(Actions)
    BY <1>1, <1>3, ReverseFacts
  <2>3. Head(pub') = pub'[1]
    BY <2>1, <2>2
  <2>4. QED
    BY <1>1, <1>4, <2>1, <2>3, PublishedAlonePrime
<1>7. QED
  BY <1>5, <1>6

(* Closing a transaction that was undone commits nothing.                  *)
LEMMA ClosesPublished ==
  ASSUME Inv, Typed, Closes
  PROVE  Published' = Published
<1>1. /\ txns \in Seq(Transactions) /\ txns # <<>> /\ Chain(txns, store)
      /\ txns[1].log = <<>> /\ txns' = Tail(txns) /\ store' = store
      /\ pub = <<>> /\ pub' = <<>>
  BY UndoChainIsChain, PublishedBefore DEF Inv, Typed, Closes
<1>2. store = txns[1].base
  BY <1>1, ChainClose
<1>3. /\ Len(txns) \in Nat \ {0} /\ Len(txns') = Len(txns) - 1
      /\ \A k \in 1 .. Len(txns) - 1 : txns'[k] = txns[k + 1]
      /\ txns' = <<>> <=> Len(txns) = 1
  BY <1>1, TailFacts
<1>4. Published = txns[Len(txns)].base
  BY <1>1, PublishedInTransaction
<1>5. CASE Len(txns) = 1
  <2>1. txns' = <<>>
    BY <1>3, <1>5
  <2>2. QED
    BY <1>1, <1>2, <1>4, <1>5, <2>1, PublishedAlonePrime
<1>6. CASE Len(txns) # 1
  <2>1. txns' # <<>>
    BY <1>3, <1>6
  <2>2. Len(txns') \in 1 .. Len(txns) - 1 /\ Len(txns') + 1 = Len(txns)
    BY <1>3, <1>6
  <2>3. txns'[Len(txns')] = txns[Len(txns)]
    BY <1>3, <2>2
  <2>4. QED
    BY <1>4, <2>1, <2>3, PublishedInTransactionPrime
<1>7. QED
  BY <1>5, <1>6

(* Publishing an action commits what it did.                               *)
LEMMA PublicationPublished ==
  ASSUME Typed, Pending, txns = <<>>, txns' = <<>>, pub # <<>>, pub' = Tail(pub),
         store' = store
  PROVE  Published' = Apply(Published, EventOf(pub[1]))
<1>1. pub \in Seq(Actions) /\ LeadsForth(pub, store)
  BY DEF Typed, Pending
<1>2. /\ WellLogged(pub[1]) /\ pub[1] \in Actions
      /\ After(pub[1]) = IF Tail(pub) = <<>> THEN store ELSE Tail(pub)[1].before
  BY <1>1, LeadsForthTail
<1>3. Apply(pub[1].before, EventOf(pub[1])) = After(pub[1])
  BY <1>2, EventReplays
<1>4. Published = pub[1].before
  BY <1>1, PublishedAlone
<1>5. Tail(pub) \in Seq(Actions)
  BY <1>1, TailFacts
<1>6. Tail(pub) # <<>> => Head(Tail(pub)) = Tail(pub)[1]
  BY <1>5
<1>7. Published' = After(pub[1])
  BY <1>2, <1>6, PublishedAlonePrime
<1>8. QED
  BY <1>3, <1>4, <1>7

(* Log and replicas replay to what is committed after every step.          *)
LEMMA StepReplayed ==
  ASSUME Inv, Inv', Numbered, Pending, Replayed, Step
  PROVE  Replayed'
<1>1. Typed
  BY TypedFacts
<1>2. ASSUME UNCHANGED <<disk, sent, failed>>, Published' = Published
      PROVE  Replayed'
  BY <1>2, ReplayedFrame
<1>3. ASSUME failed' PROVE Replayed'
  BY <1>3 DEF Replayed
<1>4. txns # <<>> => txns[1].log \in Seq(Actions)
  <2>1. txns # <<>> => 1 \in 1 .. Len(txns)
    BY <1>1 DEF Typed
  <2>2. QED
    BY <1>1, <2>1, LogTypes DEF Typed
<1>5. ASSUME NEW a \in Actions, Logs(a) PROVE Replayed'
  <2>1. txns # <<>> /\ <<a>> \o txns[1].log \in Seq(Actions)
    BY <1>4, <1>5 DEF Logs
  <2>2. Published' = Published
    BY <1>1, <1>5, <2>1, InnermostPublished DEF Logs
  <2>3. QED
    BY <1>2, <1>5, <2>2 DEF Logs
<1>6. ASSUME NEW e \in Events, Commits(e) PROVE Replayed'
  <2>1. Published = store /\ Published' = store'
    BY <1>6, PublishedAlone, PublishedAlonePrime DEF Commits
  <2>2. Published' = Apply(Published, e)
    BY <1>6, <2>1 DEF Commits
  <2>3. PICK wanted \in BOOLEAN : Broadcast(e, wanted) /\ (ServerCount => wanted)
    BY <1>6 DEF Commits
  <2>4. QED
    BY <1>1, <1>6, <2>2, <2>3, ReplayedGrows DEF Commits
<1>7. ASSUME NEW e \in Events, IsNotLogged(e) PROVE Replayed'
  BY <1>3, <1>7 DEF IsNotLogged, WriteFails
<1>8. CASE Quiet
  BY <1>2, <1>8 DEF Quiet, Published
<1>9. CASE Opens
  BY <1>1, <1>2, <1>9, OpensPublished DEF Opens
<1>10. CASE Joins
  BY <1>1, <1>2, <1>10, JoinsPublished DEF Joins
<1>11. CASE StartsToPublish
  BY <1>1, <1>2, <1>11, StartsToPublishPublished DEF StartsToPublish
<1>12. CASE Publishes
  <2>1. pub[1] \in Actions /\ Wanted(pub) /\ 1 \in 1 .. Len(pub)
    <3>1. pub \in Seq(Actions) /\ pub # <<>>
      BY <1>1, <1>12 DEF Typed, Publishes
    <3>2. QED
      BY <3>1, TailFacts DEF Pending
  <2>2. EventOf(pub[1]) \in Events /\ pub[1].broadcast \in BOOLEAN
        /\ (ServerCount => pub[1].broadcast)
    BY <2>1, EventOfTypes DEF Actions, Wanted
  <2>3. Published' = Apply(Published, EventOf(pub[1]))
    BY <1>1, <1>12, PublicationPublished DEF Publishes
  <2>4. QED
    BY <1>1, <1>12, <2>2, <2>3, ReplayedGrows DEF Publishes
<1>13. CASE GivesUp
  BY <1>3, <1>13 DEF GivesUp, WriteFails
<1>14. CASE Undoes
  <2>1. txns # <<>> /\ Tail(txns[1].log) \in Seq(Actions)
    BY <1>4, <1>14, TailFacts DEF Undoes
  <2>2. Published' = Published
    BY <1>1, <1>14, <2>1, InnermostPublished DEF Undoes
  <2>3. QED
    BY <1>2, <1>14, <2>2 DEF Undoes
<1>15. CASE Closes
  BY <1>1, <1>2, <1>15, ClosesPublished DEF Closes
<1>16. QED
  BY <1>5, <1>6, <1>7, <1>8, <1>9, <1>10, <1>11, <1>12, <1>13, <1>14, <1>15
     DEF Step

-----------------------------------------------------------------------------
(* The initial states: nothing is stored and nothing is written.           *)
LEMMA InitReplayInv == Init => ReplayInv
<1> SUFFICES ASSUME Init PROVE ReplayInv
  OBVIOUS
<1>1. /\ store = Nothing /\ txns = <<>> /\ pub = <<>> /\ disk = <<>>
      /\ hooked = <<>> /\ sent = <<>> /\ failed = FALSE
  BY DEF Init, Nothing
<1>2. Numbered
  BY <1>1, EmptyInOrder DEF Numbered, StackNumbered
<1>3. Announced
  BY <1>1 DEF Announced
<1>4. Pending
  BY <1>1, NothingLeadsForth DEF Pending
<1>5. Replayed
  <2>1. Nothing \in Stores
    BY UwMaxAssumption DEF Nothing, Stores, Ids, NoId
  <2>2. Replay(<<>>) = Nothing
    BY <2>1, ReplayNothing DEF Replay, Nothing
  <2>3. Published = Nothing
    BY <1>1, PublishedAlone
  <2>4. QED
    BY <1>1, <2>2, <2>3 DEF Replayed
<1>6. QED
  BY <1>2, <1>3, <1>4, <1>5 DEF ReplayInv

(* Every step keeps the invariant.                                         *)
LEMMA NextReplayInv == Inv /\ Inv' /\ ReplayInv /\ [Next]_vars => ReplayInv'
<1> SUFFICES ASSUME Inv, Inv', ReplayInv, [Next]_vars PROVE ReplayInv'
  OBVIOUS
<1>1. Step
  BY StepKinds
<1>2. QED
  BY <1>1, StepNumbered, StepAnnounced, StepPending, StepReplayed DEF ReplayInv

(* What is written, announced and pending is in order and leads from one   *)
(* committed store to the next.                                            *)
THEOREM ReplayInvariant == Spec => []ReplayInv
BY InitReplayInv, NextReplayInv, Invariance, PTL DEF Spec

(* Whatever the depth of the transactions and however the operations fail, *)
(* identifiers grow along the log file and along the events of a replica.  *)
THEOREM EventsStayInOrder == Spec => []EventsInOrder
<1>1. Inv /\ ReplayInv => EventsInOrder
  <2> SUFFICES ASSUME Inv, ReplayInv PROVE EventsInOrder
    OBVIOUS
  <2>1. disk \in Seq(Events) /\ sent \in Seq(Events)
    BY TypedFacts DEF Typed
  <2>2. DOMAIN disk = 1 .. Len(disk) /\ DOMAIN sent = 1 .. Len(sent)
    BY <2>1
  <2>3. Ascending(disk) /\ Ascending(sent)
    BY DEF ReplayInv, Numbered, InOrder
  <2>4. QED
    BY <2>2, <2>3 DEF Ascending, EventsInOrder
<1>2. QED
  BY <1>1, Invariance, ReplayInvariant, PTL

(* Hooks and replicas are told nothing that the log file does not hold,    *)
(* and the file is at most the one failed record ahead of the hooks.       *)
THEOREM OnlyLoggedIsAnnounced == Spec => []AnnouncedIsLogged
<1>1. Inv /\ ReplayInv => AnnouncedIsLogged
  <2> SUFFICES ASSUME Inv, ReplayInv, HasLog PROVE AnnouncedIsLogged
    BY DEF AnnouncedIsLogged
  <2>1. hooked \in Seq(Events) /\ Len(hooked) \in Nat /\ failed \in BOOLEAN
    BY DEF Inv, TypeOK
  <2>2. /\ ~failed => disk = hooked
        /\ failed => disk = hooked \/ \E e \in Events : disk = Append(hooked, e)
        /\ ToSet(sent) \subseteq ToSet(hooked)
    BY DEF ReplayInv, Announced
  <2>3. CASE disk = hooked
    <3>1. IsPrefix(hooked, disk)
      BY <2>1, <2>3 DEF IsPrefix
    <3>2. Len(disk) <= Len(hooked) + (IF failed THEN 1 ELSE 0)
      BY <2>1, <2>3
    <3>3. QED
      BY <2>2, <3>1, <3>2 DEF AnnouncedIsLogged
  <2>4. ASSUME failed, NEW e \in Events, disk = Append(hooked, e)
        PROVE  AnnouncedIsLogged
    <3>1. /\ Len(disk) = Len(hooked) + 1 /\ disk \in Seq(Events)
          /\ \A i \in 1 .. Len(hooked) : disk[i] = hooked[i]
      BY <2>1, <2>4
    <3>2. SubSeq(hooked, 1, Len(hooked)) = SubSeq(disk, 1, Len(hooked))
      BY <2>1, <3>1
    <3>3. IsPrefix(hooked, disk)
      BY <2>1, <3>1, <3>2 DEF IsPrefix
    <3>4. QED
      BY <2>1, <2>2, <2>4, <3>1, <3>3 DEF AnnouncedIsLogged
  <2>5. QED
    BY <2>2, <2>3, <2>4
<1>2. QED
  BY <1>1, Invariance, ReplayInvariant, PTL

(* Until a write fails, the log file replays to the committed facts with   *)
(* their identifiers, and to nothing of an open or rolled back transaction. *)
THEOREM LogAlwaysReplays == Spec => []LogReplays
<1>1. ReplayInv => LogReplays
  BY DEF ReplayInv, Replayed, LogReplays
<1>2. QED
  BY <1>1, ReplayInvariant, PTL

(* So do the events, as long as the database counts its servers: a removal *)
(* outside a transaction is broadcast only then.                           *)
THEOREM ReplicasAlwaysFollow == Spec => [](ServerCount => ReplicasFollow)
<1>1. ReplayInv => (ServerCount => ReplicasFollow)
  BY DEF ReplayInv, Replayed, ReplicasFollow
<1>2. QED
  BY <1>1, ReplayInvariant, PTL

-----------------------------------------------------------------------------
(* References on tags are counted.                                         *)

(* What holds the references: a stored fact, or an action under its        *)
(* identifier.                                                             *)
Entry(a) == Holder(a.id, a.fact)

Entries(q) == {Entry(q[i]) : i \in 1 .. Len(q)}

EntriesFrom(t, n) == UNION {Entries(t[i].log) : i \in n .. Len(t)}

StoredEntries(s) == {Holder(NoId, f) : f \in {g \in Triples : s[g] # NoId}}

(* References on tag t as the k-th tag of a fact. *)
Refers(h, k, t) == h.fact[k] = t

RefsOf(H, k, t) == {h \in H : Refers(h, k, t)}

RefCount(H, t) ==
  Cardinality(RefsOf(H, 1, t)) + Cardinality(RefsOf(H, 2, t))
    + Cardinality(RefsOf(H, 3, t))

Counts(u, H) == IsFiniteSet(H) /\ \A t \in Tags : u[t] = RefCount(H, t)

(* A holder of references more.                                            *)
LEMMA RefsGrow ==
  ASSUME NEW H, IsFiniteSet(H), NEW h, h \notin H,
         NEW G, G = H \cup {h}, NEW k, NEW t
  PROVE  /\ IsFiniteSet(G)
         /\ Cardinality(RefsOf(H, k, t)) \in Nat
         /\ Refers(h, k, t) => Cardinality(RefsOf(G, k, t))
                              = Cardinality(RefsOf(H, k, t)) + 1
         /\ ~Refers(h, k, t) => Cardinality(RefsOf(G, k, t))
                              = Cardinality(RefsOf(H, k, t))
<1>1. IsFiniteSet(RefsOf(H, k, t))
  <2>1. RefsOf(H, k, t) \in SUBSET H
    BY DEF RefsOf
  <2>2. QED
    BY <2>1, FS_Subset
<1>2. Cardinality(RefsOf(H, k, t)) \in Nat
  BY <1>1, FS_CardinalityType
<1>3. CASE Refers(h, k, t)
  <2>1. RefsOf(G, k, t) = RefsOf(H, k, t) \cup {h} /\ h \notin RefsOf(H, k, t)
    BY <1>3 DEF RefsOf
  <2>2. QED
    BY <1>1, <1>2, <1>3, <2>1, FS_AddElement
<1>4. CASE ~Refers(h, k, t)
  <2>1. RefsOf(G, k, t) = RefsOf(H, k, t)
    BY <1>4 DEF RefsOf
  <2>2. QED
    BY <1>2, <1>4, <2>1, FS_AddElement
<1>5. QED
  BY <1>3, <1>4

(* It adds the references of its fact.                                     *)
LEMMA RefCountGrows ==
  ASSUME NEW H, IsFiniteSet(H), NEW h, h \notin H,
         NEW G, G = H \cup {h}, NEW t
  PROVE  /\ RefCount(H, t) \in Nat /\ Uses(h.fact, t) \in Nat
         /\ RefCount(G, t) = RefCount(H, t) + Uses(h.fact, t)
<1>1. ASSUME NEW k
      PROVE  LET c == Cardinality(RefsOf(H, k, t)) IN
             /\ c \in Nat
             /\ Cardinality(RefsOf(G, k, t))
                  = c + (IF h.fact[k] = t THEN 1 ELSE 0)
  <2>1. /\ Cardinality(RefsOf(H, k, t)) \in Nat
        /\ Refers(h, k, t) => Cardinality(RefsOf(G, k, t))
                                = Cardinality(RefsOf(H, k, t)) + 1
        /\ ~Refers(h, k, t) => Cardinality(RefsOf(G, k, t))
                                 = Cardinality(RefsOf(H, k, t))
    BY RefsGrow
  <2>2. QED
    BY <2>1 DEF Refers
<1> DEFINE c1 == Cardinality(RefsOf(H, 1, t))
           c2 == Cardinality(RefsOf(H, 2, t))
           c3 == Cardinality(RefsOf(H, 3, t))
<1>2. c1 \in Nat /\ c2 \in Nat /\ c3 \in Nat
  BY <1>1
<1>3. RefCount(G, t) = (c1 + (IF h.fact[1] = t THEN 1 ELSE 0))
                                 + (c2 + (IF h.fact[2] = t THEN 1 ELSE 0))
                                 + (c3 + (IF h.fact[3] = t THEN 1 ELSE 0))
  BY <1>1 DEF RefCount
<1>4. RefCount(H, t) = c1 + c2 + c3
  BY DEF RefCount
<1> HIDE DEF c1, c2, c3
<1>5. QED
  BY <1>2, <1>3, <1>4 DEF Uses

(* A fact that refers to its tags is counted once more ...                 *)
LEMMA CountMore ==
  ASSUME NEW u \in [Tags -> Int], NEW H, Counts(u, H), NEW h, h \notin H,
         NEW G, G = H \cup {h}, NEW f, h.fact = f, NEW v, v = [t \in Tags |-> u[t] + Uses(f, t)]
  PROVE  Counts(v, G) /\ v \in [Tags -> Int]
<1>1. IsFiniteSet(H) /\ IsFiniteSet(G)
  BY FS_AddElement DEF Counts
<1>2. ASSUME NEW t \in Tags
      PROVE  v[t] = RefCount(G, t) /\ v[t] \in Int
  <2>1. /\ RefCount(H, t) \in Nat /\ Uses(f, t) \in Nat
        /\ RefCount(G, t) = RefCount(H, t) + Uses(f, t)
    BY <1>1, RefCountGrows
  <2>2. u[t] = RefCount(H, t)
    BY DEF Counts
  <2>3. QED
    BY <2>1, <2>2
<1>3. v \in [Tags -> Int]
  BY <1>2
<1>4. QED
  BY <1>1, <1>2, <1>3 DEF Counts

(* ... and once less when it is gone.                                      *)
LEMMA CountLess ==
  ASSUME NEW u \in [Tags -> Int], NEW H, NEW h, h \notin H,
         NEW G, G = H \cup {h}, Counts(u, G),
         NEW f, h.fact = f, NEW v, v = [t \in Tags |-> u[t] - Uses(f, t)]
  PROVE  Counts(v, H) /\ v \in [Tags -> Int]
<1>1. IsFiniteSet(H)
  <2>1. IsFiniteSet(G) /\ H \in SUBSET G
    BY DEF Counts
  <2>2. QED
    BY <2>1, FS_Subset
<1>2. ASSUME NEW t \in Tags
      PROVE  v[t] = RefCount(H, t) /\ v[t] \in Int
  <2>1. /\ RefCount(H, t) \in Nat /\ Uses(f, t) \in Nat
        /\ RefCount(G, t) = RefCount(H, t) + Uses(f, t)
    BY <1>1, RefCountGrows
  <2>2. u[t] = RefCount(G, t)
    BY DEF Counts
  <2>3. QED
    BY <2>1, <2>2
<1>3. v \in [Tags -> Int]
  BY <1>2
<1>4. QED
  BY <1>1, <1>2, <1>3 DEF Counts

(* The references may change hands.                                        *)
LEMMA CountMoves ==
  ASSUME NEW u \in [Tags -> Int], NEW H, NEW h, NEW g, h \notin H, g \notin H,
         h.fact = g.fact,
         NEW F, F = H \cup {h}, NEW G, G = H \cup {g}, Counts(u, F)
  PROVE  Counts(u, G)
<1> DEFINE f == h.fact
           v == [t \in Tags |-> u[t] - Uses(f, t)]
           w == [t \in Tags |-> v[t] + Uses(f, t)]
<1>1. Counts(v, H) /\ v \in [Tags -> Int]
  BY CountLess
<1>2. Counts(w, G)
  BY <1>1, CountMore
<1>3. w = u
  <2>1. \A t \in Tags : u[t] \in Int /\ Uses(f, t) \in Int
    BY DEF Uses
  <2>2. \A t \in Tags : v[t] = u[t] - Uses(f, t)
    OBVIOUS
  <2> HIDE DEF v, f
  <2>3. \A t \in Tags : w[t] = u[t]
    BY <2>1, <2>2
  <2>4. QED
    BY <2>3
<1>4. QED
  BY <1>2, <1>3

(* The entries of a log that grows by an action, ...                       *)
LEMMA EntriesPush ==
  ASSUME NEW a \in Actions, NEW l \in Seq(Actions)
  PROVE  Entries(<<a>> \o l) = Entries(l) \cup {Entry(a)}
<1> DEFINE m == <<a>> \o l
<1>1. /\ Len(l) \in Nat /\ Len(m) = Len(l) + 1 /\ m[1] = a
      /\ \A k \in 1 .. Len(l) : m[k + 1] = l[k]
      /\ \A k \in 1 .. Len(m) : k # 1 => k - 1 \in 1 .. Len(l) /\ m[k] = l[k - 1]
  OBVIOUS
<1> HIDE DEF m
<1>2. \A k \in 1 .. Len(l) : k + 1 \in 1 .. Len(m)
  BY <1>1
<1>3. 1 \in 1 .. Len(m)
  BY <1>1
<1>4. Entries(m) = Entries(l) \cup {Entry(a)}
  BY <1>1, <1>2, <1>3 DEF Entries
<1>5. QED
  BY <1>4 DEF m

(* ... of one that loses it, ...                                           *)
LEMMA EntriesPop ==
  ASSUME NEW l \in Seq(Actions), l # <<>>
  PROVE  Entries(l) = Entries(Tail(l)) \cup {Entry(l[1])}
<1>1. /\ Len(l) \in Nat \ {0} /\ Len(Tail(l)) = Len(l) - 1
      /\ \A k \in 1 .. Len(l) - 1 : Tail(l)[k] = l[k + 1]
  BY TailFacts
<1>2. /\ 1 \in 1 .. Len(l)
      /\ \A k \in 1 .. Len(l) - 1 : k + 1 \in 1 .. Len(l)
      /\ \A k \in 1 .. Len(l) : k # 1 => k - 1 \in 1 .. Len(l) - 1 /\ (k - 1) + 1 = k
  BY <1>1
<1>3. \A k \in 1 .. Len(l) : k # 1 => l[k] = Tail(l)[k - 1]
  BY <1>1, <1>2
<1>4. QED
  BY <1>1, <1>2, <1>3 DEF Entries

(* ... of two that are joined and of one that is turned round.             *)
LEMMA EntriesJoin ==
  ASSUME NEW p \in Seq(Actions), NEW q \in Seq(Actions)
  PROVE  Entries(p \o q) = Entries(p) \cup Entries(q) /\ Entries(Reverse(p)) = Entries(p)
<1>1. Entries(p \o q) = Entries(p) \cup Entries(q)
  <2> DEFINE m == p \o q
  <2>1. /\ Len(p) \in Nat /\ Len(q) \in Nat /\ Len(m) = Len(p) + Len(q)
        /\ \A k \in 1 .. Len(p) : m[k] = p[k]
        /\ \A k \in 1 .. Len(q) : m[Len(p) + k] = q[k]
    BY ConcatFacts
  <2> HIDE DEF m
  <2>2. /\ \A k \in 1 .. Len(p) : k \in 1 .. Len(m)
        /\ \A k \in 1 .. Len(q) : Len(p) + k \in 1 .. Len(m)
        /\ \A k \in 1 .. Len(m) :
             k \in 1 .. Len(p) \/ (k - Len(p) \in 1 .. Len(q) /\ Len(p) + (k - Len(p)) = k)
    BY <2>1
  <2>3. ASSUME NEW k \in 1 .. Len(m)
        PROVE  (\E i \in 1 .. Len(p) : m[k] = p[i]) \/ \E i \in 1 .. Len(q) : m[k] = q[i]
    BY <2>1, <2>2
  <2>4. Entries(m) = Entries(p) \cup Entries(q)
    <3>1. Entries(m) \subseteq Entries(p) \cup Entries(q)
      BY <2>3 DEF Entries
    <3>2. Entries(p) \subseteq Entries(m)
      BY <2>1, <2>2 DEF Entries
    <3>3. \A k \in 1 .. Len(q) : \E i \in 1 .. Len(m) : m[i] = q[k]
      BY <2>1, <2>2
    <3>4. Entries(q) \subseteq Entries(m)
      BY <3>3 DEF Entries
    <3>5. QED
      BY <3>1, <3>2, <3>4
  <2>5. QED
    BY <2>4 DEF m
<1>2. Entries(Reverse(p)) = Entries(p)
  <2> DEFINE r == Reverse(p)
             at(k) == (Len(p) - k) + 1
  <2>1. /\ Len(r) = Len(p) /\ Len(p) \in Nat
        /\ \A k \in 1 .. Len(p) : at(k) \in 1 .. Len(p) /\ r[k] = p[at(k)]
    BY ReverseFacts
  <2>2. \A k \in 1 .. Len(p) : at(at(k)) = k
    BY <2>1
  <2> HIDE DEF r, at
  <2>3. \A k \in 1 .. Len(p) : r[at(k)] = p[k]
    BY <2>1, <2>2
  <2>4. Entries(r) = Entries(p)
    BY <2>1, <2>3 DEF Entries
  <2>5. QED
    BY <2>4 DEF r
<1>3. QED
  BY <1>1, <1>2

(* Membership in the entries of a stack, spelled out.                      *)
LEMMA EntriesFromMembers ==
  ASSUME NEW t, NEW n, NEW h
  PROVE  h \in EntriesFrom(t, n) <=> \E i \in n .. Len(t) : h \in Entries(t[i].log)
BY DEF EntriesFrom

(* The innermost log and the others.                                       *)
LEMMA EntriesSplit ==
  ASSUME NEW t \in Seq(Transactions), t # <<>>
  PROVE  EntriesFrom(t, 1) = Entries(t[1].log) \cup EntriesFrom(t, 2)
<1>1. /\ 1 \in 1 .. Len(t)
      /\ \A i \in 2 .. Len(t) : i \in 1 .. Len(t)
      /\ \A i \in 1 .. Len(t) : i = 1 \/ i \in 2 .. Len(t)
  OBVIOUS
<1>2. ASSUME NEW h
      PROVE  h \in EntriesFrom(t, 1) <=> h \in Entries(t[1].log) \/ h \in EntriesFrom(t, 2)
  BY <1>1, EntriesFromMembers
<1>3. QED
  BY <1>2

(* The innermost log is replaced.                                          *)
LEMMA EntriesReplaced ==
  ASSUME NEW t \in Seq(Transactions), t # <<>>, NEW l \in Seq(Actions)
  PROVE  EntriesFrom([t EXCEPT ![1].log = l], 1) = Entries(l) \cup EntriesFrom(t, 2)
<1> DEFINE u == [t EXCEPT ![1].log = l]
<1>1. /\ u \in Seq(Transactions) /\ Len(u) = Len(t) /\ u[1].log = l
      /\ \A i \in 2 .. Len(t) : u[i] = t[i]
  BY LogReplaced
<1>2. u # <<>>
  <2>1. Len(t) # 0 /\ Len(<<>>) = 0
    OBVIOUS
  <2>2. QED
    BY <1>1, <2>1
<1> HIDE DEF u
<1>3. EntriesFrom(u, 2) = EntriesFrom(t, 2)
  <2>1. ASSUME NEW h
        PROVE  h \in EntriesFrom(u, 2) <=> h \in EntriesFrom(t, 2)
    BY <1>1, EntriesFromMembers
  <2>2. QED
    BY <2>1
<1>4. EntriesFrom(u, 1) = Entries(l) \cup EntriesFrom(t, 2)
  BY <1>1, <1>2, <1>3, EntriesSplit
<1>5. QED
  BY <1>4 DEF u

(* The innermost transaction is gone.                                      *)
LEMMA EntriesClosed ==
  ASSUME NEW t \in Seq(Transactions), t # <<>>
  PROVE  EntriesFrom(Tail(t), 1) = EntriesFrom(t, 2)
<1> DEFINE u == Tail(t)
<1>1. /\ Len(t) \in Nat \ {0} /\ Len(u) = Len(t) - 1
      /\ \A k \in 1 .. Len(t) - 1 : u[k] = t[k + 1]
  BY TailFacts
<1> HIDE DEF u
<1>2. /\ \A i \in 1 .. Len(u) : i + 1 \in 2 .. Len(t) /\ u[i] = t[i + 1]
      /\ \A i \in 2 .. Len(t) : i - 1 \in 1 .. Len(u) /\ (i - 1) + 1 = i
  BY <1>1
<1>3. \A i \in 2 .. Len(t) : u[i - 1] = t[i]
  BY <1>2
<1>4. ASSUME NEW h
      PROVE  h \in EntriesFrom(u, 1) <=> h \in EntriesFrom(t, 2)
  <2>1. ASSUME h \in EntriesFrom(u, 1)
        PROVE  h \in EntriesFrom(t, 2)
    <3>1. PICK i \in 1 .. Len(u) : h \in Entries(u[i].log)
      BY <2>1, EntriesFromMembers
    <3>2. i + 1 \in 2 .. Len(t) /\ u[i] = t[i + 1]
      BY <1>2
    <3>3. QED
      BY <3>1, <3>2, EntriesFromMembers
  <2>2. ASSUME h \in EntriesFrom(t, 2)
        PROVE  h \in EntriesFrom(u, 1)
    <3>1. PICK i \in 2 .. Len(t) : h \in Entries(t[i].log)
      BY <2>2, EntriesFromMembers
    <3>2. i - 1 \in 1 .. Len(u) /\ u[i - 1] = t[i]
      BY <1>2, <1>3
    <3>3. QED
      BY <3>1, <3>2, EntriesFromMembers
  <2>3. QED
    BY <2>1, <2>2
<1>5. QED
  BY <1>4 DEF u

(* The entries of what is still to be published or undone.                 *)
Pended(p, t) == Entries(p) \cup EntriesFrom(t, 1)

Counted == Counts(usage, StoredEntries(store) \cup Pended(pub, txns))

(* A fact is stored: an entry more.                                        *)
LEMMA StoredEntriesGrow ==
  ASSUME NEW s \in Stores, NEW f \in Triples, s[f] = NoId,
         NEW r \in Stores, NEW n, n # NoId, r = [s EXCEPT ![f] = n]
  PROVE  /\ Holder(NoId, f) \notin StoredEntries(s)
         /\ StoredEntries(r) = StoredEntries(s) \cup {Holder(NoId, f)}
<1>1. \A g \in Triples : r[g] = IF g = f THEN n ELSE s[g]
  BY DEF Stores
<1>2. \A g : Holder(NoId, g).fact = g
  BY DEF Holder
<1>3. Holder(NoId, f) \notin StoredEntries(s)
  BY <1>2 DEF StoredEntries
<1>4. {g \in Triples : r[g] # NoId} = {g \in Triples : s[g] # NoId} \cup {f}
  BY <1>1
<1>5. QED
  BY <1>3, <1>4 DEF StoredEntries

(* A stored fact is no action: it has no identifier of its own here.       *)
LEMMA StoredEntryIds ==
  ASSUME NEW s
  PROVE  \A h \in StoredEntries(s) : h.id = NoId
BY DEF StoredEntries, Holder

(* What is still to be published or undone has an identifier already.      *)
LEMMA PendedIds ==
  ASSUME Inv, ReplayInv
  PROVE  \A h \in Pended(pub, txns) : h.id \in Nat /\ h.id # NoId /\ h.id < nextId
<1>1. /\ pub \in Seq(Actions) /\ txns \in Seq(Transactions)
      /\ InOrder(pub, {nextId}) /\ StackNumbered(txns, nextId)
      /\ LeadsForth(pub, store) /\ UndoChain
  BY DEF Inv, TypeOK, ReplayInv, Numbered, Pending
<1>2. ASSUME NEW a \in Actions, WellLogged(a)
      PROVE  a.id \in Nat /\ a.id # NoId
  <2>1. a.id \in Ids
    BY DEF Actions
  <2>2. a.id \in Nat
    BY <2>1, UwMaxAssumption DEF Ids
  <2>3. QED
    BY <1>2, <2>2 DEF WellLogged, NoId
<1>3. ASSUME NEW h \in Entries(pub)
      PROVE  h.id \in Nat /\ h.id # NoId /\ h.id < nextId
  <2>1. PICK k \in 1 .. Len(pub) : h = Entry(pub[k])
    BY DEF Entries
  <2>2. h.id = pub[k].id /\ pub[k] \in Actions
    BY <1>1, <2>1 DEF Entry, Holder
  <2>3. WellLogged(pub[k]) /\ pub[k].id < nextId
    BY <1>1 DEF LeadsForth, InOrder, Before, IdsIn
  <2>4. QED
    BY <1>2, <2>2, <2>3
<1>4. ASSUME NEW h \in EntriesFrom(txns, 1)
      PROVE  h.id \in Nat /\ h.id # NoId /\ h.id < nextId
  <2>1. PICK i \in 1 .. Len(txns) : h \in Entries(txns[i].log)
    BY EntriesFromMembers
  <2>2. PICK k \in 1 .. Len(txns[i].log) : h = Entry(txns[i].log[k])
    BY <2>1 DEF Entries
  <2>3. h.id = txns[i].log[k].id /\ txns[i].log[k] \in Actions
    BY <1>1, <2>2, LogTypes DEF Entry, Holder
  <2>4. WellLogged(txns[i].log[k]) /\ txns[i].log[k].id < nextId
    BY <1>1 DEF UndoChain, StackNumbered, Before, IdsIn
  <2>5. QED
    BY <1>2, <2>3, <2>4
<1>5. QED
  BY <1>3, <1>4 DEF Pended

(* An action is logged.                                                    *)
LEMMA LogsCounted ==
  ASSUME Inv, Inv', ReplayInv, Counted, NEW a \in Actions, Logs(a)
  PROVE  Counted'
<1> DEFINE S == StoredEntries(store)
           P == Pended(pub, txns)
           S2 == StoredEntries(store')
           P2 == Pended(pub', txns')
           f == a.fact
           h == Holder(NoId, f)
           e == Entry(a)
<1>1. /\ usage \in [Tags -> Int] /\ store \in Stores /\ store' \in Stores
      /\ txns \in Seq(Transactions) /\ nextId \in Nat
  BY DEF Inv, TypeOK
<1>2. /\ pub' = pub /\ txns # <<>> /\ a.id = nextId /\ a.before = store
      /\ txns' = [txns EXCEPT ![1].log = <<a>> \o txns[1].log]
      /\ store' = After(a) /\ (a.op = "add" <=> ~Stored(f))
      /\ IF a.op = "add" THEN RefTwice(f) ELSE UNCHANGED usage
  BY DEF Logs
<1>3. Counts(usage, S \cup P)
  BY DEF Counted
<1>4. f \in Triples /\ e.id = nextId /\ e.fact = f /\ h.id = NoId /\ h.fact = f
  BY <1>2 DEF Actions, Entry, Holder
<1>5. nextId # NoId
  BY DEF Inv, TypeOK, NoId
<1>6. P2 = P \cup {e}
  <2>1. 1 \in 1 .. Len(txns)
    BY <1>1, <1>2
  <2>2. txns[1].log \in Seq(Actions)
    BY <1>1, <2>1, LogTypes
  <2>3. <<a>> \o txns[1].log \in Seq(Actions)
    BY <2>2
  <2>4. EntriesFrom(txns', 1) = Entries(<<a>> \o txns[1].log) \cup EntriesFrom(txns, 2)
    BY <1>1, <1>2, <2>3, EntriesReplaced
  <2>5. Entries(<<a>> \o txns[1].log) = Entries(txns[1].log) \cup {e}
    BY <2>2, EntriesPush
  <2>6. EntriesFrom(txns, 1) = Entries(txns[1].log) \cup EntriesFrom(txns, 2)
    BY <1>1, <1>2, EntriesSplit
  <2>7. QED
    BY <1>2, <2>4, <2>5, <2>6 DEF Pended
<1>7. /\ \A x \in S : x.id = NoId
      /\ \A x \in P : x.id # NoId /\ x.id # nextId
  <2>1. \A x \in P : x.id \in Nat /\ x.id # NoId /\ x.id < nextId
    BY PendedIds
  <2>2. QED
    BY <1>1, <2>1, StoredEntryIds
<1>8. store' = [store EXCEPT ![f] = IF a.op = "add" THEN a.id ELSE NoId]
  BY <1>2 DEF After
<1>9. CASE a.op = "add"
  <2> DEFINE u == [t \in Tags |-> usage[t] + Uses(f, t)]
             v == [t \in Tags |-> u[t] + Uses(f, t)]
             F == (S \cup P) \cup {h}
             G == F \cup {e}
  <2>1. store[f] = NoId /\ store' = [store EXCEPT ![f] = nextId]
    BY <1>2, <1>8, <1>9 DEF Stored
  <2>2. h \notin S /\ S2 = S \cup {h}
    BY <1>1, <1>4, <1>5, <2>1, StoredEntriesGrow
  <2>3. h \notin P /\ e \notin S /\ e \notin P /\ e # h
    BY <1>4, <1>5, <1>7
  <2>4. G = S2 \cup P2
    BY <1>6, <2>2
  <2>5. \A t \in Tags : usage[t] \in Int /\ Uses(f, t) \in Int
    BY <1>1 DEF Uses
  <2>6. u \in [Tags -> Int] /\ \A t \in Tags : u[t] = usage[t] + Uses(f, t)
    BY <2>5
  <2>7. usage' = [t \in Tags |-> usage[t] + 2 * Uses(f, t)]
    BY <1>2, <1>9 DEF RefTwice
  <2> HIDE DEF u, S, P, S2, P2, h, e, f
  <2>8. usage' = v
    <3>1. \A t \in Tags : usage[t] + 2 * Uses(f, t) = u[t] + Uses(f, t)
      BY <2>5, <2>6
    <3>2. QED
      BY <2>7, <3>1
  <2>9. Counts(u, F)
    BY <1>1, <1>3, <1>4, <2>2, <2>3, CountMore DEF u
  <2>10. e \notin F
    BY <2>3
  <2> HIDE DEF F
  <2>11. Counts(v, G)
    BY <1>4, <2>6, <2>9, <2>10, CountMore
  <2>12. QED
    BY <2>4, <2>8, <2>11 DEF Counted, S2, P2
<1>10. CASE a.op # "add"
  <2>1. store[f] # NoId /\ store' = [store EXCEPT ![f] = NoId] /\ usage' = usage
    BY <1>2, <1>8, <1>10 DEF Stored
  <2>2. store = [store' EXCEPT ![f] = store[f]] /\ store'[f] = NoId
    BY <1>1, <1>4, <2>1 DEF Stores
  <2>3. h \notin S2 /\ S = S2 \cup {h}
    BY <1>1, <1>4, <2>1, <2>2, StoredEntriesGrow
  <2>4. h \notin P /\ e \notin S /\ e \notin P
    BY <1>4, <1>5, <1>7
  <2>5. /\ h \notin S2 \cup P /\ e \notin S2 \cup P
        /\ S \cup P = (S2 \cup P) \cup {h} /\ S2 \cup P2 = (S2 \cup P) \cup {e}
    BY <1>6, <2>3, <2>4
  <2> HIDE DEF S, P, S2, P2, h, e, f
  <2>6. Counts(usage, S2 \cup P2)
    BY <1>1, <1>3, <1>4, <2>5, CountMoves
  <2>7. QED
    BY <2>1, <2>6 DEF Counted, S2, P2
<1>11. QED
  BY <1>9, <1>10

(* A fact is added or removed outside a transaction.                       *)
LEMMA CommitsCounted ==
  ASSUME Inv, Inv', ReplayInv, Counted, NEW c \in Events, Commits(c)
  PROVE  Counted'
<1> DEFINE S == StoredEntries(store)
           P == Pended(pub, txns)
           S2 == StoredEntries(store')
           f == c.fact
           h == Holder(NoId, f)
<1>1. /\ usage \in [Tags -> Int] /\ store \in Stores /\ store' \in Stores
      /\ UNCHANGED <<pub, txns>> /\ store' = Apply(store, c)
      /\ (c.op = "add" <=> ~Stored(f))
      /\ IF c.op = "add" THEN Ref(f) ELSE Unref(f)
      /\ c.op = "add" => c.id = nextId
  BY DEF Inv, TypeOK, Commits
<1>2. Counts(usage, S \cup P)
  BY DEF Counted
<1>3. f \in Triples /\ h.id = NoId /\ h.fact = f /\ c.op \in {"add", "remove"}
  BY DEF Holder, Events
<1>4. nextId # NoId
  BY DEF Inv, TypeOK, NoId
<1>5. h \notin P
  BY <1>3, PendedIds
<1>6. CASE c.op = "add"
  <2>1. store[f] = NoId /\ store' = [store EXCEPT ![f] = nextId]
    BY <1>1, <1>6 DEF Stored, Apply
  <2>2. h \notin S /\ S2 = S \cup {h}
    <3>1. store \in Stores /\ store' \in Stores /\ f \in Triples
      BY <1>1, <1>3
    <3>2. QED
      BY <1>4, <2>1, <3>1, StoredEntriesGrow
  <2>3. h \notin S \cup P /\ S2 \cup P = (S \cup P) \cup {h}
    BY <1>5, <2>2
  <2>4. usage' = [t \in Tags |-> usage[t] + Uses(f, t)]
    BY <1>1, <1>6 DEF Ref
  <2> HIDE DEF S, P, S2, h, f
  <2>5. Counts(usage', S2 \cup P)
    BY <1>1, <1>2, <1>3, <2>3, <2>4, CountMore
  <2>6. QED
    BY <1>1, <2>5 DEF Counted, S2, P
<1>7. CASE c.op # "add"
  <2>1. store[f] # NoId /\ store' = [store EXCEPT ![f] = NoId]
    BY <1>1, <1>3, <1>7 DEF Stored, Apply
  <2>2. store = [store' EXCEPT ![f] = store[f]] /\ store'[f] = NoId
    BY <1>1, <1>3, <2>1 DEF Stores
  <2>3. h \notin S2 /\ S = S2 \cup {h}
    BY <1>1, <1>3, <2>1, <2>2, StoredEntriesGrow
  <2>4. h \notin S2 \cup P /\ S \cup P = (S2 \cup P) \cup {h}
    BY <1>5, <2>3
  <2>5. usage' = [t \in Tags |-> usage[t] - Uses(f, t)]
    BY <1>1, <1>7 DEF Unref
  <2> DEFINE H == S2 \cup P
             G == S \cup P
  <2>6. h \notin H /\ G = H \cup {h} /\ Counts(usage, G) /\ usage \in [Tags -> Int]
    BY <1>1, <1>2, <2>4
  <2> HIDE DEF S, P, S2, h, f, H, G
  <2>7. Counts(usage', H)
    BY <1>3, <2>5, <2>6, CountLess
  <2>8. QED
    BY <1>1, <2>7 DEF Counted, S2, P, H
<1>8. QED
  BY <1>6, <1>7

(* The first action is published, or freed unpublished.                    *)
LEMMA PublicationCounted ==
  ASSUME Inv, Inv', ReplayInv, Counted, Publishes \/ GivesUp
  PROVE  Counted'
<1> DEFINE S == StoredEntries(store)
           P == Pended(pub, txns)
           P2 == Pended(Tail(pub), txns)
           e == Entry(pub[1])
           f == pub[1].fact
<1>1. /\ usage \in [Tags -> Int] /\ pub \in Seq(Actions) /\ pub # <<>>
      /\ txns = <<>> /\ store' = store /\ txns' = txns /\ pub' = Tail(pub)
      /\ usage' = [t \in Tags |-> usage[t] - Uses(f, t)]
  BY DEF Inv, TypeOK, Publishes, GivesUp, Unref
<1>2. Counts(usage, S \cup P)
  BY DEF Counted
<1>3. P = P2 \cup {e}
  <2>1. Entries(pub) = Entries(Tail(pub)) \cup {e}
    BY <1>1, EntriesPop
  <2>2. QED
    BY <2>1 DEF Pended
<1>4. e.fact = f /\ e.id = pub[1].id
  BY DEF Entry, Holder
<1>5. e \notin S
  <2>1. e \in P
    BY <1>3
  <2>2. QED
    BY <2>1, PendedIds, StoredEntryIds
<1>6. e \notin P2
  <2>1. EntriesFrom(txns, 1) = {}
    <3>1. 1 .. Len(txns) = {}
      BY <1>1
    <3>2. \A x : x \notin EntriesFrom(txns, 1)
      BY <3>1, EntriesFromMembers
    <3>3. QED
      BY <3>2
  <2>2. \A y \in IdsAhead(Tail(pub), txns, nextId) : pub[1].id < y
    BY <1>1, TypedFacts, FirstIsOldest DEF ReplayInv
  <2>3. pub[1].id \in Nat
    <3>1. pub[1] \in Actions
      BY <1>1
    <3>2. QED
      BY <3>1, UwMaxAssumption DEF Actions, Ids
  <2>4. ASSUME NEW x \in Entries(Tail(pub))
        PROVE  x.id # pub[1].id
    <3>1. PICK k \in 1 .. Len(Tail(pub)) : x = Entry(Tail(pub)[k])
      BY DEF Entries
    <3>2. x.id = Tail(pub)[k].id
      BY <3>1 DEF Entry, Holder
    <3>3. x.id \in IdsAhead(Tail(pub), txns, nextId)
      BY <3>1, <3>2, AheadMembers DEF IdsIn
    <3>4. pub[1].id < x.id
      BY <2>2, <3>3
    <3>5. QED
      BY <2>3, <3>4
  <2>5. QED
    BY <1>4, <2>1, <2>4 DEF Pended
<1>7. e \notin S \cup P2 /\ S \cup P = (S \cup P2) \cup {e}
  BY <1>3, <1>5, <1>6
<1> DEFINE H == S \cup P2
           G == S \cup P
<1>8. /\ e \notin H /\ G = H \cup {e} /\ Counts(usage, G)
      /\ usage \in [Tags -> Int] /\ e.fact = f
      /\ usage' = [t \in Tags |-> usage[t] - Uses(f, t)]
  BY <1>1, <1>2, <1>4, <1>7
<1> HIDE DEF S, P, P2, e, f, H, G
<1>9. Counts(usage', H)
  BY <1>8, CountLess
<1>10. QED
  BY <1>1, <1>9 DEF Counted, S, P2, H

(* The newest action is gone from a log: no other has its identifier.      *)
LEMMA NewestIsGone ==
  ASSUME NEW t \in Seq(Transactions), t # <<>>, t[1].log # <<>>,
         NEW n \in Nat, StackNumbered(t, n)
  PROVE  LET e == Entry(t[1].log[1])
             u == [t EXCEPT ![1].log = Tail(t[1].log)] IN
         e \notin EntriesFrom(u, 1) /\ EntriesFrom(t, 1) = EntriesFrom(u, 1) \cup {e}
<1> DEFINE l == t[1].log
           e == Entry(l[1])
           u == [t EXCEPT ![1].log = Tail(l)]
<1>1. 1 \in 1 .. Len(t) /\ \A j \in 2 .. Len(t) : j \in 1 .. Len(t) /\ 1 < j
  OBVIOUS
<1>2. l \in Seq(Actions)
  BY <1>1, LogTypes
<1>3. /\ Tail(l) \in Seq(Actions) /\ Len(l) \in Nat \ {0} /\ l[1] \in Actions
      /\ Len(Tail(l)) = Len(l) - 1 /\ \A k \in 1 .. Len(l) - 1 : Tail(l)[k] = l[k + 1]
  BY <1>2, TailFacts
<1>4. Entries(l) = Entries(Tail(l)) \cup {e}
  BY <1>2, EntriesPop
<1>5. EntriesFrom(t, 1) = Entries(l) \cup EntriesFrom(t, 2)
  BY EntriesSplit
<1>6. EntriesFrom(u, 1) = Entries(Tail(l)) \cup EntriesFrom(t, 2)
  BY <1>3, EntriesReplaced
<1>7. Descending(l) /\ \A j \in 2 .. Len(t) : Before(IdsIn(t[j].log), IdsIn(l))
  BY <1>1 DEF StackNumbered
<1>8. l[1].id \in Nat /\ l[1].id \in IdsIn(l)
  <2>1. l[1].id \in Nat
    BY <1>3, UwMaxAssumption DEF Actions, Ids
  <2>2. 1 \in 1 .. Len(l)
    BY <1>3
  <2>3. QED
    BY <2>1, <2>2 DEF IdsIn
<1>9. e.id = l[1].id
  BY DEF Entry, Holder
<1>10. ASSUME NEW x \in Entries(Tail(l)) PROVE x.id # l[1].id
  <2>1. PICK k \in 1 .. Len(Tail(l)) : x = Entry(Tail(l)[k])
    BY DEF Entries
  <2>2. k + 1 \in 1 .. Len(l) /\ 1 \in 1 .. Len(l) /\ 1 < k + 1 /\ Tail(l)[k] = l[k + 1]
    BY <1>3
  <2>3. x.id = l[k + 1].id
    BY <2>1, <2>2 DEF Entry, Holder
  <2>4. l[1].id > l[k + 1].id
    BY <1>7, <2>2 DEF Descending
  <2>5. l[k + 1] \in Actions
    BY <1>2, <2>2
  <2>6. l[k + 1].id \in Nat
    BY <2>5, UwMaxAssumption DEF Actions, Ids
  <2>7. QED
    BY <1>8, <2>3, <2>4, <2>6
<1>11. ASSUME NEW x \in EntriesFrom(t, 2) PROVE x.id # l[1].id
  <2>1. PICK j \in 2 .. Len(t) : x \in Entries(t[j].log)
    BY EntriesFromMembers
  <2>2. PICK k \in 1 .. Len(t[j].log) : x = Entry(t[j].log[k])
    BY <2>1 DEF Entries
  <2>3. x.id = t[j].log[k].id /\ x.id \in IdsIn(t[j].log)
    BY <2>2 DEF Entry, Holder, IdsIn
  <2>4. x.id < l[1].id
    BY <1>7, <1>8, <2>3 DEF Before
  <2>5. t[j].log[k] \in Actions
    BY <1>1, LogTypes
  <2>6. x.id \in Nat
    BY <2>3, <2>5, UwMaxAssumption DEF Actions, Ids
  <2>7. QED
    BY <1>8, <2>4, <2>6
<1>12. e \notin Entries(Tail(l)) /\ e \notin EntriesFrom(t, 2)
  BY <1>9, <1>10, <1>11
<1>13. QED
  BY <1>4, <1>5, <1>6, <1>12

(* A rollback undoes an action.                                            *)
LEMMA UndoesCounted ==
  ASSUME Inv, Inv', ReplayInv, Counted, Undoes
  PROVE  Counted'
<1> DEFINE a == txns[1].log[1]
           f == a.fact
           e == Entry(a)
           h == Holder(NoId, f)
           S == StoredEntries(store)
           S2 == StoredEntries(store')
           P == Pended(pub, txns)
           P2 == Pended(pub, txns')
<1>1. /\ usage \in [Tags -> Int] /\ store \in Stores /\ store' \in Stores
      /\ txns \in Seq(Transactions) /\ nextId \in Nat
  BY DEF Inv, TypeOK
<1>2. /\ txns # <<>> /\ txns[1].log # <<>> /\ pub' = pub
      /\ txns' = [txns EXCEPT ![1].log = Tail(txns[1].log)]
      /\ a \in Actions /\ WellLogged(a)
      /\ store = After(a) /\ store' = a.before
      /\ usage' = IF a.op = "add"
                  THEN [t \in Tags |-> usage[t] - 2 * Uses(f, t)]
                  ELSE usage
  BY DEF Undoes
<1>3. Counts(usage, S \cup P)
  BY DEF Counted
<1>4. /\ f \in Triples /\ e.fact = f /\ e.id = a.id /\ h.id = NoId /\ h.fact = f
      /\ a.id # NoId /\ a.oldId # NoId /\ a.op \in {"add", "remove"}
  <2>1. a.id \in Nat /\ a.oldId \in Nat /\ 0 < a.id /\ 0 < a.oldId
    BY <1>2, UwMaxAssumption DEF Actions, Ids, WellLogged
  <2>2. a.id # NoId /\ a.oldId # NoId
    BY <2>1 DEF NoId
  <2>3. f \in Triples /\ a.op \in {"add", "remove"}
    BY <1>2 DEF Actions
  <2>4. QED
    BY <2>2, <2>3 DEF Entry, Holder
<1>5. e \notin P2 /\ P = P2 \cup {e}
  <2>1. StackNumbered(txns, nextId)
    BY DEF ReplayInv, Numbered
  <2>2. e \notin EntriesFrom(txns', 1) /\ EntriesFrom(txns, 1) = EntriesFrom(txns', 1) \cup {e}
    BY <1>1, <1>2, <2>1, NewestIsGone
  <2>3. pub = <<>>
    BY <1>2, PublishedBefore
  <2>4. Entries(pub) = {}
    <3>1. 1 .. Len(pub) = {}
      BY <2>3
    <3>2. QED
      BY <3>1 DEF Entries
  <2>5. QED
    BY <2>2, <2>4 DEF Pended
<1>6. (\A x \in P : x.id # NoId) /\ (\A x \in S : x.id = NoId) /\ \A x \in S2 : x.id = NoId
  BY PendedIds, StoredEntryIds
<1>7. e \notin S /\ e \notin S2 /\ h \notin P /\ h \notin P2 /\ e # h
  BY <1>4, <1>5, <1>6
<1>8. CASE a.op = "add"
  <2>1. store'[f] = NoId /\ store = [store' EXCEPT ![f] = a.id]
    BY <1>2, <1>8 DEF WellLogged, After
  <2>2. h \notin S2 /\ S = S2 \cup {h}
    BY <1>1, <1>4, <2>1, StoredEntriesGrow
  <2> DEFINE H == S2 \cup P2
             G == H \cup {h}
             F == S \cup P
             u == [t \in Tags |-> usage[t] - Uses(f, t)]
             v == [t \in Tags |-> u[t] - Uses(f, t)]
  <2>3. h \notin H /\ e \notin G /\ F = G \cup {e} /\ Counts(usage, F)
    BY <1>3, <1>5, <1>7, <2>2
  <2>4. \A t \in Tags : usage[t] \in Int /\ Uses(f, t) \in Int
    BY <1>1 DEF Uses
  <2>5. u \in [Tags -> Int] /\ \A t \in Tags : u[t] = usage[t] - Uses(f, t)
    BY <2>4
  <2>6. usage' = [t \in Tags |-> usage[t] - 2 * Uses(f, t)]
    BY <1>2, <1>8
  <2> HIDE DEF u, S, P, S2, P2, h, e, f, G, F, H
  <2>7. usage' = v
    <3>1. \A t \in Tags : usage[t] - 2 * Uses(f, t) = u[t] - Uses(f, t)
      BY <2>4, <2>5
    <3>2. QED
      BY <2>6, <3>1
  <2>8. Counts(u, G)
    BY <1>1, <1>4, <2>3, CountLess DEF u
  <2>9. h \notin H /\ G = H \cup {h} /\ Counts(u, G) /\ h.fact = f
    BY <1>4, <2>3, <2>8 DEF G
  <2>10. Counts(v, H)
    BY <2>5, <2>9, CountLess
  <2>11. QED
    BY <1>2, <2>7, <2>10 DEF Counted, S2, P2, H
<1>9. CASE a.op # "add"
  <2>1. store'[f] = a.oldId /\ store = [store' EXCEPT ![f] = NoId] /\ usage' = usage
    BY <1>2, <1>9 DEF WellLogged, After
  <2>2. store[f] = NoId /\ store' = [store EXCEPT ![f] = a.oldId]
    BY <1>1, <1>4, <2>1 DEF Stores
  <2>3. h \notin S /\ S2 = S \cup {h}
    BY <1>1, <1>4, <2>2, StoredEntriesGrow
  <2> DEFINE H == S \cup P2
             F == S \cup P
             G == S2 \cup P2
  <2>4. /\ h \notin H /\ e \notin H /\ F = H \cup {e} /\ G = H \cup {h}
        /\ e.fact = h.fact /\ Counts(usage, F) /\ usage \in [Tags -> Int]
    BY <1>1, <1>3, <1>4, <1>5, <1>7, <2>3
  <2> HIDE DEF S, P, S2, P2, h, e, f, G, F, H
  <2>5. Counts(usage, G)
    BY <2>4, CountMoves
  <2>6. QED
    BY <1>2, <2>1, <2>5 DEF Counted, S2, P2, G
<1>10. QED
  BY <1>8, <1>9

(* The other steps move no reference.                                      *)
LEMMA MovesCounted ==
  ASSUME Inv, Inv', Counted, UNCHANGED <<store, usage>>,
         \/ UNCHANGED <<txns, pub>>
         \/ Opens \/ Joins \/ StartsToPublish \/ Closes
  PROVE  Counted'
<1>1. txns \in Seq(Transactions) /\ pub \in Seq(Actions) /\ nextId \in Ids /\ store \in Stores
  BY TypedFacts DEF Typed
<1>2. ASSUME Pended(pub', txns') = Pended(pub, txns)
      PROVE  Counted'
  BY <1>2 DEF Counted
<1>3. CASE UNCHANGED <<txns, pub>>
  BY <1>2, <1>3
<1>4. \A q : q = <<>> => Entries(q) = {}
  <2>1. ASSUME NEW q, q = <<>> PROVE Entries(q) = {}
    <3>1. 1 .. Len(q) = {}
      BY <2>1
    <3>2. QED
      BY <3>1 DEF Entries
  <2>2. QED
    BY <2>1
<1>5. CASE Opens
  <2> DEFINE x == [id |-> nextId, log |-> <<>>, base |-> store]
             u == <<x>> \o txns
  <2>1. pub' = pub /\ txns' = u
    BY <1>5 DEF Opens
  <2>2. x \in Transactions
    BY <1>1 DEF Transactions
  <2>3. u \in Seq(Transactions) /\ u # <<>> /\ u[1].log = <<>> /\ Tail(u) = txns
    BY <1>1, <2>2
  <2> HIDE DEF u
  <2>4. EntriesFrom(u, 1) = Entries(u[1].log) \cup EntriesFrom(txns, 1)
    BY <2>3, EntriesSplit, EntriesClosed
  <2>5. EntriesFrom(u, 1) = EntriesFrom(txns, 1)
    BY <1>4, <2>3, <2>4
  <2>6. QED
    BY <1>2, <2>1, <2>5 DEF Pended
<1>6. CASE Joins
  <2> DEFINE r == Tail(txns)
             l == txns[1].log
             m == txns[2].log
  <2>1. /\ pub' = pub /\ Len(txns) > 1 /\ txns' = [r EXCEPT ![1].log = l \o m]
    BY <1>6 DEF Joins
  <2>2. /\ txns # <<>> /\ 1 \in 1 .. Len(txns) /\ 2 \in 1 .. Len(txns)
        /\ 1 \in 1 .. Len(txns) - 1 /\ 1 + 1 = 2
    <3>1. Len(txns) \in Nat /\ (txns = <<>> => Len(txns) = 0)
      BY <1>1
    <3>2. QED
      BY <2>1, <3>1
  <2>3. l \in Seq(Actions) /\ m \in Seq(Actions) /\ l \o m \in Seq(Actions)
    <3>1. l \in Seq(Actions) /\ m \in Seq(Actions)
      BY <1>1, <2>2, LogTypes
    <3>2. QED
      BY <3>1
  <2>4. /\ r \in Seq(Transactions) /\ r[1] = txns[2] /\ r # <<>>
    <3>1. /\ r \in Seq(Transactions) /\ Len(r) = Len(txns) - 1 /\ r[1] = txns[1 + 1]
      BY <1>1, <2>2, TailFacts
    <3>2. Len(r) # 0
      <4>1. Len(txns) \in Nat /\ Len(txns) > 1
        BY <1>1, <2>1
      <4>2. QED
        BY <3>1, <4>1
    <3>3. r # <<>>
      <4>1. \A q : q = <<>> => Len(q) = 0
        OBVIOUS
      <4>2. QED
        BY <3>2, <4>1
    <3>4. QED
      BY <2>2, <3>1, <3>3
  <2>5. EntriesFrom(txns, 1) = Entries(l) \cup EntriesFrom(r, 1)
    BY <1>1, <2>2, EntriesSplit, EntriesClosed
  <2>6. EntriesFrom(r, 1) = Entries(m) \cup EntriesFrom(r, 2)
    BY <2>4, EntriesSplit
  <2> HIDE DEF r, l, m
  <2>7. EntriesFrom(txns', 1) = Entries(l \o m) \cup EntriesFrom(r, 2)
    BY <2>1, <2>3, <2>4, EntriesReplaced
  <2>8. Entries(l \o m) = Entries(l) \cup Entries(m)
    BY <2>3, EntriesJoin
  <2>9. QED
    BY <1>2, <2>1, <2>5, <2>6, <2>7, <2>8 DEF Pended
<1>7. CASE StartsToPublish
  <2>1. /\ txns' = <<>> /\ pub' = Reverse(txns[1].log) /\ Len(txns) = 1
    BY <1>7 DEF StartsToPublish
  <2>2. /\ txns # <<>> /\ 1 \in 1 .. Len(txns)
    <3>1. txns = <<>> => Len(txns) = 0
      OBVIOUS
    <3>2. QED
      BY <2>1, <3>1
  <2>3. txns[1].log \in Seq(Actions)
    BY <1>1, <2>2, LogTypes
  <2>4. \A t, n : Len(t) < n /\ Len(t) \in Nat /\ n \in Nat => EntriesFrom(t, n) = {}
    <3>1. ASSUME NEW t, NEW n \in Nat, Len(t) < n, Len(t) \in Nat
          PROVE  EntriesFrom(t, n) = {}
      <4>1. n .. Len(t) = {}
        BY <3>1
      <4>2. \A x : x \notin EntriesFrom(t, n)
        BY <4>1, EntriesFromMembers
      <4>3. QED
        BY <4>2
    <3>2. QED
      BY <3>1
  <2>5. EntriesFrom(txns, 2) = {}
    <3>1. Len(txns) < 2 /\ Len(txns) \in Nat /\ 2 \in Nat
      BY <2>1
    <3>2. QED
      BY <2>4, <3>1
  <2>6. EntriesFrom(txns', 1) = {}
    <3>1. Len(txns') = 0
      BY <2>1
    <3>2. QED
      BY <2>4, <3>1
  <2>7. pub = <<>>
    BY <2>2, PublishedBefore
  <2>8. EntriesFrom(txns, 1) = Entries(txns[1].log) \cup EntriesFrom(txns, 2)
    BY <1>1, <2>2, EntriesSplit
  <2>9. Entries(pub') = Entries(txns[1].log)
    BY <2>1, <2>3, EntriesJoin
  <2>10. Entries(pub) = {}
    BY <1>4, <2>7
  <2>11. QED
    BY <1>2, <2>5, <2>6, <2>8, <2>9, <2>10 DEF Pended
<1>8. CASE Closes
  <2>1. /\ txns # <<>> /\ txns[1].log = <<>> /\ txns' = Tail(txns) /\ pub' = pub
    BY <1>8 DEF Closes
  <2>2. EntriesFrom(txns, 1) = Entries(txns[1].log) \cup EntriesFrom(txns', 1)
    BY <1>1, <2>1, EntriesSplit, EntriesClosed
  <2>3. Entries(txns[1].log) = {}
    BY <1>4, <2>1
  <2>4. QED
    BY <1>2, <2>1, <2>2, <2>3 DEF Pended
<1>9. QED
  BY <1>3, <1>5, <1>6, <1>7, <1>8

(* Every step keeps the count.                                             *)
LEMMA StepCounted ==
  ASSUME Inv, Inv', ReplayInv, Counted, Step
  PROVE  Counted'
<1>1. CASE \E a \in Actions : Logs(a)
  BY <1>1, LogsCounted
<1>2. CASE \E e \in Events : Commits(e)
  BY <1>2, CommitsCounted
<1>3. CASE (\E e \in Events : IsNotLogged(e)) \/ Quiet
  BY <1>3, MovesCounted DEF IsNotLogged, Quiet
<1>4. CASE Opens \/ Joins \/ StartsToPublish \/ Closes
  BY <1>4, MovesCounted DEF Opens, Joins, StartsToPublish, Closes
<1>5. CASE Publishes \/ GivesUp
  BY <1>5, PublicationCounted
<1>6. CASE Undoes
  BY <1>6, UndoesCounted
<1>7. QED
  BY <1>1, <1>2, <1>3, <1>4, <1>5, <1>6 DEF Step

(* An empty database refers to nothing.                                    *)
LEMMA InitCounted == Init => Counted
<1> SUFFICES ASSUME Init PROVE Counted
  OBVIOUS
<1>1. /\ \A f \in Triples : store[f] = NoId
      /\ usage = [t \in Tags |-> 0] /\ txns = <<>> /\ pub = <<>>
  BY DEF Init
<1>2. StoredEntries(store) = {}
  BY <1>1 DEF StoredEntries
<1>3. Entries(pub) = {}
  <2>1. 1 .. Len(pub) = {}
    BY <1>1
  <2>2. QED
    BY <2>1 DEF Entries
<1>4. EntriesFrom(txns, 1) = {}
  <2>1. 1 .. Len(txns) = {}
    BY <1>1
  <2>2. \A x : x \notin EntriesFrom(txns, 1)
    BY <2>1, EntriesFromMembers
  <2>3. QED
    BY <2>2
<1>5. \A k, t : Cardinality(RefsOf({}, k, t)) = 0
  <2>1. \A k, t : RefsOf({}, k, t) = {}
    BY DEF RefsOf
  <2>2. QED
    BY <2>1, FS_EmptySet
<1>6. \A t : RefCount({}, t) = 0
  BY <1>5 DEF RefCount
<1>7. Counts(usage, {})
  BY <1>1, <1>6, FS_EmptySet DEF Counts
<1>8. QED
  BY <1>2, <1>3, <1>4, <1>7 DEF Counted, Pended

(* What holds references, as the model states it.                          *)
LEMMA HoldersAreEntries ==
  ASSUME Inv
  PROVE  Holders = StoredEntries(store) \cup Pended(pub, txns)
<1>1. /\ pub \in Seq(Actions) /\ txns \in Seq(Transactions)
  BY DEF Inv, TypeOK
<1>2. ASSUME NEW q \in Seq(Actions)
      PROVE  \A a : a \in ToSet(q) <=> \E k \in 1 .. Len(q) : a = q[k]
  BY DEF ToSet
<1>3. ASSUME NEW a
      PROVE  a \in LoggedActions <=>
               \/ \E k \in 1 .. Len(pub) : a = pub[k]
               \/ \E i \in 1 .. Len(txns) :
                    \E k \in 1 .. Len(txns[i].log) : a = txns[i].log[k]
  <2>1. \A i \in 1 .. Len(txns) : a \in ToSet(txns[i].log) <=>
          \E k \in 1 .. Len(txns[i].log) : a = txns[i].log[k]
    BY <1>1, <1>2, LogTypes
  <2>2. a \in ToSet(pub) <=> \E k \in 1 .. Len(pub) : a = pub[k]
    BY <1>1, <1>2
  <2>3. a \in LoggedActions <=>
          a \in ToSet(pub) \/ \E i \in 1 .. Len(txns) : a \in ToSet(txns[i].log)
    BY DEF LoggedActions
  <2>4. QED
    BY <2>1, <2>2, <2>3
<1>4. ASSUME NEW h
      PROVE  h \in {Holder(a.id, a.fact) : a \in LoggedActions} <=> h \in Pended(pub, txns)
  <2>1. h \in {Holder(a.id, a.fact) : a \in LoggedActions} <=>
          \E a \in LoggedActions : h = Entry(a)
    BY DEF Entry
  <2>2. h \in Pended(pub, txns) <=>
          \/ \E k \in 1 .. Len(pub) : h = Entry(pub[k])
          \/ \E i \in 1 .. Len(txns) :
               \E k \in 1 .. Len(txns[i].log) : h = Entry(txns[i].log[k])
    BY EntriesFromMembers DEF Pended, Entries
  <2>3. QED
    BY <1>3, <2>1, <2>2
<1>5. {Holder(NoId, f) : f \in {g \in Triples : Stored(g)}} = StoredEntries(store)
  BY DEF Stored, StoredEntries
<1>6. QED
  BY <1>4, <1>5 DEF Holders

(* facts->tags counts exactly the references of the stored facts and of    *)
(* the actions that are still to be published or undone, at any depth of   *)
(* transactions, after a failed log write and in the middle of a rollback. *)
THEOREM TagsStayCounted == Spec => []TagsCounted
<1>1. Inv /\ Counted => TagsCounted
  <2> SUFFICES ASSUME Inv, Counted, NEW t \in Tags
               PROVE  usage[t] = References(1, t) + References(2, t) + References(3, t)
    BY DEF TagsCounted
  <2>1. usage[t] = RefCount(Holders, t)
    BY HoldersAreEntries DEF Counted, Counts
  <2>2. \A k : References(k, t) = Cardinality(RefsOf(Holders, k, t))
    BY DEF References, RefsOf, Refers
  <2>3. QED
    BY <2>1, <2>2 DEF RefCount
<1>2. Inv /\ Inv' /\ ReplayInv /\ Counted /\ [Next]_vars => Counted'
  BY StepKinds, StepCounted
<1>3. QED
  BY <1>1, <1>2, InitCounted, Invariance, ReplayInvariant, PTL DEF Spec

-----------------------------------------------------------------------------
(* Retained deletions bring a replica that was cut off up to date.         *)

(* No event from a + 1 to b is an operation o on fact f. *)
Without(o, f, q, a, b) == \A i \in a + 1 .. b : ~ (q[i].op = o /\ q[i].fact = f)

(* A fact that is not stored stays away as long as no event adds it, ...   *)
LEMMA StaysAway ==
  ASSUME NEW s, NEW q \in Seq(Events), NEW g, Trace(g, s, q), NEW f \in Triples,
         NEW a \in 0 .. Len(q), NEW b \in a .. Len(q), g[a][f] = NoId,
         Without("add", f, q, a, b)
  PROVE  g[b][f] = NoId
<1> DEFINE Bad == {i \in a .. b : g[i][f] # NoId}
<1>1. SUFFICES ASSUME Bad # {}
               PROVE  FALSE
  <2>1. b \in a .. b
    OBVIOUS
  <2>2. QED
    BY <1>1, <2>1
<1>2. Len(q) \in Nat /\ a \in Nat /\ b \in Nat /\ Bad \in SUBSET Nat
  OBVIOUS
<1>3. PICK k \in Bad : \A m \in Bad : k <= m
  BY <1>1, <1>2, Least
<1>4. k # a
  BY <1>3
<1>5. /\ k \in a + 1 .. b /\ k \in 1 .. Len(q) /\ k - 1 \in a .. b
      /\ k - 1 \in 0 .. Len(q) /\ ~ (k <= k - 1)
  BY <1>2, <1>3, <1>4
<1>6. g[k - 1][f] = NoId
  BY <1>3, <1>5
<1>7. g[k] = Apply(g[k - 1], q[k]) /\ g[k - 1] \in Stores /\ q[k] \in Events
  BY <1>5 DEF Trace
<1>8. q[k].op = "remove" \/ q[k].fact # f
  BY <1>5, <1>7 DEF Events, Without
<1>9. g[k][f] = NoId
  BY <1>6, <1>7, <1>8 DEF Apply, Stores, Events
<1>10. QED
  BY <1>3, <1>9

(* ... and one that is stored keeps its identifier until it is removed.    *)
LEMMA StaysStored ==
  ASSUME NEW s, NEW q \in Seq(Events), NEW g, Trace(g, s, q), NEW f \in Triples,
         NEW a \in 0 .. Len(q), NEW b \in a .. Len(q),
         NEW v, g[a][f] = v, v # NoId,
         Without("remove", f, q, a, b)
  PROVE  g[b][f] = v
<1> DEFINE Bad == {i \in a .. b : g[i][f] # v}
<1>1. SUFFICES ASSUME Bad # {}
               PROVE  FALSE
  <2>1. b \in a .. b
    OBVIOUS
  <2>2. QED
    BY <1>1, <2>1
<1>2. Len(q) \in Nat /\ a \in Nat /\ b \in Nat /\ Bad \in SUBSET Nat
  OBVIOUS
<1>3. PICK k \in Bad : \A m \in Bad : k <= m
  BY <1>1, <1>2, Least
<1>4. k # a
  BY <1>3
<1>5. /\ k \in a + 1 .. b /\ k \in 1 .. Len(q) /\ k - 1 \in a .. b
      /\ k - 1 \in 0 .. Len(q) /\ ~ (k <= k - 1)
  BY <1>2, <1>3, <1>4
<1>6. g[k - 1][f] = v
  BY <1>3, <1>5
<1>7. g[k] = Apply(g[k - 1], q[k]) /\ g[k - 1] \in Stores /\ q[k] \in Events
  BY <1>5 DEF Trace
<1>8. q[k].op = "add" \/ q[k].fact # f
  BY <1>5, <1>7 DEF Events, Without
<1>9. g[k][f] = v
  BY <1>6, <1>7, <1>8 DEF Apply, Stores, Events
<1>10. QED
  BY <1>3, <1>9

(* A removal leaves a fact out of the store.                               *)
LEMMA RemovalEmpties ==
  ASSUME NEW s, NEW q \in Seq(Events), NEW g, Trace(g, s, q),
         NEW i \in 1 .. Len(q), q[i].op = "remove"
  PROVE  g[i][q[i].fact] = NoId
<1>1. i - 1 \in 0 .. Len(q) /\ i \in 0 .. Len(q)
  OBVIOUS
<1>2. g[i] = Apply(g[i - 1], q[i]) /\ g[i - 1] \in Stores /\ q[i] \in Events
  BY <1>1 DEF Trace
<1>3. QED
  BY <1>2 DEF Apply, Stores, Events

(* A fact that a replay from nothing ends with was added by one event, and *)
(* kept since.                                                             *)
LEMMA WasAdded ==
  ASSUME NEW s, NEW q \in Seq(Events), NEW g, Trace(g, s, q), NEW f \in Triples,
         s[f] = NoId, g[Len(q)][f] # NoId
  PROVE  \E i \in 1 .. Len(q) :
           /\ q[i] = Event("add", g[Len(q)][f], f) /\ g[i - 1][f] = NoId
           /\ \A k \in i .. Len(q) : g[k][f] = g[Len(q)][f]
           /\ Without("remove", f, q, i, Len(q))
<1> DEFINE n == Len(q)
           v == g[n][f]
           From == {i \in 0 .. n : \A k \in i .. n : g[k][f] = v}
<1>1. n \in Nat /\ From \in SUBSET Nat /\ n \in From
  OBVIOUS
<1>2. PICK i \in From : \A m \in From : i <= m
  BY <1>1, Least
<1>3. i # 0
  <2>1. g[0] = s
    BY DEF Trace
  <2>2. 0 \in From => g[0][f] = v
    BY <1>1
  <2>3. QED
    BY <1>2, <2>1, <2>2
<1>4. i \in 1 .. n /\ i - 1 \in 0 .. n /\ ~ (i <= i - 1) /\ i \in i .. n
  BY <1>1, <1>2, <1>3
<1>5. \A k \in i .. n : g[k][f] = v
  BY <1>2
<1>6. g[i - 1][f] # v
  <2>1. i - 1 \notin From
    BY <1>2, <1>4
  <2>2. PICK k \in i - 1 .. n : g[k][f] # v
    BY <1>4, <2>1
  <2>3. k = i - 1 \/ k \in i .. n
    BY <1>1, <1>4, <2>2
  <2>4. QED
    BY <1>5, <2>2, <2>3
<1>7. g[i] = Apply(g[i - 1], q[i]) /\ g[i - 1] \in Stores /\ q[i] \in Events
  BY <1>4 DEF Trace
<1>8. g[i][f] = v /\ v # NoId
  BY <1>4, <1>5
<1> HIDE DEF n, v, From
<1>9. q[i].fact = f /\ q[i].op = "add" /\ q[i].id = v /\ g[i - 1][f] = NoId
  BY <1>6, <1>7, <1>8 DEF Apply, Stores, Events
<1>10. q[i] = Event("add", v, f)
  BY <1>7, <1>9 DEF Event, Events
<1>11. ASSUME NEW k \in i + 1 .. n PROVE ~ (q[k].op = "remove" /\ q[k].fact = f)
  <2>1. k \in i .. n /\ k \in 1 .. n
    BY <1>1, <1>4
  <2>2. g[k][f] # NoId
    BY <1>5, <1>8, <2>1
  <2>3. QED
    BY <2>1, <2>2, RemovalEmpties DEF n
<1>12. QED
  BY <1>4, <1>5, <1>9, <1>10, <1>11 DEF n, v, Without

(* In order, identifiers tell the places apart.                            *)
LEMMA AscendingPlaces ==
  ASSUME NEW q \in Seq(Events), Ascending(q),
         NEW i \in 1 .. Len(q), NEW j \in 1 .. Len(q)
  PROVE  /\ q[i].id \in Nat /\ q[j].id \in Nat
         /\ q[i].id < q[j].id => i < j
         /\ q[i].id = q[j].id => i = j
<1>1. q[i].id \in Nat /\ q[j].id \in Nat
  BY RecordTypes DEF Records
<1>2. (i < j => q[i].id < q[j].id) /\ (j < i => q[j].id < q[i].id)
  BY DEF Ascending
<1>3. i \in Nat /\ j \in Nat
  OBVIOUS
<1>4. QED
  BY <1>1, <1>2, <1>3

(* What a replay does to one fact, up to event m: without events that add  *)
(* it a fact stays away, without deletions it stays.                       *)
Keeps(g, q, m) ==
  \A f \in Triples, a \in 0 .. m :
    /\ g[a][f] = NoId =>
         \A b \in a .. m :
           Without("add", f, q, a, b)
             => g[b][f] = NoId
    /\ g[a][f] # NoId =>
         \A b \in a .. m :
           Without("remove", f, q, a, b)
             => g[b][f] = g[a][f]
    /\ a # 0 /\ q[a].op = "remove" => g[a][q[a].fact] = NoId

(* Every replay keeps to it.                                               *)
LEMMA ReplayKeeps ==
  ASSUME NEW s, NEW q \in Seq(Events), NEW g, Trace(g, s, q)
  PROVE  Keeps(g, q, Len(q))
<1> SUFFICES ASSUME NEW f \in Triples, NEW a \in 0 .. Len(q)
             PROVE  /\ g[a][f] = NoId =>
                         \A b \in a .. Len(q) :
                           Without("add", f, q, a, b)
                             => g[b][f] = NoId
                    /\ g[a][f] # NoId =>
                         \A b \in a .. Len(q) :
                           Without("remove", f, q, a, b)
                             => g[b][f] = g[a][f]
                    /\ a # 0 /\ q[a].op = "remove" => g[a][q[a].fact] = NoId
  BY DEF Keeps
<1>1. ASSUME g[a][f] = NoId, NEW b \in a .. Len(q),
             Without("add", f, q, a, b)
      PROVE  g[b][f] = NoId
  BY <1>1, StaysAway
<1>2. ASSUME g[a][f] # NoId, NEW b \in a .. Len(q),
             Without("remove", f, q, a, b)
      PROVE  g[b][f] = g[a][f]
  BY <1>2, StaysStored
<1>3. ASSUME a # 0, q[a].op = "remove" PROVE g[a][q[a].fact] = NoId
  <2>1. a \in 1 .. Len(q)
    BY <1>3
  <2>2. QED
    BY <1>3, <2>1, RemovalEmpties
<1>4. QED
  BY <1>1, <1>2, <1>3

(* Cursor c tells the first n events from the others. *)
CutAt(q, n, c) == \A i \in 1 .. Len(q) : i <= n <=> q[i].id < c

(* The events of r are those of q from cursor c on that deleted a fact or  *)
(* added one that is still in store t.                                     *)
Survives(r, q, t, c) ==
  \A e : (\E k \in 1 .. Len(r) : e = r[k]) <=>
           /\ \E i \in 1 .. Len(q) : e = q[i]
           /\ e.id >= c
           /\ e.op = "remove" \/ t[e.fact] = e.id

(* Replaying the deletions and the surviving facts from a cursor on has    *)
(* the same effect as replaying every event from there on.                 *)
LEMMA ResyncReplays ==
  ASSUME NEW s, \A f \in Triples : s[f] = NoId,
         NEW q \in Seq(Events), Ascending(q), NEW g, Trace(g, s, q),
         NEW n \in 0 .. Len(q), NEW c \in Nat, c > 0,
         CutAt(q, n, c),
         NEW r \in Seq(Events), Ascending(r),
         NEW s0, s0 = g[n], NEW h, Trace(h, s0, r),
         Survives(r, q, g[Len(q)], c)
  PROVE  h[Len(r)] = g[Len(q)]
<1> DEFINE N == Len(q)
           M == Len(r)
<1>1. /\ N \in Nat /\ M \in Nat /\ n \in Nat /\ n <= N
      /\ n \in 0 .. N /\ N \in n .. N /\ N \in 0 .. N
      /\ 0 \in 0 .. M /\ M \in 0 .. M /\ M \in Nat
  OBVIOUS
<1>2. h[0] = g[n] /\ h[M] \in Stores /\ g[N] \in Stores
  BY <1>1 DEF Trace
<1>0. Keeps(g, q, N) /\ Keeps(h, r, M)
  BY ReplayKeeps
<1>3. ASSUME NEW k \in 1 .. M
      PROVE  /\ \E i \in n + 1 .. N : r[k] = q[i]
             /\ r[k].id \in Nat /\ r[k].id # NoId
             /\ r[k].op = "remove" \/ g[N][r[k].fact] = r[k].id
  <2>1. PICK i \in 1 .. N : r[k] = q[i]
    BY DEF Survives
  <2>2. r[k].id >= c /\ (r[k].op = "remove" \/ g[N][r[k].fact] = r[k].id)
    BY DEF Survives
  <2>3. r[k].id \in Nat
    BY RecordTypes DEF Records
  <2>4. ~ (i <= n)
    BY <2>1, <2>2, <2>3 DEF CutAt
  <2>5. i \in n + 1 .. N
    BY <1>1, <2>1, <2>4
  <2>6. QED
    BY <2>1, <2>2, <2>3, <2>5 DEF NoId
<1>4. ASSUME NEW i \in n + 1 .. N, q[i].op = "remove" \/ g[N][q[i].fact] = q[i].id
      PROVE  i \in 1 .. N /\ \E k \in 1 .. M : r[k] = q[i]
  <2>1. i \in 1 .. N /\ ~ (i <= n)
    BY <1>1
  <2>2. q[i].id \in Nat
    BY <2>1, RecordTypes DEF Records
  <2>3. q[i].id >= c
    BY <2>1, <2>2 DEF CutAt
  <2>4. QED
    BY <1>4, <2>1, <2>3 DEF Survives
<1> HIDE DEF N, M
<1>5. ASSUME NEW f \in Triples
      PROVE  h[M][f] = g[N][f]
  <2> DEFINE v == g[N][f]
             Adds(k) == r[k].op = "add" /\ r[k].fact = f
             Removes(k) == r[k].op = "remove" /\ r[k].fact = f
             Removed(j) == q[j].op = "remove" /\ q[j].fact = f
  <2>1. \A k \in 1 .. M : Adds(k) => r[k].id = v /\ v # NoId
    BY <1>3
  <2>2. ASSUME NEW j \in n + 1 .. N, Removed(j)
        PROVE  \E k \in 1 .. M : r[k] = q[j] /\ Removes(k) /\ h[k][f] = NoId
    <3>1. PICK k \in 1 .. M : r[k] = q[j]
      BY <1>4, <2>2
    <3>2. k \in 0 .. M /\ k # 0 /\ r[k].op = "remove"
      BY <1>1, <2>2, <3>1
    <3>3. h[k][r[k].fact] = NoId
      BY <1>0, <3>2 DEF Keeps, Without
    <3>4. QED
      BY <2>2, <3>1, <3>3
  <2>3. ASSUME NEW b \in n .. N, g[n][f] # NoId, g[b][f] # g[n][f]
        PROVE  \E j \in n + 1 .. b : Removed(j)
    BY <1>1, <1>0, <2>3 DEF Keeps, Without
  <2>4. ASSUME NEW a \in 0 .. M, NEW b \in a .. M, h[a][f] = NoId,
               \A k \in a + 1 .. b : ~Adds(k)
        PROVE  h[b][f] = NoId
    BY <1>0, <2>4 DEF Keeps, Without
  <2>5. ASSUME NEW a \in 0 .. M, h[a][f] # NoId,
               \A k \in a + 1 .. M : ~Removes(k)
        PROVE  h[M][f] = h[a][f]
    <3>1. M \in a .. M
      BY <1>1
    <3>2. QED
      BY <1>0, <2>5, <3>1 DEF Keeps, Without
  <2>6. CASE v = NoId
    <3>1. \A k \in 1 .. M : ~Adds(k)
      BY <2>1, <2>6
    <3>2. CASE g[n][f] = NoId
      <4>1. /\ 0 \in 0 .. M /\ M \in 0 .. M /\ h[0][f] = NoId
            /\ \A k \in 0 + 1 .. M : ~Adds(k)
        BY <1>1, <1>2, <3>1, <3>2
      <4>2. QED
        BY <2>4, <2>6, <4>1
    <3>3. CASE g[n][f] # NoId
      <4>1. PICK j \in n + 1 .. N : Removed(j)
        BY <1>1, <2>3, <2>6, <3>3
      <4>2. PICK k \in 1 .. M : h[k][f] = NoId
        BY <2>2, <4>1
      <4>3. k \in 0 .. M /\ M \in k .. M /\ \A l \in k + 1 .. M : l \in 1 .. M
        BY <1>1
      <4>4. QED
        BY <2>4, <2>6, <3>1, <4>2, <4>3
    <3>4. QED
      BY <3>2, <3>3
  <2>7. CASE v # NoId
    <3>0. PICK i \in 1 .. N :
            /\ q[i] = Event("add", v, f) /\ g[i - 1][f] = NoId
            /\ \A k \in i .. N : g[k][f] = v
            /\ Without("remove", f, q, i, N)
      <4>1. s[f] = NoId /\ g[Len(q)][f] # NoId
        BY <2>7 DEF N
      <4>2. QED
        BY <4>1, WasAdded DEF N
    <3>1. /\ q[i] = Event("add", v, f) /\ g[i - 1][f] = NoId
          /\ \A k \in i .. N : g[k][f] = v
          /\ \A k \in i + 1 .. N : ~Removed(k)
      BY <3>0 DEF Without
    <3>2. q[i].op = "add" /\ q[i].id = v /\ q[i].fact = f
      BY <3>1 DEF Event
    <3>3. CASE i <= n
      <4>1. n \in i .. N /\ \A k \in n + 1 .. N : k \in i + 1 .. N
        BY <1>1, <3>3
      <4>2. h[0][f] = v
        BY <1>2, <3>1, <4>1
      <4>3. \A k \in 1 .. M : ~Removes(k)
        BY <1>3, <3>1, <4>1
      <4>4. 0 \in 0 .. M /\ \A k \in 0 + 1 .. M : ~Removes(k)
        BY <1>1, <4>3
      <4>5. QED
        BY <2>5, <2>7, <4>2, <4>4
    <3>4. CASE ~ (i <= n)
      <4>1. i \in n + 1 .. N /\ i - 1 \in n .. N
        BY <1>1, <3>4
      <4>2. PICK p \in 1 .. M : r[p] = q[i]
        BY <1>4, <3>2, <4>1
      <4>3. \A k \in 1 .. M : Removes(k) => k < p
        <5> SUFFICES ASSUME NEW k \in 1 .. M, Removes(k) PROVE k < p
          OBVIOUS
        <5>1. PICK j \in n + 1 .. N : r[k] = q[j]
          BY <1>3
        <5>2. j \notin i + 1 .. N /\ j # i
          BY <3>1, <3>2, <5>1
        <5>3. j < i /\ j \in 1 .. Len(q) /\ i \in 1 .. Len(q)
          BY <1>1, <5>2 DEF N
        <5>4. q[j].id < q[i].id
          BY <5>3 DEF Ascending
        <5>5. r[k].id < r[p].id /\ k \in 1 .. Len(r) /\ p \in 1 .. Len(r)
          BY <4>2, <5>1, <5>4 DEF M
        <5>6. QED
          BY <5>5, AscendingPlaces
      <4>4. \A k \in 1 .. M : Adds(k) => k = p
        <5> SUFFICES ASSUME NEW k \in 1 .. M, Adds(k) PROVE k = p
          OBVIOUS
        <5>1. r[k].id = r[p].id /\ k \in 1 .. Len(r) /\ p \in 1 .. Len(r)
          BY <2>1, <3>2, <4>2 DEF M
        <5>2. QED
          BY <5>1, AscendingPlaces
      <4>5. p - 1 \in 0 .. M /\ p \in 0 .. M /\ p \in Nat
        BY <1>1
      <4>6. h[p - 1][f] = NoId
        <5>1. CASE g[n][f] = NoId
          <6>1. /\ 0 \in 0 .. M /\ p - 1 \in 0 .. M
                /\ \A k \in 0 + 1 .. p - 1 : k \in 1 .. M /\ k # p
            BY <1>1, <4>5
          <6>2. h[0][f] = NoId
            BY <1>2, <5>1
          <6>3. \A k \in 0 + 1 .. p - 1 : ~Adds(k)
            BY <4>4, <6>1
          <6>4. QED
            BY <2>4, <6>1, <6>2, <6>3
        <5>2. CASE g[n][f] # NoId
          <6>1. PICK j \in n + 1 .. i - 1 : Removed(j)
            BY <2>3, <3>1, <4>1, <5>2
          <6>2. j \in n + 1 .. N
            BY <1>1, <4>1
          <6>3. PICK k \in 1 .. M : Removes(k) /\ h[k][f] = NoId
            BY <2>2, <6>1, <6>2
          <6>4. k < p
            BY <4>3, <6>3
          <6>5. /\ k \in 0 .. M /\ p - 1 \in k .. M
                /\ \A l \in k + 1 .. p - 1 : l \in 1 .. M /\ l # p
            BY <1>1, <4>5, <6>4
          <6>6. \A l \in k + 1 .. p - 1 : ~Adds(l)
            BY <4>4, <6>5
          <6>7. QED
            BY <2>4, <6>3, <6>5, <6>6
        <5>3. QED
          BY <5>1, <5>2
      <4>7. h[p][f] = v
        <5>1. h[p] = Apply(h[p - 1], r[p]) /\ h[p - 1] \in Stores
          BY <4>5 DEF Trace, M
        <5>2. QED
          BY <3>2, <4>2, <4>6, <5>1 DEF Apply, Stores
      <4>8. \A k \in p + 1 .. M : ~Removes(k)
        <5>1. \A k \in p + 1 .. M : k \in 1 .. M /\ ~ (k < p)
          BY <1>1, <4>5
        <5>2. QED
          BY <4>3, <5>1
      <4>9. QED
        BY <2>5, <2>7, <4>5, <4>7, <4>8
    <3>5. QED
      BY <3>3, <3>4
  <2>8. QED
    BY <2>6, <2>7
<1>6. h[M] = g[N]
  BY <1>2, <1>5 DEF Stores
<1>7. QED
  BY <1>6 DEF M, N

(* Every deletion that was sent is retained, and no other. *)
Retains ==
  Connected /\ ServerCount =>
    \A e : e \in ToSet(removeLog) <=> e \in ToSet(sent) /\ e.op = "remove"

(* The elements of a sequence that grows at its head.                      *)
LEMMA PrependElements ==
  ASSUME NEW q \in Seq(Events), NEW e \in Events
  PROVE  ToSet(<<e>> \o q) = ToSet(q) \cup {e}
<1> DEFINE p == <<e>> \o q
<1>1. /\ p \in Seq(Events) /\ Len(p) = Len(q) + 1 /\ Len(q) \in Nat
      /\ p[1] = e /\ \A i \in 1 .. Len(q) : p[i + 1] = q[i]
  OBVIOUS
<1>2. DOMAIN p = 1 .. Len(q) + 1 /\ DOMAIN q = 1 .. Len(q)
  BY <1>1
<1> HIDE DEF p
<1>3. ASSUME NEW x \in ToSet(p) PROVE x \in ToSet(q) \cup {e}
  <2>1. PICK i \in 1 .. Len(q) + 1 : x = p[i]
    BY <1>2 DEF ToSet
  <2>2. CASE i = 1
    BY <1>1, <2>1, <2>2
  <2>3. CASE i # 1
    <3>1. i - 1 \in 1 .. Len(q) /\ (i - 1) + 1 = i
      BY <1>1, <2>1, <2>3
    <3>2. x = q[i - 1]
      BY <1>1, <2>1, <3>1
    <3>3. QED
      BY <1>2, <3>1, <3>2 DEF ToSet
  <2>4. QED
    BY <2>2, <2>3
<1>4. ASSUME NEW x \in ToSet(q) PROVE x \in ToSet(p)
  <2>1. PICK i \in 1 .. Len(q) : x = q[i]
    BY <1>2 DEF ToSet
  <2>2. i + 1 \in 1 .. Len(q) + 1 /\ p[i + 1] = x
    BY <1>1, <2>1
  <2>3. QED
    BY <1>2, <2>2 DEF ToSet
<1>5. e \in ToSet(p)
  <2>1. 1 \in 1 .. Len(q) + 1
    BY <1>1
  <2>2. QED
    BY <1>1, <1>2, <2>1 DEF ToSet
<1>6. QED
  BY <1>3, <1>4, <1>5 DEF p

(* What is sent is retained when it is a deletion.                         *)
LEMMA EventRetained ==
  ASSUME Inv, Retains, NEW e \in Events, Retain(e),
         NEW wanted \in BOOLEAN, Broadcast(e, wanted), ServerCount => wanted
  PROVE  Retains'
<1> SUFFICES ASSUME Connected, ServerCount
             PROVE  \A d : d \in ToSet(removeLog') <=>
                             d \in ToSet(sent') /\ d.op = "remove"
  BY DEF Retains
<1>1. sent \in Seq(Events) /\ removeLog \in Seq(Events)
  BY DEF Inv, TypeOK
<1>2. ToSet(sent') = ToSet(sent) \cup {e}
  BY <1>1, AppendElements DEF Broadcast
<1>3. ToSet(removeLog') = ToSet(removeLog) \cup (IF e.op = "remove" THEN {e} ELSE {})
  BY <1>1, PrependElements DEF Retain
<1>4. \A d : d \in ToSet(removeLog) <=> d \in ToSet(sent) /\ d.op = "remove"
  BY DEF Retains
<1>5. QED
  BY <1>2, <1>3, <1>4

(* Every step keeps the deletions that were sent.                          *)
LEMMA StepRetains ==
  ASSUME Inv, ReplayInv, Retains, Step
  PROVE  Retains'
<1>1. ASSUME UNCHANGED <<sent, removeLog>> PROVE Retains'
  BY <1>1 DEF Retains
<1>2. ASSUME NEW e \in Events, Commits(e) PROVE Retains'
  <2>1. PICK wanted \in BOOLEAN : Broadcast(e, wanted) /\ (ServerCount => wanted)
    BY <1>2 DEF Commits
  <2>2. QED
    BY <1>2, <2>1, EventRetained DEF Commits
<1>3. CASE Publishes
  <2>1. pub[1] \in Actions /\ Wanted(pub) /\ 1 \in 1 .. Len(pub)
    <3>1. pub \in Seq(Actions) /\ pub # <<>>
      BY <1>3 DEF Inv, TypeOK, Publishes
    <3>2. QED
      BY <3>1, TailFacts DEF ReplayInv, Pending
  <2>2. EventOf(pub[1]) \in Events /\ pub[1].broadcast \in BOOLEAN
        /\ (ServerCount => pub[1].broadcast)
    BY <2>1, EventOfTypes DEF Actions, Wanted
  <2>3. QED
    BY <1>3, <2>2, EventRetained DEF Publishes
<1>4. QED
  BY <1>1, <1>2, <1>3 DEF Step, Logs, IsNotLogged, Quiet, Opens, Joins,
     StartsToPublish, GivesUp, Undoes, Closes

(* Finite sets: a part has no more elements than the whole, and fewer when *)
(* it is not the whole.                                                    *)
LEMMA PartIsSmaller ==
  ASSUME NEW S, IsFiniteSet(S), NEW T \in SUBSET S
  PROVE  /\ IsFiniteSet(T) /\ Cardinality(T) \in Nat /\ Cardinality(S) \in Nat
         /\ Cardinality(T) <= Cardinality(S)
         /\ T # S => Cardinality(T) < Cardinality(S)
<1>1. IsFiniteSet(T) /\ Cardinality(T) <= Cardinality(S)
  BY FS_Subset
<1>2. Cardinality(S) = Cardinality(T) => S = T
  BY FS_Subset
<1>3. Cardinality(T) \in Nat /\ Cardinality(S) \in Nat
  BY <1>1, FS_CardinalityType
<1>4. QED
  BY <1>1, <1>2, <1>3

(* ById puts a finite set of events in the order of their identifiers.     *)
LEMMA ByIdSorts ==
  ASSUME NEW S \in SUBSET Events, IsFiniteSet(S),
         \A d, e \in S : d.id = e.id => d = e
  PROVE  ById(S) \in Seq(Events) /\ ToSet(ById(S)) = S /\ Ascending(ById(S))
<1> DEFINE upTo(e) == {d \in S : d.id <= e.id}
           rank(e) == Cardinality(upTo(e))
           n == Cardinality(S)
<1>1. n \in Nat
  BY FS_CardinalityType
<1>2. \A e \in S : e.id \in Int
  BY UwMaxAssumption DEF Events, Ids
<1>3. ASSUME NEW e \in S
      PROVE  IsFiniteSet(upTo(e)) /\ rank(e) \in 1 .. n
  <2>1. upTo(e) \in SUBSET S /\ e \in upTo(e)
    BY <1>2
  <2>2. IsFiniteSet(upTo(e)) /\ rank(e) \in Nat /\ rank(e) <= n
    BY <2>1, PartIsSmaller
  <2>3. rank(e) # 0
    BY <2>1, <2>2, FS_EmptySet
  <2>4. QED
    BY <2>2, <2>3, <1>1
<1>4. ASSUME NEW d \in S, NEW e \in S, d.id < e.id
      PROVE  rank(d) < rank(e)
  <2>1. upTo(d) \in SUBSET upTo(e) /\ e \in upTo(e) /\ e \notin upTo(d)
    BY <1>2, <1>4
  <2>2. QED
    BY <2>1, <1>3, PartIsSmaller
<1>t. \A e \in S : rank(e) \in 1 .. n
  BY <1>3
<1> HIDE DEF rank, n
<1>5. \A d, e \in S : rank(d) = rank(e) => d = e
  <2>1. SUFFICES ASSUME NEW d \in S, NEW e \in S, rank(d) = rank(e)
                 PROVE  d.id = e.id
    OBVIOUS
  <2>2. rank(d) \in Int /\ rank(e) \in Int /\ d.id \in Int /\ e.id \in Int
    BY <1>1, <1>2, <1>t
  <2>3. QED
    BY <1>4, <2>1, <2>2
<1>6. \A i \in 1 .. n : \E e \in S : rank(e) = i
  <2> DEFINE F == [e \in S |-> rank(e)]
  <2>1. F \in Injection(S, 1 .. n)
    BY <1>t, <1>5 DEF Injection, IsInjective
  <2>2. IsFiniteSet(1 .. n) /\ Cardinality(1 .. n) = n
    <3>1. IsFiniteSet(1 .. n) /\ Cardinality(1 .. n) = IF 1 > n THEN 0 ELSE n - 1 + 1
      BY <1>1, FS_Interval
    <3>2. QED
      BY <3>1, <1>1
  <2>3. F \in Surjection(S, 1 .. n)
    BY <2>1, <2>2, FS_Injection DEF n
  <2>4. QED
    BY <2>3 DEF Surjection
<1>7. ById(S) = [i \in 1 .. n |-> CHOOSE e \in S : rank(e) = i]
  BY DEF ById, rank, n
<1> DEFINE q == ById(S)
<1>8. \A i \in 1 .. n : q[i] \in S /\ rank(q[i]) = i
  BY <1>6, <1>7
<1>9. DOMAIN q = 1 .. n /\ q \in [1 .. n -> Events]
  BY <1>7, <1>8
<1> HIDE DEF q
<1>10. q \in Seq(Events)
  BY <1>1, <1>9
<1>11. ToSet(q) = S
  <2>1. ASSUME NEW e \in S
        PROVE  e \in ToSet(q)
    <3>1. rank(e) \in 1 .. n
      BY <1>t
    <3>2. q[rank(e)] = e
      BY <3>1, <1>5, <1>8
    <3>3. QED
      BY <3>1, <3>2, <1>9 DEF ToSet
  <2>2. QED
    BY <2>1, <1>8, <1>9 DEF ToSet
<1>12. Ascending(q)
  <2>1. SUFFICES ASSUME NEW i \in 1 .. n, NEW j \in 1 .. n, i < j
                 PROVE  q[i].id < q[j].id
    BY <1>1, <1>9, <1>10 DEF Ascending
  <2>2. q[i] \in S /\ q[j] \in S /\ rank(q[i]) = i /\ rank(q[j]) = j
    BY <1>8
  <2>3. q[i].id \in Int /\ q[j].id \in Int
    BY <2>2, <1>2
  <2>4. q[i].id # q[j].id
    BY <2>1, <2>2, <1>1
  <2>5. ~ (q[j].id < q[i].id)
    <3>1. SUFFICES ASSUME q[j].id < q[i].id
                   PROVE  FALSE
      OBVIOUS
    <3>2. rank(q[j]) < rank(q[i])
      BY <3>1, <2>2, <1>4
    <3>3. i \in Int /\ j \in Int
      BY <1>1
    <3>4. QED
      BY <3>2, <3>3, <2>1, <2>2
  <2>6. QED
    BY <2>3, <2>4, <2>5
<1>13. QED
  BY <1>10, <1>11, <1>12 DEF q

-----------------------------------------------------------------------------

(* The identifier of a cut tells which events come before it.              *)
LEMMA CutByCursor ==
  ASSUME NEW q \in Seq(Events), Ascending(q), NEW n \in 0 .. Len(q), NEW c \in Nat,
         n > 0 => q[n].id < c, n < Len(q) => c <= q[n + 1].id
  PROVE  \A i \in 1 .. Len(q) : i <= n <=> q[i].id < c
<1> SUFFICES ASSUME NEW i \in 1 .. Len(q)
             PROVE  i <= n <=> q[i].id < c
  OBVIOUS
<1>1. Len(q) \in Nat /\ n \in Nat /\ i \in Nat
  OBVIOUS
<1>2. \A j \in 1 .. Len(q) : q[j].id \in Nat
  BY RecordTypes DEF Records
<1>3. CASE i <= n
  <2>1. n \in 1 .. Len(q) /\ n > 0
    BY <1>1, <1>3
  <2>2. i = n \/ q[i].id < q[n].id
    BY <1>1, <1>3, <2>1 DEF Ascending
  <2>3. QED
    BY <1>2, <1>3, <2>1, <2>2
<1>4. CASE ~ (i <= n)
  <2>1. n + 1 \in 1 .. Len(q) /\ n < Len(q) /\ (i = n + 1 \/ n + 1 < i)
    BY <1>1, <1>4
  <2>2. i = n + 1 \/ q[n + 1].id < q[i].id
    BY <2>1 DEF Ascending
  <2>3. q[n + 1].id \in Nat /\ q[i].id \in Nat /\ c <= q[n + 1].id
    BY <1>2, <2>1
  <2>4. QED
    BY <1>4, <2>2, <2>3
<1>5. QED
  BY <1>3, <1>4

(* What a prefix of the events replays to.                                 *)
LEMMA ReplayPrefix ==
  ASSUME NEW s \in Stores, NEW q \in Seq(Events), NEW g, Trace(g, s, q),
         NEW n \in 0 .. Len(q)
  PROVE  ReplayOn(s, SubSeq(q, 1, n)) = g[n]
<1> DEFINE p == SubSeq(q, 1, n)
<1>1. /\ p \in Seq(Events) /\ Len(p) = n /\ Len(p) <= Len(q) /\ n \in Nat
      /\ \A i \in 1 .. Len(p) : p[i] = q[i]
  OBVIOUS
<1> HIDE DEF p
<1>2. PICK h : Trace(h, s, p) /\ ReplayOn(s, p) = h[Len(p)]
  BY <1>1, ReplayTrace
<1>3. \A i \in 0 .. Len(p) : h[i] = g[i]
  BY <1>1, <1>2, TraceIsUnique
<1>4. Len(p) \in 0 .. Len(p)
  BY <1>1
<1>5. QED
  BY <1>1, <1>2, <1>3, <1>4 DEF p

(* What facts_connection_sync merges, in terms of the events that were     *)
(* sent: the deletions, and the additions of the facts that survive.       *)
LEMMA SyncMembers ==
  ASSUME Inv, Retains, Connected, ServerCount, NEW g, NEW s,
         \A f \in Triples : s[f] = NoId,
         Trace(g, s, sent), g[Len(sent)] = store, NEW c \in Nat, c > 0, NEW e
  PROVE  e \in Retained(c)
               \cup {Event("add", store[f], f) : f \in {x \in Triples : store[x] >= c}}
         <=> /\ \E i \in 1 .. Len(sent) : e = sent[i]
             /\ e.id >= c
             /\ e.op = "remove" \/ store[e.fact] = e.id
<1>1. sent \in Seq(Events) /\ store \in Stores
  BY DEF Inv, TypeOK
<1>2. \A d : d \in ToSet(sent) <=> \E i \in 1 .. Len(sent) : d = sent[i]
  BY <1>1 DEF ToSet
<1>3. e \in Retained(c) <=> e \in ToSet(sent) /\ e.op = "remove" /\ e.id >= c
  BY DEF Retained, Retains
<1>4. ASSUME NEW f \in Triples, store[f] >= c, e = Event("add", store[f], f)
      PROVE  /\ \E i \in 1 .. Len(sent) : e = sent[i]
             /\ e.id >= c /\ store[e.fact] = e.id
  <2>1. store[f] # NoId
    BY <1>4 DEF NoId
  <2>2. s[f] = NoId /\ g[Len(sent)][f] # NoId
    BY <2>1
  <2>3. PICK i \in 1 .. Len(sent) : sent[i] = Event("add", g[Len(sent)][f], f)
    BY <1>1, <2>2, WasAdded
  <2>4. QED
    BY <1>4, <2>3 DEF Event
<1>5. ASSUME e \in Events, e.op # "remove", e.id >= c, store[e.fact] = e.id
      PROVE  \E f \in Triples : store[f] >= c /\ e = Event("add", store[f], f)
  <2>1. e.fact \in Triples /\ e = Event("add", store[e.fact], e.fact)
    BY <1>5 DEF Events, Event
  <2>2. QED
    BY <1>5, <2>1
<1>6. \A i \in 1 .. Len(sent) : sent[i] \in Events
  BY <1>1
<1>7. QED
  BY <1>2, <1>3, <1>4, <1>5, <1>6

(* So it is a finite set of events with identifiers of their own.          *)
LEMMA SyncSorts ==
  ASSUME NEW q \in Seq(Events), Ascending(q), NEW S,
         \A e \in S : \E i \in 1 .. Len(q) : e = q[i]
  PROVE  ById(S) \in Seq(Events) /\ ToSet(ById(S)) = S /\ Ascending(ById(S))
<1>1. S \in SUBSET Events
  OBVIOUS
<1>2. IsFiniteSet(S)
  <2> DEFINE I == 1 .. Len(q)
             T == {q[i] : i \in I}
  <2>1. IsFiniteSet(1 .. Len(q))
    <3>1. 1 \in Int /\ Len(q) \in Int
      OBVIOUS
    <3>2. QED
      BY <3>1, FS_Interval
  <2>2. q \in Surjection(I, T)
    BY DEF Surjection
  <2>3. S \subseteq T
    OBVIOUS
  <2> HIDE DEF I, T
  <2>4. IsFiniteSet(T)
    BY <2>1, <2>2, FS_Surjection DEF I
  <2>5. QED
    BY <2>3, <2>4, FS_Subset
<1>3. ASSUME NEW d \in S, NEW e \in S, d.id = e.id
      PROVE  d = e
  <2>1. PICK i \in 1 .. Len(q), j \in 1 .. Len(q) : d = q[i] /\ e = q[j]
    OBVIOUS
  <2>2. QED
    BY <1>3, <2>1, AscendingPlaces
<1>4. QED
  BY <1>1, <1>2, <1>3, ByIdSorts

(* Whatever a replica of a database that counts its servers was cut off    *)
(* after, what facts_connection_sync sends from its cursor on brings it to *)
(* the committed facts with their identifiers.                             *)
THEOREM ReplicasResync == Spec => [](ServerCount => ResyncFromAnyCursor)
<1>1. Init => Retains
  <2> SUFFICES ASSUME Init PROVE Retains
    OBVIOUS
  <2>1. sent = <<>> /\ removeLog = <<>>
    BY DEF Init
  <2>2. \A e : e \notin ToSet(<<>>)
    BY DEF ToSet
  <2>3. QED
    BY <2>1, <2>2 DEF Retains
<1>2. Inv /\ ReplayInv /\ Retains /\ [Next]_vars => Retains'
  BY StepKinds, StepRetains
<1>3. Inv /\ ReplayInv /\ Retains => (ServerCount => ResyncFromAnyCursor)
  <2> SUFFICES ASSUME Inv, ReplayInv, Retains, ServerCount, Connected, ~failed,
                      phase = "idle", ~InTransaction,
                      NEW n \in 0 .. Len(sent), NEW c \in 1 .. nextId,
                      n > 0 => sent[n].id < c,
                      n < Len(sent) => c <= sent[n + 1].id
               PROVE  ReplayOn(Replay(SubSeq(sent, 1, n)), Sync(c)) = store
    BY DEF ResyncFromAnyCursor
  <2>1. sent \in Seq(Events) /\ store \in Stores /\ Nothing \in Stores
    BY UwMaxAssumption DEF Inv, TypeOK, Nothing, Stores, Ids, NoId
  <2>2. Ascending(sent) /\ c \in Nat /\ c > 0
    <3>1. nextId \in Nat
      BY TypedFacts DEF Typed
    <3>2. QED
      BY <3>1 DEF ReplayInv, Numbered, InOrder
  <2>3. Replay(sent) = store
    <3>1. txns = <<>> /\ pub = <<>>
      BY PublishedBefore DEF InTransaction
    <3>2. Published = store
      BY <3>1, PublishedAlone
    <3>3. QED
      BY <3>2 DEF ReplayInv, Replayed
  <2>4. PICK g : Trace(g, Nothing, sent) /\ ReplayOn(Nothing, sent) = g[Len(sent)]
    BY <2>1, ReplayTrace
  <2>5. g[Len(sent)] = store
    BY <2>3, <2>4 DEF Replay, Nothing
  <2> DEFINE S == Retained(c) \cup {Event("add", store[f], f) :
                                      f \in {x \in Triples : store[x] >= c}}
             r == ById(S)
             s0 == g[n]
  <2>6. \A f \in Triples : Nothing[f] = NoId
    BY DEF Nothing
  <2>7. ASSUME NEW e
        PROVE  e \in S <=> /\ \E i \in 1 .. Len(sent) : e = sent[i]
                           /\ e.id >= c
                           /\ e.op = "remove" \/ g[Len(sent)][e.fact] = e.id
    BY <2>2, <2>4, <2>5, <2>6, SyncMembers
  <2>8. Sync(c) = r
    BY DEF Sync
  <2> HIDE DEF S, r, s0
  <2>9. r \in Seq(Events) /\ ToSet(r) = S /\ Ascending(r)
    <3>1. \A e \in S : \E i \in 1 .. Len(sent) : e = sent[i]
      BY <2>7
    <3>2. QED
      BY <2>1, <2>2, <3>1, SyncSorts DEF r
  <2>10. \A e : (\E k \in 1 .. Len(r) : e = r[k]) <=> e \in S
    BY <2>9 DEF ToSet
  <2>11. s0 = g[n] /\ s0 \in Stores
    BY <2>4 DEF s0, Trace
  <2>12. PICK h : Trace(h, s0, r) /\ ReplayOn(s0, r) = h[Len(r)]
    BY <2>9, <2>11, ReplayTrace
  <2>13. \A i \in 1 .. Len(sent) : i <= n <=> sent[i].id < c
    BY <2>1, <2>2, CutByCursor
  <2>14. \A e : (\E k \in 1 .. Len(r) : e = r[k]) <=>
                  /\ \E i \in 1 .. Len(sent) : e = sent[i]
                  /\ e.id >= c
                  /\ e.op = "remove" \/ g[Len(sent)][e.fact] = e.id
    BY <2>7, <2>10
  <2>15. CutAt(sent, n, c) /\ Survives(r, sent, g[Len(sent)], c)
    BY <2>13, <2>14 DEF CutAt, Survives
  <2>16. h[Len(r)] = g[Len(sent)]
    BY <2>1, <2>2, <2>4, <2>6, <2>9, <2>11, <2>12, <2>15, ResyncReplays
  <2>17. Replay(SubSeq(sent, 1, n)) = s0
    BY <2>1, <2>4, <2>11, ReplayPrefix DEF Replay, Nothing
  <2>18. QED
    BY <2>5, <2>8, <2>12, <2>16, <2>17
<1>4. QED
  BY <1>1, <1>2, <1>3, Invariance, ReplayInvariant, PTL DEF Spec
=============================================================================
