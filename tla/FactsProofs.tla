----------------------------- MODULE FactsProofs -----------------------------
(***************************************************************************)
(* Proofs about Facts.tla, for every set of facts, every UW_MAX, every     *)
(* depth of transactions, with and without a log and replicas.  Inv is     *)
(* inductive; the refinement of TransactionalFacts and the fail-closed log *)
(* follow from it.                                                         *)
(***************************************************************************)
EXTENDS Facts, TLAPS

USE UwMaxAssumption

(* UndoChain and IdsUnique of a stack t of transactions over the store s.  *)
Chain(t, s) ==
  \A i \in 1 .. Len(t) :
    /\ LeadsBack(t[i].log, IF i = 1 THEN s ELSE t[i - 1].base, t[i].base)
    /\ \A k \in 1 .. Len(t[i].log) : WellLogged(t[i].log[k])

Good(s, n) ==
  /\ \A f \in Triples : s[f] < n
  /\ \A f, g \in Triples : s[f] # NoId /\ s[f] = s[g] => f = g

AllGood(t, n) ==
  \A i \in 1 .. Len(t) :
    /\ Good(t[i].base, n)
    /\ \A k \in 1 .. Len(t[i].log) : Good(t[i].log[k].before, n)

(* UndoChain says that the stack is a chain from the store down.           *)
LEMMA UndoChainIsChain == UndoChain <=> Chain(txns, store)
BY DEF UndoChain, Chain, Suspended

(* The same after a step.                                                  *)
LEMMA UndoChainIsChainPrime == UndoChain' <=> Chain(txns', store')
BY DEF UndoChain, Chain, Suspended

(* IdsUnique says that every store a rollback goes through is good.        *)
LEMMA IdsUniqueIsGood == IdsUnique <=> Good(store, nextId) /\ AllGood(txns, nextId)
BY DEF IdsUnique, GoodIds, Good, AllGood

(* The same after a step.                                                  *)
LEMMA IdsUniqueIsGoodPrime ==
  IdsUnique' <=> Good(store', nextId') /\ AllGood(txns', nextId')
BY DEF IdsUnique, GoodIds, Good, AllGood

-----------------------------------------------------------------------------
(* The tail of a sequence, element by element.                             *)
LEMMA TailFacts ==
  ASSUME NEW S, NEW q \in Seq(S), q # <<>>
  PROVE  /\ Len(q) \in Nat \ {0} /\ q[1] \in S
         /\ Tail(q) \in Seq(S) /\ Len(Tail(q)) = Len(q) - 1
         /\ \A k \in 1 .. Len(q) - 1 : Tail(q)[k] = q[k + 1]
         /\ Tail(q) = <<>> <=> Len(q) = 1
<1>1. Len(q) \in Nat \ {0} /\ q[1] \in S /\ Tail(q) \in Seq(S) /\ Len(Tail(q)) = Len(q) - 1
  OBVIOUS
<1>2. \A k \in 1 .. Len(q) - 1 : Tail(q)[k] = q[k + 1]
  OBVIOUS
<1>3. Tail(q) = <<>> <=> Len(q) = 1
  <2>1. Tail(q) = <<>> => Len(q) = 1
    BY <1>1
  <2>2. \A r \in Seq(S) : Len(r) = 0 => r = <<>>
    OBVIOUS
  <2>3. QED
    BY <1>1, <2>1, <2>2
<1>4. QED
  BY <1>1, <1>2, <1>3

(* A concatenation, element by element.                                    *)
LEMMA ConcatFacts ==
  ASSUME NEW S, NEW p \in Seq(S), NEW q \in Seq(S)
  PROVE  /\ p \o q \in Seq(S) /\ Len(p \o q) = Len(p) + Len(q)
         /\ \A k \in 1 .. Len(p) : (p \o q)[k] = p[k]
         /\ \A k \in 1 .. Len(q) : (p \o q)[Len(p) + k] = q[k]
         /\ p = <<>> => p \o q = q
         /\ q = <<>> => p \o q = p
         /\ p # <<>> \/ q # <<>> => p \o q # <<>>
<1>1. p \o q \in Seq(S) /\ Len(p \o q) = Len(p) + Len(q)
  OBVIOUS
<1>2. \A k \in 1 .. Len(p) : (p \o q)[k] = p[k]
  OBVIOUS
<1>3. \A k \in 1 .. Len(q) : (p \o q)[Len(p) + k] = q[k]
  OBVIOUS
<1>4. p = <<>> => p \o q = q
  OBVIOUS
<1>5. q = <<>> => p \o q = p
  OBVIOUS
<1>6. p # <<>> \/ q # <<>> => p \o q # <<>>
  BY <1>1
<1>7. QED
  BY <1>1, <1>2, <1>3, <1>4, <1>5, <1>6

-----------------------------------------------------------------------------
(* The five ways an operation changes the stack of transactions.           *)

(* Another log for the innermost transaction.                              *)
LEMMA LogReplaced ==
  ASSUME NEW t \in Seq(Transactions), t # <<>>, NEW l \in Seq(Actions)
  PROVE  LET u == [t EXCEPT ![1].log = l] IN
         /\ u \in Seq(Transactions)
         /\ Len(u) = Len(t)
         /\ u[1].log = l /\ u[1].base = t[1].base
         /\ \A i \in 2 .. Len(t) : u[i] = t[i]
         /\ \A i \in 1 .. Len(t) : u[i].base = t[i].base
<1>1. t[1] \in Transactions
  OBVIOUS
<1>2. /\ [t[1] EXCEPT !.log = l] \in Transactions
      /\ [t[1] EXCEPT !.log = l].log = l
      /\ [t[1] EXCEPT !.log = l].base = t[1].base
  BY <1>1 DEF Transactions
<1> DEFINE x == [t[1] EXCEPT !.log = l]
<1>3. [t EXCEPT ![1].log = l] = [t EXCEPT ![1] = x]
  OBVIOUS
<1> HIDE DEF x
<1>4. QED
  BY <1>2, <1>3 DEF x

(* The chain depends on the logs and bases of the stack alone.             *)
LEMMA ChainLog ==
  ASSUME NEW t \in Seq(Transactions), t # <<>>, NEW l \in Seq(Actions),
         NEW r, NEW s, Chain(t, r), LeadsBack(l, s, t[1].base),
         \A k \in 1 .. Len(l) : WellLogged(l[k])
  PROVE  Chain([t EXCEPT ![1].log = l], s)
<1> DEFINE u == [t EXCEPT ![1].log = l]
<1>1. /\ Len(u) = Len(t) /\ u[1].log = l /\ u[1].base = t[1].base
      /\ \A i \in 2 .. Len(t) : u[i] = t[i]
      /\ \A i \in 1 .. Len(t) : u[i].base = t[i].base
  BY LogReplaced
<1> HIDE DEF u
<1>2. Chain(u, s)
  <2> SUFFICES ASSUME NEW i \in 1 .. Len(u)
               PROVE  /\ LeadsBack(u[i].log, IF i = 1 THEN s ELSE u[i - 1].base,
                                   u[i].base)
                      /\ \A k \in 1 .. Len(u[i].log) : WellLogged(u[i].log[k])
    BY DEF Chain
  <2>1. CASE i = 1
    BY <1>1, <2>1
  <2>2. CASE i # 1
    <3>1. i \in 2 .. Len(t) /\ i - 1 \in 1 .. Len(t) /\ i \in 1 .. Len(t)
      BY <1>1, <2>2
    <3>2. u[i] = t[i] /\ u[i - 1].base = t[i - 1].base
      BY <1>1, <3>1
    <3>3. /\ LeadsBack(t[i].log, t[i - 1].base, t[i].base)
          /\ \A k \in 1 .. Len(t[i].log) : WellLogged(t[i].log[k])
      BY <2>2, <3>1 DEF Chain
    <3>4. QED
      BY <2>2, <3>2, <3>3
  <2>3. QED
    BY <2>1, <2>2
<1>3. QED
  BY <1>2 DEF u

(* A transaction is opened.                                                *)
LEMMA ChainOpen ==
  ASSUME NEW t \in Seq(Transactions), NEW s \in Stores, NEW n \in Ids,
         Chain(t, s)
  PROVE  LET u == <<[id |-> n, log |-> <<>>, base |-> s]>> \o t IN
         /\ u \in Seq(Transactions) /\ Len(u) = Len(t) + 1
         /\ u[1].base = s /\ u[1].log = <<>>
         /\ \A i \in 1 .. Len(t) : u[i + 1] = t[i]
         /\ Chain(u, s)
<1> DEFINE x == [id |-> n, log |-> <<>>, base |-> s]
           u == <<x>> \o t
<1>1. x \in Transactions
  BY DEF Transactions
<1>2. /\ u \in Seq(Transactions) /\ Len(u) = Len(t) + 1 /\ u[1] = x
      /\ \A i \in 1 .. Len(t) : u[i + 1] = t[i]
      /\ \A i \in 2 .. Len(u) : u[i] = t[i - 1]
  BY <1>1
<1>3. x.base = s /\ x.log = <<>>
  OBVIOUS
<1> HIDE DEF x, u
<1>4. Chain(u, s)
  <2> SUFFICES ASSUME NEW i \in 1 .. Len(u)
               PROVE  /\ LeadsBack(u[i].log, IF i = 1 THEN s ELSE u[i - 1].base,
                                   u[i].base)
                      /\ \A k \in 1 .. Len(u[i].log) : WellLogged(u[i].log[k])
    BY DEF Chain
  <2>1. CASE i = 1
    BY <1>2, <1>3, <2>1 DEF LeadsBack
  <2>2. CASE i = 2
    BY <1>2, <1>3, <2>2 DEF Chain
  <2>3. CASE i > 2
    <3>1. i \in 2 .. Len(u) /\ i - 1 \in 2 .. Len(u) /\ i - 1 \in 1 .. Len(t)
      BY <1>2, <2>3
    <3>2. u[i] = t[i - 1] /\ u[i - 1] = t[i - 1 - 1]
      BY <1>2, <3>1
    <3>3. QED
      BY <2>3, <3>1, <3>2 DEF Chain
  <2>4. QED
    BY <2>1, <2>2, <2>3
<1>5. QED
  BY <1>2, <1>3, <1>4 DEF x, u

(* A transaction whose log is undone is closed.                            *)
LEMMA ChainClose ==
  ASSUME NEW t \in Seq(Transactions), t # <<>>, NEW s, Chain(t, s),
         t[1].log = <<>>
  PROVE  /\ s = t[1].base
         /\ Chain(Tail(t), s)
<1>1. s = t[1].base
  BY DEF Chain, LeadsBack
<1>2. /\ Len(Tail(t)) = Len(t) - 1
      /\ \A i \in 1 .. Len(t) - 1 : Tail(t)[i] = t[i + 1]
  OBVIOUS
<1>3. Chain(Tail(t), s)
  <2> SUFFICES ASSUME NEW i \in 1 .. Len(Tail(t))
               PROVE  /\ LeadsBack(Tail(t)[i].log,
                                   IF i = 1 THEN s ELSE Tail(t)[i - 1].base,
                                   Tail(t)[i].base)
                      /\ \A k \in 1 .. Len(Tail(t)[i].log) :
                           WellLogged(Tail(t)[i].log[k])
    BY DEF Chain
  <2>1. i + 1 \in 1 .. Len(t) /\ Tail(t)[i] = t[i + 1]
    BY <1>2
  <2>2. /\ LeadsBack(t[i + 1].log, t[i].base, t[i + 1].base)
        /\ \A k \in 1 .. Len(t[i + 1].log) : WellLogged(t[i + 1].log[k])
    BY <2>1 DEF Chain
  <2>3. (IF i = 1 THEN s ELSE Tail(t)[i - 1].base) = t[i].base
    <3>1. CASE i = 1
      BY <1>1, <3>1
    <3>2. CASE i # 1
      <4>1. i - 1 \in 1 .. Len(t) - 1
        BY <1>2, <3>2
      <4>2. QED
        BY <1>2, <3>2, <4>1
    <3>3. QED
      BY <3>1, <3>2
  <2>4. QED
    BY <2>1, <2>2, <2>3
<1>4. QED
  BY <1>1, <1>3

(* A nested transaction is committed into the enclosing one.               *)
LEMMA ChainMerge ==
  ASSUME NEW t \in Seq(Transactions), Len(t) > 1, NEW s, Chain(t, s)
  PROVE  /\ Tail(t) \in Seq(Transactions) /\ Tail(t) # <<>>
         /\ Tail(t)[1] = t[2]
         /\ t[1].log \in Seq(Actions) /\ t[2].log \in Seq(Actions)
         /\ t[1].log \o t[2].log \in Seq(Actions)
         /\ Chain([Tail(t) EXCEPT ![1].log = t[1].log \o t[2].log], s)
<1> DEFINE l == t[1].log
           m == t[2].log
<1>1. /\ Tail(t) \in Seq(Transactions) /\ Tail(t) # <<>> /\ Tail(t)[1] = t[2]
      /\ Len(Tail(t)) = Len(t) - 1
      /\ \A i \in 1 .. Len(t) - 1 : Tail(t)[i] = t[i + 1]
  <2>1. t # <<>>
    OBVIOUS
  <2>2. QED
    BY <2>1, TailFacts
<1>2. l \in Seq(Actions) /\ m \in Seq(Actions)
  <2>1. t[1] \in Transactions /\ t[2] \in Transactions
    OBVIOUS
  <2>2. QED
    BY <2>1 DEF Transactions
<1>3. /\ LeadsBack(l, s, t[1].base) /\ LeadsBack(m, t[1].base, t[2].base)
      /\ \A k \in 1 .. Len(l) : WellLogged(l[k])
      /\ \A k \in 1 .. Len(m) : WellLogged(m[k])
  BY DEF Chain
<1> HIDE DEF l, m
<1>4. /\ l \o m \in Seq(Actions) /\ Len(l \o m) = Len(l) + Len(m)
      /\ \A k \in 1 .. Len(l) : (l \o m)[k] = l[k]
      /\ \A k \in 1 .. Len(m) : (l \o m)[Len(l) + k] = m[k]
      /\ l = <<>> => l \o m = m
      /\ m = <<>> => l \o m = l
      /\ l # <<>> => l \o m # <<>>
  BY <1>2, ConcatFacts
<1>5. \A k \in 1 .. Len(l \o m) : WellLogged((l \o m)[k])
  <2> SUFFICES ASSUME NEW k \in 1 .. Len(l \o m) PROVE WellLogged((l \o m)[k])
    OBVIOUS
  <2>1. CASE k \in 1 .. Len(l)
    BY <1>3, <1>4, <2>1
  <2>2. CASE k \notin 1 .. Len(l)
    <3>1. k - Len(l) \in 1 .. Len(m) /\ k = Len(l) + (k - Len(l))
      BY <1>2, <1>4, <2>2
    <3>2. QED
      BY <1>3, <1>4, <3>1
  <2>3. QED
    BY <2>1, <2>2
<1>6. LeadsBack(l \o m, s, t[2].base)
  <2>1. CASE l = <<>>
    <3>1. l \o m = m /\ s = t[1].base
      BY <1>2, <1>3, <2>1 DEF LeadsBack
    <3>2. QED
      BY <1>3, <3>1
  <2>2. CASE l # <<>> /\ m = <<>>
    <3>1. l \o m = l /\ t[1].base = t[2].base
      BY <1>2, <1>3, <2>2 DEF LeadsBack
    <3>2. QED
      BY <1>3, <3>1
  <2>3. CASE l # <<>> /\ m # <<>>
    <3>1. /\ Len(l) \in Nat \ {0} /\ Len(m) \in Nat \ {0} /\ l \o m # <<>>
          /\ (l \o m)[1] = l[1]
          /\ (l \o m)[Len(l \o m)] = m[Len(m)]
          /\ (l \o m)[Len(l)] = l[Len(l)]
          /\ (l \o m)[Len(l) + 1] = m[1]
      BY <1>2, <1>4, <2>3
    <3>2. s = After(l[1]) /\ t[2].base = m[Len(m)].before
          /\ l[Len(l)].before = After(m[1])
      BY <1>3, <2>3 DEF LeadsBack
    <3>3. ASSUME NEW k \in 1 .. Len(l \o m) - 1
          PROVE  (l \o m)[k].before = After((l \o m)[k + 1])
      <4>1. CASE k < Len(l)
        <5>1. k \in 1 .. Len(l) - 1 /\ k \in 1 .. Len(l) /\ k + 1 \in 1 .. Len(l)
          BY <3>1, <4>1
        <5>2. QED
          BY <1>3, <1>4, <5>1 DEF LeadsBack
      <4>2. CASE k = Len(l)
        BY <3>1, <3>2, <4>2
      <4>3. CASE k > Len(l)
        <5>1. /\ k - Len(l) \in 1 .. Len(m) - 1
              /\ k - Len(l) \in 1 .. Len(m) /\ k - Len(l) + 1 \in 1 .. Len(m)
              /\ k = Len(l) + (k - Len(l))
              /\ k + 1 = Len(l) + (k - Len(l) + 1)
          BY <1>4, <3>1, <4>3
        <5>2. /\ (l \o m)[k] = m[k - Len(l)]
              /\ (l \o m)[k + 1] = m[k - Len(l) + 1]
          BY <1>4, <5>1
        <5>3. m[k - Len(l)].before = After(m[k - Len(l) + 1])
          BY <1>3, <5>1 DEF LeadsBack
        <5>4. QED
          BY <5>2, <5>3
      <4>4. QED
        BY <3>1, <4>1, <4>2, <4>3
    <3>4. QED
      BY <3>1, <3>2, <3>3 DEF LeadsBack
  <2>4. QED
    BY <2>1, <2>2, <2>3
<1>7. Chain(Tail(t), t[1].base)
  <2> SUFFICES ASSUME NEW i \in 1 .. Len(Tail(t))
               PROVE  /\ LeadsBack(Tail(t)[i].log,
                                   IF i = 1 THEN t[1].base ELSE Tail(t)[i - 1].base,
                                   Tail(t)[i].base)
                      /\ \A k \in 1 .. Len(Tail(t)[i].log) :
                           WellLogged(Tail(t)[i].log[k])
    BY DEF Chain
  <2>1. i + 1 \in 1 .. Len(t) /\ Tail(t)[i] = t[i + 1]
    BY <1>1
  <2>2. /\ LeadsBack(t[i + 1].log, t[i].base, t[i + 1].base)
        /\ \A k \in 1 .. Len(t[i + 1].log) : WellLogged(t[i + 1].log[k])
    BY <2>1 DEF Chain
  <2>3. i # 1 => Tail(t)[i - 1] = t[i]
    <3>1. i # 1 => i - 1 \in 1 .. Len(t) - 1
      BY <1>1
    <3>2. QED
      BY <1>1, <3>1
  <2>4. QED
    BY <2>1, <2>2, <2>3
<1>8. Chain([Tail(t) EXCEPT ![1].log = l \o m], s)
  BY <1>1, <1>4, <1>5, <1>6, <1>7, ChainLog
<1>9. QED
  BY <1>1, <1>2, <1>4, <1>8 DEF l, m

(* An action is logged.                                                    *)
LEMMA ChainPush ==
  ASSUME NEW t \in Seq(Transactions), t # <<>>, NEW s, Chain(t, s),
         NEW a \in Actions, a.before = s, WellLogged(a)
  PROVE  /\ t[1].log \in Seq(Actions)
         /\ <<a>> \o t[1].log \in Seq(Actions)
         /\ Chain([t EXCEPT ![1].log = <<a>> \o t[1].log], After(a))
<1> DEFINE l == t[1].log
<1>1. l \in Seq(Actions)
  <2>1. t[1] \in Transactions
    OBVIOUS
  <2>2. QED
    BY <2>1 DEF Transactions
<1>2. LeadsBack(l, s, t[1].base) /\ \A k \in 1 .. Len(l) : WellLogged(l[k])
  BY DEF Chain
<1> HIDE DEF l
<1>3. /\ <<a>> \o l \in Seq(Actions) /\ Len(<<a>> \o l) = Len(l) + 1
      /\ (<<a>> \o l)[1] = a /\ <<a>> \o l # <<>>
      /\ \A k \in 2 .. Len(l) + 1 : (<<a>> \o l)[k] = l[k - 1]
  BY <1>1
<1>4. \A k \in 1 .. Len(<<a>> \o l) : WellLogged((<<a>> \o l)[k])
  BY <1>1, <1>2, <1>3
<1>5. LeadsBack(<<a>> \o l, After(a), t[1].base)
  <2>1. CASE l = <<>>
    BY <1>2, <1>3, <2>1 DEF LeadsBack
  <2>2. CASE l # <<>>
    <3>1. /\ Len(l) \in Nat \ {0}
          /\ (<<a>> \o l)[2] = l[1]
          /\ (<<a>> \o l)[Len(<<a>> \o l)] = l[Len(l)]
      BY <1>1, <1>3, <2>2
    <3>2. s = After(l[1]) /\ t[1].base = l[Len(l)].before
      BY <1>2, <2>2 DEF LeadsBack
    <3>3. ASSUME NEW k \in 1 .. Len(<<a>> \o l) - 1
          PROVE  (<<a>> \o l)[k].before = After((<<a>> \o l)[k + 1])
      <4>1. CASE k = 1
        BY <1>3, <3>1, <3>2, <4>1
      <4>2. CASE k # 1
        <5>1. /\ k \in 2 .. Len(l) + 1 /\ k + 1 \in 2 .. Len(l) + 1
              /\ k - 1 \in 1 .. Len(l) - 1 /\ (k - 1) + 1 = k
              /\ (k + 1) - 1 = k
          BY <1>3, <3>1, <4>2
        <5>2. (<<a>> \o l)[k] = l[k - 1] /\ (<<a>> \o l)[k + 1] = l[k]
          BY <1>3, <5>1
        <5>3. l[k - 1].before = After(l[k])
          BY <1>2, <5>1 DEF LeadsBack
        <5>4. QED
          BY <5>2, <5>3
      <4>3. QED
        BY <4>1, <4>2
    <3>4. QED
      BY <1>3, <3>1, <3>2, <3>3 DEF LeadsBack
  <2>3. QED
    BY <2>1, <2>2
<1>6. Chain([t EXCEPT ![1].log = <<a>> \o l], After(a))
  BY <1>3, <1>4, <1>5, ChainLog
<1>7. QED
  BY <1>1, <1>3, <1>6 DEF l

(* The newest action of the innermost transaction is undone.               *)
LEMMA ChainPop ==
  ASSUME NEW t \in Seq(Transactions), t # <<>>, NEW s, Chain(t, s),
         t[1].log # <<>>
  PROVE  LET a == t[1].log[1] IN
         /\ a \in Actions /\ WellLogged(a) /\ s = After(a)
         /\ t[1].log \in Seq(Actions) /\ Tail(t[1].log) \in Seq(Actions)
         /\ Chain([t EXCEPT ![1].log = Tail(t[1].log)], a.before)
<1> DEFINE l == t[1].log
<1>1. l \in Seq(Actions)
  <2>1. t[1] \in Transactions
    OBVIOUS
  <2>2. QED
    BY <2>1 DEF Transactions
<1>2. LeadsBack(l, s, t[1].base) /\ \A k \in 1 .. Len(l) : WellLogged(l[k])
  BY DEF Chain
<1>3. l # <<>>
  OBVIOUS
<1> HIDE DEF l
<1>4. /\ l[1] \in Actions /\ 1 \in 1 .. Len(l) /\ Len(l) \in Nat \ {0}
      /\ Tail(l) \in Seq(Actions) /\ Len(Tail(l)) = Len(l) - 1
      /\ \A k \in 1 .. Len(l) - 1 : Tail(l)[k] = l[k + 1]
      /\ Tail(l) = <<>> <=> Len(l) = 1
  BY <1>1, <1>3, TailFacts
<1>5. s = After(l[1]) /\ WellLogged(l[1])
  BY <1>2, <1>3, <1>4 DEF LeadsBack
<1>6. \A k \in 1 .. Len(Tail(l)) : WellLogged(Tail(l)[k])
  BY <1>2, <1>4
<1>7. LeadsBack(Tail(l), l[1].before, t[1].base)
  <2>1. t[1].base = l[Len(l)].before
        /\ \A k \in 1 .. Len(l) - 1 : l[k].before = After(l[k + 1])
    BY <1>2, <1>3 DEF LeadsBack
  <2>2. CASE Len(l) = 1
    <3>1. Tail(l) = <<>> /\ t[1].base = l[1].before
      BY <1>4, <2>1, <2>2
    <3>2. LeadsBack(<<>>, l[1].before, l[1].before)
      BY DEF LeadsBack
    <3>3. QED
      BY <3>1, <3>2
  <2>3. CASE Len(l) # 1
    <3>1. /\ Tail(l) # <<>> /\ Tail(l)[1] = l[2]
          /\ Tail(l)[Len(Tail(l))] = l[Len(l)]
      BY <1>1, <1>4, <2>3
    <3>2. l[1].before = After(Tail(l)[1])
      BY <1>4, <2>1, <2>3, <3>1
    <3>3. ASSUME NEW k \in 1 .. Len(Tail(l)) - 1
          PROVE  Tail(l)[k].before = After(Tail(l)[k + 1])
      <4>1. k \in 1 .. Len(l) - 1 /\ k + 1 \in 1 .. Len(l) - 1
        BY <1>4
      <4>2. QED
        BY <1>4, <2>1, <4>1
    <3>4. QED
      BY <2>1, <3>1, <3>2, <3>3 DEF LeadsBack
  <2>4. QED
    BY <2>2, <2>3
<1>8. Chain([t EXCEPT ![1].log = Tail(l)], l[1].before)
  BY <1>4, <1>6, <1>7, ChainLog
<1>9. QED
  BY <1>1, <1>4, <1>5, <1>8 DEF l

-----------------------------------------------------------------------------
(* Identifiers: a larger next_id, and the same five changes of the stack.  *)
LEMMA GoodGrows ==
  ASSUME NEW s \in Stores, NEW n \in Nat, NEW m \in Nat, n <= m, Good(s, n)
  PROVE  Good(s, m)
BY DEF Good, Stores, Ids

(* What a log entry is made of.                                            *)
LEMMA LogTypes ==
  ASSUME NEW t \in Seq(Transactions), NEW i \in 1 .. Len(t)
  PROVE  /\ t[i] \in Transactions
         /\ t[i].log \in Seq(Actions) /\ t[i].base \in Stores /\ t[i].id \in Ids
         /\ \A k \in 1 .. Len(t[i].log) :
              t[i].log[k] \in Actions /\ t[i].log[k].before \in Stores
<1>1. t[i] \in Transactions
  OBVIOUS
<1>2. t[i].log \in Seq(Actions) /\ t[i].base \in Stores /\ t[i].id \in Ids
  BY <1>1 DEF Transactions
<1>3. \A k \in 1 .. Len(t[i].log) : t[i].log[k] \in Actions
  BY <1>2
<1>4. \A a \in Actions : a.before \in Stores
  BY DEF Actions
<1>5. QED
  BY <1>1, <1>2, <1>3, <1>4

(* Good stores stay good when next_id grows.                               *)
LEMMA AllGoodGrows ==
  ASSUME NEW t \in Seq(Transactions), NEW n \in Nat, NEW m \in Nat, n <= m,
         AllGood(t, n)
  PROVE  AllGood(t, m)
<1> SUFFICES ASSUME NEW i \in 1 .. Len(t)
             PROVE  /\ Good(t[i].base, m)
                    /\ \A k \in 1 .. Len(t[i].log) : Good(t[i].log[k].before, m)
  BY DEF AllGood
<1>1. /\ Good(t[i].base, n)
      /\ \A k \in 1 .. Len(t[i].log) : Good(t[i].log[k].before, n)
  BY DEF AllGood
<1>2. QED
  BY <1>1, LogTypes, GoodGrows

(* A new log of good stores for the innermost transaction.                 *)
LEMMA AllGoodLog ==
  ASSUME NEW t \in Seq(Transactions), t # <<>>, NEW l \in Seq(Actions),
         NEW n \in Nat, AllGood(t, n),
         \A k \in 1 .. Len(l) : Good(l[k].before, n)
  PROVE  AllGood([t EXCEPT ![1].log = l], n)
<1> DEFINE u == [t EXCEPT ![1].log = l]
<1>1. /\ Len(u) = Len(t) /\ u[1].log = l /\ u[1].base = t[1].base
      /\ \A i \in 2 .. Len(t) : u[i] = t[i]
  BY LogReplaced
<1> HIDE DEF u
<1>2. ASSUME NEW i \in 1 .. Len(u)
      PROVE  /\ Good(u[i].base, n)
             /\ \A k \in 1 .. Len(u[i].log) : Good(u[i].log[k].before, n)
  <2>1. CASE i = 1
    BY <1>1, <2>1 DEF AllGood
  <2>2. CASE i # 1
    <3>1. u[i] = t[i] /\ i \in 1 .. Len(t)
      BY <1>1, <2>2
    <3>2. QED
      BY <3>1 DEF AllGood
  <2>3. QED
    BY <2>1, <2>2
<1>3. QED
  BY <1>2 DEF AllGood, u

(* A transaction opened on a good store.                                   *)
LEMMA AllGoodOpen ==
  ASSUME NEW t \in Seq(Transactions), NEW s \in Stores, NEW i \in Ids,
         NEW n \in Nat, AllGood(t, n), Good(s, n), Chain(t, s)
  PROVE  AllGood(<<[id |-> i, log |-> <<>>, base |-> s]>> \o t, n)
<1> DEFINE u == <<[id |-> i, log |-> <<>>, base |-> s]>> \o t
<1>1. /\ Len(u) = Len(t) + 1 /\ u[1].base = s /\ u[1].log = <<>>
      /\ \A k \in 1 .. Len(t) : u[k + 1] = t[k]
  BY ChainOpen
<1> HIDE DEF u
<1>2. ASSUME NEW j \in 1 .. Len(u)
      PROVE  /\ Good(u[j].base, n)
             /\ \A k \in 1 .. Len(u[j].log) : Good(u[j].log[k].before, n)
  <2>1. CASE j = 1
    BY <1>1, <2>1
  <2>2. CASE j # 1
    <3>1. u[j] = t[j - 1] /\ j - 1 \in 1 .. Len(t)
      <4>1. j - 1 \in 1 .. Len(t)
        BY <1>1, <2>2
      <4>2. QED
        BY <1>1, <4>1
    <3>2. QED
      BY <3>1 DEF AllGood
  <2>3. QED
    BY <2>1, <2>2
<1>3. QED
  BY <1>2 DEF AllGood, u

(* The transactions left when the innermost one is closed.                 *)
LEMMA AllGoodTail ==
  ASSUME NEW t \in Seq(Transactions), t # <<>>, NEW n, AllGood(t, n)
  PROVE  AllGood(Tail(t), n)
<1>1. /\ Len(Tail(t)) = Len(t) - 1
      /\ \A i \in 1 .. Len(t) - 1 : Tail(t)[i] = t[i + 1]
  BY TailFacts
<1>2. ASSUME NEW i \in 1 .. Len(Tail(t))
      PROVE  Tail(t)[i] = t[i + 1] /\ i + 1 \in 1 .. Len(t)
  BY <1>1
<1>3. QED
  BY <1>2 DEF AllGood

(* The types and identifiers of a nested transaction merged into the       *)
(* enclosing one.                                                          *)
LEMMA MergeFacts ==
  ASSUME NEW t \in Seq(Transactions), Len(t) > 1, NEW s, Chain(t, s),
         NEW n \in Nat, AllGood(t, n)
  PROVE  LET u == [Tail(t) EXCEPT ![1].log = t[1].log \o t[2].log] IN
         /\ u \in Seq(Transactions) /\ Len(u) = Len(t) - 1 /\ u # <<>>
         /\ Chain(u, s) /\ AllGood(u, n)
<1> DEFINE p == t[1].log
           q == t[2].log
           v == Tail(t)
           u == [v EXCEPT ![1].log = p \o q]
<1>1. /\ v \in Seq(Transactions) /\ v # <<>>
      /\ p \in Seq(Actions) /\ q \in Seq(Actions) /\ p \o q \in Seq(Actions)
      /\ Chain(u, s)
  BY ChainMerge
<1>2. AllGood(v, n) /\ Len(v) = Len(t) - 1
  <2>1. t # <<>>
    OBVIOUS
  <2>2. QED
    BY <2>1, AllGoodTail, TailFacts
<1>3. /\ \A k \in 1 .. Len(p) : Good(p[k].before, n)
      /\ \A k \in 1 .. Len(q) : Good(q[k].before, n)
  BY DEF AllGood
<1> HIDE DEF p, q, v
<1>4. \A k \in 1 .. Len(p \o q) : Good((p \o q)[k].before, n)
  <2>1. /\ Len(p \o q) = Len(p) + Len(q)
        /\ \A k \in 1 .. Len(p) : (p \o q)[k] = p[k]
        /\ \A k \in 1 .. Len(q) : (p \o q)[Len(p) + k] = q[k]
    BY <1>1, ConcatFacts
  <2>2. ASSUME NEW k \in 1 .. Len(p \o q) PROVE Good((p \o q)[k].before, n)
    <3>1. CASE k \in 1 .. Len(p)
      BY <1>3, <2>1, <3>1
    <3>2. CASE k \notin 1 .. Len(p)
      <4>1. k - Len(p) \in 1 .. Len(q) /\ k = Len(p) + (k - Len(p))
        BY <1>1, <2>1, <3>2
      <4>2. QED
        BY <1>3, <2>1, <4>1
    <3>3. QED
      BY <3>1, <3>2
  <2>3. QED
    BY <2>2
<1>5. AllGood(u, n)
  BY <1>1, <1>2, <1>4, AllGoodLog
<1>6. /\ u \in Seq(Transactions) /\ Len(u) = Len(v)
  BY <1>1, LogReplaced
<1> HIDE DEF u
<1>7. u # <<>>
  <2>1. Len(t) \in Nat
    OBVIOUS
  <2>2. QED
    BY <1>2, <1>6, <2>1
<1>8. QED
  BY <1>1, <1>2, <1>5, <1>6, <1>7 DEF u, v, p, q

-----------------------------------------------------------------------------
(* Linking and unlinking a fact keep the set and the skip lists equal.     *)
LEMMA LinkFacts ==
  ASSUME store \in Stores, index \in [Indexes -> SUBSET Triples], IndexesAgree,
         NEW f \in Triples, NEW i \in Ids, i # NoId, Link(f, i)
  PROVE  /\ store' \in Stores /\ index' \in [Indexes -> SUBSET Triples]
         /\ IndexesAgree'
BY DEF Link, Stores, IndexesAgree, Stored

(* Unlinking takes the fact out of the set and of every skip list.         *)
LEMMA UnlinkFacts ==
  ASSUME store \in Stores, index \in [Indexes -> SUBSET Triples], IndexesAgree,
         NEW f \in Triples, Unlink(f)
  PROVE  /\ store' \in Stores /\ index' \in [Indexes -> SUBSET Triples]
         /\ IndexesAgree'
BY DEF Unlink, Stores, IndexesAgree, Stored, Ids, NoId

(* An insertion that could not be logged leaves nothing behind.            *)
LEMMA UnwoundLeavesNothing ==
  ASSUME store \in Stores, index \in [Indexes -> SUBSET Triples],
         NEW f, Unwound(f)
  PROVE  UNCHANGED <<store, index, usage>>
<1>1. Indexes \cup {"set"} \subseteq TakenOut
  BY DEF Indexes, TakenOut
<1>2. index' = [i \in Indexes |-> index[i]] /\ store' = store /\ usage' = usage
  BY <1>1 DEF Unwound
<1>3. QED
  BY <1>2

(* A fact linked under a new identifier leaves a good store.               *)
LEMMA GoodLink ==
  ASSUME NEW s \in Stores, NEW f \in Triples, NEW n \in Nat \ {0}, Good(s, n)
  PROVE  /\ Good([s EXCEPT ![f] = n], n + 1)
         /\ Good([s EXCEPT ![f] = NoId], n)
BY DEF Good, Stores, Ids, NoId

(* Reference counts stay integers.                                         *)
LEMMA UsageTypes ==
  ASSUME usage \in [Tags -> Int], NEW f
  PROVE  /\ Ref(f) => usage' \in [Tags -> Int]
         /\ Unref(f) => usage' \in [Tags -> Int]
         /\ RefTwice(f) => usage' \in [Tags -> Int]
         /\ usage' = [t \in Tags |-> usage[t] - 2 * Uses(f, t)]
              => usage' \in [Tags -> Int]
<1>1. \A t \in Tags : Uses(f, t) \in Int
  BY DEF Uses
<1>2. QED
  BY <1>1 DEF Ref, Unref, RefTwice

-----------------------------------------------------------------------------
(* The inductive invariant.                                                *)
Inv == /\ TypeOK /\ StageInv /\ IndexesAgree /\ LockBalanced
       /\ UndoChain /\ IdsUnique /\ RollbackNeverAborts

(* The part of TypeOK that is about what the database puts out.            *)
OutputOK ==
  /\ disk \in Seq(Events) /\ failed \in BOOLEAN /\ hooked \in Seq(Events)
  /\ sent \in Seq(Events) /\ removeLog \in Seq(Events)

(* The database facts_init makes satisfies the invariant.                  *)
LEMMA InitInv == Init => Inv
<1> SUFFICES ASSUME Init PROVE Inv
  OBVIOUS
<1> USE DEF Init
<1>1. TypeOK
  <2>1. UwMax \in Nat \ {0}
    OBVIOUS
  <2>2. store \in Stores /\ nextId \in 1 .. UwMax
    BY DEF Stores, Ids, NoId
  <2>3. index \in [Indexes -> SUBSET Triples] /\ usage \in [Tags -> Int]
    OBVIOUS
  <2>4. /\ txns \in Seq(Transactions) /\ pub \in Seq(Actions)
        /\ disk \in Seq(Events) /\ hooked \in Seq(Events)
        /\ sent \in Seq(Events) /\ removeLog \in Seq(Events)
    OBVIOUS
  <2>5. /\ phase \in {"idle", "publishing", "rolling"}
        /\ unwind \in Nat /\ held \in Int
        /\ job \in {"none", "removing", "ending", "failing"}
        /\ todo \in SUBSET Triples /\ toAdd \in SUBSET Triples
    OBVIOUS
  <2>6. failed \in BOOLEAN /\ aborted \in BOOLEAN
    BY Zenon
  <2> HIDE DEF Init
  <2>7. QED
    BY <2>2, <2>3, <2>4, <2>5, <2>6 DEF TypeOK
<1>2. StageInv /\ LockBalanced /\ RollbackNeverAborts
  BY DEF StageInv, LockBalanced, RollbackNeverAborts
<1>3. IndexesAgree
  BY DEF IndexesAgree, Stored
<1>4. UndoChain /\ IdsUnique
  BY DEF UndoChain, IdsUnique, GoodIds, NoId
<1>5. QED
  BY <1>1, <1>2, <1>3, <1>4 DEF Inv

(* The parts of the invariant that steps outside a transaction do not      *)
(* disturb.                                                                *)
LEMMA HistoryFrame ==
  ASSUME Inv, UNCHANGED <<store, txns>>, nextId' \in Nat, nextId <= nextId'
  PROVE  UndoChain' /\ IdsUnique'
<1>1. UndoChain'
  BY DEF Inv, UndoChain, Suspended
<1>2. Good(store, nextId) /\ AllGood(txns, nextId)
  BY IdsUniqueIsGood DEF Inv
<1>3. store \in Stores /\ txns \in Seq(Transactions) /\ nextId \in Nat
  BY DEF Inv, TypeOK
<1>4. Good(store, nextId') /\ AllGood(txns, nextId')
  BY <1>2, <1>3, GoodGrows, AllGoodGrows
<1>5. QED
  BY <1>1, <1>4, IdsUniqueIsGoodPrime

(* An identifier that is given out is below UW_MAX.                        *)
LEMMA TakeIdFacts ==
  ASSUME nextId \in 1 .. UwMax, TakeId
  PROVE  /\ nextId < UwMax /\ nextId' = nextId + 1 /\ nextId \in Ids \ {NoId}
         /\ nextId' \in 1 .. UwMax /\ nextId \in Nat \ {0}
         /\ nextId' \in Nat /\ nextId <= nextId'
BY DEF TakeId, Ids, NoId

(* A record of a fact is an event.                                         *)
LEMMA EventTypes ==
  ASSUME NEW op \in {"add", "remove"}, NEW i \in Ids, NEW f \in Triples
  PROVE  Event(op, i, f) \in Events
BY DEF Event, Events

(* Log, hooks, replicas and retained deletions are given events.           *)
LEMMA OutputTypes ==
  ASSUME OutputOK, NEW e \in Events
  PROVE  /\ WriteRecord(e) => /\ disk' \in Seq(Events) /\ failed' = failed
                              /\ hooked' \in Seq(Events)
         /\ WriteFails(e) => /\ disk' \in Seq(Events) /\ failed' = TRUE
                             /\ hooked' \in Seq(Events)
         /\ \A b : Broadcast(e, b) => sent' \in Seq(Events)
         /\ Retain(e) => removeLog' \in Seq(Events)
<1>1. Append(disk, e) \in Seq(Events) /\ Append(hooked, e) \in Seq(Events)
      /\ Append(sent, e) \in Seq(Events) /\ <<e>> \o removeLog \in Seq(Events)
  BY DEF OutputOK
<1>2. QED
  BY <1>1 DEF OutputOK, WriteRecord, WriteFails, Broadcast, Retain

-----------------------------------------------------------------------------
(* One lemma per operation.                                                *)

(* fact_action_new and the push on the log, for both kinds of action.      *)
LEMMA LogActionInv ==
  ASSUME Inv, InTransaction, NEW op \in {"add", "remove"}, NEW f \in Triples,
         NEW b \in BOOLEAN, TakeId,
         op = "add" <=> ~Stored(f), LogAction(op, f, nextId, b),
         store' = [store EXCEPT ![f] = IF op = "add" THEN nextId ELSE NoId]
  PROVE  /\ txns' \in Seq(Transactions) /\ Len(txns') = Len(txns)
         /\ UndoChain' /\ IdsUnique'
<1> DEFINE a == [op |-> op, id |-> nextId, fact |-> f, broadcast |-> b,
                 oldId |-> IF op = "add" THEN nextId ELSE store[f],
                 before |-> store]
           l == txns[1].log
<1>1. /\ txns \in Seq(Transactions) /\ txns # <<>> /\ store \in Stores
      /\ nextId \in 1 .. UwMax
  BY DEF Inv, TypeOK, InTransaction
<1>2. /\ nextId \in Ids \ {NoId} /\ nextId' = nextId + 1 /\ nextId < UwMax
      /\ nextId \in Nat \ {0} /\ nextId' \in Nat /\ nextId <= nextId'
  BY <1>1, TakeIdFacts
<1>3. Good(store, nextId) /\ AllGood(txns, nextId) /\ Chain(txns, store)
  BY IdsUniqueIsGood, UndoChainIsChain DEF Inv
<1>4. store[f] \in Ids /\ store[f] < nextId
  BY <1>1, <1>3 DEF Good, Stores
<1>5. a \in Actions
  BY <1>1, <1>2, <1>4 DEF Actions
<1>6. a.before = store /\ WellLogged(a)
  <2>1. /\ a.before = store /\ a.op = op /\ a.id = nextId /\ a.fact = f
        /\ a.oldId = IF op = "add" THEN nextId ELSE store[f]
    OBVIOUS
  <2> HIDE DEF a
  <2>2. 0 < nextId /\ 0 < a.oldId /\ a.oldId < UwMax
    BY <1>2, <1>4, <2>1 DEF Stored, Ids, NoId
  <2>3. store[f] = IF op = "add" THEN NoId ELSE a.oldId
    BY <2>1 DEF Stored
  <2>4. QED
    BY <2>1, <2>2, <2>3 DEF WellLogged
<1>7. After(a) = store'
  BY DEF After
<1>8. txns' = [txns EXCEPT ![1].log = <<a>> \o l]
  BY DEF LogAction
<1> HIDE DEF a, l
<1>9. /\ l \in Seq(Actions) /\ <<a>> \o l \in Seq(Actions)
      /\ Chain(txns', store')
  <2>1. /\ txns[1].log \in Seq(Actions) /\ <<a>> \o txns[1].log \in Seq(Actions)
        /\ Chain([txns EXCEPT ![1].log = <<a>> \o txns[1].log], After(a))
    BY <1>1, <1>3, <1>5, <1>6, ChainPush
  <2>2. QED
    BY <1>7, <1>8, <2>1 DEF l
<1>10. txns' \in Seq(Transactions) /\ Len(txns') = Len(txns)
  BY <1>1, <1>8, <1>9, LogReplaced
<1>11. \A k \in 1 .. Len(<<a>> \o l) : Good((<<a>> \o l)[k].before, nextId)
  <2>1. \A k \in 1 .. Len(l) : Good(l[k].before, nextId)
    BY <1>1, <1>3 DEF AllGood, l
  <2>2. /\ Len(<<a>> \o l) = Len(l) + 1 /\ (<<a>> \o l)[1] = a
        /\ \A k \in 2 .. Len(l) + 1 :
             (<<a>> \o l)[k] = l[k - 1] /\ k - 1 \in 1 .. Len(l)
    BY <1>5, <1>9
  <2>3. QED
    BY <1>3, <1>6, <2>1, <2>2
<1>12. AllGood(txns', nextId')
  <2>1. AllGood(txns', nextId)
    BY <1>1, <1>2, <1>3, <1>8, <1>9, <1>11, AllGoodLog
  <2>2. QED
    BY <1>2, <1>10, <2>1, AllGoodGrows
<1>13. Good(store', nextId')
  <2>1. CASE op = "add"
    BY <1>1, <1>2, <1>3, <2>1, GoodLink
  <2>2. CASE op = "remove"
    <3>1. store' = [store EXCEPT ![f] = NoId]
      BY <2>2
    <3>2. Good(store', nextId)
      BY <1>1, <1>2, <1>3, <3>1, GoodLink
    <3>3. store' \in Stores
      BY <1>1, <3>1 DEF Stores, Ids, NoId
    <3>4. QED
      BY <1>2, <3>2, <3>3, GoodGrows
  <2>3. QED
    BY <2>1, <2>2
<1>14. QED
  BY <1>9, <1>10, <1>12, <1>13, UndoChainIsChainPrime, IdsUniqueIsGoodPrime

(* facts_add_fact_local in a transaction keeps the invariant.              *)
LEMMA AddInTransactionInv ==
  ASSUME Inv, NEW f \in Triples, phase = "idle", AddInTransaction(f),
         job' = job, todo' \in SUBSET Triples, toAdd' \in SUBSET Triples
  PROVE  Inv'
<1> USE DEF AddInTransaction, output, logFile
<1>1. /\ nextId' \in 1 .. UwMax /\ nextId \in Ids \ {NoId}
  BY TakeIdFacts DEF Inv, TypeOK
<1>2. store' = [store EXCEPT ![f] = nextId]
  BY DEF Link
<1>3. /\ txns' \in Seq(Transactions) /\ Len(txns') = Len(txns)
      /\ UndoChain' /\ IdsUnique'
  BY <1>2, LogActionInv
<1>4. /\ store' \in Stores /\ index' \in [Indexes -> SUBSET Triples]
      /\ IndexesAgree'
  BY <1>1, LinkFacts DEF Inv, TypeOK
<1>5. usage' \in [Tags -> Int]
  BY UsageTypes DEF Inv, TypeOK
<1>6. TypeOK'
  BY <1>1, <1>3, <1>4, <1>5 DEF Inv, TypeOK
<1>7. txns \in Seq(Transactions) /\ txns # <<>> /\ txns' # <<>>
  BY <1>3 DEF Inv, TypeOK, InTransaction
<1>8. StageInv' /\ LockBalanced' /\ RollbackNeverAborts'
  BY <1>3, <1>7 DEF Inv, StageInv, LockBalanced, RollbackNeverAborts, Writable
<1>9. QED
  BY <1>3, <1>4, <1>6, <1>8 DEF Inv

(* facts_remove_fact_local in a transaction keeps the invariant.           *)
LEMMA RemoveInTransactionInv ==
  ASSUME Inv, NEW f \in Triples, phase = "idle", RemoveInTransaction(f),
         job' = job, todo' \in SUBSET Triples, toAdd' \in SUBSET Triples
  PROVE  Inv'
<1> USE DEF RemoveInTransaction, output, logFile
<1>1. /\ nextId' \in 1 .. UwMax
  BY TakeIdFacts DEF Inv, TypeOK
<1>2. store' = [store EXCEPT ![f] = NoId]
  BY DEF Unlink
<1>3. /\ txns' \in Seq(Transactions) /\ Len(txns') = Len(txns)
      /\ UndoChain' /\ IdsUnique'
  BY <1>2, FlagsAssumption, LogActionInv
<1>4. /\ store' \in Stores /\ index' \in [Indexes -> SUBSET Triples]
      /\ IndexesAgree'
  BY UnlinkFacts DEF Inv, TypeOK
<1>5. TypeOK'
  BY <1>1, <1>3, <1>4 DEF Inv, TypeOK
<1>6. txns \in Seq(Transactions) /\ txns # <<>> /\ txns' # <<>>
  BY <1>3 DEF Inv, TypeOK, InTransaction
<1>7. StageInv' /\ LockBalanced' /\ RollbackNeverAborts'
  BY <1>3, <1>6 DEF Inv, StageInv, LockBalanced, RollbackNeverAborts, Writable
<1>8. QED
  BY <1>3, <1>4, <1>5, <1>7 DEF Inv

(* A step that changes neither the transactions nor the stage keeps the    *)
(* invariant when it keeps the types and the facts.                        *)
LEMMA StageFrame ==
  ASSUME Inv, UNCHANGED <<txns, pub, phase, unwind, held, job, aborted>>,
         failed' => failed \/ txns = <<>>
  PROVE  StageInv' /\ LockBalanced' /\ RollbackNeverAborts'
BY DEF Inv, StageInv, LockBalanced, RollbackNeverAborts

(* The indexes agree as long as facts and indexes do not change.           *)
LEMMA IndexFrame ==
  ASSUME IndexesAgree, UNCHANGED <<store, index>> PROVE IndexesAgree'
BY DEF IndexesAgree, Stored

(* A fact linked or unlinked outside a transaction.                        *)
LEMMA AloneHistory ==
  ASSUME Inv, ~InTransaction, UNCHANGED txns, NEW f \in Triples,
         \/ /\ store' = [store EXCEPT ![f] = nextId]
            /\ nextId' = nextId + 1
         \/ /\ store' = [store EXCEPT ![f] = NoId]
            /\ nextId' \in {nextId, nextId + 1}
  PROVE  UndoChain' /\ IdsUnique'
<1>1. txns = <<>> /\ store \in Stores /\ nextId \in Nat \ {0}
  BY DEF Inv, TypeOK, InTransaction
<1>2. UndoChain' /\ AllGood(txns', nextId')
  BY <1>1 DEF UndoChain, AllGood
<1>3. Good(store, nextId)
  BY IdsUniqueIsGood DEF Inv
<1>4. Good(store', nextId')
  <2>1. CASE store' = [store EXCEPT ![f] = nextId] /\ nextId' = nextId + 1
    BY <1>1, <1>3, <2>1, GoodLink
  <2>2. CASE store' = [store EXCEPT ![f] = NoId]
             /\ nextId' \in {nextId, nextId + 1}
    <3>1. Good(store', nextId)
      BY <1>1, <1>3, <2>2, GoodLink
    <3>2. store' \in Stores
      BY <1>1, <2>2 DEF Stores, Ids, NoId
    <3>3. QED
      BY <1>1, <2>2, <3>1, <3>2, GoodGrows
  <2>3. QED
    BY <2>1, <2>2
<1>5. QED
  BY <1>2, <1>4, IdsUniqueIsGoodPrime

(* facts_add_fact_local outside a transaction keeps the invariant.         *)
LEMMA AddAloneInv ==
  ASSUME Inv, NEW f \in Triples, AddAlone(f), UNCHANGED jobState
  PROVE  Inv'
<1> USE DEF AddAlone, txnState, jobState
<1>1. nextId' \in 1 .. UwMax /\ nextId \in Ids \ {NoId} /\ nextId' = nextId + 1
  BY TakeIdFacts DEF Inv, TypeOK
<1>2. Event("add", nextId, f) \in Events
  BY <1>1, EventTypes
<1>3. OutputOK' /\ failed' = failed
  <2>1. OutputOK
    BY DEF Inv, TypeOK, OutputOK
  <2>2. QED
    BY <1>2, <2>1, OutputTypes DEF OutputOK
<1>4. /\ store' \in Stores /\ index' \in [Indexes -> SUBSET Triples]
      /\ IndexesAgree'
  BY <1>1, LinkFacts DEF Inv, TypeOK
<1>5. usage' \in [Tags -> Int]
  BY UsageTypes DEF Inv, TypeOK
<1>6. TypeOK'
  BY <1>1, <1>3, <1>4, <1>5 DEF Inv, TypeOK, OutputOK
<1>7. UndoChain' /\ IdsUnique'
  BY <1>1, AloneHistory DEF Link
<1>8. StageInv' /\ LockBalanced' /\ RollbackNeverAborts'
  BY <1>3, StageFrame
<1>9. QED
  BY <1>4, <1>6, <1>7, <1>8 DEF Inv

(* facts_remove_fact_local outside a transaction keeps the invariant.      *)
LEMMA RemoveAloneInv ==
  ASSUME Inv, NEW f \in Triples, RemoveAlone(f), UNCHANGED jobState
  PROVE  Inv'
<1> USE DEF RemoveAlone, txnState, jobState
<1>1. /\ nextId' \in 1 .. UwMax /\ nextId \in Ids
      /\ nextId' \in {nextId, nextId + 1}
  <2>1. nextId \in 1 .. UwMax
    BY DEF Inv, TypeOK
  <2>2. QED
    BY <2>1, TakeIdFacts DEF Ids
<1> DEFINE e == Event("remove", IF HasLog \/ ServerCount THEN nextId ELSE NoId, f)
<1>2. e \in Events
  BY <1>1, EventTypes DEF Ids, NoId
<1>3. OutputOK' /\ failed' = failed
  <2>1. OutputOK
    BY DEF Inv, TypeOK, OutputOK
  <2>2. WriteRecord(e) /\ Retain(e) /\ Broadcast(e, ServerCount)
    OBVIOUS
  <2> HIDE DEF e
  <2>3. QED
    BY <1>2, <2>1, <2>2, OutputTypes DEF OutputOK
<1>4. /\ store' \in Stores /\ index' \in [Indexes -> SUBSET Triples]
      /\ IndexesAgree'
  BY UnlinkFacts DEF Inv, TypeOK
<1>5. usage' \in [Tags -> Int]
  BY UsageTypes DEF Inv, TypeOK
<1>6. TypeOK'
  BY <1>1, <1>3, <1>4, <1>5 DEF Inv, TypeOK, OutputOK
<1>7. UndoChain' /\ IdsUnique'
  BY <1>1, AloneHistory DEF Unlink
<1>8. StageInv' /\ LockBalanced' /\ RollbackNeverAborts'
  BY <1>3, StageFrame
<1>9. QED
  BY <1>4, <1>6, <1>7, <1>8 DEF Inv

(* What a failed operation changes: the next identifier and the log file.  *)
LEMMA FailedOperationInv ==
  ASSUME Inv, UNCHANGED <<store, index, usage>>, UNCHANGED txnState, TakeId,
         UNCHANGED jobState, OutputOK', UNCHANGED aborted,
         failed' => failed \/ txns = <<>>
  PROVE  Inv'
<1> USE DEF txnState, jobState
<1>1. nextId' \in 1 .. UwMax /\ nextId' \in Nat /\ nextId <= nextId'
  BY TakeIdFacts DEF Inv, TypeOK
<1>2. TypeOK'
  BY <1>1 DEF Inv, TypeOK, OutputOK
<1>3. UndoChain' /\ IdsUnique'
  BY <1>1, HistoryFrame
<1>4. StageInv' /\ LockBalanced' /\ RollbackNeverAborts'
  BY StageFrame
<1>5. QED
  BY <1>2, <1>3, <1>4, IndexFrame DEF Inv

(* An insertion that runs out of memory keeps the invariant.               *)
LEMMA AddRunsOutOfMemoryInv ==
  ASSUME Inv, NEW f \in Triples, AddRunsOutOfMemory(f), UNCHANGED jobState
  PROVE  Inv'
<1> USE DEF AddRunsOutOfMemory
<1>1. OutputOK' /\ failed' = failed
  BY DEF Inv, TypeOK, OutputOK, output, logFile
<1>2. QED
  BY <1>1, FailedOperationInv DEF data

(* An insertion that cannot be logged keeps the invariant.                 *)
LEMMA AddNotLoggedInv ==
  ASSUME Inv, NEW f \in Triples, AddNotLogged(f), UNCHANGED jobState
  PROVE  Inv'
<1> USE DEF AddNotLogged
<1>1. UNCHANGED <<store, index, usage>>
  BY UnwoundLeavesNothing DEF Inv, TypeOK
<1>2. OutputOK'
  <2>1. OutputOK
    BY DEF Inv, TypeOK, OutputOK
  <2>2. Event("add", nextId, f) \in Events
    BY TakeIdFacts, EventTypes DEF Inv, TypeOK
  <2>3. QED
    BY <2>1, <2>2, OutputTypes DEF OutputOK
<1>3. QED
  BY <1>1, <1>2, FailedOperationInv DEF InTransaction

(* A removal that runs out of memory keeps the invariant.                  *)
LEMMA RemoveRunsOutOfMemoryInv ==
  ASSUME Inv, NEW f \in Triples, RemoveRunsOutOfMemory(f), UNCHANGED jobState
  PROVE  Inv'
<1>1. OutputOK' /\ failed' = failed
  BY DEF RemoveRunsOutOfMemory, Inv, TypeOK, OutputOK, output, logFile
<1>2. QED
  BY <1>1, FailedOperationInv DEF RemoveRunsOutOfMemory, data

(* A removal that cannot be logged keeps the invariant.                    *)
LEMMA RemoveNotLoggedInv ==
  ASSUME Inv, NEW f \in Triples, RemoveNotLogged(f), UNCHANGED jobState
  PROVE  Inv'
<1> USE DEF RemoveNotLogged
<1>1. OutputOK'
  <2>1. OutputOK
    BY DEF Inv, TypeOK, OutputOK
  <2>2. Event("remove", nextId, f) \in Events
    BY TakeIdFacts, EventTypes DEF Inv, TypeOK
  <2>3. QED
    BY <2>1, <2>2, OutputTypes DEF OutputOK
<1>2. QED
  BY <1>1, FailedOperationInv DEF InTransaction, data

(* A transaction is opened, by facts_transaction_start with one more hold  *)
(* of the lock and by a composite operation with two.                      *)
LEMMA OpenInv ==
  ASSUME Inv, phase = "idle", job = "none", Writable, TakeId,
         txns' = <<[id |-> nextId, log |-> <<>>, base |-> store]>> \o txns,
         UNCHANGED <<data, pub, phase, unwind, output, aborted>>,
         \/ held' = held + 1 /\ job' = "none"
         \/ held' = held + 2 /\ job' = "removing",
         todo' \in SUBSET Triples, toAdd' \in SUBSET Triples
  PROVE  Inv'
<1> USE DEF data, output, logFile
<1>1. /\ nextId' \in 1 .. UwMax /\ nextId \in Ids /\ nextId <= nextId'
      /\ nextId \in Nat /\ nextId' \in Nat
  BY TakeIdFacts DEF Inv, TypeOK
<1>2. txns \in Seq(Transactions) /\ store \in Stores
  BY DEF Inv, TypeOK
<1>3. Chain(txns, store) /\ Good(store, nextId) /\ AllGood(txns, nextId)
  BY UndoChainIsChain, IdsUniqueIsGood DEF Inv
<1>4. /\ txns' \in Seq(Transactions) /\ Len(txns') = Len(txns) + 1
      /\ Chain(txns', store')
  BY <1>1, <1>2, <1>3, ChainOpen
<1>5. AllGood(txns', nextId')
  <2>1. AllGood(txns', nextId)
    BY <1>1, <1>2, <1>3, AllGoodOpen
  <2>2. QED
    BY <1>1, <1>4, <2>1, AllGoodGrows
<1>6. Good(store', nextId')
  BY <1>1, <1>2, <1>3, GoodGrows
<1>7. UndoChain' /\ IdsUnique'
  BY <1>4, <1>5, <1>6, UndoChainIsChainPrime, IdsUniqueIsGoodPrime
<1>8. job' \in {"none", "removing"} /\ held' \in Int
  BY DEF Inv, TypeOK
<1>9. TypeOK'
  BY <1>1, <1>4, <1>8 DEF Inv, TypeOK
<1>10. Len(txns) \in Nat /\ txns' # <<>>
  BY <1>2, <1>4
<1>11. StageInv' /\ RollbackNeverAborts'
  BY <1>10 DEF Inv, StageInv, RollbackNeverAborts, Writable
<1>12. LockBalanced'
  BY <1>4, <1>10 DEF Inv, LockBalanced, TypeOK
<1>13. QED
  BY <1>7, <1>9, <1>11, <1>12, IndexFrame DEF Inv

(* facts_transaction_end of a nested transaction.                          *)
LEMMA EndInnerInv ==
  ASSUME Inv, phase = "idle", EndInner, job' \in {job, "ending"},
         job' = "none" <=> job = "none", UNCHANGED <<todo, toAdd>>
  PROVE  Inv'
<1>1. /\ txns \in Seq(Transactions) /\ nextId \in Nat /\ Len(txns) \in Nat
      /\ Chain(txns, store) /\ AllGood(txns, nextId) /\ Good(store, nextId)
      /\ held \in Int
  BY UndoChainIsChain, IdsUniqueIsGood DEF Inv, TypeOK
<1>2. /\ Len(txns) > 1 /\ held' = held - 1
      /\ UNCHANGED <<store, index, usage, nextId, pub, phase, unwind, disk,
                     failed, hooked, sent, removeLog, aborted>>
  BY DEF EndInner, data, output, logFile
<1>3. txns' = [Tail(txns) EXCEPT ![1].log = txns[1].log \o txns[2].log]
  <2>1. Tail(txns)[1] = txns[2] /\ Head(txns) = txns[1]
    BY <1>1, <1>2, ChainMerge
  <2>2. QED
    BY <2>1 DEF EndInner
<1>4. /\ txns' \in Seq(Transactions) /\ Len(txns') = Len(txns) - 1
      /\ txns' # <<>> /\ Chain(txns', store) /\ AllGood(txns', nextId)
  BY <1>1, <1>2, <1>3, MergeFacts
<1>5. UndoChain' /\ IdsUnique'
  BY <1>1, <1>2, <1>4, UndoChainIsChainPrime, IdsUniqueIsGoodPrime
<1>6. TypeOK'
  BY <1>1, <1>2, <1>4 DEF Inv, TypeOK
<1>7. StageInv' /\ RollbackNeverAborts'
  <2>1. txns # <<>>
    BY <1>1, <1>2
  <2>2. QED
    BY <1>2, <1>4, <2>1 DEF Inv, StageInv, RollbackNeverAborts
<1>8. LockBalanced'
  BY <1>1, <1>2, <1>4 DEF Inv, LockBalanced
<1>9. QED
  BY <1>2, <1>5, <1>6, <1>7, <1>8, IndexFrame DEF Inv

(* facts_transaction_end of the outermost transaction.                     *)
LEMMA EndOutermostInv ==
  ASSUME Inv, phase = "idle", EndOutermost, job' \in {job, "ending"},
         job' = "none" <=> job = "none", UNCHANGED <<todo, toAdd>>,
         job' # "removing"
  PROVE  Inv'
<1> USE DEF EndOutermost, data, output, logFile
<1>1. /\ txns \in Seq(Transactions) /\ Len(txns) = 1 /\ txns[1].log \in Seq(Actions)
  BY LogTypes DEF Inv, TypeOK
<1>2. pub' \in Seq(Actions)
  <2>1. Head(txns) = txns[1]
    BY <1>1
  <2>2. \A q \in Seq(Actions) : Reverse(q) \in Seq(Actions)
    BY DEF Reverse
  <2>3. QED
    BY <1>1, <2>1, <2>2
<1>3. TypeOK'
  BY <1>2 DEF Inv, TypeOK
<1>4. UndoChain' /\ IdsUnique'
  BY DEF Inv, UndoChain, IdsUnique, GoodIds
<1>5. StageInv' /\ RollbackNeverAborts'
  BY DEF Inv, StageInv, RollbackNeverAborts
<1>6. LockBalanced'
  <2>1. held = 1 + (IF job # "none" THEN 1 ELSE 0)
    BY <1>1 DEF Inv, LockBalanced
  <2>2. Len(txns') = 0
    OBVIOUS
  <2>3. QED
    BY <2>1, <2>2 DEF LockBalanced
<1>7. QED
  BY <1>3, <1>4, <1>5, <1>6, IndexFrame DEF Inv

(* One turn of the publication loop, whatever becomes of the record.       *)
LEMMA PublicationInv ==
  ASSUME Inv, phase = "publishing", pub # <<>>, pub' = Tail(pub),
         Unref(Head(pub).fact), OutputOK',
         UNCHANGED <<store, index, nextId, txns, phase, unwind, held, aborted>>,
         UNCHANGED jobState
  PROVE  Inv'
<1> USE DEF jobState
<1>1. pub' \in Seq(Actions)
  BY DEF Inv, TypeOK
<1>2. usage' \in [Tags -> Int]
  BY UsageTypes DEF Inv, TypeOK
<1>3. TypeOK'
  BY <1>1, <1>2 DEF Inv, TypeOK, OutputOK
<1>4. UndoChain' /\ IdsUnique'
  BY HistoryFrame DEF Inv, TypeOK
<1>5. StageInv' /\ LockBalanced' /\ RollbackNeverAborts'
  BY DEF Inv, StageInv, LockBalanced, RollbackNeverAborts
<1>6. QED
  BY <1>3, <1>4, <1>5, IndexFrame DEF Inv

(* An action is published as an event.                                     *)
LEMMA EventOfTypes == ASSUME NEW a \in Actions PROVE EventOf(a) \in Events
BY DEF Actions, EventOf, Event, Events

(* A turn of the publication loop keeps the invariant.                     *)
LEMMA PublishInv ==
  ASSUME Inv, PublishNext \/ PublishFails \/ Discard, UNCHANGED jobState
  PROVE  Inv'
<1>1. OutputOK /\ pub \in Seq(Actions)
  BY DEF Inv, TypeOK, OutputOK
<1>2. pub # <<>> /\ Head(pub) \in Actions
  BY <1>1 DEF PublishNext, PublishFails, Discard
<1>3. EventOf(Head(pub)) \in Events
  BY <1>2, EventOfTypes
<1>4. CASE PublishNext
  <2>1. OutputOK'
    BY <1>1, <1>3, <1>4, OutputTypes DEF PublishNext, OutputOK
  <2>2. QED
    BY <1>4, <2>1, PublicationInv DEF PublishNext
<1>5. CASE PublishFails
  <2>1. OutputOK'
    BY <1>1, <1>3, <1>5, OutputTypes DEF PublishFails, OutputOK
  <2>2. QED
    BY <1>5, <2>1, PublicationInv DEF PublishFails
<1>6. CASE Discard
  <2>1. OutputOK'
    BY <1>1, <1>6 DEF Discard, OutputOK, output, logFile
  <2>2. QED
    BY <1>6, <2>1, PublicationInv DEF Discard
<1>7. QED
  BY <1>4, <1>5, <1>6

(* The end of the publication gives the lock back.                         *)
LEMMA PublishDoneInv ==
  ASSUME Inv, PublishDone, UNCHANGED jobState
  PROVE  Inv'
<1> USE DEF PublishDone, data, output, logFile, jobState
<1>1. TypeOK'
  BY DEF Inv, TypeOK
<1>2. UndoChain' /\ IdsUnique'
  BY HistoryFrame DEF Inv, TypeOK
<1>3. StageInv' /\ LockBalanced' /\ RollbackNeverAborts'
  BY DEF Inv, TypeOK, StageInv, LockBalanced, RollbackNeverAborts
<1>4. QED
  BY <1>1, <1>2, <1>3, IndexFrame DEF Inv

(* The start of facts_transaction_rollback keeps the invariant.            *)
LEMMA RollbackInv ==
  ASSUME Inv, phase = "idle", UNCHANGED <<store, index, usage>>,
         UNCHANGED <<txns, pub, held, output, aborted>>, phase' = "rolling",
         unwind' \in 1 .. Len(txns), nextId' \in 1 .. UwMax, nextId <= nextId',
         job' = job \/ job' = "failing", job' # "removing",
         job' = "none" <=> job = "none", UNCHANGED <<todo, toAdd>>
  PROVE  Inv'
<1>1. /\ UNCHANGED <<disk, failed, hooked, sent, removeLog>>
      /\ nextId' \in Nat /\ unwind' \in Nat
  <2>1. txns \in Seq(Transactions)
    BY DEF Inv, TypeOK
  <2>2. QED
    BY <2>1 DEF output, logFile
<1>2. TypeOK'
  BY <1>1 DEF Inv, TypeOK
<1>3. UndoChain' /\ IdsUnique'
  BY <1>1, HistoryFrame
<1>4. StageInv' /\ LockBalanced' /\ RollbackNeverAborts'
  BY <1>1 DEF Inv, StageInv, LockBalanced, RollbackNeverAborts
<1>5. QED
  BY <1>2, <1>3, <1>4, IndexFrame DEF Inv

(* The action a rollback undoes is the one that led to the store.          *)
LEMMA UndoFacts ==
  ASSUME Inv, NEW op, Undoing(op)
  PROVE  LET a == Head(Head(txns).log) IN
         /\ a \in Actions /\ a.op = op /\ WellLogged(a) /\ store = After(a)
         /\ a.before \in Stores /\ Good(a.before, nextId)
         /\ txns' \in Seq(Transactions) /\ Len(txns') = Len(txns)
         /\ txns # <<>> /\ txns' # <<>>
         /\ Chain(txns', a.before) /\ AllGood(txns', nextId)
         /\ \A i \in 1 .. Len(txns) : txns'[i].base = txns[i].base
<1> DEFINE a == txns[1].log[1]
           l == txns[1].log
<1>1. /\ txns \in Seq(Transactions) /\ nextId \in Nat /\ txns # <<>>
      /\ Chain(txns, store) /\ AllGood(txns, nextId)
  <2>1. txns \in Seq(Transactions) /\ unwind \in 1 .. Len(txns)
    BY DEF Inv, TypeOK, StageInv, Undoing
  <2>2. QED
    BY <2>1, UndoChainIsChain, IdsUniqueIsGood DEF Inv, TypeOK
<1>2. Head(txns) = txns[1] /\ 1 \in 1 .. Len(txns)
  BY <1>1
<1>3. l \in Seq(Actions)
  BY <1>1, <1>2, LogTypes
<1>4. l # <<>> /\ txns' = [txns EXCEPT ![1].log = Tail(l)]
  BY <1>1, <1>2 DEF Undoing
<1>5. Head(l) = a /\ a.op = op
  <2>1. Head(l) = a
    BY <1>3, <1>4
  <2>2. QED
    BY <1>2, <2>1 DEF Undoing
<1>6. /\ a \in Actions /\ WellLogged(a) /\ store = After(a)
      /\ Tail(l) \in Seq(Actions)
      /\ Chain([txns EXCEPT ![1].log = Tail(l)], a.before)
  BY <1>1, <1>4, ChainPop
<1>7. \A k \in 1 .. Len(l) : Good(l[k].before, nextId)
  BY <1>1, <1>2 DEF AllGood
<1> HIDE DEF l
<1>8. /\ Len(Tail(l)) = Len(l) - 1 /\ 1 \in 1 .. Len(l)
      /\ \A k \in 1 .. Len(l) - 1 : Tail(l)[k] = l[k + 1]
  BY <1>3, <1>4, TailFacts
<1>9. \A k \in 1 .. Len(Tail(l)) : Good(Tail(l)[k].before, nextId)
  <2> SUFFICES ASSUME NEW k \in 1 .. Len(Tail(l))
               PROVE  Good(Tail(l)[k].before, nextId)
    OBVIOUS
  <2>1. k \in 1 .. Len(l) - 1 /\ k + 1 \in 1 .. Len(l)
    BY <1>8
  <2>2. QED
    BY <1>7, <1>8, <2>1
<1>10. AllGood(txns', nextId)
  BY <1>1, <1>4, <1>6, <1>9, AllGoodLog
<1>11. /\ txns' \in Seq(Transactions) /\ Len(txns') = Len(txns)
       /\ \A i \in 1 .. Len(txns) : txns'[i].base = txns[i].base
  <2> DEFINE u == [txns EXCEPT ![1].log = Tail(l)]
  <2>1. /\ u \in Seq(Transactions) /\ Len(u) = Len(txns)
        /\ \A i \in 1 .. Len(txns) : u[i].base = txns[i].base
    BY <1>1, <1>6, LogReplaced
  <2>2. txns' = u
    BY <1>4
  <2> HIDE DEF u
  <2>3. QED
    BY <2>1, <2>2
<1>12. a.before \in Stores /\ Good(a.before, nextId)
  <2>1. Good(a.before, nextId)
    BY <1>7, <1>8 DEF l
  <2>2. QED
    BY <1>6, <2>1 DEF Actions
<1>13. txns' # <<>>
  BY <1>1, <1>11
<1>14. Head(Head(txns).log) = a
  BY <1>2, <1>5 DEF l
<1> HIDE DEF a
<1>15. QED
  BY <1>1, <1>4, <1>5, <1>6, <1>10, <1>11, <1>12, <1>13, <1>14

(* Undoing an addition keeps the invariant and finds the fact.             *)
LEMMA UndoAddInv ==
  ASSUME Inv, UndoAdd, UNCHANGED jobState
  PROVE  /\ Inv'
         /\ store' = Head(Head(txns).log).before
<1> DEFINE a == Head(Head(txns).log)
           f == a.fact
<1>1. /\ Undoing("add") /\ Unlink(f)
      /\ usage' = [t \in Tags |-> usage[t] - 2 * Uses(f, t)]
      /\ aborted' = ~Stored(f) /\ phase = "rolling"
      /\ UNCHANGED <<nextId, pub, phase, unwind, held>>
      /\ UNCHANGED <<disk, failed, hooked, sent, removeLog, job, todo, toAdd>>
  BY DEF UndoAdd, Undoing, output, logFile, jobState
<1>2. /\ a \in Actions /\ a.op = "add" /\ WellLogged(a) /\ store = After(a)
      /\ a.before \in Stores /\ Good(a.before, nextId)
      /\ txns' \in Seq(Transactions) /\ Len(txns') = Len(txns)
      /\ txns # <<>> /\ txns' # <<>>
      /\ Chain(txns', a.before) /\ AllGood(txns', nextId)
  BY <1>1, UndoFacts
<1> HIDE DEF a
<1>3. f \in Triples /\ a.id \in Ids /\ a.id # NoId
  BY <1>2 DEF Actions, WellLogged, Ids, NoId
<1> HIDE DEF f
<1>4. a.before[f] = NoId /\ store = [a.before EXCEPT ![f] = a.id]
  BY <1>2 DEF WellLogged, After, f
<1>5. store' = a.before /\ Stored(f)
  <2>1. store' = [store EXCEPT ![f] = NoId]
    BY <1>1 DEF Unlink
  <2>2. QED
    BY <1>2, <1>3, <1>4, <2>1 DEF Stores, Stored
<1>6. aborted' = FALSE
  BY <1>1, <1>5, Zenon
<1>7. /\ store' \in Stores /\ index' \in [Indexes -> SUBSET Triples]
      /\ IndexesAgree'
  BY <1>1, <1>3, UnlinkFacts DEF Inv, TypeOK
<1>8. usage' \in [Tags -> Int]
  BY <1>1, UsageTypes DEF Inv, TypeOK
<1>9. aborted' \in BOOLEAN /\ ~aborted'
  BY <1>6, Zenon
<1>10. TypeOK'
  BY <1>1, <1>2, <1>7, <1>8, <1>9 DEF Inv, TypeOK
<1>11. UndoChain' /\ IdsUnique'
  BY <1>1, <1>2, <1>5, UndoChainIsChainPrime, IdsUniqueIsGoodPrime
<1>12. StageInv' /\ LockBalanced' /\ RollbackNeverAborts'
  BY <1>1, <1>2, <1>9 DEF Inv, StageInv, LockBalanced, RollbackNeverAborts
<1>13. QED
  BY <1>5, <1>7, <1>10, <1>11, <1>12 DEF Inv, a

(* Undoing a removal keeps the invariant and restores the fact.            *)
LEMMA UndoRemoveInv ==
  ASSUME Inv, UndoRemove, UNCHANGED jobState
  PROVE  /\ Inv'
         /\ nextId' = nextId /\ store' = Head(Head(txns).log).before
<1> DEFINE a == Head(Head(txns).log)
           f == a.fact
<1>1. Undoing("remove")
  BY DEF UndoRemove
<1>2. /\ a \in Actions /\ a.op = "remove" /\ WellLogged(a) /\ store = After(a)
      /\ a.before \in Stores /\ Good(a.before, nextId)
      /\ txns' \in Seq(Transactions) /\ Len(txns') = Len(txns)
      /\ txns # <<>> /\ txns' # <<>>
      /\ Chain(txns', a.before) /\ AllGood(txns', nextId)
  BY <1>1, UndoFacts
<1>3. /\ IF Stored(f)
         THEN Unref(f) /\ UNCHANGED <<store, index, nextId>>
         ELSE /\ Link(f, a.oldId)
              /\ nextId' = IF a.oldId >= nextId THEN a.oldId + 1 ELSE nextId
              /\ UNCHANGED usage
      /\ aborted' = (a.oldId = UwMax) /\ phase = "rolling"
      /\ UNCHANGED <<pub, phase, unwind, held>>
      /\ UNCHANGED <<disk, failed, hooked, sent, removeLog, job, todo, toAdd>>
  BY DEF UndoRemove, Undoing, output, logFile, jobState
<1> HIDE DEF a
<1>4. f \in Triples /\ a.oldId \in Ids /\ a.oldId # NoId /\ a.oldId # UwMax
  BY <1>2 DEF Actions, WellLogged, Ids, NoId
<1> HIDE DEF f
<1>5. a.before[f] = a.oldId /\ store = [a.before EXCEPT ![f] = NoId]
  BY <1>2 DEF WellLogged, After, f
<1>6. ~Stored(f)
  BY <1>2, <1>4, <1>5 DEF Stores, Stored
<1>7. store' = a.before
  <2>1. store' = [store EXCEPT ![f] = a.oldId]
    BY <1>3, <1>6 DEF Link
  <2>2. QED
    BY <1>2, <1>4, <1>5, <2>1 DEF Stores
<1>8. nextId' = nextId
  <2>1. a.oldId < nextId /\ a.oldId \in Int /\ nextId \in Int
    BY <1>2, <1>4, <1>5 DEF Good, Inv, TypeOK, Ids
  <2>2. QED
    BY <1>3, <1>6, <2>1
<1>9. aborted' \in BOOLEAN /\ ~aborted'
  <2>1. aborted' = FALSE
    BY <1>3, <1>4, Zenon
  <2>2. QED
    BY <2>1, Zenon
<1>10. /\ store' \in Stores /\ index' \in [Indexes -> SUBSET Triples]
       /\ IndexesAgree'
  BY <1>3, <1>4, <1>6, LinkFacts DEF Inv, TypeOK
<1>11. TypeOK'
  BY <1>2, <1>3, <1>6, <1>8, <1>9, <1>10 DEF Inv, TypeOK
<1>12. UndoChain' /\ IdsUnique'
  BY <1>2, <1>7, <1>8, UndoChainIsChainPrime, IdsUniqueIsGoodPrime
<1>13. StageInv' /\ LockBalanced' /\ RollbackNeverAborts'
  BY <1>2, <1>3, <1>9 DEF Inv, StageInv, LockBalanced, RollbackNeverAborts
<1>14. QED
  BY <1>7, <1>8, <1>10, <1>11, <1>12, <1>13 DEF Inv, a

(* A transaction whose log is undone is closed on its base.                *)
LEMMA UndoneTransactionInv ==
  ASSUME Inv, UndoneTransaction, UNCHANGED jobState
  PROVE  /\ Inv'
         /\ store = txns[1].base
<1>1. /\ txns \in Seq(Transactions) /\ nextId \in Nat /\ txns # <<>>
      /\ Chain(txns, store) /\ AllGood(txns, nextId) /\ Good(store, nextId)
      /\ unwind \in 1 .. Len(txns) /\ Len(txns) \in Nat /\ held \in Int
      /\ unwind \in Nat
  <2>1. txns \in Seq(Transactions) /\ unwind \in 1 .. Len(txns)
    BY DEF Inv, TypeOK, StageInv, UndoneTransaction
  <2>2. QED
    BY <2>1, UndoChainIsChain, IdsUniqueIsGood DEF Inv, TypeOK
<1>2. /\ txns[1].log = <<>> /\ txns' = Tail(txns) /\ held' = held - 1
      /\ unwind' = unwind - 1 /\ phase = "rolling"
      /\ phase' = IF unwind = 1 THEN "idle" ELSE "rolling"
      /\ UNCHANGED <<store, index, usage, nextId, pub, disk, failed, hooked,
                     sent, removeLog, aborted, job, todo, toAdd>>
  BY <1>1 DEF UndoneTransaction, data, output, logFile, jobState
<1>3. store = txns[1].base /\ Chain(txns', store)
  BY <1>1, <1>2, ChainClose
<1>4. txns' \in Seq(Transactions) /\ Len(txns') = Len(txns) - 1
      /\ AllGood(txns', nextId)
  BY <1>1, <1>2, AllGoodTail, TailFacts
<1>5. UndoChain' /\ IdsUnique'
  BY <1>1, <1>2, <1>3, <1>4, UndoChainIsChainPrime, IdsUniqueIsGoodPrime
<1>6. phase' \in {"idle", "rolling"} /\ unwind' \in Nat /\ held' \in Int
  BY <1>1, <1>2
<1>7. TypeOK'
  BY <1>2, <1>4, <1>6 DEF Inv, TypeOK
<1>8. IF phase' = "rolling" THEN unwind' \in 1 .. Len(txns') ELSE unwind' = 0
  BY <1>1, <1>2, <1>4
<1>9. StageInv' /\ RollbackNeverAborts'
  <2>1. ~failed /\ pub = <<>> /\ job # "removing"
    BY <1>1, <1>2 DEF Inv, StageInv
  <2>2. QED
    BY <1>2, <1>8, <2>1 DEF Inv, StageInv, RollbackNeverAborts
<1>10. LockBalanced'
  <2>1. held = Len(txns) + (IF job # "none" THEN 1 ELSE 0)
    BY <1>1, <1>2 DEF Inv, LockBalanced
  <2>2. /\ phase' # "publishing" /\ job' = job /\ Len(txns) \in Nat
        /\ held' = held - 1 /\ Len(txns') = Len(txns) - 1
    BY <1>1, <1>2, <1>4
  <2>3. QED
    BY <2>1, <2>2 DEF LockBalanced
<1>11. QED
  BY <1>2, <1>3, <1>5, <1>7, <1>9, <1>10, IndexFrame DEF Inv

(* A step of a composite operation keeps the invariant.                    *)
LEMMA JobStepInv ==
  ASSUME Inv, JobStep
  PROVE  Inv'
<1>1. /\ phase = "idle" /\ job = "removing" /\ txns # <<>>
      /\ todo \in SUBSET Triples /\ toAdd \in SUBSET Triples
      /\ txns \in Seq(Transactions)
  BY DEF Inv, StageInv, TypeOK, JobStep
<1>2. CASE JobRemove
  BY <1>1, <1>2, RemoveInTransactionInv DEF JobRemove
<1>3. CASE JobAdd
  BY <1>1, <1>3, AddInTransactionInv DEF JobAdd
<1>4. CASE JobFails
  <2>1. nextId' \in 1 .. UwMax /\ nextId <= nextId'
    BY <1>4, TakeIdFacts DEF JobFails, Inv, TypeOK
  <2>2. 1 \in 1 .. Len(txns)
    BY <1>1
  <2>3. QED
    BY <1>1, <1>4, <2>1, <2>2, RollbackInv DEF JobFails, data
<1>5. CASE JobEnd
  <2>1. CASE EndInner
    BY <1>1, <1>5, <2>1, EndInnerInv DEF JobEnd
  <2>2. CASE EndOutermost
    BY <1>1, <1>5, <2>2, EndOutermostInv DEF JobEnd
  <2>3. QED
    BY <1>5, <2>1, <2>2 DEF JobEnd, TransactionEnd
<1>6. QED
  BY <1>2, <1>3, <1>4, <1>5 DEF JobStep

(* The return of a composite operation keeps the invariant.                *)
LEMMA JobReturnInv ==
  ASSUME Inv, JobReturn
  PROVE  Inv'
<1> USE DEF JobReturn, data, output, logFile
<1>1. TypeOK'
  BY DEF Inv, TypeOK
<1>2. UndoChain' /\ IdsUnique'
  BY HistoryFrame DEF Inv, TypeOK
<1>3. StageInv' /\ RollbackNeverAborts'
  BY DEF Inv, StageInv, RollbackNeverAborts
<1>4. LockBalanced'
  <2>1. held \in Int /\ Len(txns) \in Nat /\ held = Len(txns) + 1
    BY DEF Inv, TypeOK, LockBalanced
  <2>2. QED
    BY <2>1 DEF LockBalanced
<1>5. QED
  BY <1>1, <1>2, <1>3, <1>4, IndexFrame DEF Inv

(* Every operation an application calls keeps the invariant.               *)
LEMMA CallInv ==
  ASSUME Inv, Call
  PROVE  Inv'
<1>1. /\ phase = "idle" /\ job = "none" /\ txns \in Seq(Transactions)
      /\ todo \in SUBSET Triples /\ toAdd \in SUBSET Triples
  BY DEF Call, Inv, TypeOK
<1>2. ASSUME NEW f \in Triples, UNCHANGED jobState,
             \/ AddInTransaction(f) \/ AddAlone(f) \/ AddRunsOutOfMemory(f)
             \/ AddNotLogged(f)
             \/ RemoveInTransaction(f) \/ RemoveAlone(f)
             \/ RemoveRunsOutOfMemory(f) \/ RemoveNotLogged(f)
      PROVE  Inv'
  <2>1. /\ job' = job /\ todo' \in SUBSET Triples /\ toAdd' \in SUBSET Triples
    BY <1>1, <1>2 DEF jobState
  <2>2. CASE AddInTransaction(f)
    BY <1>1, <2>1, <2>2, AddInTransactionInv
  <2>3. CASE RemoveInTransaction(f)
    BY <1>1, <2>1, <2>3, RemoveInTransactionInv
  <2>4. QED
    BY <1>2, <2>2, <2>3, AddAloneInv, AddRunsOutOfMemoryInv, AddNotLoggedInv,
       RemoveAloneInv, RemoveRunsOutOfMemoryInv, RemoveNotLoggedInv
<1>3. ASSUME TransactionStart, UNCHANGED jobState
      PROVE  Inv'
  BY <1>1, <1>3, OpenInv DEF TransactionStart, jobState
<1>4. ASSUME TransactionEnd, UNCHANGED jobState
      PROVE  Inv'
  BY <1>1, <1>4, EndInnerInv, EndOutermostInv DEF TransactionEnd, jobState
<1>5. ASSUME NEW n \in 1 .. MaxDepth, Rollback(n), UNCHANGED jobState
      PROVE  Inv'
  <2>1. nextId' \in 1 .. UwMax /\ nextId <= nextId'
    BY <1>5 DEF Rollback, Inv, TypeOK
  <2>2. QED
    BY <1>1, <1>5, <2>1, RollbackInv DEF Rollback, data, jobState
<1>6. ASSUME NEW facts \in SUBSET Triples, NEW new \in SUBSET Triples,
             JobStart(facts, new)
      PROVE  Inv'
  BY <1>1, <1>6, OpenInv DEF JobStart
<1>7. ASSUME NEW f \in Triples, ReplaceTags(f) \/ RemoveTags(f)
      PROVE  Inv'
  <2>1. \A bound : Matches(f, bound) \in SUBSET Triples
    BY DEF Matches
  <2>2. {f} \in SUBSET Triples /\ {} \in SUBSET Triples
    OBVIOUS
  <2>3. QED
    BY <1>6, <1>7, <2>1, <2>2 DEF ReplaceTags, RemoveTags
<1>8. QED
  BY <1>2, <1>3, <1>4, <1>5, <1>7 DEF Call

(* The invariant is inductive.                                             *)
LEMMA NextInv == Inv /\ [Next]_vars => Inv'
<1> SUFFICES ASSUME Inv, [Next]_vars PROVE Inv'
  OBVIOUS
<1>1. CASE Call
  BY <1>1, CallInv
<1>2. CASE Finish
  BY <1>2, PublishInv, PublishDoneInv, UndoAddInv, UndoRemoveInv,
     UndoneTransactionInv, JobStepInv, JobReturnInv DEF Finish
<1>3. CASE UNCHANGED vars
  <2> USE <1>3 DEF vars, data, txnState, jobState, output, logFile
  <2>1. TypeOK'
    BY DEF Inv, TypeOK
  <2>2. UndoChain' /\ IdsUnique'
    BY HistoryFrame DEF Inv, TypeOK
  <2>3. StageInv' /\ LockBalanced' /\ RollbackNeverAborts'
    BY DEF Inv, StageInv, LockBalanced, RollbackNeverAborts
  <2>4. QED
    BY <2>1, <2>2, <2>3, IndexFrame DEF Inv
<1>4. QED
  BY <1>1, <1>2, <1>3 DEF Next

-----------------------------------------------------------------------------
(* The conjunction of the state properties below holds throughout.         *)
THEOREM Invariance == Spec => []Inv
BY InitInv, NextInv, PTL DEF Spec

(* The variables keep their types; next_id never passes UW_MAX.            *)
THEOREM TypeCorrectness == Spec => []TypeOK
<1>1. Inv => TypeOK
  BY DEF Inv
<1>2. QED
  BY <1>1, Invariance, PTL

(* facts->facts and the four skip lists hold the same facts: after each    *)
(* step of a commit or a rollback, and after an insertion whose record     *)
(* could not be written, which had put the fact in all five and takes it   *)
(* out of each by hand.                                                    *)
THEOREM IndexesStayEqual == Spec => []IndexesAgree
<1>1. Inv => IndexesAgree
  BY DEF Inv
<1>2. QED
  BY <1>1, Invariance, PTL

(* Two facts never have the same identifier, whatever was rolled back.     *)
THEOREM IdsStayUnique == Spec => []IdsUnique
<1>1. Inv => IdsUnique
  BY DEF Inv
<1>2. QED
  BY <1>1, Invariance, PTL

(* However a transaction, its publication or a composite operation ends,   *)
(* it gives back the holds of the write lock that it took.                 *)
THEOREM LockStaysBalanced == Spec => []LockBalanced
<1>1. Inv => LockBalanced
  BY DEF Inv
<1>2. QED
  BY <1>1, Invariance, PTL

(* The stages of the operations exclude each other.                        *)
THEOREM StagesStayApart == Spec => []StageInv
<1>1. Inv => StageInv
  BY DEF Inv
<1>2. QED
  BY <1>1, Invariance, PTL

(* The undo log of every open transaction leads back, action by action, to *)
(* the store facts_transaction_start found.                                *)
THEOREM UndoLogLeadsBack == Spec => []UndoChain
<1>1. Inv => UndoChain
  BY DEF Inv
<1>2. QED
  BY <1>1, Invariance, PTL

(* facts_transaction_rollback never calls abort().                         *)
THEOREM RollbackSucceeds == Spec => []RollbackNeverAborts
<1>1. Inv => RollbackNeverAborts
  BY DEF Inv
<1>2. QED
  BY <1>1, Invariance, PTL

(* After a log write failed, no step changes a fact or puts anything out:  *)
(* every operation starts with the test of facts->log->failed, and no      *)
(* transaction is open that could still be rolled back.                    *)
THEOREM LogFailsClosed == Spec => FailClosed
<1>1. Inv /\ [Next]_vars => [failed => UNCHANGED <<store, index, output>>]_vars
  <2> SUFFICES ASSUME Inv, Next, failed
               PROVE  UNCHANGED <<store, index, output>>
    BY DEF vars, data
  <2>1. /\ ~Writable /\ txns = <<>> /\ phase # "rolling" /\ job # "removing"
        /\ ~InTransaction
    BY DEF Inv, StageInv, Writable, InTransaction
  <2>2. CASE Call
    BY <2>1, <2>2 DEF Call, AddInTransaction, AddAlone, AddRunsOutOfMemory,
       AddNotLogged, RemoveInTransaction, RemoveAlone, RemoveRunsOutOfMemory,
       RemoveNotLogged, TransactionStart, TransactionEnd, EndInner,
       EndOutermost, Rollback, ReplaceTags, RemoveTags, JobStart, data
  <2>3. CASE Finish
    BY <2>1, <2>3 DEF Finish, PublishNext, PublishFails, Discard, PublishDone,
       UndoAdd, UndoRemove, Undoing, UndoneTransaction, JobStep, JobReturn, data
  <2>4. QED
    BY <2>2, <2>3 DEF Next
<1>2. QED
  BY <1>1, Invariance, PTL DEF Spec, FailClosed

-----------------------------------------------------------------------------
(* The refinement of TransactionalFacts.                                   *)

(* The snapshots of a stack t whose n innermost transactions are rolled    *)
(* back already in the abstract database.                                  *)
Snapshots(t, n) == [i \in 1 .. Len(t) - n |-> t[i + n].base]

(* Sequences of the same length and elements are equal.                    *)
LEMMA SequencesEqual ==
  ASSUME NEW S, NEW p \in Seq(S), NEW q \in Seq(S), Len(p) = Len(q),
         \A i \in 1 .. Len(p) : p[i] = q[i]
  PROVE  p = q
OBVIOUS

(* The snapshots the refinement maps to are stores.                        *)
LEMMA SnapshotTypes ==
  ASSUME NEW t \in Seq(Transactions), NEW n \in 0 .. Len(t)
  PROVE  /\ Snapshots(t, n) \in Seq(Stores)
         /\ Len(Snapshots(t, n)) = Len(t) - n
         /\ \A i \in 1 .. Len(t) - n : Snapshots(t, n)[i] = t[i + n].base
<1>1. Len(t) - n \in Nat
  OBVIOUS
<1>2. \A i \in 1 .. Len(t) - n : t[i + n].base \in Stores
  <2> SUFFICES ASSUME NEW i \in 1 .. Len(t) - n PROVE t[i + n].base \in Stores
    OBVIOUS
  <2>1. i + n \in 1 .. Len(t)
    BY <1>1
  <2>2. QED
    BY <2>1, LogTypes
<1>3. QED
  BY <1>1, <1>2 DEF Snapshots

(* Without a rollback every open transaction is a snapshot.                *)
LEMMA AllSnapshots ==
  ASSUME NEW t \in Seq(Transactions)
  PROVE  /\ Snapshots(t, 0) \in Seq(Stores)
         /\ Len(Snapshots(t, 0)) = Len(t)
         /\ \A i \in 1 .. Len(t) : Snapshots(t, 0)[i] = t[i].base
<1>1. 0 \in 0 .. Len(t) /\ Len(t) - 0 = Len(t) /\ \A i \in 1 .. Len(t) : i + 0 = i
  OBVIOUS
<1>2. QED
  BY <1>1, SnapshotTypes

(* The snapshots depend on the bases alone.                                *)
LEMMA SameBasesSameSnapshots ==
  ASSUME NEW t \in Seq(Transactions), NEW u \in Seq(Transactions),
         Len(t) = Len(u), \A i \in 1 .. Len(t) : t[i].base = u[i].base,
         NEW n \in 0 .. Len(t)
  PROVE  Snapshots(t, n) = Snapshots(u, n)
<1>1. \A i \in 1 .. Len(t) - n : i + n \in 1 .. Len(t)
  OBVIOUS
<1>2. QED
  BY <1>1 DEF Snapshots

(* Opening a transaction pushes a snapshot.                                *)
LEMMA SnapshotsOpen ==
  ASSUME NEW t \in Seq(Transactions), NEW s \in Stores, NEW i \in Ids,
         Chain(t, s)
  PROVE  Snapshots(<<[id |-> i, log |-> <<>>, base |-> s]>> \o t, 0)
           = <<s>> \o Snapshots(t, 0)
<1> DEFINE u == <<[id |-> i, log |-> <<>>, base |-> s]>> \o t
           p == Snapshots(u, 0)
           q == Snapshots(t, 0)
<1>1. /\ u \in Seq(Transactions) /\ Len(u) = Len(t) + 1 /\ u[1].base = s
      /\ \A k \in 1 .. Len(t) : u[k + 1] = t[k]
  BY ChainOpen
<1> HIDE DEF u
<1>2. /\ q \in Seq(Stores) /\ Len(q) = Len(t)
      /\ \A k \in 1 .. Len(t) : q[k] = t[k].base
  BY AllSnapshots
<1>3. /\ p \in Seq(Stores) /\ Len(p) = Len(t) + 1
      /\ \A k \in 1 .. Len(t) + 1 : p[k] = u[k].base
  BY <1>1, AllSnapshots
<1> HIDE DEF p, q
<1>4. /\ <<s>> \o q \in Seq(Stores) /\ Len(<<s>> \o q) = Len(t) + 1
      /\ (<<s>> \o q)[1] = s
      /\ \A k \in 1 .. Len(t) : (<<s>> \o q)[k + 1] = q[k]
  BY <1>2
<1>5. ASSUME NEW k \in 1 .. Len(t) + 1 PROVE p[k] = (<<s>> \o q)[k]
  <2>1. CASE k = 1
    BY <1>1, <1>3, <1>4, <2>1
  <2>2. CASE k # 1
    <3>1. k - 1 \in 1 .. Len(t) /\ (k - 1) + 1 = k
      BY <2>2
    <3>2. u[k] = t[k - 1] /\ (<<s>> \o q)[k] = q[k - 1]
      BY <1>1, <1>4, <3>1
    <3>3. QED
      BY <1>2, <1>3, <3>1, <3>2
  <2>3. QED
    BY <2>1, <2>2
<1>6. p = <<s>> \o q
  BY <1>3, <1>4, <1>5, SequencesEqual
<1>7. QED
  BY <1>6 DEF p, q, u

(* Closing a transaction pops one.                                         *)
LEMMA SnapshotsClose ==
  ASSUME NEW t \in Seq(Transactions), t # <<>>
  PROVE  /\ Snapshots(t, 0) # <<>>
         /\ Snapshots(Tail(t), 0) = Tail(Snapshots(t, 0))
<1> DEFINE p == Snapshots(t, 0)
           q == Snapshots(Tail(t), 0)
<1>1. /\ Len(t) \in Nat \ {0} /\ Tail(t) \in Seq(Transactions)
      /\ Len(Tail(t)) = Len(t) - 1
      /\ \A k \in 1 .. Len(t) - 1 : Tail(t)[k] = t[k + 1]
  BY TailFacts
<1>2. /\ p \in Seq(Stores) /\ Len(p) = Len(t)
      /\ \A k \in 1 .. Len(t) : p[k] = t[k].base
  BY AllSnapshots
<1>3. /\ q \in Seq(Stores) /\ Len(q) = Len(t) - 1
      /\ \A k \in 1 .. Len(t) - 1 : q[k] = Tail(t)[k].base
  BY <1>1, AllSnapshots
<1> HIDE DEF p, q
<1>4. p # <<>>
  BY <1>1, <1>2
<1>5. /\ Tail(p) \in Seq(Stores) /\ Len(Tail(p)) = Len(t) - 1
      /\ \A k \in 1 .. Len(t) - 1 : Tail(p)[k] = p[k + 1]
  BY <1>2, <1>4, TailFacts
<1>6. \A k \in 1 .. Len(t) - 1 : q[k] = Tail(p)[k]
  <2> SUFFICES ASSUME NEW k \in 1 .. Len(t) - 1 PROVE q[k] = Tail(p)[k]
    OBVIOUS
  <2>1. k + 1 \in 1 .. Len(t)
    BY <1>1
  <2>2. QED
    BY <1>1, <1>2, <1>3, <1>5, <2>1
<1>7. q = Tail(p)
  BY <1>3, <1>5, <1>6, SequencesEqual
<1>8. QED
  BY <1>4, <1>7 DEF p, q

(* Starting a rollback pops all it will undo.                              *)
LEMMA SnapshotsRollback ==
  ASSUME NEW t \in Seq(Transactions), NEW n \in 1 .. Len(t)
  PROVE  /\ Snapshots(t, n) = SubSeq(Snapshots(t, 0), n + 1, Len(Snapshots(t, 0)))
         /\ Snapshots(t, 0)[n] = t[n].base
         /\ n \in 1 .. Len(Snapshots(t, 0))
         /\ Snapshots(Tail(t), n - 1) = Snapshots(t, n)
<1> DEFINE p == Snapshots(t, 0)
           q == Snapshots(t, n)
           r == Snapshots(Tail(t), n - 1)
<1>1. Len(t) \in Nat /\ n \in 0 .. Len(t) /\ 0 \in 0 .. Len(t)
  OBVIOUS
<1>2. /\ p \in Seq(Stores) /\ Len(p) = Len(t)
      /\ \A k \in 1 .. Len(t) : p[k] = t[k].base
  BY AllSnapshots
<1>3. /\ q \in Seq(Stores) /\ Len(q) = Len(t) - n
      /\ \A k \in 1 .. Len(t) - n : q[k] = t[k + n].base
  BY <1>1, SnapshotTypes
<1>4. /\ Tail(t) \in Seq(Transactions) /\ Len(Tail(t)) = Len(t) - 1
      /\ \A k \in 1 .. Len(t) - 1 : Tail(t)[k] = t[k + 1]
  <2>1. t # <<>>
    OBVIOUS
  <2>2. QED
    BY <2>1, TailFacts
<1>5. /\ r \in Seq(Stores) /\ Len(r) = Len(t) - n
      /\ \A k \in 1 .. Len(t) - n : r[k] = Tail(t)[k + (n - 1)].base
  <2>1. n - 1 \in 0 .. Len(Tail(t)) /\ Len(Tail(t)) - (n - 1) = Len(t) - n
    BY <1>1, <1>4
  <2>2. QED
    BY <1>4, <2>1, SnapshotTypes
<1> HIDE DEF p, q, r
<1>6. q = SubSeq(p, n + 1, Len(p))
  <2>1. /\ SubSeq(p, n + 1, Len(p)) \in Seq(Stores)
        /\ Len(SubSeq(p, n + 1, Len(p))) = Len(t) - n
        /\ \A k \in 1 .. Len(t) - n : SubSeq(p, n + 1, Len(p))[k] = p[n + k]
    BY <1>1, <1>2
  <2>2. \A k \in 1 .. Len(t) - n : k + n = n + k /\ n + k \in 1 .. Len(t)
    BY <1>1
  <2>3. \A k \in 1 .. Len(t) - n : q[k] = SubSeq(p, n + 1, Len(p))[k]
    BY <1>2, <1>3, <2>1, <2>2
  <2>4. QED
    BY <1>3, <2>1, <2>3, SequencesEqual
<1>7. r = q
  <2>1. ASSUME NEW k \in 1 .. Len(t) - n PROVE r[k] = q[k]
    <3>1. k + (n - 1) \in 1 .. Len(t) - 1 /\ (k + (n - 1)) + 1 = k + n
      BY <1>1
    <3>2. Tail(t)[k + (n - 1)] = t[k + n]
      BY <1>4, <3>1
    <3>3. QED
      BY <1>3, <1>5, <3>2
  <2>2. QED
    BY <1>3, <1>5, <2>1, SequencesEqual
<1>8. QED
  BY <1>1, <1>2, <1>6, <1>7 DEF p, q, r

(* The abstract store and snapshots: while a rollback is running, those it *)
(* will end with.                                                          *)
AbsStore == IF phase = "rolling" THEN txns[unwind].base ELSE store
AbsSnapshots == [i \in 1 .. Len(txns) - Unwinding |-> txns[i + Unwinding].base]

(* The mapping outside a rollback.                                         *)
LEMMA NotRolling ==
  ASSUME phase # "rolling"
  PROVE  AbsStore = store /\ AbsSnapshots = Snapshots(txns, 0)
BY DEF AbsStore, AbsSnapshots, Snapshots, Unwinding

(* The same after a step.                                                  *)
LEMMA NotRollingPrime ==
  ASSUME phase' # "rolling"
  PROVE  AbsStore' = store' /\ AbsSnapshots' = Snapshots(txns', 0)
BY DEF AbsStore, AbsSnapshots, Snapshots, Unwinding

(* The mapping during a rollback: the base it returns to.                  *)
LEMMA Rolling ==
  ASSUME phase = "rolling"
  PROVE  AbsStore = txns[unwind].base /\ AbsSnapshots = Snapshots(txns, unwind)
BY DEF AbsStore, AbsSnapshots, Snapshots, Unwinding

(* The same after a step.                                                  *)
LEMMA RollingPrime ==
  ASSUME phase' = "rolling"
  PROVE  /\ AbsStore' = txns'[unwind'].base
         /\ AbsSnapshots' = Snapshots(txns', unwind')
BY DEF AbsStore, AbsSnapshots, Snapshots, Unwinding

(* Logging an action leaves the snapshots alone.                           *)
LEMMA LogActionSnapshots ==
  ASSUME NEW t \in Seq(Transactions), t # <<>>, NEW l,
         NEW u \in Seq(Transactions), u = [t EXCEPT ![1].log = l]
  PROVE  Snapshots(u, 0) = Snapshots(t, 0)
<1>1. Len(u) = Len(t) /\ 1 \in 1 .. Len(t) /\ t[1] \in Transactions
  OBVIOUS
<1>2. u[1].base = t[1].base
  BY <1>1 DEF Transactions
<1>3. \A i \in 1 .. Len(t) : u[i].base = t[i].base
  <2> SUFFICES ASSUME NEW i \in 1 .. Len(t), i # 1 PROVE u[i] = t[i]
    BY <1>2
  <2>1. QED
    OBVIOUS
<1>4. 0 \in 0 .. Len(t)
  BY <1>1
<1>5. QED
  BY <1>1, <1>3, <1>4, SameBasesSameSnapshots

(* The steps that are visible in the abstract database.                    *)
AbsAdd(f) == /\ f \in Triples /\ AbsStore[f] = NoId
             /\ AbsStore' = [AbsStore EXCEPT ![f] = nextId]
             /\ nextId' = nextId + 1
             /\ AbsSnapshots' = AbsSnapshots

AbsRemove(f) == /\ f \in Triples /\ AbsStore[f] # NoId
                /\ AbsStore' = [AbsStore EXCEPT ![f] = NoId]
                /\ nextId' \in {nextId, nextId + 1}
                /\ AbsSnapshots' = AbsSnapshots

AbsStart == /\ AbsSnapshots' = <<AbsStore>> \o AbsSnapshots
            /\ AbsStore' = AbsStore /\ nextId' = nextId + 1

AbsCommit == /\ AbsSnapshots # <<>> /\ AbsSnapshots' = Tail(AbsSnapshots)
             /\ AbsStore' = AbsStore /\ nextId' = nextId

AbsRollback(n) ==
  /\ n \in 1 .. Len(AbsSnapshots)
  /\ AbsStore' = AbsSnapshots[n]
  /\ AbsSnapshots' = SubSeq(AbsSnapshots, n + 1, Len(AbsSnapshots))
  /\ nextId' \in {nextId, nextId + 1}

AbsStutter == /\ AbsStore' = AbsStore /\ AbsSnapshots' = AbsSnapshots
              /\ nextId' \in {nextId, nextId + 1}

(* An addition in a transaction is one of the abstract specification.      *)
LEMMA AddInTransactionMaps ==
  ASSUME Inv, Inv', phase = "idle", NEW f \in Triples, AddInTransaction(f)
  PROVE  AbsAdd(f)
<1>1. /\ phase # "rolling" /\ phase' # "rolling"
      /\ txns # <<>> /\ txns \in Seq(Transactions) /\ txns' \in Seq(Transactions)
      /\ store' = [store EXCEPT ![f] = nextId] /\ nextId' = nextId + 1
      /\ store[f] = NoId
  BY DEF AddInTransaction, Inv, TypeOK, InTransaction, Link, TakeId, Stored
<1>2. PICK l : txns' = [txns EXCEPT ![1].log = l]
  BY DEF AddInTransaction, LogAction
<1>3. Snapshots(txns', 0) = Snapshots(txns, 0)
  BY <1>1, <1>2, LogActionSnapshots
<1>4. QED
  BY <1>1, <1>3, NotRolling, NotRollingPrime DEF AbsAdd

(* So is a removal.                                                        *)
LEMMA RemoveInTransactionMaps ==
  ASSUME Inv, Inv', phase = "idle", NEW f \in Triples, RemoveInTransaction(f)
  PROVE  AbsRemove(f)
<1>1. /\ phase # "rolling" /\ phase' # "rolling"
      /\ txns # <<>> /\ txns \in Seq(Transactions) /\ txns' \in Seq(Transactions)
      /\ store' = [store EXCEPT ![f] = NoId] /\ nextId' = nextId + 1
      /\ store[f] # NoId
  BY DEF RemoveInTransaction, Inv, TypeOK, InTransaction, Unlink, TakeId, Stored
<1>2. PICK l : txns' = [txns EXCEPT ![1].log = l]
  BY DEF RemoveInTransaction, LogAction
<1>3. Snapshots(txns', 0) = Snapshots(txns, 0)
  BY <1>1, <1>2, LogActionSnapshots
<1>4. QED
  BY <1>1, <1>3, NotRolling, NotRollingPrime DEF AbsRemove

(* Opening a transaction takes a snapshot.                                 *)
LEMMA OpenMaps ==
  ASSUME Inv, phase = "idle", phase' = phase, store' = store, TakeId,
         txns' = <<[id |-> nextId, log |-> <<>>, base |-> store]>> \o txns
  PROVE  AbsStart
<1>1. /\ txns \in Seq(Transactions) /\ store \in Stores /\ nextId \in Ids
      /\ Chain(txns, store) /\ nextId' = nextId + 1
  BY UndoChainIsChain, TakeIdFacts DEF Inv, TypeOK
<1>2. Snapshots(txns', 0) = <<store>> \o Snapshots(txns, 0)
  BY <1>1, SnapshotsOpen
<1>3. QED
  BY <1>1, <1>2, NotRolling, NotRollingPrime DEF AbsStart

(* Committing a transaction drops one.                                     *)
LEMMA CommitMaps ==
  ASSUME Inv, Inv', phase = "idle", TransactionEnd
  PROVE  AbsCommit
<1>1. /\ txns \in Seq(Transactions) /\ txns' \in Seq(Transactions) /\ txns # <<>>
      /\ store' = store /\ nextId' = nextId /\ phase' # "rolling"
  <2>1. txns \in Seq(Transactions) /\ txns' \in Seq(Transactions)
    BY DEF Inv, TypeOK
  <2>2. Len(txns) > 1 \/ Len(txns) = 1
    BY DEF TransactionEnd, EndInner, EndOutermost
  <2>3. store' = store /\ nextId' = nextId /\ phase' # "rolling"
    BY DEF TransactionEnd, EndInner, EndOutermost, data
  <2>4. QED
    BY <2>1, <2>2, <2>3
<1>2. /\ Snapshots(txns, 0) # <<>>
      /\ Snapshots(Tail(txns), 0) = Tail(Snapshots(txns, 0))
      /\ Tail(txns) \in Seq(Transactions)
      /\ Tail(txns) = <<>> <=> Len(txns) = 1
  BY <1>1, SnapshotsClose, TailFacts
<1>3. Snapshots(txns', 0) = Snapshots(Tail(txns), 0)
  <2>1. CASE EndInner
    <3>1. PICK l : txns' = [Tail(txns) EXCEPT ![1].log = l]
      BY <2>1 DEF EndInner
    <3>2. Tail(txns) # <<>>
      BY <1>2, <2>1 DEF EndInner
    <3>3. QED
      BY <1>1, <1>2, <3>1, <3>2, LogActionSnapshots
  <2>2. CASE EndOutermost
    BY <1>2, <2>2 DEF EndOutermost
  <2>3. QED
    BY <2>1, <2>2 DEF TransactionEnd
<1>4. QED
  BY <1>1, <1>2, <1>3, NotRolling, NotRollingPrime DEF AbsCommit

(* A rollback happens, abstractly, when it starts.                         *)
LEMMA RollbackMaps ==
  ASSUME Inv, phase = "idle", phase' = "rolling", txns' = txns,
         NEW n \in 1 .. Len(txns), unwind' = n, nextId' \in {nextId, nextId + 1}
  PROVE  AbsRollback(n)
<1>1. txns \in Seq(Transactions)
  BY DEF Inv, TypeOK
<1>2. AbsStore' = txns[n].base /\ AbsSnapshots' = Snapshots(txns, n)
  BY RollingPrime
<1>3. QED
  BY <1>1, <1>2, SnapshotsRollback, NotRolling DEF AbsRollback

(* Undoing an action is a stutter.                                         *)
LEMMA UndoMaps ==
  ASSUME Inv, NEW op, Undoing(op), UNCHANGED <<phase, unwind, nextId>>
  PROVE  AbsStutter
<1>1. /\ phase = "rolling" /\ unwind \in 1 .. Len(txns)
      /\ txns \in Seq(Transactions)
  BY DEF Undoing, Inv, StageInv, TypeOK
<1>2. /\ txns' \in Seq(Transactions) /\ Len(txns') = Len(txns)
      /\ \A i \in 1 .. Len(txns) : txns'[i].base = txns[i].base
  BY UndoFacts
<1>3. Snapshots(txns', unwind) = Snapshots(txns, unwind)
  <2>1. unwind \in 0 .. Len(txns)
    BY <1>1
  <2>2. QED
    BY <1>1, <1>2, <2>1, SameBasesSameSnapshots
<1>4. QED
  BY <1>1, <1>2, <1>3, Rolling, RollingPrime DEF AbsStutter

(* So is closing an undone transaction.                                    *)
LEMMA UndoneTransactionMaps ==
  ASSUME Inv, Inv', UndoneTransaction, UNCHANGED jobState
  PROVE  AbsStutter
<1>1. /\ phase = "rolling" /\ unwind \in 1 .. Len(txns) /\ txns # <<>>
      /\ txns \in Seq(Transactions) /\ txns' = Tail(txns)
      /\ unwind' = unwind - 1 /\ store' = store /\ nextId' = nextId
      /\ phase' = IF unwind = 1 THEN "idle" ELSE "rolling"
  BY DEF UndoneTransaction, data, Inv, StageInv, TypeOK
<1>2. store = txns[1].base
  BY UndoneTransactionInv
<1>3. Snapshots(Tail(txns), unwind - 1) = Snapshots(txns, unwind)
  BY <1>1, SnapshotsRollback
<1>4. AbsStore = txns[unwind].base /\ AbsSnapshots = Snapshots(txns, unwind)
  BY <1>1, Rolling
<1>5. CASE unwind = 1
  <2>1. AbsStore' = store' /\ AbsSnapshots' = Snapshots(txns', 0)
    BY <1>1, <1>5, NotRollingPrime
  <2>2. QED
    BY <1>1, <1>2, <1>3, <1>4, <1>5, <2>1 DEF AbsStutter
<1>6. CASE unwind # 1
  <2>1. /\ AbsStore' = Tail(txns)[unwind - 1].base
        /\ AbsSnapshots' = Snapshots(Tail(txns), unwind - 1)
    BY <1>1, <1>6, RollingPrime
  <2>2. Tail(txns)[unwind - 1] = txns[unwind]
    <3>1. unwind - 1 \in 1 .. Len(txns) - 1 /\ (unwind - 1) + 1 = unwind
      BY <1>1, <1>6
    <3>2. QED
      BY <1>1, <3>1, TailFacts
  <2>3. QED
    BY <1>1, <1>3, <1>4, <2>1, <2>2 DEF AbsStutter
<1>7. QED
  BY <1>5, <1>6

(* Every step of the code is a step of the abstract database or invisible. *)
LEMMA StepMaps ==
  ASSUME Inv, Inv', Next
  PROVE  \/ \E f \in Triples : AbsAdd(f) \/ AbsRemove(f)
         \/ AbsStart \/ AbsCommit
         \/ \E n \in 1 .. Len(AbsSnapshots) : AbsRollback(n)
         \/ AbsStutter
<1> DEFINE Goal == \/ \E f \in Triples : AbsAdd(f) \/ AbsRemove(f)
                   \/ AbsStart \/ AbsCommit
                   \/ \E n \in 1 .. Len(AbsSnapshots) : AbsRollback(n)
                   \/ AbsStutter
<1>1. /\ txns \in Seq(Transactions) /\ todo \in SUBSET Triples
      /\ toAdd \in SUBSET Triples /\ nextId \in 1 .. UwMax /\ store \in Stores
  BY DEF Inv, TypeOK
<1>2. ASSUME phase = "idle", phase' = "rolling", txns' = txns,
             NEW n \in 1 .. Len(txns), unwind' = n,
             nextId' \in {nextId, nextId + 1}
      PROVE  Goal
  BY <1>2, RollbackMaps DEF AbsRollback
<1>3. ASSUME phase # "rolling", phase' # "rolling", UNCHANGED <<store, txns>>,
             nextId' \in {nextId, nextId + 1}
      PROVE  Goal
  BY <1>3, NotRolling, NotRollingPrime DEF AbsStutter
<1>4. CASE Call
  <2>1. phase = "idle"
    BY <1>4 DEF Call
  <2>2. ASSUME NEW f \in Triples, AddAlone(f)
        PROVE  AbsAdd(f)
    <3>1. /\ phase' = phase /\ txns' = txns /\ nextId' = nextId + 1
          /\ store[f] = NoId /\ store' = [store EXCEPT ![f] = nextId]
      BY <2>2 DEF AddAlone, txnState, TakeId, Link, Stored
    <3>2. QED
      BY <2>1, <3>1, NotRolling, NotRollingPrime DEF AbsAdd
  <2>3. ASSUME NEW f \in Triples, RemoveAlone(f)
        PROVE  AbsRemove(f)
    <3>1. /\ phase' = phase /\ txns' = txns /\ nextId' \in {nextId, nextId + 1}
          /\ store[f] # NoId /\ store' = [store EXCEPT ![f] = NoId]
      BY <2>3 DEF RemoveAlone, txnState, TakeId, Unlink, Stored
    <3>2. QED
      BY <2>1, <3>1, NotRolling, NotRollingPrime DEF AbsRemove
  <2>4. ASSUME NEW f \in Triples,
               \/ AddRunsOutOfMemory(f) \/ AddNotLogged(f)
               \/ RemoveRunsOutOfMemory(f) \/ RemoveNotLogged(f)
        PROVE  Goal
    <3>1. UNCHANGED <<store, txns, phase>>
      <4>1. AddNotLogged(f) => UNCHANGED store
        BY UnwoundLeavesNothing DEF AddNotLogged, Inv, TypeOK
      <4>2. QED
        BY <2>4, <4>1 DEF AddRunsOutOfMemory, AddNotLogged,
           RemoveRunsOutOfMemory, RemoveNotLogged, data, txnState
    <3>2. nextId' = nextId + 1
      BY <2>4 DEF AddRunsOutOfMemory, AddNotLogged, RemoveRunsOutOfMemory,
         RemoveNotLogged, TakeId
    <3>3. QED
      BY <1>3, <2>1, <3>1, <3>2
  <2>5. ASSUME TransactionStart \/ \E f \in Triples : ReplaceTags(f) \/ RemoveTags(f)
        PROVE  AbsStart
    <3>1. /\ phase' = phase /\ store' = store /\ TakeId
          /\ txns' = <<[id |-> nextId, log |-> <<>>, base |-> store]>> \o txns
      BY <2>5 DEF TransactionStart, ReplaceTags, RemoveTags, JobStart, data
    <3>2. QED
      BY <2>1, <3>1, OpenMaps
  <2>6. ASSUME NEW n \in 1 .. MaxDepth, Rollback(n)
        PROVE  Goal
    BY <1>2, <2>1, <2>6 DEF Rollback
  <2>7. QED
    BY <1>4, <2>1, <2>2, <2>3, <2>4, <2>5, <2>6, AddInTransactionMaps,
       RemoveInTransactionMaps, CommitMaps DEF Call
<1>5. CASE Finish
  <2>1. ASSUME \/ PublishNext \/ PublishFails \/ Discard \/ PublishDone
               \/ JobReturn
        PROVE  Goal
    <3>1. UNCHANGED <<store, txns, nextId>> /\ phase' # "rolling"
          /\ phase # "rolling"
      BY <2>1 DEF PublishNext, PublishFails, Discard, PublishDone, JobReturn,
         data
    <3>2. QED
      BY <1>3, <3>1
  <2>2. ASSUME UndoAdd \/ UndoRemove, UNCHANGED jobState
        PROVE  Goal
    <3>1. nextId' = nextId
      BY <2>2, UndoRemoveInv DEF UndoAdd
    <3>2. UNCHANGED <<phase, unwind>> /\ (Undoing("add") \/ Undoing("remove"))
      BY <2>2 DEF UndoAdd, UndoRemove
    <3>3. QED
      BY <3>1, <3>2, UndoMaps
  <2>3. ASSUME UndoneTransaction, UNCHANGED jobState
        PROVE  Goal
    BY <2>3, UndoneTransactionMaps
  <2>4. ASSUME JobStep
        PROVE  Goal
    <3>1. phase = "idle" /\ txns # <<>>
      BY <2>4 DEF JobStep, Inv, StageInv
    <3>2. CASE JobRemove
      BY <1>1, <3>1, <3>2, RemoveInTransactionMaps DEF JobRemove
    <3>3. CASE JobAdd
      BY <1>1, <3>1, <3>3, AddInTransactionMaps DEF JobAdd
    <3>4. CASE JobFails
      <4>1. /\ phase' = "rolling" /\ txns' = txns /\ unwind' = 1
            /\ nextId' \in {nextId, nextId + 1}
        BY <3>4 DEF JobFails, TakeId
      <4>2. 1 \in 1 .. Len(txns)
        BY <1>1, <3>1
      <4>3. QED
        BY <1>2, <3>1, <4>1, <4>2
    <3>5. CASE JobEnd
      BY <3>1, <3>5, CommitMaps DEF JobEnd
    <3>6. QED
      BY <2>4, <3>2, <3>3, <3>4, <3>5 DEF JobStep
  <2>5. QED
    BY <1>5, <2>1, <2>2, <2>3, <2>4 DEF Finish
<1>6. QED
  BY <1>4, <1>5 DEF Next

(* facts_transaction.c implements transactions: whatever nested commits,   *)
(* removals and failures happened inside, a rollback restores the facts    *)
(* and the identifiers that its transaction started from.                  *)
THEOREM TransactionsImplemented == Spec => ImplementsTransactions
<1>1. Init => Abstract!Init
  BY DEF Init, Abstract!Init, Unwinding, NoId, Abstract!NoId
<1>2. Inv /\ Inv' /\ [Next]_vars => [Abstract!Next]_Abstract!vars
  <2> SUFFICES ASSUME Inv, Inv', [Next]_vars
               PROVE  [Abstract!Next]_Abstract!vars
    OBVIOUS
  <2>1. CASE Next
    <3>1. ASSUME NEW f \in Triples, AbsAdd(f) PROVE Abstract!Add
      BY <3>1 DEF AbsAdd, Abstract!Add, AbsStore, AbsSnapshots, Abstract!NoId, NoId
    <3>2. ASSUME NEW f \in Triples, AbsRemove(f) PROVE Abstract!Remove
      BY <3>2 DEF AbsRemove, Abstract!Remove, AbsStore, AbsSnapshots,
         Abstract!NoId, NoId
    <3>3. AbsStart => Abstract!Start
      BY DEF AbsStart, Abstract!Start, AbsStore, AbsSnapshots
    <3>4. AbsCommit => Abstract!Commit
      BY DEF AbsCommit, Abstract!Commit, AbsStore, AbsSnapshots
    <3>5. ASSUME NEW n \in 1 .. Len(AbsSnapshots), AbsRollback(n)
          PROVE  Abstract!Rollback
      BY <3>5 DEF AbsRollback, Abstract!Rollback, AbsStore, AbsSnapshots
    <3>6. AbsStutter => Abstract!LoseId \/ UNCHANGED Abstract!vars
      BY DEF AbsStutter, Abstract!LoseId, Abstract!vars, AbsStore, AbsSnapshots
    <3>7. QED
      BY <2>1, <3>1, <3>2, <3>3, <3>4, <3>5, <3>6, StepMaps DEF Abstract!Next
  <2>2. CASE UNCHANGED vars
    BY <2>2 DEF vars, data, txnState, Abstract!vars, Unwinding
  <2>3. QED
    BY <2>1, <2>2
<1>3. QED
  BY <1>1, <1>2, Invariance, PTL DEF Spec, ImplementsTransactions, Abstract!Spec
=============================================================================
