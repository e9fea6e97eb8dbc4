-------------------------- MODULE FactsQueryProofs --------------------------
(***************************************************************************)
(* Proofs about FactsQuery.tla and HashSet.tla, for all facts, patterns,   *)
(* types of variables, hashes and numbers of buckets.                      *)
(*                                                                         *)
(* What is said of the indexes and of the answers has OrderIsTotal as its  *)
(* hypothesis: that compare_tag makes of the tags in use the order of      *)
(* their values.  It does not of all tags, and where it breaks that, facts *)
(* are lost (the run queries_wide); the run queries has tags of which it   *)
(* does.                                                                   *)
(*                                                                         *)
(* QueryInv has the types, the table with its counts, and what a query has *)
(* bound.  Ordered adds that the indexes are sorted and hold the facts of  *)
(* the table, and no other before memory ran out in a chain.  JoinInv says *)
(* that the cursors of a query stand on facts that their patterns become.  *)
(* AnsweredInv says that of the solutions exactly those have been answered *)
(* that the cursors have passed.                                           *)
(***************************************************************************)
EXTENDS FactsQuery, FiniteSetTheorems, SequenceTheorems, WellFoundedInduction, TLAPS

-----------------------------------------------------------------------------
(* Numbers and sequences.                                                  *)

(* Every set of natural numbers that is not empty has a least one.         *)
LEMMA Least ==
  ASSUME NEW S \in SUBSET Nat, S # {}
  PROVE  Min(S) \in S /\ \A m \in S : Min(S) <= m
<1> DEFINE R == OpToRel(<, Nat)
<1>1. IsWellFoundedOn(R, Nat)
  BY NatLessThanWellFounded
<1>2. \A x, y \in Nat : x < y => <<x, y>> \in R
  BY DEF OpToRel
<1> HIDE DEF R
<1>3. PICK x \in S : \A y \in S : ~ (<<y, x>> \in R)
  BY <1>1, WFMin
<1>4. ASSUME NEW m \in S
      PROVE  x <= m
  <2>1. ~ (m < x)
    BY <1>2, <1>3
  <2>2. QED
    BY <2>1
<1>5. QED
  BY <1>4 DEF Min

(* Insertion at a place moves what follows up by one.                      *)
LEMMA Insertion ==
  ASSUME NEW T, NEW s \in Seq(T), NEW k \in 1 .. Len(s) + 1, NEW e \in T,
         NEW q, q = InsertAt(s, k, e)
  PROVE  /\ q \in Seq(T) /\ Len(q) = Len(s) + 1 /\ q[k] = e
         /\ \A n \in 1 .. k - 1 : q[n] = s[n]
         /\ \A n \in k .. Len(s) : q[n + 1] = s[n]
<1> DEFINE a == SubSeq(s, 1, k - 1)
           c == SubSeq(s, k, Len(s))
           b == a \o <<e>>
<1>1. Len(s) \in Nat /\ \A n \in 1 .. Len(s) : s[n] \in T
  OBVIOUS
<1>2. /\ a \in Seq(T) /\ Len(a) = k - 1
      /\ \A n \in 1 .. k - 1 : a[n] = s[n]
  BY <1>1, SubSeqProperties
<1>3. /\ c \in Seq(T) /\ Len(c) = Len(s) - k + 1
      /\ \A n \in 1 .. Len(s) - k + 1 : c[n] = s[k + n - 1]
  BY <1>1, SubSeqProperties
<1>4. <<e>> \in Seq(T) /\ Len(<<e>>) = 1 /\ <<e>>[1] = e
  OBVIOUS
<1>5. q = b \o c
  BY DEF InsertAt
<1> HIDE DEF a, c
<1>6. /\ b \in Seq(T) /\ Len(b) = k
      /\ \A n \in 1 .. k : b[n] = IF n <= k - 1 THEN a[n] ELSE <<e>>[n - (k - 1)]
  BY <1>1, <1>2, <1>4, ConcatProperties
<1> HIDE DEF b
<1>7. /\ q \in Seq(T) /\ Len(q) = Len(s) + 1
      /\ \A n \in 1 .. Len(s) + 1 : q[n] = IF n <= k THEN b[n] ELSE c[n - k]
  BY <1>1, <1>3, <1>5, <1>6, ConcatProperties
<1>8. q[k] = e
  BY <1>1, <1>4, <1>6, <1>7
<1>9. ASSUME NEW n \in 1 .. k - 1 PROVE q[n] = s[n]
  BY <1>1, <1>2, <1>6, <1>7
<1>10. ASSUME NEW n \in k .. Len(s) PROVE q[n + 1] = s[n]
  <2>1. n + 1 \in 1 .. Len(s) + 1 /\ ~ (n + 1 <= k) /\ n + 1 - k \in 1 .. Len(s) - k + 1
    BY <1>1
  <2>2. q[n + 1] = c[n + 1 - k] /\ c[n + 1 - k] = s[k + (n + 1 - k) - 1]
    BY <1>3, <1>7, <2>1
  <2>3. k + (n + 1 - k) - 1 = n
    BY <1>1
  <2>4. QED
    BY <2>2, <2>3
<1>11. QED
  BY <1>7, <1>8, <1>9, <1>10

(* Removal at a place moves what follows down by one.                      *)
LEMMA Removal ==
  ASSUME NEW T, NEW s \in Seq(T), NEW k \in 1 .. Len(s),
         NEW q, q = RemoveAt(s, k)
  PROVE  /\ q \in Seq(T) /\ Len(q) = Len(s) - 1
         /\ \A n \in 1 .. k - 1 : q[n] = s[n]
         /\ \A n \in k .. Len(s) - 1 : q[n] = s[n + 1]
<1> DEFINE a == SubSeq(s, 1, k - 1)
           c == SubSeq(s, k + 1, Len(s))
<1>1. Len(s) \in Nat /\ \A n \in 1 .. Len(s) : s[n] \in T
  OBVIOUS
<1>2. /\ a \in Seq(T) /\ Len(a) = k - 1
      /\ \A n \in 1 .. k - 1 : a[n] = s[n]
  <2>1. \A i \in 1 .. k - 1 : s[i] \in T
    BY <1>1
  <2>2. QED
    BY <1>1, <2>1, SubSeqProperties
<1>3. /\ c \in Seq(T) /\ Len(c) = Len(s) - k
      /\ \A n \in 1 .. Len(s) - k : c[n] = s[k + n]
  BY <1>1, SubSeqProperties
<1>4. q = a \o c
  BY DEF RemoveAt
<1> HIDE DEF a, c
<1>5. /\ q \in Seq(T) /\ Len(q) = Len(s) - 1
      /\ \A n \in 1 .. Len(s) - 1 : q[n] = IF n <= k - 1 THEN a[n] ELSE c[n - (k - 1)]
  <2>0. a \in Seq(T) /\ c \in Seq(T)
    BY <1>2, <1>3
  <2>1. /\ q \in Seq(T) /\ Len(q) = Len(a) + Len(c)
        /\ \A n \in 1 .. Len(a) + Len(c) : q[n] = IF n <= Len(a) THEN a[n] ELSE c[n - Len(a)]
    BY <2>0, <1>4, ConcatProperties
  <2>2. Len(a) + Len(c) = Len(s) - 1
    BY <1>1, <1>2, <1>3
  <2>3. QED
    BY <1>2, <2>1, <2>2
<1>6. ASSUME NEW n \in 1 .. k - 1 PROVE q[n] = s[n]
  <2>1. n \in 1 .. Len(s) - 1 /\ n <= k - 1
    BY <1>1
  <2>2. QED
    BY <1>2, <1>5, <2>1
<1>7. ASSUME NEW n \in k .. Len(s) - 1 PROVE q[n] = s[n + 1]
  <2>1. /\ n \in 1 .. Len(s) - 1 /\ ~ (n <= k - 1) /\ n - (k - 1) \in 1 .. Len(s) - k
        /\ k + (n - (k - 1)) = n + 1
    BY <1>1
  <2>2. q[n] = c[n - (k - 1)] /\ c[n - (k - 1)] = s[k + (n - (k - 1))]
    BY <1>3, <1>5, <2>1
  <2>3. QED
    BY <2>1, <2>2
<1>8. QED
  BY <1>5, <1>6, <1>7

(* What is inserted is new among the items, and no item is twice.          *)
LEMMA InsertedItems ==
  ASSUME NEW T, NEW s \in Seq(T), NEW k \in 1 .. Len(s) + 1, NEW e \in T,
         NEW q, q = InsertAt(s, k, e)
  PROVE  /\ ToSet(q) = ToSet(s) \cup {e}
         /\ IsInjective(s) /\ e \notin ToSet(s) => IsInjective(q)
<1>1. /\ q \in Seq(T) /\ Len(q) = Len(s) + 1 /\ q[k] = e
      /\ \A n \in 1 .. k - 1 : q[n] = s[n]
      /\ \A n \in k .. Len(s) : q[n + 1] = s[n]
  BY Insertion
<1>2. DOMAIN q = 1 .. Len(s) + 1 /\ DOMAIN s = 1 .. Len(s) /\ Len(s) \in Nat
  BY <1>1
<1> DEFINE from(n) == IF n < k THEN n ELSE n - 1
<1>3. ASSUME NEW n \in DOMAIN q, n # k
      PROVE  from(n) \in DOMAIN s /\ q[n] = s[from(n)]
  <2>1. CASE n < k
    BY <1>1, <1>2, <2>1
  <2>2. CASE n > k
    <3>1. n - 1 \in k .. Len(s) /\ (n - 1) + 1 = n
      BY <1>2, <2>2
    <3>2. QED
      BY <1>1, <1>2, <2>2, <3>1
  <2>3. QED
    BY <1>2, <1>3, <2>1, <2>2
<1>4. ASSUME NEW n \in DOMAIN s
      PROVE  \E m \in DOMAIN q : q[m] = s[n]
  <2>1. CASE n < k
    <3>1. n \in 1 .. k - 1 /\ n \in DOMAIN q
      BY <1>2, <2>1
    <3>2. QED
      BY <1>1, <3>1
  <2>2. CASE ~ (n < k)
    <3>1. n \in k .. Len(s) /\ n + 1 \in DOMAIN q
      BY <1>2, <2>2
    <3>2. QED
      BY <1>1, <3>1
  <2>3. QED
    BY <2>1, <2>2
<1>5. k \in DOMAIN q
  BY <1>2
<1>6. ToSet(q) = ToSet(s) \cup {e}
  BY <1>1, <1>3, <1>4, <1>5 DEF ToSet
<1>7. ASSUME IsInjective(s), e \notin ToSet(s), NEW m \in DOMAIN q, NEW n \in DOMAIN q,
             q[m] = q[n]
      PROVE  m = n
  <2>1. m # k => q[m] \in ToSet(s)
    BY <1>3 DEF ToSet
  <2>2. n # k => q[n] \in ToSet(s)
    BY <1>3 DEF ToSet
  <2>3. CASE m = k \/ n = k
    BY <1>1, <1>7, <2>1, <2>2, <2>3
  <2>4. CASE m # k /\ n # k
    <3>1. from(m) = from(n)
      BY <1>3, <1>7, <2>4 DEF IsInjective
    <3>2. QED
      BY <1>2, <2>4, <3>1
  <2>5. QED
    BY <2>3, <2>4
<1>8. QED
  BY <1>6, <1>7 DEF IsInjective

(* What is removed was there once.                                         *)
LEMMA RemovedItems ==
  ASSUME NEW T, NEW s \in Seq(T), NEW k \in 1 .. Len(s),
         NEW q, q = RemoveAt(s, k), IsInjective(s)
  PROVE  ToSet(q) = ToSet(s) \ {s[k]} /\ IsInjective(q)
<1>1. /\ q \in Seq(T) /\ Len(q) = Len(s) - 1
      /\ \A n \in 1 .. k - 1 : q[n] = s[n]
      /\ \A n \in k .. Len(s) - 1 : q[n] = s[n + 1]
  <2>1. k \in 1 .. Len(s) /\ s \in Seq(T)
    OBVIOUS
  <2>2. QED
    BY <2>1, Removal
<1>2. DOMAIN q = 1 .. Len(s) - 1 /\ DOMAIN s = 1 .. Len(s) /\ Len(s) \in Nat
  BY <1>1
<1> DEFINE from(n) == IF n < k THEN n ELSE n + 1
<1>3. ASSUME NEW n \in DOMAIN q
      PROVE  from(n) \in DOMAIN s /\ from(n) # k /\ q[n] = s[from(n)]
  BY <1>1, <1>2
<1>4. ASSUME NEW n \in DOMAIN s, n # k
      PROVE  \E m \in DOMAIN q : from(m) = n
  <2>1. CASE n < k
    <3>1. n \in DOMAIN q
      BY <1>2, <2>1
    <3>2. QED
      BY <2>1, <3>1
  <2>2. CASE n > k
    <3>1. n - 1 \in DOMAIN q /\ ~ (n - 1 < k) /\ (n - 1) + 1 = n
      BY <1>2, <2>2
    <3>2. QED
      BY <3>1
  <2>3. QED
    BY <1>2, <1>4, <2>1, <2>2
<1>5. \A m, n \in DOMAIN q : from(m) = from(n) => m = n
  BY <1>2
<1> HIDE DEF from
<1>6. \A m, n \in DOMAIN s : s[m] = s[n] => m = n
  BY DEF IsInjective
<1>7. IsInjective(q)
  BY <1>3, <1>5, <1>6 DEF IsInjective
<1>8. \A n \in DOMAIN q : q[n] \in ToSet(s) \ {s[k]}
  BY <1>2, <1>3, <1>6 DEF ToSet
<1>9. \A n \in DOMAIN s : n # k => s[n] \in ToSet(q)
  BY <1>3, <1>4 DEF ToSet
<1>10. QED
  BY <1>7, <1>8, <1>9 DEF ToSet

Joined(q, s, t) == q = s \o t

(* Sequences that share no item make one that has the items of both. *)
LEMMA Concatenation ==
  ASSUME NEW T, NEW s \in Seq(T), NEW t \in Seq(T),
         IsInjective(s), IsInjective(t), ToSet(s) \cap ToSet(t) = {},
         NEW q, Joined(q, s, t)
  PROVE  q \in Seq(T) /\ IsInjective(q) /\ ToSet(q) = ToSet(s) \cup ToSet(t)
<1>1. /\ DOMAIN s = 1 .. Len(s) /\ Len(s) \in Nat
      /\ DOMAIN t = 1 .. Len(t) /\ Len(t) \in Nat
  OBVIOUS
<1>2. /\ q \in Seq(T) /\ Len(q) = Len(s) + Len(t)
      /\ \A n \in 1 .. Len(s) + Len(t) :
           q[n] = IF n <= Len(s) THEN s[n] ELSE t[n - Len(s)]
  BY ConcatProperties DEF Joined
<1>3. DOMAIN q = 1 .. Len(s) + Len(t)
  BY <1>2
<1>4. ASSUME NEW n \in DOMAIN q
      PROVE  \/ n \in DOMAIN s /\ q[n] = s[n]
             \/ n - Len(s) \in DOMAIN t /\ q[n] = t[n - Len(s)] /\ n > Len(s)
  BY <1>1, <1>2, <1>3
<1>5. ASSUME NEW n \in DOMAIN s PROVE n \in DOMAIN q /\ q[n] = s[n]
  BY <1>1, <1>2, <1>3
<1>6. ASSUME NEW n \in DOMAIN t PROVE n + Len(s) \in DOMAIN q /\ q[n + Len(s)] = t[n]
  <2>1. n + Len(s) \in DOMAIN q /\ ~ (n + Len(s) <= Len(s)) /\ (n + Len(s)) - Len(s) = n
    BY <1>1, <1>3
  <2>2. QED
    BY <1>2, <1>3, <2>1
<1>7. ToSet(q) = ToSet(s) \cup ToSet(t)
  <2>1. \A x \in ToSet(q) : x \in ToSet(s) \cup ToSet(t)
    BY <1>4 DEF ToSet
  <2>2. \A x \in ToSet(s) : x \in ToSet(q)
    BY <1>5 DEF ToSet
  <2>3. \A x \in ToSet(t) : x \in ToSet(q)
    BY <1>6 DEF ToSet
  <2>4. QED
    BY <2>1, <2>2, <2>3
<1>8. \A m, n \in DOMAIN s : s[m] = s[n] => m = n
  BY DEF IsInjective
<1>9. \A m, n \in DOMAIN t : t[m] = t[n] => m = n
  BY DEF IsInjective
<1>10. \A m \in DOMAIN s, n \in DOMAIN t : s[m] # t[n]
  BY DEF ToSet
<1>11. ASSUME NEW m \in DOMAIN q, NEW n \in DOMAIN q, q[m] = q[n]
       PROVE  m = n
  <2>1. CASE m \in DOMAIN s /\ q[m] = s[m]
    <3>1. n \in DOMAIN s /\ q[n] = s[n]
      BY <1>4, <1>10, <1>11, <2>1
    <3>2. QED
      BY <1>8, <1>11, <2>1, <3>1
  <2>2. CASE m - Len(s) \in DOMAIN t /\ q[m] = t[m - Len(s)]
    <3>1. n - Len(s) \in DOMAIN t /\ q[n] = t[n - Len(s)]
      BY <1>4, <1>10, <1>11, <2>2
    <3>2. m - Len(s) = n - Len(s)
      BY <1>9, <1>11, <2>2, <3>1
    <3>3. QED
      BY <1>1, <1>3, <3>2
  <2>3. QED
    BY <1>4, <2>1, <2>2
<1>12. QED
  BY <1>2, <1>7, <1>11 DEF IsInjective

(* FlattenSeq takes the sequences in one by one.                           *)
LEMMA FlattenTrace ==
  ASSUME NEW q, Len(q) \in Nat \ {0}
  PROVE  \E g : /\ g[1] = q[1]
                /\ \A i \in 2 .. Len(q) : g[i] = g[i - 1] \o q[i]
                /\ FlattenSeq(q) = g[Len(q)]
<1> DEFINE n == Len(q)
           Join(v, w) == v \o w
           Ok(g, k) == /\ DOMAIN g = 1 .. k /\ g = [i \in 1 .. k |-> g[i]]
                       /\ g[1] = q[1]
                       /\ \A i \in 2 .. k : g[i] = Join(g[i - 1], q[i])
<1>1. n \in Nat \ {0}
  OBVIOUS
<1>2. FlattenSeq(q) =
        LET flatten[i \in 1 .. n] == IF i = 1 THEN q[i] ELSE Join(flatten[i - 1], q[i])
        IN  flatten[n]
  BY DEF FlattenSeq
<1> HIDE DEF n, Join
<1>3. Ok([i \in 1 .. 1 |-> q[1]], 1)
  OBVIOUS
<1>4. ASSUME NEW k \in 2 .. n, NEW g, Ok(g, k - 1)
      PROVE  \E h : Ok(h, k)
  <2> DEFINE h == [i \in 1 .. k |-> IF i = k THEN Join(g[k - 1], q[k]) ELSE g[i]]
  <2>1. DOMAIN h = 1 .. k /\ h = [i \in 1 .. k |-> h[i]] /\ h[1] = q[1]
    BY <1>1, <1>4
  <2>2. ASSUME NEW i \in 2 .. k
        PROVE  h[i] = Join(h[i - 1], q[i])
    <3>1. h[i - 1] = g[i - 1]
      BY <1>1
    <3>2. CASE i = k
      BY <3>1, <3>2, <1>1
    <3>3. CASE i # k
      <4>1. i \in 2 .. k - 1 /\ h[i] = g[i]
        BY <3>3, <1>1
      <4>2. QED
        BY <4>1, <3>1, <1>4
    <3>4. QED
      BY <3>2, <3>3
  <2>3. QED
    BY <2>1, <2>2
<1>5. \A k \in 1 .. n : \E g : Ok(g, k)
  <2> DEFINE Has(k) == \E g : Ok(g, k)
             Bad == {k \in 1 .. n : ~ Has(k)}
  <2>1. Has(1)
    BY <1>3
  <2>2. \A k \in 2 .. n : Has(k - 1) => Has(k)
    BY <1>4
  <2> HIDE DEF Has, Ok
  <2>3. SUFFICES ASSUME Bad # {}
                 PROVE  FALSE
    BY DEF Has
  <2>4. Bad \in SUBSET Nat
    BY <1>1
  <2>5. PICK k \in Bad : \A m \in Bad : k <= m
    BY <2>3, <2>4, Least
  <2>6. k \in 2 .. n
    BY <2>1, <2>5, <1>1
  <2>7. k - 1 \in 1 .. n /\ k - 1 \notin Bad
    BY <2>5, <2>6, <1>1
  <2>8. QED
    BY <2>2, <2>5, <2>6, <2>7
<1>6. PICK g : Ok(g, n)
  <2>1. n \in 1 .. n
    BY <1>1
  <2> HIDE DEF Ok
  <2>2. QED
    BY <1>5, <2>1
<1> DEFINE Flattens(h) ==
             h = [i \in 1 .. n |-> IF i = 1 THEN q[i] ELSE Join(h[i - 1], q[i])]
           flat == CHOOSE h : Flattens(h)
<1>7. Flattens(g)
  <2>1. ASSUME NEW i \in 1 .. n
        PROVE  g[i] = IF i = 1 THEN q[i] ELSE Join(g[i - 1], q[i])
    <3>1. CASE i = 1
      BY <1>6, <3>1
    <3>2. CASE i # 1
      <4>1. i \in 2 .. n
        BY <1>1, <3>2
      <4>2. QED
        BY <1>6, <3>2, <4>1
    <3>3. QED
      BY <3>1, <3>2
  <2>2. g = [i \in 1 .. n |-> g[i]]
    BY <1>6
  <2>3. QED
    BY <2>1, <2>2
<1>8. Flattens(flat)
  <2> HIDE DEF Flattens
  <2>1. QED
    BY <1>7
<1>9. FlattenSeq(q) = flat[n]
  BY <1>2
<1> HIDE DEF flat
<1>10. flat[1] = q[1] /\ \A i \in 2 .. n : flat[i] = Join(flat[i - 1], q[i])
  BY <1>1, <1>8
<1>11. QED
  BY <1>9, <1>10 DEF n, Join

(* The items up to the i-th sequence. *)
ItemsUpTo(q, i) == UNION {ToSet(q[j]) : j \in 1 .. i}

(* Sequences that share no item are flattened to one without duplicates.   *)
LEMMA Flattened ==
  ASSUME NEW T, NEW q, Len(q) \in Nat \ {0},
         \A i \in 1 .. Len(q) : q[i] \in Seq(T) /\ IsInjective(q[i]),
         \A i, j \in 1 .. Len(q) : i # j => ToSet(q[i]) \cap ToSet(q[j]) = {}
  PROVE  /\ FlattenSeq(q) \in Seq(T) /\ IsInjective(FlattenSeq(q))
         /\ ToSet(FlattenSeq(q)) = ItemsUpTo(q, Len(q))
<1> DEFINE n == Len(q)
<1>1. PICK g : /\ g[1] = q[1]
               /\ \A i \in 2 .. n : g[i] = g[i - 1] \o q[i]
               /\ FlattenSeq(q) = g[n]
  BY FlattenTrace
<1> DEFINE Ok(i) == g[i] \in Seq(T) /\ IsInjective(g[i]) /\ ToSet(g[i]) = ItemsUpTo(q, i)
           Bad == {i \in 1 .. n : ~ Ok(i)}
<1>2. n \in Nat \ {0} /\ 1 \in 1 .. n /\ n \in 1 .. n
  OBVIOUS
<1> HIDE DEF n
<1>3. Ok(1)
  BY <1>1, <1>2 DEF ItemsUpTo, n
<1>4. ASSUME NEW i \in 2 .. n, Ok(i - 1)
      PROVE  Ok(i)
  <2>1. i \in 1 .. n /\ i - 1 \in 1 .. n /\ q[i] \in Seq(T) /\ IsInjective(q[i])
    BY <1>2 DEF n
  <2>2. ASSUME NEW x \in ItemsUpTo(q, i - 1) PROVE x \notin ToSet(q[i])
    <3>1. PICK j \in 1 .. i - 1 : x \in ToSet(q[j])
      BY <2>2 DEF ItemsUpTo
    <3>2. j \in 1 .. n /\ j # i
      BY <1>2, <2>1, <3>1
    <3>3. QED
      BY <2>1, <3>1, <3>2 DEF n
  <2>3. g[i] = g[i - 1] \o q[i]
    BY <1>1
  <2>4. ToSet(g[i - 1]) \cap ToSet(q[i]) = {}
    BY <1>4, <2>2
  <2>5. /\ g[i] \in Seq(T) /\ IsInjective(g[i])
        /\ ToSet(g[i]) = ToSet(g[i - 1]) \cup ToSet(q[i])
    <3> DEFINE s == g[i - 1]
               t == q[i]
               w == g[i]
    <3>1. /\ s \in Seq(T) /\ IsInjective(s) /\ t \in Seq(T) /\ IsInjective(t)
          /\ ToSet(s) \cap ToSet(t) = {} /\ Joined(w, s, t)
      BY <1>4, <2>1, <2>3, <2>4 DEF Joined
    <3> HIDE DEF s, t, w
    <3>2. w \in Seq(T) /\ IsInjective(w) /\ ToSet(w) = ToSet(s) \cup ToSet(t)
      BY <3>1, Concatenation
    <3>3. QED
      BY <3>2 DEF s, t, w
  <2>6. ItemsUpTo(q, i) = ItemsUpTo(q, i - 1) \cup ToSet(q[i])
    <3>1. 1 .. i = (1 .. i - 1) \cup {i}
      BY <1>2
    <3>2. QED
      BY <3>1 DEF ItemsUpTo
  <2>7. QED
    BY <1>4, <2>5, <2>6
<1> HIDE DEF Ok
<1>5. SUFFICES ASSUME Bad # {}
               PROVE  FALSE
  BY <1>1, <1>2 DEF Ok, n
<1>6. Bad \in SUBSET Nat
  BY <1>2
<1>7. PICK k \in Bad : \A m \in Bad : k <= m
  BY <1>5, <1>6, Least
<1>8. k \in 2 .. n /\ k - 1 \in 1 .. n /\ k - 1 \notin Bad
  BY <1>2, <1>3, <1>7
<1>9. QED
  BY <1>4, <1>7, <1>8

-----------------------------------------------------------------------------
(* The hash table.                                                         *)

Numbers == 0 .. (Buckets - 1)
Tables == [items : [Numbers -> Seq(Triples)], count : Int, collisions : Int]
Filled(s) == {h \in DOMAIN s.items : s.items[h] # <<>>}

(* A chain has the facts of its hash, each once. *)
Chained(s) ==
  \A h \in Numbers :
    IsInjective(s.items[h]) /\ \A f \in ToSet(s.items[h]) : Bucket(f) = h

(* What a table counts beyond what it holds. *)
Excess(s) == s.count - Cardinality(Items(s))

(* A table that counts what it holds, and perhaps more. *)
Accounts(s) ==
  /\ s \in Tables /\ Chained(s)
  /\ IsFiniteSet(Items(s)) /\ Excess(s) \in Nat
  /\ s.collisions = s.count - Cardinality(Filled(s))

(* Every fact has a bucket. *)
LEMMA Buckets0 == \A f \in Triples : Bucket(f) \in Numbers
BY HashAssumption DEF Bucket, Numbers

(* The items are those of the chains. *)
LEMMA ItemsInChains ==
  ASSUME NEW s, s \in Tables, Chained(s)
  PROVE  /\ Items(s) \subseteq Triples
         /\ \A f : f \in Items(s) <=> f \in Triples /\ f \in ToSet(s.items[Bucket(f)])
<1>1. DOMAIN s.items = Numbers /\ \A h \in Numbers : s.items[h] \in Seq(Triples)
  BY DEF Tables
<1>2. ASSUME NEW h \in Numbers, NEW f \in ToSet(s.items[h]) PROVE f \in Triples
  <2> DEFINE c == s.items[h]
  <2>1. c \in Seq(Triples)
    BY <1>1
  <2> HIDE DEF c
  <2>2. \A n \in DOMAIN c : c[n] \in Triples
    BY <2>1
  <2>3. QED
    BY <1>2, <2>2 DEF ToSet, c
<1>3. \A f \in Items(s) : \E h \in Numbers : f \in ToSet(s.items[h])
  BY <1>1 DEF Items
<1>4. \A h \in Numbers : ToSet(s.items[h]) \subseteq Items(s)
  BY <1>1 DEF Items
<1>5. QED
  BY <1>2, <1>3, <1>4, Buckets0 DEF Chained

(* One chain changes. *)
Changed(s, t, h, c) ==
  /\ Accounts(s) /\ t \in Tables /\ h \in Numbers /\ c \in Seq(Triples)
  /\ t.items = [s.items EXCEPT ![h] = c]
  /\ IsInjective(c) /\ \A f \in ToSet(c) : Bucket(f) = h

(* A chain that gets a new fact of its hash, or loses one, keeps the table *)
(* in order.                                                               *)
LEMMA ChainChanges ==
  ASSUME NEW s, NEW t, NEW h, NEW c, Changed(s, t, h, c)
  PROVE  /\ Chained(t)
         /\ \A d : ToSet(c) = ToSet(s.items[h]) \cup {d} => Items(t) = Items(s) \cup {d}
         /\ \A d \in ToSet(s.items[h]) :
              ToSet(c) = ToSet(s.items[h]) \ {d} => Items(t) = Items(s) \ {d}
         /\ Filled(t) = IF c = <<>> THEN Filled(s) \ {h} ELSE Filled(s) \cup {h}
<1>1. /\ s \in Tables /\ Chained(s) /\ DOMAIN s.items = Numbers
      /\ h \in Numbers /\ \A f \in ToSet(c) : Bucket(f) = h
  BY DEF Accounts, Tables, Changed
<1>2. DOMAIN t.items = Numbers /\ t.items[h] = c
      /\ \A k \in Numbers : k # h => t.items[k] = s.items[k]
  BY <1>1 DEF Changed
<1>3. Chained(t)
  BY <1>1, <1>2 DEF Chained, Changed
<1>4. Filled(t) = IF c = <<>> THEN Filled(s) \ {h} ELSE Filled(s) \cup {h}
  BY <1>1, <1>2 DEF Filled
<1>5. t \in Tables
  BY DEF Changed
<1>6. \A f : f \in Items(t) <=> f \in Triples /\ f \in ToSet(t.items[Bucket(f)])
  BY <1>3, <1>5, ItemsInChains
<1>7. \A f : f \in Items(s) <=> f \in Triples /\ f \in ToSet(s.items[Bucket(f)])
  BY <1>1, ItemsInChains
<1>8. \A f \in ToSet(c) : f \in Triples
  <2>1. \A n \in DOMAIN c : c[n] \in Triples
    BY DEF Changed
  <2>2. QED
    BY <2>1 DEF ToSet
<1>9. ASSUME NEW d, ToSet(c) = ToSet(s.items[h]) \cup {d}
      PROVE  Items(t) = Items(s) \cup {d}
  <2>1. d \in Triples /\ Bucket(d) = h
    BY <1>1, <1>8, <1>9
  <2>2. ASSUME NEW f \in Triples
        PROVE  f \in Items(t) <=> f \in Items(s) \cup {d}
    <3>1. CASE Bucket(f) = h
      BY <1>2, <1>6, <1>7, <1>9, <2>1, <3>1
    <3>2. CASE Bucket(f) # h
      BY <1>2, <1>6, <1>7, <2>1, <3>2, Buckets0
    <3>3. QED
      BY <3>1, <3>2
  <2>3. QED
    BY <1>6, <1>7, <2>1, <2>2
<1>10. ASSUME NEW d \in ToSet(s.items[h]), ToSet(c) = ToSet(s.items[h]) \ {d}
       PROVE  Items(t) = Items(s) \ {d}
  <2>1. Bucket(d) = h
    BY <1>1 DEF Chained
  <2>2. ASSUME NEW f \in Triples
        PROVE  f \in Items(t) <=> f \in Items(s) \ {d}
    <3>1. CASE Bucket(f) = h
      BY <1>2, <1>6, <1>7, <1>10, <2>1, <3>1
    <3>2. CASE Bucket(f) # h
      BY <1>2, <1>6, <1>7, <2>1, <3>2, Buckets0
    <3>3. QED
      BY <3>1, <3>2
  <2>3. QED
    BY <1>6, <1>7, <2>2
<1>11. QED
  BY <1>3, <1>4, <1>9, <1>10

Grown(s, t, h, d) ==
  Chained(t) /\ Items(t) = Items(s) \cup {d} /\ Filled(t) = Filled(s) \cup {h}

(* The first of them. *)
LEMMA ChainGrows ==
  ASSUME NEW s, NEW t, NEW h, NEW c, NEW d, Changed(s, t, h, c),
         ToSet(c) = ToSet(s.items[h]) \cup {d}, c # <<>>
  PROVE  Grown(s, t, h, d)
BY ChainChanges DEF Grown

(* compare_fact finds no difference between a fact and itself.             *)
LEMMA SameAsItself == \A f \in Triples : SameFact(f, f)
BY TriplesAssumption, OrderAssumption DEF SameFact

(* The places where the table finds a fact. *)
LEMMA Found ==
  ASSUME NEW s, s \in Tables, Chained(s), NEW d \in Triples
  PROVE  /\ d \in Items(s) => SetGet(s, d) # {}
         /\ SetGet(s, d) # {} =>
              LET c == s.items[Bucket(d)]
                  k == Min(SetGet(s, d))
              IN  k \in 1 .. Len(c) /\ Hash[c[k]] = Hash[d] /\ SameFact(c[k], d)
<1> DEFINE c == s.items[Bucket(d)]
<1>1. c \in Seq(Triples) /\ Len(c) \in Nat /\ DOMAIN c = 1 .. Len(c)
  BY Buckets0 DEF Tables
<1>2. SetGet(s, d) = {n \in 1 .. Len(c) : Hash[c[n]] = Hash[d] /\ SameFact(c[n], d)}
  BY DEF SetGet
<1>3. ASSUME d \in Items(s) PROVE SetGet(s, d) # {}
  <2>1. d \in ToSet(c)
    BY <1>3, ItemsInChains
  <2>2. PICK n \in DOMAIN c : c[n] = d
    BY <2>1 DEF ToSet
  <2>3. QED
    BY <1>1, <1>2, <2>2, SameAsItself
<1>4. ASSUME SetGet(s, d) # {}
      PROVE  Min(SetGet(s, d)) \in SetGet(s, d)
  <2>1. SetGet(s, d) \in SUBSET Nat
    BY <1>1, <1>2
  <2>2. QED
    BY <1>4, <2>1, Least
<1>5. QED
  BY <1>2, <1>3, <1>4

(* A filled table has the bucket it has just got a fact in. *)
LEMMA FilledIsFinite ==
  ASSUME NEW s, s \in Tables
  PROVE  IsFiniteSet(Filled(s)) /\ Filled(s) \subseteq Numbers /\ Cardinality(Filled(s)) \in Nat
<1>1. Filled(s) \subseteq Numbers
  BY DEF Filled, Tables
<1>2. IsFiniteSet(Numbers)
  BY HashAssumption, FS_Interval DEF Numbers
<1>3. QED
  BY <1>1, <1>2, FS_Subset, FS_CardinalityType

(* set_add__fact *)
LEMMA AddAccounts ==
  ASSUME NEW s, Accounts(s), NEW d \in Triples, SetGet(s, d) = {}
  PROVE  /\ Accounts(SetAdd(s, d))
         /\ Items(SetAdd(s, d)) = Items(s) \cup {d}
         /\ Excess(SetAdd(s, d)) = Excess(s)
<1> DEFINE h == Bucket(d)
           chain == s.items[h]
           t == SetAdd(s, d)
           c == t.items[h]
<1>1. s \in Tables /\ Chained(s) /\ DOMAIN s.items = Numbers
  BY DEF Accounts, Tables
<1>2. h \in Numbers /\ chain \in Seq(Triples) /\ Len(chain) \in Nat
  BY <1>1, Buckets0 DEF Tables
<1>3. d \notin Items(s) /\ d \notin ToSet(chain)
  BY <1>1, Found, ItemsInChains
<1>4. /\ IsInjective(chain) /\ \A f \in ToSet(chain) : Bucket(f) = h
      /\ h \in Filled(s) <=> chain # <<>>
  BY <1>1, <1>2 DEF Chained, Filled
<1>5. /\ t.count = s.count + 1 /\ t.items = [s.items EXCEPT ![h] = c]
      /\ t.collisions = IF chain = <<>> THEN s.collisions ELSE s.collisions + 1
      /\ c = IF chain = <<>> THEN <<d>> ELSE InsertAt(chain, 2, d)
      /\ t = [items |-> t.items, count |-> t.count, collisions |-> t.collisions]
  BY <1>1, <1>2 DEF SetAdd, Tables
<1>6. c \in Seq(Triples) /\ c # <<>> /\ IsInjective(c) /\ ToSet(c) = ToSet(chain) \cup {d}
  <2>1. CASE chain = <<>>
    <3>1. c = <<d>>
      BY <1>5, <2>1
    <3>2. DOMAIN c = {1} /\ c[1] = d /\ c \in Seq(Triples) /\ c # <<>>
      BY <3>1
    <3>3. ToSet(chain) = {}
      BY <2>1 DEF ToSet
    <3>4. QED
      BY <3>2, <3>3 DEF ToSet, IsInjective
  <2>2. CASE chain # <<>>
    <3>1. 2 \in 1 .. Len(chain) + 1 /\ c = InsertAt(chain, 2, d)
      BY <1>2, <1>5, <2>2
    <3> HIDE DEF c, chain
    <3>2. c \in Seq(Triples) /\ Len(c) = Len(chain) + 1
      BY <1>2, <3>1, Insertion
    <3>3. c # <<>>
      BY <1>2, <3>2
    <3>4. ToSet(c) = ToSet(chain) \cup {d} /\ IsInjective(c)
      BY <1>2, <1>3, <1>4, <3>1, InsertedItems
    <3>5. QED
      BY <3>2, <3>3, <3>4
  <2>3. QED
    BY <2>1, <2>2
<1> HIDE DEF c
<1>7. Changed(s, t, h, c)
  <2>0. \A f \in ToSet(c) : Bucket(f) = h
    BY <1>4, <1>6
  <2>1. t.items \in [Numbers -> Seq(Triples)]
    BY <1>1, <1>2, <1>5, <1>6 DEF Tables
  <2>2. t.count \in Int /\ t.collisions \in Int
    BY <1>1, <1>5 DEF Tables
  <2>3. QED
    BY <1>2, <1>5, <1>6, <2>0, <2>1, <2>2 DEF Tables, Changed
<1> HIDE DEF t, chain, h
<1>9. Chained(t) /\ Items(t) = Items(s) \cup {d} /\ Filled(t) = Filled(s) \cup {h}
  <2>1. ToSet(c) = ToSet(s.items[h]) \cup {d}
    BY <1>6 DEF chain
  <2>2. c # <<>>
    BY <1>6
  <2>3. Grown(s, t, h, d)
    BY <1>7, <2>1, <2>2, ChainGrows
  <2>4. QED
    BY <2>3 DEF Grown
<1>10. IsFiniteSet(Items(t)) /\ Cardinality(Items(t)) = Cardinality(Items(s)) + 1
  BY <1>3, <1>9, FS_AddElement DEF Accounts
<1>11. /\ Cardinality(Filled(t)) = Cardinality(Filled(s)) + IF chain = <<>> THEN 1 ELSE 0
       /\ Cardinality(Filled(s)) \in Nat
  <2>1. IsFiniteSet(Filled(s)) /\ Cardinality(Filled(s)) \in Nat
    BY <1>1, FilledIsFinite
  <2>2. Cardinality(Filled(t)) = IF h \in Filled(s) THEN Cardinality(Filled(s))
                                 ELSE Cardinality(Filled(s)) + 1
    BY <1>9, <2>1, FS_AddElement
  <2>3. QED
    BY <1>4, <2>1, <2>2 DEF chain, h
<1>12. Excess(t) = Excess(s) /\ t.count \in Int /\ s.count \in Int /\ s.collisions \in Int
  <2>1. s.count \in Int /\ s.collisions \in Int
    BY <1>1 DEF Tables
  <2>2. Cardinality(Items(s)) \in Nat
    BY FS_CardinalityType DEF Accounts
  <2>3. QED
    BY <1>5, <1>10, <2>1, <2>2 DEF Excess
<1>13. t.collisions = t.count - Cardinality(Filled(t))
  BY <1>5, <1>11, <1>12 DEF Accounts
<1>14. QED
  BY <1>5, <1>7, <1>9, <1>10, <1>12, <1>13 DEF Accounts, Changed, t

(* set_remove__fact *)
LEMMA RemoveAccounts ==
  ASSUME NEW s, Accounts(s), NEW d \in Triples, SetGet(s, d) # {}
  PROVE  /\ Accounts(SetRemove(s, d))
         /\ Excess(SetRemove(s, d)) = Excess(s)
         /\ \E e \in Items(s) : /\ Items(SetRemove(s, d)) = Items(s) \ {e}
                                /\ SameFact(e, d)
<1> DEFINE h == Bucket(d)
           chain == s.items[h]
           k == Min(SetGet(s, d))
           e == chain[k]
           t == SetRemove(s, d)
           c == t.items[h]
<1>1. s \in Tables /\ Chained(s) /\ DOMAIN s.items = Numbers
  BY DEF Accounts, Tables
<1>2. h \in Numbers /\ chain \in Seq(Triples) /\ Len(chain) \in Nat
  BY <1>1, Buckets0 DEF Tables
<1>3. k \in 1 .. Len(chain) /\ SameFact(e, d)
  BY <1>1, Found
<1>4. /\ IsInjective(chain) /\ \A f \in ToSet(chain) : Bucket(f) = h
      /\ h \in Filled(s) <=> chain # <<>>
  BY <1>1, <1>2 DEF Chained, Filled
<1>5. /\ t.count = s.count - 1 /\ t.items = [s.items EXCEPT ![h] = c]
      /\ t.collisions = IF c = <<>> THEN s.collisions ELSE s.collisions - 1
      /\ c = RemoveAt(chain, k)
      /\ t = [items |-> t.items, count |-> t.count, collisions |-> t.collisions]
  BY <1>1, <1>2 DEF SetRemove, Tables
<1> HIDE DEF c, chain, k
<1>6. c \in Seq(Triples) /\ IsInjective(c) /\ ToSet(c) = ToSet(chain) \ {e}
  BY <1>2, <1>3, <1>4, <1>5, Removal, RemovedItems
<1>7. e \in ToSet(chain) /\ chain # <<>>
  <2>1. k \in DOMAIN chain
    BY <1>2, <1>3
  <2>2. QED
    BY <1>2, <1>3, <2>1 DEF ToSet
<1>8. Changed(s, t, h, c)
  <2>0. \A f \in ToSet(c) : Bucket(f) = h
    BY <1>4, <1>6
  <2>1. t.items \in [Numbers -> Seq(Triples)]
    BY <1>1, <1>2, <1>5, <1>6 DEF Tables
  <2>2. t.count \in Int /\ t.collisions \in Int
    BY <1>1, <1>5 DEF Tables
  <2>3. QED
    BY <1>2, <1>5, <1>6, <2>0, <2>1, <2>2 DEF Tables, Changed
<1> HIDE DEF t, h, e
<1>10. /\ Chained(t) /\ Items(t) = Items(s) \ {e}
       /\ Filled(t) = IF c = <<>> THEN Filled(s) \ {h} ELSE Filled(s) \cup {h}
  <2>2. /\ Chained(t)
        /\ \A x : ToSet(c) = ToSet(s.items[h]) \cup {x} => Items(t) = Items(s) \cup {x}
        /\ \A x \in ToSet(s.items[h]) :
             ToSet(c) = ToSet(s.items[h]) \ {x} => Items(t) = Items(s) \ {x}
        /\ Filled(t) = IF c = <<>> THEN Filled(s) \ {h} ELSE Filled(s) \cup {h}
    BY <1>8, ChainChanges
  <2>3. QED
    BY <1>6, <1>7, <2>2 DEF chain
<1>11. e \in Items(s)
  <2>1. e \in Triples /\ Bucket(e) = h
    <3>1. \A n \in DOMAIN chain : chain[n] \in Triples
      BY <1>2
    <3>2. QED
      BY <1>4, <1>7, <3>1 DEF ToSet
  <2>2. QED
    BY <1>1, <1>7, <2>1, ItemsInChains DEF chain
<1>12. IsFiniteSet(Items(t)) /\ Cardinality(Items(t)) = Cardinality(Items(s)) - 1
  BY <1>10, <1>11, FS_RemoveElement DEF Accounts
<1>13. /\ Cardinality(Filled(t)) = Cardinality(Filled(s)) - IF c = <<>> THEN 1 ELSE 0
       /\ Cardinality(Filled(s)) \in Nat
  <2>1. Filled(s) \cup {h} = Filled(s) /\ h \in Filled(s)
    BY <1>4, <1>7
  <2>2. IsFiniteSet(Filled(s)) /\ Cardinality(Filled(s)) \in Nat
    BY <1>1, FilledIsFinite
  <2>3. CASE c = <<>>
    BY <1>10, <2>1, <2>2, <2>3, FS_RemoveElement
  <2>4. CASE c # <<>>
    <3>1. Filled(t) = Filled(s)
      BY <1>10, <2>1, <2>4
    <3>2. QED
      BY <2>2, <2>4, <3>1
  <2>5. QED
    BY <2>3, <2>4
<1>14. Excess(t) = Excess(s) /\ t.count \in Int /\ s.count \in Int /\ s.collisions \in Int
  <2>1. s.count \in Int /\ s.collisions \in Int
    BY <1>1 DEF Tables
  <2>2. Cardinality(Items(s)) \in Nat
    BY FS_CardinalityType DEF Accounts
  <2>3. QED
    BY <1>5, <1>12, <2>1, <2>2 DEF Excess
<1>15. t.collisions = t.count - Cardinality(Filled(t))
  BY <1>5, <1>13, <1>14 DEF Accounts
<1>16. Accounts(t)
  BY <1>8, <1>10, <1>12, <1>14, <1>15 DEF Accounts, Changed
<1>17. QED
  BY <1>3, <1>10, <1>11, <1>14, <1>16 DEF t, e

(* set_add_collision__fact without memory for the item.                    *)
LEMMA CutAccounts ==
  ASSUME NEW s, Accounts(s), NEW d \in Triples, SetGet(s, d) = {}
  PROVE  /\ Accounts(SetAddFails(s, d))
         /\ Items(SetAddFails(s, d)) \subseteq Items(s)
         /\ Excess(SetAddFails(s, d)) = Excess(s) + Len(s.items[Bucket(d)])
         /\ s.items[Bucket(d)] = <<>> => SetAddFails(s, d) = s
         /\ Len(s.items[Bucket(d)]) \in Nat
<1> DEFINE h == Bucket(d)
           chain == s.items[h]
           c == <<chain[1]>>
           t == SetAddFails(s, d)
           off == ToSet(chain) \ {chain[1]}
<1>1. s \in Tables /\ Chained(s) /\ DOMAIN s.items = Numbers
  BY DEF Accounts, Tables
<1>2. h \in Numbers /\ chain \in Seq(Triples) /\ Len(chain) \in Nat
  BY <1>1, Buckets0 DEF Tables
<1>3. CASE chain = <<>>
  <2>1. t = s /\ Len(chain) = 0
    BY <1>3 DEF SetAddFails
  <2>2. Excess(s) = Excess(s) + Len(chain)
    BY <2>1 DEF Accounts
  <2>3. QED
    BY <1>2, <2>1, <2>2
<1>4. CASE chain # <<>>
  <2>1. IsInjective(chain) /\ \A f \in ToSet(chain) : Bucket(f) = h
    BY <1>1, <1>2 DEF Chained
  <2>2. /\ t.count = s.count + 1 /\ t.items = [s.items EXCEPT ![h] = c]
        /\ t.collisions = s.collisions + 1
        /\ t = [items |-> t.items, count |-> t.count, collisions |-> t.collisions]
    BY <1>1, <1>2, <1>4 DEF SetAddFails, Tables
  <2>3. 1 \in DOMAIN chain /\ chain[1] \in Triples /\ chain[1] \in ToSet(chain)
    BY <1>2, <1>4 DEF ToSet
  <2> HIDE DEF chain
  <2>4. DOMAIN c = {1} /\ c[1] = chain[1] /\ c \in Seq(Triples) /\ c # <<>>
    BY <2>3
  <2>5. ToSet(c) = {chain[1]} /\ IsInjective(c)
    BY <2>4 DEF ToSet, IsInjective
  <2> HIDE DEF c
  <2>6. Changed(s, t, h, c)
    <3>1. \A f \in ToSet(c) : Bucket(f) = h
      BY <2>1, <2>3, <2>5
    <3>2. t.items \in [Numbers -> Seq(Triples)]
      BY <1>1, <1>2, <2>2, <2>4 DEF Tables
    <3>3. t.count \in Int /\ t.collisions \in Int
      BY <1>1, <2>2 DEF Tables
    <3>4. QED
      BY <1>2, <2>2, <2>4, <2>5, <3>1, <3>2, <3>3, <1>1 DEF Tables, Changed
  <2> HIDE DEF t, h
  <2>7. /\ Chained(t) /\ t \in Tables
        /\ Filled(t) = Filled(s)
    <3>1. h \in Filled(s)
      BY <1>1, <1>2, <1>4 DEF Filled, chain
    <3>2. Chained(t) /\ Filled(t) = Filled(s) \cup {h}
      BY <2>4, <2>6, ChainChanges
    <3>3. QED
      BY <2>6, <3>1, <3>2 DEF Changed
  <2>8. Items(t) = Items(s) \ off
    <3>1. \A f : f \in Items(t) <=> f \in Triples /\ f \in ToSet(t.items[Bucket(f)])
      BY <2>7, ItemsInChains
    <3>2. \A f : f \in Items(s) <=> f \in Triples /\ f \in ToSet(s.items[Bucket(f)])
      BY <1>1, ItemsInChains
    <3>3. \A f \in Triples : Bucket(f) \in Numbers
      BY Buckets0
    <3>4. \A f \in Triples : Bucket(f) # h => t.items[Bucket(f)] = s.items[Bucket(f)]
      BY <1>1, <2>2, <3>3
    <3>5. t.items[h] = c
      BY <1>1, <1>2, <2>2
    <3>6. \A f \in ToSet(chain) : Bucket(f) = h
      BY <2>1
    <3>7. QED
      BY <2>3, <2>5, <3>1, <3>2, <3>4, <3>5, <3>6 DEF chain
  <2>9. /\ IsFiniteSet(Items(t))
        /\ Cardinality(Items(t)) = Cardinality(Items(s)) - (Len(chain) - 1)
    <3>1. chain \in Bijection(1 .. Len(chain), ToSet(chain))
      <4>1. chain \in [1 .. Len(chain) -> ToSet(chain)] /\ DOMAIN chain = 1 .. Len(chain)
        BY <1>2 DEF ToSet, chain
      <4>2. \A x \in ToSet(chain) : \E n \in 1 .. Len(chain) : chain[n] = x
        BY <4>1 DEF ToSet
      <4>3. QED
        BY <2>1, <4>1, <4>2 DEF Bijection, Injection, Surjection, chain
    <3>2. Cardinality(ToSet(chain)) = Len(chain)
      BY <1>2, <3>1, FS_CountingElements DEF ExistsBijection, chain
    <3>3. \A f \in ToSet(chain) : f \in Items(s)
      BY <1>1, <1>2 DEF Items, chain
    <3>4. IsFiniteSet(Items(s)) /\ IsFiniteSet(ToSet(chain))
      BY <3>3, FS_Subset DEF Accounts
    <3>5. IsFiniteSet(off) /\ Cardinality(off) = Len(chain) - 1
      BY <2>3, <3>2, <3>4, FS_RemoveElement
    <3>6. Items(s) \cap off = off
      BY <3>3
    <3> HIDE DEF off
    <3>7. /\ IsFiniteSet(Items(s) \ off)
          /\ Cardinality(Items(s) \ off) = Cardinality(Items(s)) - Cardinality(off)
      BY <3>4, <3>6, FS_Difference
    <3>8. QED
      BY <2>8, <3>5, <3>7
  <2>10. Excess(t) = Excess(s) + Len(chain) /\ Excess(t) \in Nat
    <3>1. s.count \in Int /\ Cardinality(Items(s)) \in Nat /\ Excess(s) \in Nat
      BY <1>1, FS_CardinalityType DEF Accounts, Tables
    <3>2. Len(chain) \in Nat
      BY <1>2 DEF chain
    <3>3. QED
      BY <2>2, <2>9, <3>1, <3>2 DEF Excess
  <2>11. t.collisions = t.count - Cardinality(Filled(t))
    <3>1. s.count \in Int /\ Cardinality(Filled(s)) \in Nat
      BY <1>1, FilledIsFinite DEF Tables
    <3>2. s.collisions = s.count - Cardinality(Filled(s))
      BY DEF Accounts
    <3>3. QED
      BY <2>2, <2>7, <3>1, <3>2
  <2>12. Accounts(t)
    BY <2>7, <2>9, <2>10, <2>11 DEF Accounts
  <2>13. QED
    BY <1>2, <1>4, <2>8, <2>10, <2>12 DEF t, chain, h
<1>5. QED
  BY <1>3, <1>4

(* set_cursor__fact lists every fact of the table, each once.              *)
LEMMA ListingOfAll ==
  ASSUME NEW s, Accounts(s)
  PROVE  Listing(s) \in Seq(Triples) /\ IsInjective(Listing(s)) /\ ToSet(Listing(s)) = Items(s)
<1> DEFINE q == [h \in 1 .. Buckets |-> s.items[h - 1]]
           w == FlattenSeq(q)
<1>1. s \in Tables /\ Chained(s) /\ DOMAIN s.items = Numbers
  BY DEF Accounts, Tables
<1>2. Len(q) = Buckets /\ Buckets \in Nat \ {0}
  BY HashAssumption
<1>3. ASSUME NEW i \in 1 .. Len(q)
      PROVE  /\ i - 1 \in Numbers /\ q[i] = s.items[i - 1]
             /\ q[i] \in Seq(Triples) /\ IsInjective(q[i])
             /\ \A f \in ToSet(q[i]) : Bucket(f) = i - 1
  <2>1. i - 1 \in Numbers /\ q[i] = s.items[i - 1]
    BY <1>2, <1>3 DEF Numbers
  <2>2. QED
    BY <1>1, <2>1 DEF Tables, Chained
<1> HIDE DEF q
<1>4. ASSUME NEW i \in 1 .. Len(q), NEW j \in 1 .. Len(q), i # j
      PROVE  ToSet(q[i]) \cap ToSet(q[j]) = {}
  <2>1. i - 1 # j - 1
    BY <1>2, <1>4
  <2>2. QED
    BY <1>3, <2>1
<1>5. w \in Seq(Triples) /\ IsInjective(w) /\ ToSet(w) = ItemsUpTo(q, Len(q))
  <2>1. /\ Len(q) \in Nat \ {0}
        /\ \A i \in 1 .. Len(q) : q[i] \in Seq(Triples) /\ IsInjective(q[i])
        /\ \A i, j \in 1 .. Len(q) : i # j => ToSet(q[i]) \cap ToSet(q[j]) = {}
    BY <1>2, <1>3, <1>4
  <2>2. QED
    BY <2>1, Flattened
<1>6. ToSet(w) = Items(s)
  <2>1. \A f \in ToSet(w) : f \in Items(s)
    BY <1>1, <1>3, <1>5 DEF ItemsUpTo, Items
  <2>2. ASSUME NEW f \in Items(s) PROVE f \in ToSet(w)
    <3>1. PICK h \in Numbers : f \in ToSet(s.items[h])
      BY <1>1 DEF Items
    <3>2. h + 1 \in 1 .. Len(q) /\ (h + 1) - 1 = h
      BY <1>2 DEF Numbers
    <3>3. f \in ToSet(q[h + 1])
      BY <1>3, <3>1, <3>2
    <3>4. QED
      BY <1>5, <3>2, <3>3 DEF ItemsUpTo
  <2>3. QED
    BY <2>1, <2>2
<1>7. Listing(s) = SubSeq(w, 1, IF s.count < Len(w) THEN s.count ELSE Len(w))
  BY DEF Listing, q
<1> HIDE DEF w
<1>8. ~ (s.count < Len(w)) /\ Len(w) \in Nat
  <2>1. Len(w) \in Nat /\ DOMAIN w = 1 .. Len(w)
    BY <1>5
  <2>2. w \in Bijection(1 .. Len(w), ToSet(w))
    <3>1. w \in [1 .. Len(w) -> ToSet(w)]
      BY <1>5, <2>1 DEF ToSet
    <3>2. \A x \in ToSet(w) : \E n \in 1 .. Len(w) : w[n] = x
      BY <2>1 DEF ToSet
    <3>3. QED
      BY <1>5, <3>1, <3>2 DEF Bijection, Injection, Surjection
  <2>3. Cardinality(ToSet(w)) = Len(w)
    BY <2>1, <2>2, FS_CountingElements DEF ExistsBijection
  <2>4. s.count \in Int /\ s.count - Len(w) \in Nat
    BY <1>1, <1>6, <2>3 DEF Accounts, Tables, Excess
  <2>5. QED
    BY <2>1, <2>4
<1>9. Listing(s) = w
  <2>1. Listing(s) = SubSeq(w, 1, Len(w))
    BY <1>7, <1>8
  <2>2. QED
    BY <1>5, <2>1, SubSeqFull
<1>10. QED
  BY <1>5, <1>6, <1>9

-----------------------------------------------------------------------------
(* Terms and patterns.                                                     *)

Terms == AllTags \cup {Var(x) : x \in Vars}

NamesOnce(p) == \A m, n \in Positions : IsVar(p[m]) /\ p[m] = p[n] => m = n

Patterns == {p \in [Positions -> Terms] : NamesOnce(p)}

(* A term is a tag or a variable, not both. *)
LEMMA TermFacts ==
  /\ \A t \in AllTags : ~IsVar(t) /\ t # Unbound
  /\ \A t \in Terms : IsVar(t) => t.name \in Vars /\ t = Var(t.name)
  /\ \A t \in Terms : ~IsVar(t) => t \in AllTags
  /\ \A x \in Vars : IsVar(Var(x)) /\ Var(x).name = x /\ Var(x) \in Terms
<1>1. \A x : IsVar(Var(x)) /\ Var(x).name = x
  BY DEF IsVar, Var
<1>2. \A t \in AllTags : ~IsVar(t) /\ t # Unbound
  BY TagsAssumption
<1>3. ASSUME NEW t \in Terms
      PROVE  t \in AllTags \/ \E x \in Vars : t = Var(x)
  BY DEF Terms
<1>4. QED
  BY <1>1, <1>2, <1>3 DEF Terms

(* A query is a sequence of patterns. *)
LEMMA SpecFacts ==
  ASSUME NEW q \in Specs
  PROVE  q \in Seq(Patterns) /\ Len(q) \in Nat \ {0}
<1>1. /\ q \in Seq([Positions -> Terms]) /\ q # <<>>
      /\ \A l \in 1 .. Len(q) : NamesOnce(q[l])
  BY SpecsAssumption DEF Terms, NamesOnce
<1>2. \A l \in 1 .. Len(q) : q[l] \in Patterns
  BY <1>1 DEF Patterns
<1>3. Len(q) \in Nat /\ q = [l \in 1 .. Len(q) |-> q[l]] /\ Len(q) # 0
  BY <1>1
<1>4. q \in [1 .. Len(q) -> Patterns]
  BY <1>2, <1>3
<1>5. QED
  BY <1>3, <1>4, SeqDef

(* The variables of a pattern, each at its one position. *)
LEMMA PlaceFacts ==
  ASSUME NEW p \in Patterns
  PROVE  /\ VarsOf(p) \subseteq Vars
         /\ \A n \in Positions : IsVar(p[n]) =>
              p[n].name \in VarsOf(p) /\ p[n] = Var(p[n].name) /\ Place(p, p[n].name) = n
         /\ \A x \in VarsOf(p) : Place(p, x) \in Positions /\ p[Place(p, x)] = Var(x)
<1>1. p \in [Positions -> Terms] /\ NamesOnce(p)
  BY DEF Patterns
<1>2. ASSUME NEW n \in Positions, IsVar(p[n])
      PROVE  p[n].name \in VarsOf(p) /\ p[n] = Var(p[n].name) /\ Place(p, p[n].name) = n
  <2>1. p[n].name \in VarsOf(p) /\ p[n] = Var(p[n].name)
    BY <1>1, <1>2, TermFacts DEF VarsOf
  <2>2. {m \in Positions : p[m] = Var(p[n].name)} = {n}
    BY <1>1, <1>2, <2>1 DEF NamesOnce
  <2>3. n \in Int
    BY DEF Positions
  <2>4. Max({n}) = n
    BY <2>3 DEF Max
  <2>5. QED
    BY <2>1, <2>2, <2>4 DEF Place
<1>3. ASSUME NEW x \in VarsOf(p)
      PROVE  \E n \in Positions : IsVar(p[n]) /\ p[n].name = x
  BY DEF VarsOf
<1>4. QED
  BY <1>1, <1>2, <1>3, TermFacts

(* A pattern stays one when its bound variables get their values. *)
LEMMA ExpandType ==
  ASSUME NEW p \in Patterns, bound \in [Vars -> AllTags \cup {Unbound}]
  PROVE  Expand(p) \in Patterns
<1>1. p \in [Positions -> Terms] /\ NamesOnce(p)
  BY DEF Patterns
<1>2. ASSUME NEW n \in Positions
      PROVE  /\ Expand(p)[n] \in Terms
             /\ IsVar(Expand(p)[n]) => Expand(p)[n] = p[n]
  <2>1. CASE IsVar(p[n]) /\ bound[p[n].name] # Unbound
    <3>1. Expand(p)[n] = bound[p[n].name] /\ bound[p[n].name] \in AllTags
      BY <1>1, <2>1, TermFacts DEF Expand
    <3>2. QED
      BY <3>1, TermFacts DEF Terms
  <2>2. CASE ~ (IsVar(p[n]) /\ bound[p[n].name] # Unbound)
    BY <1>1, <2>2 DEF Expand
  <2>3. QED
    BY <2>1, <2>2
<1>3. NamesOnce(Expand(p))
  <2>1. SUFFICES ASSUME NEW m \in Positions, NEW n \in Positions,
                        IsVar(Expand(p)[m]), Expand(p)[m] = Expand(p)[n]
                 PROVE  m = n
    BY DEF NamesOnce
  <2>2. p[m] = p[n] /\ IsVar(p[m])
    BY <1>2, <2>1
  <2>3. QED
    BY <1>1, <2>2 DEF NamesOnce
<1>4. Expand(p) \in [Positions -> Terms]
  BY <1>2 DEF Expand
<1>5. QED
  BY <1>3, <1>4 DEF Patterns

-----------------------------------------------------------------------------
(* The table and the indexes together.                                     *)

Stores == [set : Tables, index : [Indexes -> Seq(Triples)]]

Kept(s) == s \in Stores /\ Accounts(s.set)

(* A walk of an index ends in it. *)
LEMMA PredBounds ==
  ASSUME NEW i, NEW q, Len(q) \in Nat, NEW f
  PROVE  /\ Pred(i, q, f) \in 0 .. Len(q)
         /\ \A n \in 1 .. Pred(i, q, f) : CompareFacts(i, f, q[n]) = Greater
         /\ Pred(i, q, f) < Len(q) => CompareFacts(i, f, q[Pred(i, q, f) + 1]) # Greater
<1> DEFINE stops == {n \in 1 .. Len(q) : CompareFacts(i, f, q[n]) # Greater}
<1>1. Pred(i, q, f) = IF stops = {} THEN Len(q) ELSE Min(stops) - 1
  BY DEF Pred
<1>2. stops \in SUBSET Nat /\ \A n \in stops : n \in 1 .. Len(q)
  OBVIOUS
<1>3. \A n \in 1 .. Len(q) : n \in stops <=> CompareFacts(i, f, q[n]) # Greater
  OBVIOUS
<1> HIDE DEF stops
<1>4. CASE stops = {}
  BY <1>1, <1>3, <1>4
<1>5. CASE stops # {}
  <2>1. Min(stops) \in stops /\ \A m \in stops : Min(stops) <= m
    BY <1>2, <1>5, Least
  <2> DEFINE k == Min(stops)
  <2>2. k \in stops /\ k \in 1 .. Len(q) /\ Pred(i, q, f) = k - 1 /\ \A m \in stops : k <= m
    BY <1>1, <1>2, <1>5, <2>1
  <2> HIDE DEF k
  <2>3. ASSUME NEW n \in 1 .. Pred(i, q, f)
        PROVE  CompareFacts(i, f, q[n]) = Greater
    <3>1. n \in 1 .. Len(q) /\ ~ (k <= n)
      BY <2>2
    <3>2. QED
      BY <1>3, <2>2, <3>1
  <2>4. QED
    BY <1>3, <2>2, <2>3
<1>6. QED
  BY <1>4, <1>5

(* facts_remove_fact_internal *)
LEMMA RemovedKept ==
  ASSUME NEW s, Kept(s), NEW f \in Triples, Removable(s, f)
  PROVE  Kept(Removed(s, f)) /\ Excess(Removed(s, f).set) = Excess(s.set)
<1>1. Accounts(SetRemove(s.set, f)) /\ Excess(SetRemove(s.set, f)) = Excess(s.set)
  BY RemoveAccounts DEF Kept, Removable
<1>2. SetRemove(s.set, f) \in Tables
  BY <1>1 DEF Accounts
<1>3. ASSUME NEW i \in Indexes
      PROVE  RemoveAt(s.index[i], Pred(i, s.index[i], f) + 1) \in Seq(Triples)
  <2> DEFINE q == s.index[i]
             k == Pred(i, q, f) + 1
  <2>1. q \in Seq(Triples) /\ Len(q) \in Nat
    BY DEF Kept, Stores
  <2>2. k \in 1 .. Len(q)
    BY <2>1, PredBounds DEF Removable, HasNode
  <2> HIDE DEF q, k
  <2>3. RemoveAt(q, k) \in Seq(Triples)
    BY <2>1, <2>2, Removal
  <2>4. QED
    BY <2>3 DEF q, k
<1>4. /\ Removed(s, f).set = SetRemove(s.set, f)
      /\ Removed(s, f).index = [i \in Indexes |-> RemoveAt(s.index[i], Pred(i, s.index[i], f) + 1)]
      /\ Removed(s, f) = [set |-> Removed(s, f).set, index |-> Removed(s, f).index]
  BY DEF Removed
<1>5. Removed(s, f) \in Stores
  BY <1>2, <1>3, <1>4 DEF Stores
<1>6. QED
  BY <1>1, <1>4, <1>5 DEF Kept

(* The stores that facts_remove_all goes through. *)
LEMMA RemoveAllTrace ==
  ASSUME RemoveAll, Listing(set) \in Seq(Triples)
  PROVE  \E g : LET q == Listing(set) IN
           /\ g[0] = Stored
           /\ \A n \in 1 .. Len(q) : /\ Removable(g[n - 1], q[n])
                                     /\ g[n] = Removed(g[n - 1], q[n])
           /\ set' = g[Len(q)].set /\ index' = g[Len(q)].index
<1> DEFINE q == Listing(set)
           L == Len(q)
           Ok(g, k) == /\ g = [n \in 0 .. k |-> g[n]]
                       /\ g[0] = Stored
                       /\ \A n \in 1 .. k : g[n] = Removed(g[n - 1], q[n])
           Leaves(h) ==
             h = [n \in 0 .. L |-> IF n = 0 THEN Stored ELSE Removed(h[n - 1], q[n])]
           left == CHOOSE h : Leaves(h)
<1>1. L \in Nat
  OBVIOUS
<1>2. /\ \A n \in 1 .. L : Removable(left[n - 1], q[n])
      /\ set' = left[L].set /\ index' = left[L].index
  BY DEF RemoveAll
<1> HIDE DEF q, L
<1>3. Ok([n \in 0 .. 0 |-> Stored], 0)
  OBVIOUS
<1>4. ASSUME NEW k \in 1 .. L, NEW g, Ok(g, k - 1)
      PROVE  \E h : Ok(h, k)
  <2> DEFINE h == [n \in 0 .. k |-> IF n = k THEN Removed(g[k - 1], q[k]) ELSE g[n]]
  <2>1. h = [n \in 0 .. k |-> h[n]] /\ h[0] = Stored
    BY <1>1, <1>4
  <2>2. ASSUME NEW n \in 1 .. k
        PROVE  h[n] = Removed(h[n - 1], q[n])
    <3>1. h[n - 1] = g[n - 1]
      BY <1>1
    <3>2. CASE n = k
      BY <3>1, <3>2, <1>1
    <3>3. CASE n # k
      <4>1. n \in 1 .. k - 1 /\ h[n] = g[n]
        BY <3>3, <1>1
      <4>2. QED
        BY <4>1, <3>1, <1>4
    <3>4. QED
      BY <3>2, <3>3
  <2>3. QED
    BY <2>1, <2>2
<1>5. \A k \in 0 .. L : \E g : Ok(g, k)
  <2> DEFINE Has(k) == \E g : Ok(g, k)
             Bad == {k \in 0 .. L : ~ Has(k)}
  <2>1. Has(0)
    BY <1>3
  <2>2. \A k \in 1 .. L : Has(k - 1) => Has(k)
    BY <1>4
  <2> HIDE DEF Has, Ok
  <2>3. SUFFICES ASSUME Bad # {}
                 PROVE  FALSE
    BY DEF Has
  <2>4. Bad \in SUBSET Nat
    BY <1>1
  <2>5. PICK k \in Bad : \A m \in Bad : k <= m
    BY <2>3, <2>4, Least
  <2>6. k \in 1 .. L
    BY <2>1, <2>5, <1>1
  <2>7. k - 1 \in 0 .. L /\ k - 1 \notin Bad
    BY <2>5, <2>6, <1>1
  <2>8. QED
    BY <2>2, <2>5, <2>6, <2>7
<1>6. PICK g : Ok(g, L)
  <2>1. L \in 0 .. L
    BY <1>1
  <2> HIDE DEF Ok
  <2>2. QED
    BY <1>5, <2>1
<1>7. Leaves(g)
  <2>1. ASSUME NEW n \in 0 .. L
        PROVE  g[n] = IF n = 0 THEN Stored ELSE Removed(g[n - 1], q[n])
    <3>1. CASE n = 0
      BY <1>6, <3>1
    <3>2. CASE n # 0
      <4>1. n \in 1 .. L
        BY <1>1, <3>2
      <4>2. QED
        BY <1>6, <3>2, <4>1
    <3>3. QED
      BY <3>1, <3>2
  <2>2. g = [n \in 0 .. L |-> g[n]]
    BY <1>6
  <2>3. QED
    BY <2>1, <2>2
<1>8. Leaves(left)
  <2> HIDE DEF Leaves
  <2>1. QED
    BY <1>7
<1> HIDE DEF left
<1>9. left[0] = Stored /\ \A n \in 1 .. L : left[n] = Removed(left[n - 1], q[n])
  BY <1>1, <1>8
<1>10. QED
  BY <1>2, <1>9 DEF q, L

(* What a removal keeps, facts_remove_all keeps. *)
LEMMA RemoveAllKeeps ==
  ASSUME NEW Good, Stored \in Good, RemoveAll, Listing(set) \in Seq(Triples),
         \A s \in Good : \A f \in Triples : Removable(s, f) => Removed(s, f) \in Good
  PROVE  \E s \in Good : set' = s.set /\ index' = s.index
<1> DEFINE q == Listing(set)
           L == Len(q)
<1>1. PICK g : /\ g[0] = Stored
               /\ \A n \in 1 .. L : /\ Removable(g[n - 1], q[n])
                                    /\ g[n] = Removed(g[n - 1], q[n])
               /\ set' = g[L].set /\ index' = g[L].index
  BY RemoveAllTrace
<1>2. L \in Nat /\ \A n \in 1 .. L : q[n] \in Triples
  OBVIOUS
<1> HIDE DEF q, L
<1> DEFINE Bad == {n \in 0 .. L : g[n] \notin Good}
<1>3. SUFFICES ASSUME Bad # {}
               PROVE  FALSE
  BY <1>1, <1>2
<1>4. Bad \in SUBSET Nat
  BY <1>2
<1>5. PICK k \in Bad : \A m \in Bad : k <= m
  BY <1>3, <1>4, Least
<1>6. k \in 1 .. L /\ k - 1 \in 0 .. L /\ k - 1 \notin Bad
  BY <1>1, <1>2, <1>5
<1>7. QED
  BY <1>1, <1>2, <1>5, <1>6

-----------------------------------------------------------------------------
(* Types, and which variables may be bound.                                *)

Cursors == [index : Indexes, pattern : Patterns, node : Nat]
Bindings == [Vars -> AllTags \cup {Unbound}]

QueryTypes ==
  /\ Kept(Stored)
  /\ missing = Excess(set)
  /\ spec \in Specs \cup {<<>>}
  /\ levels \in Seq(Cursors)
  /\ bound \in Bindings
  /\ answers \in Seq(Bindings)

(* Where a query is, and how many cursors it has there. *)
Phases ==
  /\ at \in {"idle", "open", "next", "answer", "done"}
  /\ at \in {"idle", "done"} => levels = <<>>
  /\ at \in {"next", "answer"} => levels # <<>>
  /\ at = "idle" => spec = <<>> /\ answers = <<>>
  /\ at # "idle" => spec \in Specs /\ Len(levels) <= Len(spec)
  /\ at = "open" => Len(levels) < Len(spec)
  /\ at = "answer" => Len(levels) = Len(spec)

(* A variable is bound by one of the cursors only. *)
BoundByLevels ==
  \A x \in Vars : bound[x] # Unbound =>
                    \E l \in 1 .. Len(levels) : x \in VarsOf(levels[l].pattern)

QueryInv == QueryTypes /\ Phases /\ BoundByLevels

(* A database starts empty. *)
LEMMA EmptyAccounts ==
  Accounts(EmptySet) /\ Items(EmptySet) = {} /\ Excess(EmptySet) = 0
<1> DEFINE s == EmptySet
<1>1. /\ s.items = [h \in Numbers |-> <<>>] /\ s.count = 0 /\ s.collisions = 0
      /\ s = [items |-> s.items, count |-> s.count, collisions |-> s.collisions]
  BY DEF EmptySet, Numbers
<1> HIDE DEF s
<1>2. s.items \in [Numbers -> Seq(Triples)]
  BY <1>1
<1>3. s \in Tables
  <2> DEFINE c == s.items
  <2>1. s = [items |-> c, count |-> 0, collisions |-> 0] /\ c \in [Numbers -> Seq(Triples)]
    BY <1>1, <1>2
  <2> HIDE DEF c
  <2>2. QED
    BY <2>1 DEF Tables
<1>4. \A h \in Numbers : s.items[h] = <<>>
  BY <1>1
<1>5. Items(s) = {} /\ Filled(s) = {} /\ Chained(s)
  <2>1. ToSet(<<>>) = {} /\ IsInjective(<<>>)
    BY DEF ToSet, IsInjective
  <2>2. DOMAIN s.items = Numbers
    BY <1>1
  <2>3. QED
    BY <1>4, <2>1, <2>2 DEF Items, Filled, Chained
<1>6. IsFiniteSet({}) /\ Cardinality({}) = 0
  BY FS_EmptySet
<1>7. QED
  BY <1>1, <1>3, <1>5, <1>6 DEF Accounts, Excess, s

(* The first state. *)
LEMMA QueryInvStarts == Init => QueryInv
<1>1. SUFFICES ASSUME Init PROVE QueryInv
  OBVIOUS
<1>2. Kept(Stored)
  <2>1. /\ Stored.set = EmptySet /\ Stored.index = [i \in Indexes |-> <<>>]
        /\ Stored = [set |-> Stored.set, index |-> Stored.index]
    BY <1>1 DEF Init, Stored
  <2>2. Accounts(Stored.set) /\ Stored.set \in Tables
    BY <2>1, EmptyAccounts DEF Accounts
  <2>3. Stored.index \in [Indexes -> Seq(Triples)]
    BY <2>1
  <2>4. QED
    BY <2>1, <2>2, <2>3 DEF Kept, Stores
<1>3. bound \in Bindings /\ \A x \in Vars : bound[x] = Unbound
  BY <1>1 DEF Init, Free, Bindings
<1>4. missing = Excess(set)
  BY <1>1, EmptyAccounts DEF Init
<1>5. QED
  BY <1>1, <1>2, <1>3, <1>4 DEF Init, QueryInv, QueryTypes, Phases, BoundByLevels

(* The indexes of the state. *)
LEMMA IndexTypes ==
  ASSUME Kept(Stored), NEW i \in Indexes
  PROVE  index[i] \in Seq(Triples) /\ Len(index[i]) \in Nat
BY DEF Kept, Stores, Stored

(* A store that is kept after a change of it. *)
LEMMA StoreChanges ==
  ASSUME QueryInv, NEW s, Kept(s), set' = s.set, index' = s.index,
         missing' = Excess(s.set),
         UNCHANGED <<at, spec, levels, bound, answers>>
  PROVE  QueryInv'
<1>1. Stored' = s
  BY DEF Stored, Kept, Stores
<1>2. Kept(Stored)' /\ missing' = Excess(set')
  BY <1>1
<1>3. QueryTypes'
  BY <1>2 DEF QueryInv, QueryTypes
<1>4. QED
  BY <1>3 DEF QueryInv, Phases, BoundByLevels

(* facts_add_fact_local *)
LEMMA AddKept ==
  ASSUME Kept(Stored), NEW f \in Triples, AddFact(f)
  PROVE  Kept([set |-> set', index |-> index']) /\ Excess(set') = Excess(set)
<1>1. Accounts(set) /\ set \in Tables
  BY DEF Kept, Stored, Accounts
<1>2. Accounts(set') /\ set' \in Tables /\ Excess(set') = Excess(set)
  BY <1>1, AddAccounts DEF AddFact, Accounts
<1>3. ASSUME NEW i \in Indexes
      PROVE  index'[i] \in Seq(Triples)
  <2> DEFINE q == index[i]
             k == Pred(i, q, f) + 1
  <2>1. q \in Seq(Triples) /\ Len(q) \in Nat
    BY IndexTypes
  <2>2. k \in 1 .. Len(q) + 1
    BY <2>1, PredBounds
  <2>3. index'[i] = IF HasNode(i, q, f) THEN q ELSE InsertAt(q, k, f)
    BY DEF AddFact
  <2> HIDE DEF q, k
  <2>4. InsertAt(q, k, f) \in Seq(Triples)
    BY <2>1, <2>2, Insertion
  <2>5. QED
    BY <2>1, <2>3, <2>4
<1>4. index' = [i \in Indexes |-> index'[i]]
  BY DEF AddFact
<1>5. index' \in [Indexes -> Seq(Triples)]
  BY <1>3, <1>4
<1>6. QED
  BY <1>2, <1>5 DEF Kept, Stores

(* facts_add_fact_local without memory for the item of the table.          *)
LEMMA AddFailsKept ==
  ASSUME QueryInv, NEW f \in Triples, AddFails(f)
  PROVE  QueryInv'
<1> DEFINE s == [set |-> set', index |-> index]
<1>1. Kept(Stored) /\ Accounts(set) /\ missing = Excess(set)
  BY DEF QueryInv, QueryTypes, Kept, Stored
<1>2. /\ SetGet(set, f) = {} /\ set' = SetAddFails(set, f)
      /\ missing' = missing + Len(set.items[Bucket(f)])
      /\ UNCHANGED <<index, at, spec, levels, bound, answers>>
  BY DEF AddFails
<1>3. Accounts(set') /\ Excess(set') = missing'
  BY <1>1, <1>2, CutAccounts
<1>4. s.set = set' /\ s.index = index' /\ index \in [Indexes -> Seq(Triples)]
  BY <1>1, <1>2 DEF Kept, Stores, Stored
<1>5. Kept(s)
  BY <1>3, <1>4 DEF Kept, Stores, Accounts
<1> HIDE DEF s
<1>6. missing' = Excess(s.set)
  BY <1>3, <1>4
<1>7. QED
  BY <1>2, <1>4, <1>5, <1>6, StoreChanges

(* facts_remove_fact, facts_remove_all *)
LEMMA RemoveKept ==
  ASSUME Kept(Stored), RemoveAll \/ \E f \in Triples : RemoveFact(f)
  PROVE  \E s : /\ Kept(s) /\ Excess(s.set) = Excess(set)
                /\ set' = s.set /\ index' = s.index
<1>1. CASE RemoveAll
  <2> DEFINE Good == {s \in Stores : Kept(s) /\ Excess(s.set) = Excess(set)}
  <2>1. Listing(set) \in Seq(Triples)
    BY ListingOfAll DEF Kept, Stored
  <2>2. Stored \in Good
    BY DEF Kept, Stored
  <2>3. \A s \in Good : \A f \in Triples : Removable(s, f) => Removed(s, f) \in Good
    BY RemovedKept DEF Kept
  <2> HIDE DEF Good
  <2>4. \E s \in Good : set' = s.set /\ index' = s.index
    BY <1>1, <2>1, <2>2, <2>3, RemoveAllKeeps
  <2>5. QED
    BY <2>4 DEF Good
<1>2. CASE \E f \in Triples : RemoveFact(f)
  <2>1. PICK f \in Triples : RemoveFact(f)
    BY <1>2
  <2>2. Kept(Removed(Stored, f)) /\ Excess(Removed(Stored, f).set) = Excess(set)
    BY <2>1, RemovedKept DEF RemoveFact, Stored
  <2>3. QED
    BY <2>1, <2>2 DEF RemoveFact
<1>3. QED
  BY <1>1, <1>2

(* What a cursor finds is in its index. *)
LEMMA MatchingBounds ==
  ASSUME NEW c \in Cursors, Kept(Stored)
  PROVE  /\ \A n \in Matching(c) : /\ n \in c.node + 1 .. Len(index[c.index])
                                   /\ index[c.index][n] \in Triples
                                   /\ Typed(c.pattern, index[c.index][n])
         /\ Matching(c) # {} => /\ Min(Matching(c)) \in Matching(c)
                                /\ \A m \in Matching(c) : Min(Matching(c)) <= m
<1>1. c.node \in Nat /\ c.index \in Indexes
  BY DEF Cursors
<1>2. index[c.index] \in Seq(Triples) /\ Len(index[c.index]) \in Nat
  BY <1>1, IndexTypes
<1>3. \A n \in Matching(c) : n \in c.node + 1 .. Len(index[c.index])
                             /\ Typed(c.pattern, index[c.index][n])
  BY DEF Matching, InRange
<1>4. Matching(c) \in SUBSET Nat
  BY <1>1, <1>2, <1>3
<1>5. QED
  BY <1>1, <1>2, <1>3, <1>4, Least

(* The values that a fact gives a pattern's variables. *)
LEMMA BindType ==
  ASSUME NEW p \in Patterns, NEW f \in Triples, bound \in Bindings
  PROVE  Bind(p, f) \in Bindings
<1>1. f \in [Positions -> AllTags]
  BY TriplesAssumption
<1>2. \A x \in VarsOf(p) : Place(p, x) \in Positions
  BY PlaceFacts
<1>3. \A x \in Vars : (IF x \in VarsOf(p) THEN f[Place(p, x)] ELSE bound[x]) \in AllTags \cup {Unbound}
  BY <1>1, <1>2 DEF Bindings
<1>4. QED
  BY <1>3 DEF Bind, Bindings

(* The cursor on top. *)
LEMMA TopFacts ==
  ASSUME levels \in Seq(Cursors), levels # <<>>
  PROVE  /\ Len(levels) \in Nat \ {0} /\ Len(levels) \in 1 .. Len(levels)
         /\ Top \in Cursors /\ Top.pattern \in Patterns
         /\ Top.index \in Indexes /\ Top.node \in Nat
<1>1. Len(levels) \in Nat \ {0}
  OBVIOUS
<1>2. Top \in Cursors
  BY <1>1 DEF Top
<1>3. QED
  BY <1>1, <1>2 DEF Cursors

(* Cursors without the one on top. *)
LEMMA FrontFacts ==
  ASSUME levels \in Seq(Cursors), levels # <<>>, NEW q, q = Front(levels)
  PROVE  /\ q \in Seq(Cursors) /\ Len(q) = Len(levels) - 1
         /\ \A l \in 1 .. Len(levels) - 1 : q[l] = levels[l]
<1>1. Len(levels) \in Nat \ {0} /\ \A l \in 1 .. Len(levels) - 1 : levels[l] \in Cursors
  OBVIOUS
<1>2. q = SubSeq(levels, 1, Len(levels) - 1)
  BY DEF Front
<1> DEFINE L == Len(levels) - 1
<1>3. L \in Int /\ 1 \in Int /\ L >= 0 /\ L - 1 + 1 = L /\ \A l \in 1 .. L : levels[l] \in Cursors
  BY <1>1
<1> HIDE DEF L
<1>4. /\ SubSeq(levels, 1, L) \in Seq(Cursors)
      /\ Len(SubSeq(levels, 1, L)) = IF 1 <= L THEN L - 1 + 1 ELSE 0
      /\ \A l \in 1 .. L - 1 + 1 : SubSeq(levels, 1, L)[l] = levels[1 + l - 1]
  BY <1>3, SubSeqProperties
<1>5. QED
  BY <1>2, <1>3, <1>4 DEF L

Moved(q, n) == q = [levels EXCEPT ![Len(levels)].node = n]

(* The cursor on top moves. *)
LEMMA MoveFacts ==
  ASSUME levels \in Seq(Cursors), levels # <<>>, NEW n \in Nat, NEW q, Moved(q, n)
  PROVE  /\ q \in Seq(Cursors) /\ Len(q) = Len(levels)
         /\ \A l \in 1 .. Len(levels) :
              /\ q[l].pattern = levels[l].pattern /\ q[l].index = levels[l].index
              /\ q[l].node = IF l = Len(levels) THEN n ELSE levels[l].node
<1> DEFINE L == Len(levels)
           c == [levels[L] EXCEPT !.node = n]
<1>1. L \in Nat \ {0} /\ L \in 1 .. L /\ levels[L] \in Cursors
  OBVIOUS
<1>2. /\ c \in Cursors /\ c.node = n
      /\ c.pattern = levels[L].pattern /\ c.index = levels[L].index
  BY <1>1 DEF Cursors
<1>3. q = [levels EXCEPT ![L] = c]
  BY <1>1 DEF Moved
<1> HIDE DEF c
<1>4. q \in Seq(Cursors) /\ Len(q) = L /\ \A l \in 1 .. L : q[l] = IF l = L THEN c ELSE levels[l]
  BY <1>1, <1>2, <1>3, ExceptSeq
<1>5. QED
  BY <1>2, <1>4

(* facts_with *)
LEMMA QuerySteps == ASSUME QueryInv, NEW q \in Specs, Query(q) PROVE QueryInv'
<1>1. Kept(Stored)' /\ (missing = Excess(set))'
  BY DEF Query, QueryInv, QueryTypes, store, Stored
<1>2. Len(q) \in Nat \ {0} /\ Len(<<>>) = 0
  BY SpecFacts
<1>3. levels = <<>>
  BY DEF Query, QueryInv, Phases
<1>4. QED
  BY <1>1, <1>2, <1>3 DEF Query, QueryInv, QueryTypes, Phases, BoundByLevels

(* A level gets its cursor. *)
LEMMA OpenSteps == ASSUME QueryInv, Open PROVE QueryInv'
<1> DEFINE L == Len(levels)
           p == Expand(spec[L + 1])
           c == Cursor(p)
<1>1. /\ at = "open" /\ at' = "next" /\ levels' = Append(levels, c)
      /\ UNCHANGED <<set, missing, index, spec, bound, answers>>
  BY DEF Open, store
<1>2. /\ Kept(Stored) /\ spec \in Specs /\ levels \in Seq(Cursors) /\ bound \in Bindings
      /\ L \in Nat /\ L < Len(spec)
  BY <1>1 DEF QueryInv, QueryTypes, Phases
<1>3. Kept(Stored)'
  BY <1>1, <1>2 DEF Stored
<1>4. p \in Patterns
  <2>1. spec \in Seq(Patterns) /\ L + 1 \in 1 .. Len(spec)
    BY <1>2, SpecFacts
  <2>2. spec[L + 1] \in Patterns
    BY <2>1
  <2>3. QED
    BY <1>2, <2>2, ExpandType DEF Bindings
<1>5. c \in Cursors
  <2>1. IndexOf(p) \in Indexes
    BY DEF IndexOf, Indexes
  <2>2. Pred(IndexOf(p), index[IndexOf(p)], Start(p)) \in Nat
    BY <1>2, <2>1, IndexTypes, PredBounds
  <2>3. QED
    BY <1>4, <2>1, <2>2 DEF Cursor, Cursors
<1> HIDE DEF c, p, L
<1>6. /\ levels' \in Seq(Cursors) /\ Len(levels') = L + 1 /\ levels' # <<>>
      /\ \A l \in 1 .. L : levels'[l] = levels[l]
  BY <1>1, <1>2, <1>5, AppendProperties DEF L
<1>7. QueryTypes'
  BY <1>1, <1>3, <1>6 DEF QueryInv, QueryTypes
<1>8. Phases'
  BY <1>1, <1>2, <1>6 DEF Phases
<1>9. BoundByLevels'
  <2>1. SUFFICES ASSUME NEW x \in Vars, bound[x] # Unbound
                 PROVE  \E l \in 1 .. Len(levels') : x \in VarsOf(levels'[l].pattern)
    BY <1>1 DEF BoundByLevels
  <2>2. PICK l \in 1 .. L : x \in VarsOf(levels[l].pattern)
    BY <2>1 DEF QueryInv, BoundByLevels, L
  <2>3. l \in 1 .. Len(levels')
    BY <1>2, <1>6
  <2>4. QED
    BY <1>6, <2>2, <2>3
<1>10. QED
  BY <1>7, <1>8, <1>9 DEF QueryInv

(* The cursor on top finds a fact. *)
LEMMA AdvanceSteps == ASSUME QueryInv, Advance PROVE QueryInv'
<1> DEFINE n == Min(Matching(Top))
           f == index[Top.index][n]
           p == Top.pattern
<1>1. /\ at = "next" /\ Matching(Top) # {}
      /\ levels' = [levels EXCEPT ![Len(levels)].node = n]
      /\ bound' = Bind(p, f)
      /\ IF Len(levels) = Len(spec)
         THEN at' = "answer" /\ answers' = Append(answers, bound')
         ELSE at' = "open" /\ answers' = answers
      /\ UNCHANGED <<set, missing, index, spec>>
  BY DEF Advance, store
<1>2. /\ Kept(Stored) /\ spec \in Specs /\ levels \in Seq(Cursors) /\ bound \in Bindings
      /\ levels # <<>> /\ Len(levels) <= Len(spec) /\ answers \in Seq(Bindings)
  BY <1>1 DEF QueryInv, QueryTypes, Phases
<1>3. Kept(Stored)'
  BY <1>1, <1>2 DEF Stored
<1>4. /\ Top \in Cursors /\ p \in Patterns /\ Top.node \in Nat /\ Top.index \in Indexes
      /\ Len(levels) \in Nat \ {0} /\ Len(levels) \in 1 .. Len(levels)
  BY <1>2, TopFacts
<1>5. n \in Nat /\ f \in Triples
  <2>1. n \in Matching(Top)
    BY <1>1, <1>2, <1>4, MatchingBounds
  <2>2. n \in Top.node + 1 .. Len(index[Top.index]) /\ f \in Triples
    BY <1>2, <1>4, <2>1, MatchingBounds
  <2>3. QED
    BY <1>4, <2>2
<1>6. Bind(p, f) \in Bindings
  BY <1>2, <1>4, <1>5, BindType
<1>7. p = levels[Len(levels)].pattern
  BY DEF Top
<1>8. \A x \in Vars : x \notin VarsOf(p) => Bind(p, f)[x] = bound[x]
  BY DEF Bind
<1> HIDE DEF n, f, p
<1>9. /\ levels' \in Seq(Cursors) /\ Len(levels') = Len(levels)
      /\ \A l \in 1 .. Len(levels) : levels'[l].pattern = levels[l].pattern
  <2>1. Moved(levels', n)
    BY <1>1 DEF Moved
  <2>2. QED
    BY <1>2, <1>5, <2>1, MoveFacts
<1>10. answers' \in Seq(Bindings)
  <2>1. answers' \in {answers, Append(answers, bound')} /\ bound' \in Bindings
    BY <1>1, <1>6
  <2>2. QED
    BY <1>2, <2>1
<1>11. QueryTypes'
  BY <1>1, <1>2, <1>3, <1>6, <1>9, <1>10 DEF QueryInv, QueryTypes
<1>12. Phases'
  <2>1. Len(spec) \in Nat
    BY <1>2, SpecFacts
  <2>2. at' \in {"open", "answer"} /\ levels' # <<>>
    BY <1>1, <1>4, <1>9
  <2>3. QED
    BY <1>1, <1>2, <1>4, <1>9, <2>1, <2>2 DEF Phases
<1>13. BoundByLevels'
  <2>1. SUFFICES ASSUME NEW x \in Vars, bound'[x] # Unbound
                 PROVE  \E l \in 1 .. Len(levels') : x \in VarsOf(levels'[l].pattern)
    BY DEF BoundByLevels
  <2>2. CASE x \in VarsOf(p)
    BY <1>4, <1>7, <1>9, <2>2
  <2>3. CASE x \notin VarsOf(p)
    <3>1. bound[x] # Unbound
      BY <1>1, <1>8, <2>1, <2>3
    <3>2. QED
      BY <1>9, <3>1 DEF QueryInv, BoundByLevels
  <2>4. QED
    BY <2>2, <2>3
<1>14. QED
  BY <1>11, <1>12, <1>13 DEF QueryInv

(* The cursor on top is exhausted. *)
LEMMA BacktrackSteps == ASSUME QueryInv, Backtrack PROVE QueryInv'
<1> DEFINE p == Top.pattern
<1>1. /\ at = "next" /\ levels' = Front(levels) /\ bound' = Reset(p)
      /\ at' = IF Len(levels) = 1 THEN "done" ELSE "next"
      /\ UNCHANGED <<set, missing, index, spec, answers>>
  BY DEF Backtrack, store
<1>2. /\ Kept(Stored) /\ spec \in Specs /\ levels \in Seq(Cursors) /\ bound \in Bindings
      /\ levels # <<>> /\ Len(levels) <= Len(spec)
  BY <1>1 DEF QueryInv, QueryTypes, Phases
<1>3. Kept(Stored)'
  BY <1>1, <1>2 DEF Stored
<1>4. Len(levels) \in Nat \ {0} /\ p = levels[Len(levels)].pattern
  BY <1>2, TopFacts DEF Top
<1>5. /\ levels' \in Seq(Cursors) /\ Len(levels') = Len(levels) - 1
      /\ \A l \in 1 .. Len(levels) - 1 : levels'[l] = levels[l]
  BY <1>1, <1>2, FrontFacts
<1>6. /\ bound' \in Bindings
      /\ \A x \in Vars : bound'[x] # Unbound => x \notin VarsOf(p) /\ bound[x] # Unbound
  BY <1>1, <1>2 DEF Reset, Bindings
<1>7. QueryTypes'
  BY <1>1, <1>3, <1>5, <1>6 DEF QueryInv, QueryTypes
<1>8. Phases'
  <2>1. levels' = <<>> <=> Len(levels) = 1
    BY <1>4, <1>5
  <2>2. Len(spec) \in Nat
    BY <1>2, SpecFacts
  <2>3. QED
    BY <1>1, <1>2, <1>4, <1>5, <2>1, <2>2 DEF Phases
<1>9. BoundByLevels'
  <2>1. SUFFICES ASSUME NEW x \in Vars, bound'[x] # Unbound
                 PROVE  \E l \in 1 .. Len(levels') : x \in VarsOf(levels'[l].pattern)
    BY DEF BoundByLevels
  <2>2. PICK l \in 1 .. Len(levels) : x \in VarsOf(levels[l].pattern)
    BY <1>6, <2>1 DEF QueryInv, BoundByLevels
  <2>3. l # Len(levels)
    BY <1>4, <1>6, <2>1, <2>2
  <2>4. l \in 1 .. Len(levels')
    BY <1>4, <1>5, <2>3
  <2>5. QED
    BY <1>4, <1>5, <2>2, <2>3, <2>4
<1>10. QED
  BY <1>7, <1>8, <1>9 DEF QueryInv

(* The other steps of a query. *)
LEMMA OtherSteps == ASSUME QueryInv, More \/ Stop \/ Return PROVE QueryInv'
<1>1. Kept(Stored)' /\ (missing = Excess(set))'
  BY DEF More, Stop, Return, QueryInv, QueryTypes, store, Stored
<1>2. CASE More
  BY <1>1, <1>2 DEF More, store, QueryInv, QueryTypes, Phases, BoundByLevels
<1>3. CASE Stop
  <2>1. /\ at' = "idle" /\ spec' = <<>> /\ levels' = <<>> /\ answers' = <<>>
        /\ UNCHANGED <<set, missing, index>>
    BY <1>3 DEF Stop, store
  <2>2. /\ bound' \in Bindings
        /\ \A x \in Vars : bound'[x] # Unbound =>
             /\ bound[x] # Unbound
             /\ ~ \E l \in 1 .. Len(levels) : x \in VarsOf(levels[l].pattern)
    BY <1>3 DEF Stop, QueryInv, QueryTypes, Bindings
  <2>3. \A x \in Vars : bound'[x] = Unbound
    BY <2>2 DEF QueryInv, BoundByLevels
  <2>4. QED
    BY <1>1, <2>1, <2>2, <2>3 DEF QueryInv, QueryTypes, Phases, BoundByLevels
<1>4. CASE Return
  <2>1. levels = <<>>
    BY <1>4 DEF Return, QueryInv, Phases
  <2>2. QED
    BY <1>1, <1>4, <2>1 DEF Return, store, QueryInv, QueryTypes, Phases, BoundByLevels
<1>5. QED
  BY <1>2, <1>3, <1>4

(* Every step. *)
LEMMA QueryInvKept == ASSUME QueryInv, [Next]_vars PROVE QueryInv'
<1>0. Kept(Stored) /\ missing = Excess(set)
  BY DEF QueryInv, QueryTypes
<1>1. ASSUME NEW f \in Triples, AddFact(f) PROVE QueryInv'
  <2> DEFINE s == [set |-> set', index |-> index']
  <2>1. Kept(s) /\ s.set = set' /\ s.index = index' /\ Excess(s.set) = missing
    BY <1>0, <1>1, AddKept
  <2>2. UNCHANGED <<missing, at, spec, levels, bound, answers>>
    BY <1>1 DEF AddFact
  <2> HIDE DEF s
  <2>3. QED
    BY <2>1, <2>2, StoreChanges
<1>2. CASE RemoveAll \/ \E f \in Triples : RemoveFact(f)
  <2>1. PICK s : /\ Kept(s) /\ Excess(s.set) = missing
                 /\ set' = s.set /\ index' = s.index
    BY <1>0, <1>2, RemoveKept
  <2>2. UNCHANGED <<missing, at, spec, levels, bound, answers>>
    BY <1>2 DEF RemoveAll, RemoveFact
  <2>3. QED
    BY <2>1, <2>2, StoreChanges
<1>3. CASE \E q \in Specs : Query(q)
  BY <1>3, QuerySteps
<1>4. CASE UNCHANGED vars
  BY <1>4 DEF vars, QueryInv, QueryTypes, Phases, BoundByLevels, Stored
<1>5. QED
  BY <1>1, <1>2, <1>3, <1>4, AddFailsKept, OpenSteps, AdvanceSteps, BacktrackSteps,
     OtherSteps
  DEF Next

(* The table, the indexes and the query keep to their types, and only      *)
(* the cursors of a query have variables bound.                            *)
THEOREM QueryInvariant == Spec => []QueryInv
<1>1. QueryInv /\ [Next]_vars => QueryInv'
  BY QueryInvKept
<1>2. QED
  BY QueryInvStarts, <1>1, PTL DEF Spec

(* Between queries, var_reset has freed every variable, also when          *)
(* facts_with_cursor_clean gave the query up half way.                     *)
THEOREM VarsAreReset == Spec => []VarsReset
<1>1. QueryInv => VarsReset
  <2>1. SUFFICES ASSUME QueryInv, at \in {"idle", "done"} PROVE bound = Free
    BY DEF VarsReset
  <2>2. levels = <<>> /\ bound \in Bindings
    BY <2>1 DEF QueryInv, QueryTypes, Phases
  <2>3. \A x \in Vars : bound[x] = Unbound
    BY <2>1, <2>2 DEF QueryInv, BoundByLevels
  <2>4. bound = [x \in Vars |-> bound[x]]
    BY <2>2 DEF Bindings
  <2>5. QED
    BY <2>3, <2>4 DEF Free
<1>2. QED
  BY QueryInvariant, <1>1, PTL

(* set__fact.c counts its facts and collisions and keeps each fact once in *)
(* the chain of its hash, and its cursor lists them all.  The count is too *)
(* high by the items that insertions without memory cut off a chain, and   *)
(* by nothing else.                                                        *)
THEOREM TableAccounts == Spec => []SetAccounts
<1>1. QueryInv => SetAccounts
  <2>1. SUFFICES ASSUME QueryInv PROVE SetAccounts
    OBVIOUS
  <2>2. Accounts(set) /\ missing = Excess(set)
    BY <2>1 DEF QueryInv, QueryTypes, Kept, Stored
  <2>3. DOMAIN set.items = Numbers /\ set.count \in Int
    BY <2>2 DEF Accounts, Tables
  <2>4. ToSet(Listing(set)) = facts
    BY <2>2, ListingOfAll DEF facts
  <2>5. Cardinality(facts) \in Nat
    BY <2>2, FS_CardinalityType DEF Accounts, facts
  <2>6. set.count = Cardinality(facts) + missing
    BY <2>2, <2>3, <2>5 DEF Excess, facts
  <2>7. QED
    BY <2>2, <2>3, <2>4, <2>6 DEF Accounts, Chained, Filled, SetAccounts, facts
<1>2. QED
  BY QueryInvariant, <1>1, PTL

-----------------------------------------------------------------------------
(* The order of the indexes.                                               *)

Ends == AllTags \cup {TagFirst, TagLast}

(* compare_tag with the ends of a range is a total order as well.          *)
LEMMA EndsOrdered ==
  ASSUME OrderIsTotal
  PROVE  /\ \A x, y \in Ends :
              /\ CompareBound(x, y) \in {Less, Equal, Greater}
              /\ CompareBound(x, y) = Equal <=> x = y
              /\ CompareBound(x, y) = Greater <=> CompareBound(y, x) = Less
         /\ \A x, y, z \in Ends :
              CompareBound(x, y) = Less /\ CompareBound(y, z) = Less
                => CompareBound(x, z) = Less
         /\ \A x \in Ends : x # TagFirst => CompareBound(TagFirst, x) = Less
         /\ \A x \in Ends : x # TagLast => CompareBound(TagLast, x) = Greater
<1>1. TagFirst # TagLast /\ TagFirst \notin AllTags /\ TagLast \notin AllTags
  <2>1. TagFirst.type # TagLast.type
    BY DEF TagFirst, TagLast
  <2>2. QED
    BY <2>1, TagsAssumption
<1>2. Less # Equal /\ Less # Greater /\ Equal # Greater
  BY DEF Less, Equal, Greater
<1>3. \A x, y \in AllTags :
        /\ Order[<<x, y>>] \in {Less, Equal, Greater}
        /\ Order[<<x, y>>] = Equal <=> x = y
        /\ Order[<<x, y>>] = Greater <=> Order[<<y, x>>] = Less
  BY DEF OrderIsTotal
<1>4. \A x, y, z \in AllTags :
        Order[<<x, y>>] = Less /\ Order[<<y, z>>] = Less => Order[<<x, z>>] = Less
  BY DEF OrderIsTotal
<1> DEFINE C(x, y) == CompareBound(x, y)
<1>5. /\ \A x, y \in AllTags : C(x, y) = IF x = y THEN Equal ELSE Order[<<x, y>>]
      /\ \A x \in AllTags : /\ C(TagFirst, x) = Less /\ C(x, TagFirst) = Greater
                            /\ C(TagLast, x) = Greater /\ C(x, TagLast) = Less
      /\ C(TagFirst, TagLast) = Less /\ C(TagLast, TagFirst) = Greater
      /\ C(TagFirst, TagFirst) = Equal /\ C(TagLast, TagLast) = Equal
  BY <1>1 DEF CompareBound
<1> HIDE DEF C
<1>6. ASSUME NEW x \in AllTags, NEW y \in AllTags
      PROVE  /\ C(x, y) \in {Less, Equal, Greater}
             /\ C(x, y) = Equal <=> x = y
             /\ C(x, y) = Greater <=> C(y, x) = Less
  <2>1. CASE x = y
    BY <1>2, <1>5, <2>1
  <2>2. CASE x # y
    <3> DEFINE v == Order[<<x, y>>]
               w == Order[<<y, x>>]
    <3>1. C(x, y) = v /\ C(y, x) = w
      BY <1>5, <2>2
    <3>2. v \in {Less, Equal, Greater} /\ v # Equal /\ (v = Greater <=> w = Less)
      BY <1>3, <2>2
    <3> HIDE DEF v, w
    <3>3. QED
      BY <1>2, <2>2, <3>1, <3>2
  <2>3. QED
    BY <2>1, <2>2
<1>7. \A x, y, z \in AllTags :
        C(x, y) = Less /\ C(y, z) = Less => C(x, z) = Less
  <2>1. \A x, y \in AllTags : C(x, y) = Less <=> Order[<<x, y>>] = Less
    BY <1>2, <1>3, <1>5
  <2>2. QED
    BY <1>4, <2>1
<1>8. \A x \in Ends : x \in AllTags \/ x = TagFirst \/ x = TagLast
  BY DEF Ends
<1> HIDE DEF Less, Equal, Greater
<1>9. ASSUME NEW x \in Ends, NEW y \in Ends
      PROVE  /\ C(x, y) \in {Less, Equal, Greater}
             /\ C(x, y) = Equal <=> x = y
             /\ C(x, y) = Greater <=> C(y, x) = Less
  <2>1. CASE x \in AllTags /\ y \in AllTags
    BY <1>6, <2>1
  <2>2. CASE x \notin AllTags \/ y \notin AllTags
    BY <1>1, <1>2, <1>5, <1>8, <2>2
  <2>3. QED
    BY <2>1, <2>2
<1>10. ASSUME NEW x \in Ends, NEW y \in Ends, NEW z \in Ends,
              C(x, y) = Less, C(y, z) = Less
       PROVE  C(x, z) = Less
  <2>1. x # TagLast /\ z # TagFirst
    BY <1>1, <1>2, <1>5, <1>8, <1>10
  <2>2. CASE x = TagFirst \/ z = TagLast
    BY <1>1, <1>5, <1>8, <2>1, <2>2
  <2>3. CASE x # TagFirst /\ z # TagLast
    <3>1. x \in AllTags /\ z \in AllTags
      BY <1>8, <2>1, <2>3
    <3>2. y \in AllTags
      BY <1>2, <1>5, <1>8, <1>10, <3>1
    <3>3. QED
      BY <1>7, <1>10, <3>1, <3>2
  <2>4. QED
    BY <2>2, <2>3
<1>11. QED
  BY <1>1, <1>5, <1>8, <1>9, <1>10 DEF C

(* A place in every index. *)
Rows == [Positions -> Ends]

(* The three keys of an index are the three positions. *)
LEMMA KeyFacts ==
  ASSUME NEW i \in Indexes
  PROVE  /\ Keys[i][1] \in Positions /\ Keys[i][2] \in Positions /\ Keys[i][3] \in Positions
         /\ \A n \in Positions : n = Keys[i][1] \/ n = Keys[i][2] \/ n = Keys[i][3]
<1>1. Keys["spo"] = <<1, 2, 3>> /\ Keys["pos"] = <<2, 3, 1>> /\ Keys["osp"] = <<3, 1, 2>>
  BY DEF Keys
<1>2. CASE i = "spo"
  BY <1>1, <1>2 DEF Positions
<1>3. CASE i = "pos"
  BY <1>1, <1>3 DEF Positions
<1>4. CASE i = "osp"
  BY <1>1, <1>4 DEF Positions
<1>5. QED
  BY <1>2, <1>3, <1>4 DEF Indexes

(* compare_fact_spo, compare_fact_pos, compare_fact_osp: key by key.       *)
LEMMA CompareUnfolds ==
  ASSUME NEW i, NEW f, NEW g
  PROVE  LET r1 == CompareBound(f[Keys[i][1]], g[Keys[i][1]])
             r2 == CompareBound(f[Keys[i][2]], g[Keys[i][2]])
             r3 == CompareBound(f[Keys[i][3]], g[Keys[i][3]])
         IN  CompareFacts(i, f, g) =
               IF r1 # Equal THEN r1 ELSE IF r2 # Equal THEN r2 ELSE r3
<1>1. 1 \in Positions /\ 2 \in Positions /\ 3 \in Positions
  BY DEF Positions
<1>2. QED
  BY <1>1 DEF CompareFacts

(* Facts are in a total order in each index.                               *)
LEMMA RowsOrdered ==
  ASSUME OrderIsTotal, NEW i \in Indexes
  PROVE  /\ \A f, g \in Rows :
              /\ CompareFacts(i, f, g) \in {Less, Equal, Greater}
              /\ CompareFacts(i, f, g) = Equal <=> f = g
              /\ CompareFacts(i, f, g) = Greater <=> CompareFacts(i, g, f) = Less
         /\ \A f, g, h \in Rows :
              CompareFacts(i, f, g) = Less /\ CompareFacts(i, g, h) = Less
                => CompareFacts(i, f, h) = Less
<1> DEFINE C(x, y) == CompareBound(x, y)
           k1 == Keys[i][1]
           k2 == Keys[i][2]
           k3 == Keys[i][3]
           D(f, g) == CompareFacts(i, f, g)
<1>1. k1 \in Positions /\ k2 \in Positions /\ k3 \in Positions
      /\ \A n \in Positions : n = k1 \/ n = k2 \/ n = k3
  BY KeyFacts
<1>2. \A f, g : D(f, g) = IF C(f[k1], g[k1]) # Equal THEN C(f[k1], g[k1])
                          ELSE IF C(f[k2], g[k2]) # Equal THEN C(f[k2], g[k2])
                          ELSE C(f[k3], g[k3])
  BY CompareUnfolds
<1>3. /\ \A x, y \in Ends :
           /\ C(x, y) \in {Less, Equal, Greater}
           /\ C(x, y) = Equal <=> x = y
           /\ C(x, y) = Greater <=> C(y, x) = Less
      /\ \A x, y, z \in Ends : C(x, y) = Less /\ C(y, z) = Less => C(x, z) = Less
  BY EndsOrdered
<1>4. Less # Equal /\ Less # Greater /\ Equal # Greater
  BY DEF Less, Equal, Greater
<1> HIDE DEF C, D, k1, k2, k3
<1>5. \A f \in Rows : f[k1] \in Ends /\ f[k2] \in Ends /\ f[k3] \in Ends
  BY <1>1 DEF Rows
<1>6. ASSUME NEW f \in Rows, NEW g \in Rows
      PROVE  f = g <=> f[k1] = g[k1] /\ f[k2] = g[k2] /\ f[k3] = g[k3]
  <2>1. ASSUME f[k1] = g[k1], f[k2] = g[k2], f[k3] = g[k3] PROVE f = g
    <3>1. \A n \in Positions : f[n] = g[n]
      BY <1>1, <2>1
    <3>2. QED
      BY <3>1 DEF Rows
  <2>2. QED
    BY <2>1
<1>7. ASSUME NEW f \in Rows, NEW g \in Rows
      PROVE  /\ D(f, g) \in {Less, Equal, Greater}
             /\ D(f, g) = Equal <=> f = g
             /\ D(f, g) = Greater <=> D(g, f) = Less
  <2>1. D(f, g) \in {Less, Equal, Greater}
    BY <1>2, <1>3, <1>5
  <2>2. D(f, g) = Equal <=> f = g
    BY <1>2, <1>3, <1>5, <1>6
  <2>3. D(f, g) = Greater <=> D(g, f) = Less
    BY <1>2, <1>3, <1>4, <1>5
  <2>4. QED
    BY <2>1, <2>2, <2>3
<1>8. ASSUME NEW f \in Rows, NEW g \in Rows
      PROVE  D(f, g) = Less <=>
               \/ C(f[k1], g[k1]) = Less
               \/ f[k1] = g[k1] /\ C(f[k2], g[k2]) = Less
               \/ f[k1] = g[k1] /\ f[k2] = g[k2] /\ C(f[k3], g[k3]) = Less
  BY <1>2, <1>3, <1>4, <1>5
<1>9. ASSUME NEW f \in Rows, NEW g \in Rows, NEW h \in Rows,
             D(f, g) = Less, D(g, h) = Less
      PROVE  D(f, h) = Less
  BY <1>3, <1>5, <1>8, <1>9
<1>10. QED
  BY <1>7, <1>9 DEF D

(* Facts are rows. *)
LEMMA FactsAreRows == Triples \subseteq Rows
BY TriplesAssumption DEF Rows, Ends

(* Before and after in an index, as the order of values has it.            *)
LEMMA BeforeIsLess ==
  ASSUME OrderIsTotal, NEW i \in Indexes, NEW f \in Triples, NEW g \in Triples
  PROVE  FactBefore(i, f, g) <=> CompareFacts(i, f, g) = Less
<1> DEFINE k1 == Keys[i][1]
           k2 == Keys[i][2]
           k3 == Keys[i][3]
           C(x, y) == CompareBound(x, y)
<1>1. k1 \in Positions /\ k2 \in Positions /\ k3 \in Positions
  BY KeyFacts
<1>2. f[k1] \in AllTags /\ f[k2] \in AllTags /\ f[k3] \in AllTags
      /\ g[k1] \in AllTags /\ g[k2] \in AllTags /\ g[k3] \in AllTags
  BY <1>1, TriplesAssumption
<1>3. \A x, y \in AllTags : x \in Ends /\ y \in Ends
  BY DEF Ends
<1>4. Less # Equal /\ Less # Greater /\ Equal # Greater
  BY DEF Less, Equal, Greater
<1>5. \A x, y \in AllTags : C(x, y) = Equal <=> x = y
  BY <1>3, EndsOrdered
<1>6. \A x, y \in AllTags : C(x, y) = Less <=> InOrder(x, y)
  <2>1. ASSUME NEW x \in AllTags, NEW y \in AllTags
        PROVE  C(x, y) = Less <=> InOrder(x, y)
    <3>1. C(x, y) = IF x = y THEN Equal ELSE Order[<<x, y>>]
      BY TagsAssumption DEF CompareBound
    <3>2. Order[<<x, y>>] = Less <=> InOrder(x, y)
      BY DEF OrderIsTotal
    <3>3. x = y => Order[<<x, y>>] = Equal
      BY DEF OrderIsTotal
    <3>4. QED
      BY <1>4, <3>1, <3>2, <3>3
  <2>2. QED
    BY <2>1
<1>7. CompareFacts(i, f, g) = IF C(f[k1], g[k1]) # Equal THEN C(f[k1], g[k1])
                              ELSE IF C(f[k2], g[k2]) # Equal THEN C(f[k2], g[k2])
                              ELSE C(f[k3], g[k3])
  BY CompareUnfolds
<1>8. Positions = {1, 2, 3} /\ 1 .. 0 = {} /\ 1 .. 1 = {1} /\ 1 .. 2 = {1, 2}
  BY DEF Positions
<1>9. FactBefore(i, f, g) <=>
        \/ InOrder(f[k1], g[k1])
        \/ InOrder(f[k2], g[k2]) /\ f[k1] = g[k1]
        \/ InOrder(f[k3], g[k3]) /\ f[k1] = g[k1] /\ f[k2] = g[k2]
  <2> DEFINE B(n) == InOrder(f[Keys[i][n]], g[Keys[i][n]])
             S(m) == f[Keys[i][m]] = g[Keys[i][m]]
  <2>1. FactBefore(i, f, g) <=> \E n \in Positions : B(n) /\ \A m \in 1 .. (n - 1) : S(m)
    BY DEF FactBefore
  <2> HIDE DEF B, S
  <2>2. /\ (\A m \in 1 .. (1 - 1) : S(m)) /\ ((\A m \in 1 .. (2 - 1) : S(m)) <=> S(1))
        /\ ((\A m \in 1 .. (3 - 1) : S(m)) <=> S(1) /\ S(2))
    BY <1>8
  <2>3. FactBefore(i, f, g) <=> B(1) \/ (B(2) /\ S(1)) \/ (B(3) /\ S(1) /\ S(2))
    BY <1>8, <2>1, <2>2
  <2>4. QED
    BY <2>3 DEF B, S
<1>10. QED
  BY <1>2, <1>4, <1>5, <1>6, <1>7, <1>9

-----------------------------------------------------------------------------
(* Sorted indexes.                                                         *)

Sorted(i, q) ==
  \A m, n \in 1 .. Len(q) : m < n => CompareFacts(i, q[m], q[n]) = Less

(* A sorted index has no fact twice. *)
LEMMA SortedOnce ==
  ASSUME OrderIsTotal, NEW i \in Indexes, NEW q \in Seq(Triples), Sorted(i, q)
  PROVE  IsInjective(q)
<1>1. DOMAIN q = 1 .. Len(q) /\ Len(q) \in Nat /\ \A n \in 1 .. Len(q) : q[n] \in Rows
  BY FactsAreRows
<1>2. Less # Equal /\ \A f \in Rows : CompareFacts(i, f, f) = Equal
  BY RowsOrdered DEF Less, Equal
<1>3. ASSUME NEW m \in DOMAIN q, NEW n \in DOMAIN q, q[m] = q[n] PROVE m = n
  <2>1. ~ (m < n) /\ ~ (n < m)
    BY <1>1, <1>2, <1>3 DEF Sorted
  <2>2. QED
    BY <1>1, <2>1
<1>4. QED
  BY <1>3 DEF IsInjective

(* skiplist_pred__fact stops before a fact or where it belongs.            *)
LEMMA PredPlaces ==
  ASSUME OrderIsTotal, NEW i \in Indexes, NEW q \in Seq(Triples), Sorted(i, q),
         NEW f \in Rows, NEW k, k = Pred(i, q, f) + 1
  PROVE  /\ k \in 1 .. Len(q) + 1
         /\ \A n \in 1 .. k - 1 : CompareFacts(i, q[n], f) = Less
         /\ HasNode(i, q, f) <=> f \in ToSet(q)
         /\ HasNode(i, q, f) => k \in 1 .. Len(q) /\ q[k] = f
         /\ ~ HasNode(i, q, f) => \A n \in k .. Len(q) : CompareFacts(i, f, q[n]) = Less
<1>1. DOMAIN q = 1 .. Len(q) /\ Len(q) \in Nat /\ \A n \in 1 .. Len(q) : q[n] \in Rows
  BY FactsAreRows
<1> DEFINE D(x, y) == CompareFacts(i, x, y)
<1>2. /\ \A x, y \in Rows : /\ D(x, y) \in {Less, Equal, Greater}
                            /\ D(x, y) = Equal <=> x = y
                            /\ D(x, y) = Greater <=> D(y, x) = Less
      /\ \A x, y, z \in Rows : D(x, y) = Less /\ D(y, z) = Less => D(x, z) = Less
  BY RowsOrdered
<1>3. /\ k \in 1 .. Len(q) + 1
      /\ \A n \in 1 .. k - 1 : D(f, q[n]) = Greater
      /\ k <= Len(q) => D(f, q[k]) # Greater
  <2> DEFINE j == Pred(i, q, f)
  <2>1. /\ j \in 0 .. Len(q)
        /\ \A n \in 1 .. j : D(f, q[n]) = Greater
        /\ j < Len(q) => D(f, q[j + 1]) # Greater
    BY <1>1, PredBounds
  <2>2. k = j + 1
    OBVIOUS
  <2> HIDE DEF j, D
  <2>3. QED
    BY <1>1, <2>1, <2>2
<1>4. HasNode(i, q, f) <=> k \in 1 .. Len(q) /\ D(f, q[k]) = Equal
  <2> DEFINE j == Pred(i, q, f)
  <2>1. HasNode(i, q, f) <=> j < Len(q) /\ D(f, q[j + 1]) = Equal
    BY DEF HasNode
  <2>2. k = j + 1
    OBVIOUS
  <2>3. j \in 0 .. Len(q)
    BY <1>1, PredBounds
  <2> HIDE DEF j, D
  <2>4. QED
    BY <1>1, <2>1, <2>2, <2>3
<1>5. \A m, n \in 1 .. Len(q) : m < n => D(q[m], q[n]) = Less
  BY DEF Sorted
<1>6. Less # Equal /\ Less # Greater /\ Equal # Greater
  BY DEF Less, Equal, Greater
<1> HIDE DEF D
<1>7. ASSUME NEW n \in 1 .. k - 1 PROVE n \in 1 .. Len(q) /\ D(q[n], f) = Less
  BY <1>1, <1>2, <1>3
<1>8. HasNode(i, q, f) => k \in 1 .. Len(q) /\ q[k] = f
  BY <1>1, <1>2, <1>4
<1>9. ASSUME ~ HasNode(i, q, f), NEW n \in k .. Len(q)
      PROVE  D(f, q[n]) = Less
  <2>1. k \in 1 .. Len(q) /\ n \in 1 .. Len(q)
    BY <1>1, <1>3, <1>9
  <2>2. D(f, q[k]) = Less
    BY <1>1, <1>2, <1>3, <1>4, <1>9, <2>1
  <2>3. CASE n = k
    BY <2>2, <2>3
  <2>4. CASE n # k
    <3>1. k < n
      BY <2>1, <2>4
    <3>2. D(q[k], q[n]) = Less
      BY <1>5, <2>1, <3>1
    <3>3. QED
      BY <1>1, <1>2, <2>1, <2>2, <3>2
  <2>5. QED
    BY <2>3, <2>4
<1>10. ASSUME f \in ToSet(q) PROVE HasNode(i, q, f)
  <2>1. SUFFICES ASSUME ~ HasNode(i, q, f) PROVE FALSE
    OBVIOUS
  <2>2. PICK n \in 1 .. Len(q) : q[n] = f
    BY <1>1, <1>10 DEF ToSet
  <2>3. D(f, f) = Equal
    BY <1>2
  <2>4. n \in 1 .. k - 1 \/ n \in k .. Len(q)
    BY <1>1, <1>3
  <2>5. QED
    BY <1>6, <1>7, <1>9, <2>1, <2>2, <2>3, <2>4
<1>11. HasNode(i, q, f) => f \in ToSet(q)
  BY <1>1, <1>8 DEF ToSet
<1>12. QED
  BY <1>3, <1>7, <1>8, <1>9, <1>10, <1>11 DEF D

(* A fact goes where it belongs. *)
LEMMA InsertSorted ==
  ASSUME OrderIsTotal, NEW i \in Indexes, NEW q \in Seq(Triples), Sorted(i, q),
         NEW f \in Triples, ~ HasNode(i, q, f),
         NEW p, p = InsertAt(q, Pred(i, q, f) + 1, f)
  PROVE  Sorted(i, p) /\ ToSet(p) = ToSet(q) \cup {f}
<1> DEFINE k == Pred(i, q, f) + 1
<1>1. Len(q) \in Nat /\ f \in Rows
  BY FactsAreRows
<1>2. /\ k \in 1 .. Len(q) + 1
      /\ \A n \in 1 .. k - 1 : CompareFacts(i, q[n], f) = Less
      /\ \A n \in k .. Len(q) : CompareFacts(i, f, q[n]) = Less
  BY <1>1, PredPlaces
<1>3. p = InsertAt(q, k, f)
  OBVIOUS
<1> HIDE DEF k
<1>4. /\ Len(p) = Len(q) + 1 /\ p[k] = f
      /\ \A n \in 1 .. k - 1 : p[n] = q[n]
      /\ \A n \in k .. Len(q) : p[n + 1] = q[n]
  BY <1>2, <1>3, Insertion
<1>5. ToSet(p) = ToSet(q) \cup {f}
  BY <1>2, <1>3, InsertedItems
<1>6. ASSUME NEW n \in 1 .. Len(p), n > k
      PROVE  n - 1 \in k .. Len(q) /\ p[n] = q[n - 1]
  <2>1. n - 1 \in k .. Len(q) /\ (n - 1) + 1 = n
    BY <1>1, <1>2, <1>4, <1>6
  <2>2. QED
    BY <1>4, <2>1
<1>7. ASSUME NEW m \in 1 .. Len(p), NEW n \in 1 .. Len(p), m < n
      PROVE  CompareFacts(i, p[m], p[n]) = Less
  <2>1. CASE n < k
    <3>1. m \in 1 .. k - 1 /\ n \in 1 .. k - 1 /\ m \in 1 .. Len(q) /\ n \in 1 .. Len(q)
      BY <1>1, <1>2, <1>7, <2>1
    <3>2. QED
      BY <1>4, <1>7, <3>1 DEF Sorted
  <2>2. CASE n = k
    <3>1. m \in 1 .. k - 1
      BY <1>2, <1>7, <2>2
    <3>2. QED
      BY <1>2, <1>4, <2>2, <3>1
  <2>3. CASE n > k /\ m = k
    BY <1>2, <1>4, <1>6, <2>3
  <2>4. CASE n > k /\ m < k
    <3>1. m \in 1 .. k - 1 /\ m \in 1 .. Len(q) /\ n - 1 \in 1 .. Len(q) /\ m < n - 1
      BY <1>1, <1>2, <1>6, <2>4
    <3>2. QED
      BY <1>4, <1>6, <2>4, <3>1 DEF Sorted
  <2>5. CASE n > k /\ m > k
    <3>1. m - 1 \in 1 .. Len(q) /\ n - 1 \in 1 .. Len(q) /\ m - 1 < n - 1
      BY <1>1, <1>2, <1>6, <1>7, <2>5
    <3>2. QED
      BY <1>6, <2>5, <3>1 DEF Sorted
  <2>6. QED
    BY <1>2, <2>1, <2>2, <2>3, <2>4, <2>5
<1>8. QED
  BY <1>5, <1>7 DEF Sorted

(* A fact that leaves leaves the others in order. *)
LEMMA RemoveSorted ==
  ASSUME OrderIsTotal, NEW i \in Indexes, NEW q \in Seq(Triples), Sorted(i, q),
         NEW f \in Triples, HasNode(i, q, f),
         NEW p, p = RemoveAt(q, Pred(i, q, f) + 1)
  PROVE  Sorted(i, p) /\ ToSet(p) = ToSet(q) \ {f} /\ f \in ToSet(q)
<1> DEFINE k == Pred(i, q, f) + 1
<1>1. Len(q) \in Nat /\ f \in Rows
  BY FactsAreRows
<1>2. k \in 1 .. Len(q) /\ q[k] = f /\ f \in ToSet(q)
  BY <1>1, PredPlaces
<1>3. p = RemoveAt(q, k)
  OBVIOUS
<1> HIDE DEF k
<1>4. /\ Len(p) = Len(q) - 1
      /\ \A n \in 1 .. k - 1 : p[n] = q[n]
      /\ \A n \in k .. Len(q) - 1 : p[n] = q[n + 1]
  BY <1>2, <1>3, Removal
<1>5. ToSet(p) = ToSet(q) \ {f}
  BY <1>2, <1>3, RemovedItems, SortedOnce
<1> DEFINE from(n) == IF n < k THEN n ELSE n + 1
<1>6. \A n \in 1 .. Len(p) : from(n) \in 1 .. Len(q) /\ p[n] = q[from(n)]
  BY <1>1, <1>2, <1>4
<1>7. \A m, n \in 1 .. Len(p) : m < n => from(m) < from(n)
  BY <1>1, <1>2, <1>4
<1> HIDE DEF from
<1>8. Sorted(i, p)
  BY <1>6, <1>7 DEF Sorted
<1>9. QED
  BY <1>2, <1>5, <1>8

-----------------------------------------------------------------------------
(* Every fact in every index.                                              *)

Indexed(s) == ToSet(s.index["spo"])

Ordered(s) ==
  /\ \A i \in Indexes : Sorted(i, s.index[i]) /\ ToSet(s.index[i]) = Indexed(s)
  /\ Items(s.set) \subseteq Indexed(s)
  /\ Excess(s.set) = 0 => Items(s.set) = Indexed(s)

(* The hash table tells facts apart like the indexes do. *)
LEMMA SameIsEqual ==
  ASSUME OrderIsTotal, NEW f \in Triples, NEW g \in Triples, SameFact(f, g)
  PROVE  f = g
<1>1. f \in [Positions -> AllTags] /\ g \in [Positions -> AllTags]
  BY TriplesAssumption
<1>2. ASSUME NEW n \in Positions PROVE f[n] = g[n]
  <2>1. f[n] \in AllTags /\ g[n] \in AllTags /\ Order[<<f[n], g[n]>>] = Equal
    BY <1>1 DEF SameFact
  <2>2. QED
    BY <2>1 DEF OrderIsTotal
<1>3. QED
  BY <1>1, <1>2

(* facts_add_fact_local *)
LEMMA AddOrdered ==
  ASSUME OrderIsTotal, Kept(Stored), Ordered(Stored), NEW f \in Triples, AddFact(f)
  PROVE  Ordered([set |-> set', index |-> index'])
<1>1. Accounts(set) /\ set \in Tables /\ Chained(set)
  BY DEF Kept, Stored, Accounts
<1>2. Items(set') = Items(set) \cup {f} /\ f \notin Items(set)
  BY <1>1, AddAccounts, Found DEF AddFact
<1>3. ASSUME NEW i \in Indexes
      PROVE  Sorted(i, index'[i]) /\ ToSet(index'[i]) = Indexed(Stored) \cup {f}
  <2> DEFINE q == index[i]
             p == InsertAt(q, Pred(i, q, f) + 1, f)
  <2>1. q \in Seq(Triples) /\ Sorted(i, q) /\ ToSet(q) = Indexed(Stored)
    BY IndexTypes DEF Ordered, Stored
  <2>2. index'[i] = IF HasNode(i, q, f) THEN q ELSE p
    BY DEF AddFact
  <2> HIDE DEF q
  <2>3. CASE HasNode(i, q, f)
    <3>1. f \in ToSet(q)
      BY <2>1, <2>3, FactsAreRows, PredPlaces
    <3>2. QED
      BY <2>1, <2>2, <2>3, <3>1
  <2>4. CASE ~ HasNode(i, q, f)
    <3>1. Sorted(i, p) /\ ToSet(p) = ToSet(q) \cup {f}
      BY <2>1, <2>4, InsertSorted
    <3>2. QED
      BY <2>1, <2>2, <2>4, <3>1
  <2>5. QED
    BY <2>3, <2>4
<1> DEFINE s == [set |-> set', index |-> index']
<1>4. s.set = set' /\ s.index = index'
  OBVIOUS
<1>5. Items(set) \subseteq Indexed(Stored)
      /\ (Excess(set) = 0 => Items(set) = Indexed(Stored))
  BY DEF Ordered, Stored
<1>6. Excess(set') = Excess(set)
  BY AddKept
<1> HIDE DEF s
<1>7. Indexed(s) = Indexed(Stored) \cup {f}
  BY <1>3, <1>4 DEF Indexed, Indexes
<1>8. Ordered(s)
  BY <1>2, <1>3, <1>4, <1>5, <1>6, <1>7 DEF Ordered
<1>9. QED
  BY <1>8 DEF s

(* Memory runs out in a chain: the indexes keep what the table loses.      *)
LEMMA CutOrdered ==
  ASSUME Kept(Stored), Ordered(Stored), NEW f \in Triples, AddFails(f)
  PROVE  Ordered(Stored)'
<1>1. Accounts(set) /\ SetGet(set, f) = {} /\ set' = SetAddFails(set, f) /\ index' = index
  BY DEF Kept, Stored, AddFails
<1> DEFINE n == Len(set.items[Bucket(f)])
<1>2. /\ Items(set') \subseteq Items(set) /\ Excess(set') = Excess(set) + n /\ n \in Nat
      /\ set.items[Bucket(f)] = <<>> => set' = set
  BY <1>1, CutAccounts
<1>3. Excess(set') = 0 => set' = set
  <2>1. SUFFICES ASSUME Excess(set') = 0 PROVE set.items[Bucket(f)] = <<>>
    BY <1>2
  <2>2. Excess(set) \in Nat
    BY <1>1 DEF Accounts
  <2>3. n = 0
    BY <1>2, <2>1, <2>2
  <2>4. set.items[Bucket(f)] \in Seq(Triples)
    BY <1>1, Buckets0 DEF Accounts, Tables
  <2>5. QED
    BY <2>3, <2>4
<1>4. /\ \A i \in Indexes : Sorted(i, index[i]) /\ ToSet(index[i]) = ToSet(index["spo"])
      /\ Items(set) \subseteq ToSet(index["spo"])
      /\ Excess(set) = 0 => Items(set) = ToSet(index["spo"])
  BY DEF Ordered, Indexed, Stored
<1>5. QED
  BY <1>1, <1>2, <1>3, <1>4 DEF Ordered, Indexed, Stored

(* facts_remove_fact_internal *)
LEMMA RemovedOrdered ==
  ASSUME OrderIsTotal, NEW s, Kept(s), Ordered(s), NEW f \in Triples, Removable(s, f)
  PROVE  Ordered(Removed(s, f))
<1>1. Accounts(s.set) /\ s.set \in Tables /\ Chained(s.set)
  BY DEF Kept, Accounts
<1>2. Items(SetRemove(s.set, f)) = Items(s.set) \ {f}
  <2>1. PICK e \in Items(s.set) : /\ Items(SetRemove(s.set, f)) = Items(s.set) \ {e}
                                  /\ SameFact(e, f)
    BY <1>1, RemoveAccounts DEF Removable
  <2>2. e \in Triples
    BY <1>1, ItemsInChains
  <2>3. QED
    BY <2>1, <2>2, SameIsEqual
<1>3. ASSUME NEW i \in Indexes
      PROVE  Sorted(i, Removed(s, f).index[i])
             /\ ToSet(Removed(s, f).index[i]) = Indexed(s) \ {f}
  <2> DEFINE q == s.index[i]
             p == RemoveAt(q, Pred(i, q, f) + 1)
  <2>1. q \in Seq(Triples) /\ Sorted(i, q) /\ ToSet(q) = Indexed(s) /\ HasNode(i, q, f)
    BY DEF Kept, Stores, Ordered, Removable
  <2>2. Removed(s, f).index[i] = p
    BY DEF Removed
  <2> HIDE DEF q
  <2>3. Sorted(i, p) /\ ToSet(p) = ToSet(q) \ {f}
    BY <2>1, RemoveSorted
  <2>4. QED
    BY <2>1, <2>2, <2>3
<1>4. Removed(s, f).set = SetRemove(s.set, f)
  BY DEF Removed
<1>5. Items(s.set) \subseteq Indexed(s) /\ (Excess(s.set) = 0 => Items(s.set) = Indexed(s))
  BY DEF Ordered
<1>6. Excess(Removed(s, f).set) = Excess(s.set)
  BY RemovedKept
<1>7. Indexed(Removed(s, f)) = Indexed(s) \ {f}
  BY <1>3 DEF Indexed, Indexes
<1>8. QED
  BY <1>2, <1>3, <1>4, <1>5, <1>6, <1>7 DEF Ordered

(* The store under every step. *)
LEMMA OrderedKept ==
  ASSUME OrderIsTotal, QueryInv, Ordered(Stored), [Next]_vars
  PROVE  Ordered(Stored)'
<1>1. Kept(Stored)
  BY DEF QueryInv, QueryTypes
<1>2. ASSUME NEW f \in Triples, AddFact(f) PROVE Ordered(Stored)'
  <2>1. Ordered([set |-> set', index |-> index'])
    BY <1>1, <1>2, AddOrdered
  <2>2. QED
    BY <2>1 DEF Stored
<1>3. ASSUME NEW f \in Triples, RemoveFact(f) PROVE Ordered(Stored)'
  <2>1. Ordered(Removed(Stored, f))
    BY <1>1, <1>3, RemovedOrdered DEF RemoveFact
  <2>2. Stored' = Removed(Stored, f)
    BY <1>3 DEF RemoveFact, Stored, Removed
  <2>3. QED
    BY <2>1, <2>2
<1>4. CASE RemoveAll
  <2> DEFINE Good == {s \in Stores : Kept(s) /\ Ordered(s)}
  <2>1. Listing(set) \in Seq(Triples)
    BY <1>1, ListingOfAll DEF Kept, Stored
  <2>2. Stored \in Good
    BY <1>1 DEF Kept
  <2>3. \A s \in Good : \A f \in Triples : Removable(s, f) => Removed(s, f) \in Good
    BY RemovedKept, RemovedOrdered DEF Kept
  <2>4. \A s \in Good : Ordered(s) /\ s = [set |-> s.set, index |-> s.index]
    BY DEF Stores
  <2> HIDE DEF Good
  <2>5. PICK s \in Good : set' = s.set /\ index' = s.index
    BY <1>4, <2>1, <2>2, <2>3, RemoveAllKeeps
  <2>6. Stored' = s
    BY <2>4, <2>5 DEF Stored
  <2>7. QED
    BY <2>4, <2>6
<1>5. CASE UNCHANGED <<set, index>>
  BY <1>5 DEF Stored
<1>6. QED
  BY <1>1, <1>2, <1>3, <1>4, <1>5, CutOrdered
  DEF Next, vars, store, Query, Open, Advance, Backtrack, More, Stop, Return

OrderedInv == QueryInv /\ Ordered(Stored)

(* The first state. *)
LEMMA OrderedStarts == Init => OrderedInv
<1>1. SUFFICES ASSUME Init PROVE Ordered(Stored)
  BY QueryInvStarts DEF OrderedInv
<1>2. ASSUME NEW i \in Indexes PROVE Stored.index[i] = <<>> /\ Items(Stored.set) = {}
  BY <1>1, EmptyAccounts DEF Init, Stored
<1>3. ToSet(<<>>) = {} /\ "spo" \in Indexes
  BY DEF ToSet, Indexes
<1>4. Indexed(Stored) = {} /\ Items(Stored.set) = {}
  BY <1>2, <1>3 DEF Indexed
<1>5. ASSUME NEW i \in Indexes
      PROVE  Sorted(i, Stored.index[i]) /\ ToSet(Stored.index[i]) = Indexed(Stored)
  BY <1>2, <1>3, <1>4 DEF Sorted
<1>6. QED
  BY <1>4, <1>5 DEF Ordered

(* Where compare_tag orders the tags as their values are, the indexes have *)
(* the same facts, each once, in that order: those of the table and those  *)
(* a failed insertion cut off there, of which there are none without one.  *)
THEOREM IndexesStayOrdered == OrderIsTotal => (Spec => []IndexesOrdered)
<1>1. SUFFICES ASSUME OrderIsTotal PROVE Spec => []IndexesOrdered
  OBVIOUS
<1>2. OrderedInv /\ [Next]_vars => OrderedInv'
  BY <1>1, QueryInvKept, OrderedKept DEF OrderedInv
<1>3. OrderedInv => IndexesOrdered
  <2>1. SUFFICES ASSUME OrderedInv, NEW i \in Indexes
                 PROVE  /\ ToSet(index[i]) = indexed
                        /\ facts \subseteq indexed
                        /\ missing = 0 => facts = indexed
                        /\ \A m, n \in 1 .. Len(index[i]) :
                             m < n => FactBefore(i, index[i][m], index[i][n])
    BY DEF IndexesOrdered
  <2>2. index[i] \in Seq(Triples) /\ Sorted(i, index[i])
    BY <2>1, IndexTypes DEF OrderedInv, QueryInv, QueryTypes, Ordered, Stored
  <2>3. /\ ToSet(index[i]) = indexed /\ facts \subseteq indexed
        /\ missing = 0 => facts = indexed
    BY <2>1 DEF OrderedInv, QueryInv, QueryTypes, Ordered, Indexed, Stored, facts, indexed
  <2>4. \A n \in 1 .. Len(index[i]) : index[i][n] \in Triples
    BY <2>2
  <2>5. QED
    BY <1>1, <2>2, <2>3, <2>4, BeforeIsLess DEF Sorted
<1>4. QED
  BY OrderedStarts, <1>2, <1>3, PTL DEF Spec

-----------------------------------------------------------------------------
(* The range of a pattern.                                                 *)

(* What the pattern gives, the fact has. *)
Matches(p, f) == \A n \in Positions : ~ IsVar(p[n]) => f[n] = p[n]

(* facts_with_0, facts_with_1_2, facts_with_3: what a pattern gives comes  *)
(* first in its index.                                                     *)
LEMMA GivenFirst ==
  ASSUME NEW p, NEW i, i = IndexOf(p)
  PROVE  /\ i \in Indexes
         /\ IsVar(p[Keys[i][1]]) => IsVar(p[Keys[i][2]])
         /\ IsVar(p[Keys[i][2]]) => IsVar(p[Keys[i][3]])
<1> DEFINE A == IsVar(p[1])
           B == IsVar(p[2])
           C == IsVar(p[3])
<1>1. Keys["spo"] = <<1, 2, 3>> /\ Keys["pos"] = <<2, 3, 1>> /\ Keys["osp"] = <<3, 1, 2>>
  BY DEF Keys
<1>2. Positions = {1, 2, 3}
  BY DEF Positions
<1>3. i = IF (A /\ B /\ C) \/ (~ A /\ ~ B /\ ~ C) \/ (~ A /\ C) THEN "spo"
          ELSE IF ~ B THEN "pos" ELSE "osp"
  BY <1>2 DEF IndexOf
<1>4. i \in Indexes
  BY <1>3 DEF Indexes
<1>5. CASE i = "spo"
  <2>1. Keys[i][1] = 1 /\ Keys[i][2] = 2 /\ Keys[i][3] = 3
    BY <1>1, <1>5
  <2>2. (A => B) /\ (B => C)
    BY <1>3, <1>5
  <2>3. QED
    BY <1>4, <2>1, <2>2
<1>6. CASE i = "pos"
  <2>1. Keys[i][1] = 2 /\ Keys[i][2] = 3 /\ Keys[i][3] = 1
    BY <1>1, <1>6
  <2>2. (B => C) /\ (C => A)
    BY <1>3, <1>6
  <2>3. QED
    BY <1>4, <2>1, <2>2
<1>7. CASE i = "osp"
  <2>1. Keys[i][1] = 3 /\ Keys[i][2] = 1 /\ Keys[i][3] = 2
    BY <1>1, <1>7
  <2>2. (C => A) /\ (A => B)
    BY <1>3, <1>7
  <2>3. QED
    BY <1>4, <2>1, <2>2
<1>8. QED
  BY <1>4, <1>5, <1>6, <1>7 DEF Indexes

(* The ends of a range are rows. *)
LEMMA RangeRows ==
  ASSUME NEW p \in Patterns
  PROVE  Start(p) \in Rows /\ End(p) \in Rows
<1>1. \A n \in Positions : ~ IsVar(p[n]) => p[n] \in Ends
  BY TermFacts DEF Patterns, Ends
<1>2. TagFirst \in Ends /\ TagLast \in Ends
  BY DEF Ends
<1>3. QED
  BY <1>1, <1>2 DEF Start, End, Rows

(* A fact is in the range from Start to End where it matches.              *)
LEMMA RangeMatches ==
  ASSUME OrderIsTotal, NEW p \in Patterns, NEW i, i = IndexOf(p), NEW f \in Triples
  PROVE  Matches(p, f) <=> /\ CompareFacts(i, Start(p), f) # Greater
                           /\ CompareFacts(i, End(p), f) # Less
<1> DEFINE C(x, y) == CompareBound(x, y)
           k1 == Keys[i][1]
           k2 == Keys[i][2]
           k3 == Keys[i][3]
           s == Start(p)
           e == End(p)
           M(n) == ~ IsVar(p[n]) => f[n] = p[n]
<1>1. i \in Indexes /\ (IsVar(p[k1]) => IsVar(p[k2])) /\ (IsVar(p[k2]) => IsVar(p[k3]))
  BY GivenFirst
<1>2. /\ k1 \in Positions /\ k2 \in Positions /\ k3 \in Positions
      /\ \A n \in Positions : n = k1 \/ n = k2 \/ n = k3
  BY <1>1, KeyFacts
<1>3. Less # Equal /\ Less # Greater /\ Equal # Greater
  BY DEF Less, Equal, Greater
<1>4. ASSUME NEW n \in Positions
      PROVE  /\ IsVar(p[n]) => C(s[n], f[n]) = Less /\ C(e[n], f[n]) = Greater
             /\ ~ IsVar(p[n]) => /\ C(s[n], f[n]) = C(p[n], f[n])
                                 /\ C(e[n], f[n]) = C(p[n], f[n])
                                 /\ C(p[n], f[n]) = Equal <=> f[n] = p[n]
                                 /\ C(p[n], f[n]) \in {Less, Equal, Greater}
  <2>1. f[n] \in AllTags /\ f[n] \in Ends /\ f[n] # TagFirst /\ f[n] # TagLast
    BY TriplesAssumption, TagsAssumption DEF Ends
  <2>2. CASE IsVar(p[n])
    <3>1. s[n] = TagFirst /\ e[n] = TagLast
      BY <2>2 DEF Start, End
    <3>2. C(TagFirst, f[n]) = Less /\ C(TagLast, f[n]) = Greater
      BY <2>1, EndsOrdered
    <3>3. QED
      BY <2>2, <3>1, <3>2
  <2>3. CASE ~ IsVar(p[n])
    <3>1. s[n] = p[n] /\ e[n] = p[n]
      BY <2>3 DEF Start, End
    <3>2. p[n] \in Ends
      BY <2>3, TermFacts DEF Patterns, Ends
    <3>3. (C(p[n], f[n]) = Equal <=> p[n] = f[n]) /\ C(p[n], f[n]) \in {Less, Equal, Greater}
      BY <2>1, <3>2, EndsOrdered
    <3>4. QED
      BY <2>3, <3>1, <3>3
  <2>4. QED
    BY <2>2, <2>3
<1>5. \A g : CompareFacts(i, g, f) =
               IF C(g[k1], f[k1]) # Equal THEN C(g[k1], f[k1])
               ELSE IF C(g[k2], f[k2]) # Equal THEN C(g[k2], f[k2])
               ELSE C(g[k3], f[k3])
  BY CompareUnfolds
<1>6. Matches(p, f) <=> M(k1) /\ M(k2) /\ M(k3)
  BY <1>2 DEF Matches
<1> HIDE DEF C, k1, k2, k3, s, e
<1>7. /\ CompareFacts(i, s, f) =
           IF C(s[k1], f[k1]) # Equal THEN C(s[k1], f[k1])
           ELSE IF C(s[k2], f[k2]) # Equal THEN C(s[k2], f[k2])
           ELSE C(s[k3], f[k3])
      /\ CompareFacts(i, e, f) =
           IF C(e[k1], f[k1]) # Equal THEN C(e[k1], f[k1])
           ELSE IF C(e[k2], f[k2]) # Equal THEN C(e[k2], f[k2])
           ELSE C(e[k3], f[k3])
  BY <1>5
<1>8. CASE IsVar(p[k1])
  BY <1>1, <1>2, <1>3, <1>4, <1>6, <1>7, <1>8 DEF s, e
<1>9. CASE ~ IsVar(p[k1]) /\ IsVar(p[k2])
  BY <1>1, <1>2, <1>3, <1>4, <1>6, <1>7, <1>9 DEF s, e
<1>10. CASE ~ IsVar(p[k1]) /\ ~ IsVar(p[k2]) /\ IsVar(p[k3])
  BY <1>1, <1>2, <1>3, <1>4, <1>6, <1>7, <1>10 DEF s, e
<1>11. CASE ~ IsVar(p[k1]) /\ ~ IsVar(p[k2]) /\ ~ IsVar(p[k3])
  BY <1>1, <1>2, <1>3, <1>4, <1>6, <1>7, <1>11 DEF s, e
<1>12. QED
  BY <1>8, <1>9, <1>10, <1>11

(* A cursor in its range, of a database whose indexes are in order. *)
InItsRange(x, c) ==
  /\ c \in Cursors /\ c.index = IndexOf(c.pattern)
  /\ Pred(c.index, x[c.index], Start(c.pattern)) <= c.node
  /\ c.node <= Len(x[c.index])

(* facts_cursor_next returns what matches the pattern, and nothing before  *)
(* the range matches it.                                                   *)
LEMMA RangeExact ==
  ASSUME OrderIsTotal, Kept(Stored), Ordered(Stored), NEW c, InItsRange(index, c)
  PROVE  LET q == index[c.index]
             p == c.pattern
         IN  /\ \A n \in c.node + 1 .. Len(q) : n \in InRange(c) <=> Matches(p, q[n])
             /\ \A n \in 1 .. Pred(c.index, q, Start(p)) : ~ Matches(p, q[n])
<1> DEFINE i == c.index
           q == index[i]
           p == c.pattern
           k == Pred(i, q, Start(p)) + 1
           D(f, g) == CompareFacts(i, f, g)
<1>1. /\ i \in Indexes /\ p \in Patterns /\ c.node \in Nat /\ i = IndexOf(p)
      /\ k - 1 <= c.node
  <2>1. c \in Cursors /\ i = IndexOf(p) /\ Pred(i, q, Start(p)) <= c.node
    BY DEF InItsRange
  <2>2. i \in Indexes /\ p \in Patterns /\ c.node \in Nat
    BY <2>1 DEF Cursors
  <2>3. Pred(i, q, Start(p)) \in Int
    BY <2>2, IndexTypes, PredBounds
  <2>4. QED
    BY <2>1, <2>2, <2>3
<1>2. q \in Seq(Triples) /\ Len(q) \in Nat /\ Sorted(i, q)
  BY <1>1, IndexTypes DEF Ordered, Stored
<1>3. Start(p) \in Rows /\ End(p) \in Rows
  BY <1>1, RangeRows
<1>4. /\ k \in 1 .. Len(q) + 1
      /\ \A n \in 1 .. k - 1 : D(q[n], Start(p)) = Less
      /\ HasNode(i, q, Start(p)) => k \in 1 .. Len(q) /\ q[k] = Start(p)
      /\ ~ HasNode(i, q, Start(p)) => \A n \in k .. Len(q) : D(Start(p), q[n]) = Less
  BY <1>1, <1>2, <1>3, PredPlaces
<1>5. /\ \A f, g \in Rows : /\ D(f, g) \in {Less, Equal, Greater}
                            /\ D(f, g) = Equal <=> f = g
                            /\ D(f, g) = Greater <=> D(g, f) = Less
      /\ \A f, g, h \in Rows : D(f, g) = Less /\ D(g, h) = Less => D(f, h) = Less
  BY <1>1, RowsOrdered
<1>6. Less # Equal /\ Less # Greater /\ Equal # Greater
  BY DEF Less, Equal, Greater
<1>7. \A n \in 1 .. Len(q) : q[n] \in Triples /\ q[n] \in Rows
  BY <1>2, FactsAreRows
<1>8. \A m, n \in 1 .. Len(q) : m < n => D(q[m], q[n]) = Less
  BY <1>2 DEF Sorted
<1>9. \A n \in 1 .. Len(q) :
        Matches(p, q[n]) <=> D(Start(p), q[n]) # Greater /\ D(End(p), q[n]) # Less
  BY <1>1, <1>7, RangeMatches
<1>10. \A n : n \in InRange(c) <=>
                /\ n \in c.node + 1 .. Len(q)
                /\ \A m \in c.node + 1 .. n : D(End(p), q[m]) # Less
  BY DEF InRange
<1>11. Pred(i, q, Start(p)) = k - 1
  BY <1>1, <1>2, PredBounds
<1> HIDE DEF D, k, q, p
<1>12. ASSUME NEW n \in 1 .. k - 1 PROVE ~ Matches(p, q[n])
  <2>1. n \in 1 .. Len(q)
    BY <1>2, <1>4
  <2>2. D(Start(p), q[n]) = Greater
    BY <1>3, <1>4, <1>5, <1>7, <2>1
  <2>3. QED
    BY <1>9, <2>1, <2>2
<1>13. ASSUME NEW n \in k .. Len(q) PROVE n \in 1 .. Len(q) /\ D(Start(p), q[n]) # Greater
  <2>1. n \in 1 .. Len(q)
    BY <1>2, <1>4
  <2>2. CASE HasNode(i, q, Start(p))
    <3>1. q[k] = Start(p) /\ k \in 1 .. Len(q)
      BY <1>4, <2>2
    <3>2. CASE n = k
      BY <1>3, <1>5, <1>6, <3>1, <3>2
    <3>3. CASE n # k
      <4>1. k < n
        BY <2>1, <3>1, <3>3
      <4>2. QED
        BY <1>6, <1>8, <2>1, <3>1, <4>1
    <3>4. QED
      BY <2>1, <3>2, <3>3
  <2>3. CASE ~ HasNode(i, q, Start(p))
    BY <1>4, <1>6, <2>1, <2>3
  <2>4. QED
    BY <2>1, <2>2, <2>3
<1>14. ASSUME NEW m \in 1 .. Len(q), NEW n \in 1 .. Len(q), m < n, D(End(p), q[m]) = Less
       PROVE  D(End(p), q[n]) = Less
  BY <1>3, <1>5, <1>7, <1>8, <1>14
<1>15. ASSUME NEW n \in c.node + 1 .. Len(q)
       PROVE  n \in InRange(c) <=> Matches(p, q[n])
  <2>1. n \in k .. Len(q) /\ n \in 1 .. Len(q) /\ n \in c.node + 1 .. n
    BY <1>1, <1>2, <1>4
  <2>2. Matches(p, q[n]) <=> D(End(p), q[n]) # Less
    BY <1>9, <1>13, <2>1
  <2>3. ASSUME D(End(p), q[n]) # Less, NEW m \in c.node + 1 .. n
        PROVE  D(End(p), q[m]) # Less
    <3>1. m \in 1 .. Len(q) /\ (m = n \/ m < n)
      BY <1>1, <1>2, <2>1
    <3>2. QED
      BY <1>14, <2>1, <2>3, <3>1
  <2>4. QED
    BY <1>10, <2>1, <2>2, <2>3
<1>16. QED
  BY <1>11, <1>12, <1>15 DEF q, p

(***************************************************************************)
(* Joins: the cursors of a query, one for each of its first patterns       *)
(***************************************************************************)
(* The variables of the first l patterns. *)
UpTo(q, l) == UNION {VarsOf(q[k]) : k \in 1 .. l}

Agree(q, l, v, w) == \A z \in UpTo(q, l) : w[z] = v[z]

(* Pattern l, with what the patterns before it have bound. *)
Given(q, v, l) ==
  [n \in Positions |-> IF IsVar(q[l][n]) /\ q[l][n].name \in UpTo(q, l - 1)
                       THEN v[q[l][n].name] ELSE q[l][n]]

(* A pattern adds its variables to those before it. *)
LEMMA UpToFacts ==
  ASSUME NEW q \in Seq(Patterns), NEW l \in 1 .. Len(q)
  PROVE  /\ UpTo(q, l) = UpTo(q, l - 1) \cup VarsOf(q[l])
         /\ \A m \in 1 .. l : VarsOf(q[m]) \subseteq UpTo(q, l)
         /\ \A m \in 0 .. l : UpTo(q, m) \subseteq UpTo(q, l)
         /\ UpTo(q, l) \subseteq Vars
<1>1. Len(q) \in Nat /\ \A m \in 1 .. l : q[m] \in Patterns
  OBVIOUS
<1>2. \A m \in 1 .. l : VarsOf(q[m]) \subseteq Vars
  BY <1>1, PlaceFacts
<1>3. UpTo(q, l) = UpTo(q, l - 1) \cup VarsOf(q[l])
  <2>1. 1 .. l = (1 .. l - 1) \cup {l}
    OBVIOUS
  <2>2. QED BY <2>1 DEF UpTo
<1>4. ASSUME NEW m \in 0 .. l PROVE UpTo(q, m) \subseteq UpTo(q, l)
  <2>1. 1 .. m \subseteq 1 .. l
    OBVIOUS
  <2>2. QED BY <2>1 DEF UpTo
<1>5. (\A m \in 1 .. l : VarsOf(q[m]) \subseteq UpTo(q, l)) /\ UpTo(q, l) \subseteq Vars
  BY <1>2 DEF UpTo
<1>6. QED BY <1>3, <1>4, <1>5

(* What is bound so far, and a pattern with that. *)
Bounded(q, v, l) ==
  /\ q \in Seq(Patterns) /\ l \in 1 .. Len(q) /\ v \in Bindings
  /\ \A z \in UpTo(q, l - 1) : v[z] \in AllTags

(* The variables of a pattern are those that are not bound before it.      *)
LEMMA GivenFacts ==
  ASSUME NEW q, NEW v, NEW l, Bounded(q, v, l), NEW p, p = Given(q, v, l)
  PROVE  /\ VarsOf(p) = VarsOf(q[l]) \ UpTo(q, l - 1)
         /\ \A n \in Positions : IsVar(p[n]) => p[n] = q[l][n]
         /\ \A n \in Positions : IsVar(p[n]) <=>
              IsVar(q[l][n]) /\ q[l][n].name \notin UpTo(q, l - 1)
<1>1. q[l] \in Patterns /\ \A z \in UpTo(q, l - 1) : ~ IsVar(v[z])
  BY TermFacts DEF Bounded
<1>2. ASSUME NEW n \in Positions
      PROVE  /\ IsVar(p[n]) => p[n] = q[l][n]
             /\ IsVar(p[n]) <=> IsVar(q[l][n]) /\ q[l][n].name \notin UpTo(q, l - 1)
  <2>1. p[n] = IF IsVar(q[l][n]) /\ q[l][n].name \in UpTo(q, l - 1)
               THEN v[q[l][n].name] ELSE q[l][n]
    BY DEF Given
  <2>2. QED BY <2>1, <1>1
<1>3. \A z : z \in VarsOf(p) <=> \E n \in Positions : IsVar(p[n]) /\ p[n].name = z
  BY DEF VarsOf
<1>4. \A z : z \in VarsOf(q[l]) <=> \E n \in Positions : IsVar(q[l][n]) /\ q[l][n].name = z
  BY DEF VarsOf
<1>5. \A z : z \in VarsOf(p) <=> z \in VarsOf(q[l]) \ UpTo(q, l - 1)
  BY <1>2, <1>3, <1>4
<1>6. QED BY <1>2, <1>5

(* It matches what bindings that agree make of it. *)
LEMMA GivenMatches ==
  ASSUME NEW q, NEW v, NEW l, Bounded(q, v, l), NEW b, Agree(q, l - 1, v, b)
  PROVE  Matches(Given(q, v, l), Instance(q[l], b))
<1> DEFINE p == Given(q, v, l)
<1>1. SUFFICES ASSUME NEW n \in Positions, ~ IsVar(p[n])
               PROVE  Instance(q[l], b)[n] = p[n]
  BY DEF Matches
<1>2. p[n] = IF IsVar(q[l][n]) /\ q[l][n].name \in UpTo(q, l - 1)
             THEN v[q[l][n].name] ELSE q[l][n]
  BY DEF Given
<1>3. Instance(q[l], b)[n] = IF IsVar(q[l][n]) THEN b[q[l][n].name] ELSE q[l][n]
  BY DEF Instance
<1>4. CASE IsVar(q[l][n])
  <2>1. q[l][n].name \in UpTo(q, l - 1)
    BY <1>1, <1>2, <1>4
  <2>2. b[q[l][n].name] = v[q[l][n].name]
    BY <2>1 DEF Agree
  <2>3. QED BY <1>2, <1>3, <1>4, <2>1, <2>2
<1>5. CASE ~ IsVar(q[l][n])
  BY <1>2, <1>3, <1>5
<1>6. QED BY <1>4, <1>5

(* A fact that matches it binds its variables. *)
LEMMA GivenBinds ==
  ASSUME NEW q, NEW v, NEW l, Bounded(q, v, l), NEW p, p = Given(q, v, l),
         p \in Patterns, NEW f \in Triples, Matches(p, f), NEW w,
         w = [x \in Vars |-> IF x \in VarsOf(p) THEN f[Place(p, x)] ELSE v[x]]
  PROVE  Instance(q[l], w) = f /\ Agree(q, l - 1, v, w)
<1>1. q[l] \in Patterns /\ UpTo(q, l) \subseteq Vars /\ UpTo(q, l - 1) \subseteq Vars
  BY UpToFacts DEF Bounded
<1>2. VarsOf(p) = VarsOf(q[l]) \ UpTo(q, l - 1)
  BY GivenFacts
<1>3. \A n \in Positions : IsVar(p[n]) => p[n] = q[l][n]
  BY GivenFacts
<1>4. \A z \in UpTo(q, l - 1) : w[z] = v[z]
  BY <1>1, <1>2
<1>5. ASSUME NEW n \in Positions PROVE Instance(q[l], w)[n] = f[n]
  <2>1. Instance(q[l], w)[n] = IF IsVar(q[l][n]) THEN w[q[l][n].name] ELSE q[l][n]
    BY DEF Instance
  <2>2. p[n] = IF IsVar(q[l][n]) /\ q[l][n].name \in UpTo(q, l - 1)
               THEN v[q[l][n].name] ELSE q[l][n]
    BY DEF Given
  <2>3. CASE IsVar(q[l][n]) /\ q[l][n].name \in UpTo(q, l - 1)
    <3>1. p[n] = v[q[l][n].name] /\ ~ IsVar(p[n])
      BY <2>2, <2>3, TermFacts DEF Bounded
    <3>2. f[n] = p[n]
      BY <3>1 DEF Matches
    <3>3. QED BY <2>1, <2>3, <3>1, <3>2, <1>4
  <2>4. CASE IsVar(q[l][n]) /\ q[l][n].name \notin UpTo(q, l - 1)
    <3>1. p[n] = q[l][n] /\ IsVar(p[n])
      BY <2>2, <2>4
    <3>2. p[n].name \in VarsOf(p) /\ Place(p, p[n].name) = n /\ VarsOf(p) \subseteq Vars
      BY <3>1, PlaceFacts
    <3>3. w[p[n].name] = f[n]
      BY <3>2
    <3>4. QED BY <2>1, <2>4, <3>1, <3>3
  <2>5. CASE ~ IsVar(q[l][n])
    <3>1. p[n] = q[l][n]
      BY <2>2, <2>5
    <3>2. QED BY <2>1, <2>5, <3>1 DEF Matches
  <2>6. QED BY <2>3, <2>4, <2>5
<1>6. Instance(q[l], w) = [n \in Positions |-> Instance(q[l], w)[n]]
  BY DEF Instance
<1>7. f = [n \in Positions |-> f[n]]
  BY TriplesAssumption
<1>8. QED BY <1>4, <1>5, <1>6, <1>7 DEF Agree

(* Bindings that agree before a pattern make the same fact of it where     *)
(* they agree on its variables.                                            *)
LEMMA SameInstance ==
  ASSUME NEW q \in Seq(Patterns), NEW l \in 1 .. Len(q), NEW v, NEW b
  PROVE  Agree(q, l, v, b) <=>
           Agree(q, l - 1, v, b) /\ Instance(q[l], b) = Instance(q[l], v)
<1>1. UpTo(q, l) = UpTo(q, l - 1) \cup VarsOf(q[l])
  BY UpToFacts
<1>2. \A w : Instance(q[l], w) = [n \in Positions |-> Instance(q[l], w)[n]]
  BY DEF Instance
<1>3. \A w : \A n \in Positions :
        Instance(q[l], w)[n] = IF IsVar(q[l][n]) THEN w[q[l][n].name] ELSE q[l][n]
  BY DEF Instance
<1>4. \A z : z \in VarsOf(q[l]) <=> \E n \in Positions : IsVar(q[l][n]) /\ q[l][n].name = z
  BY DEF VarsOf
<1>5. ASSUME \A z \in VarsOf(q[l]) : b[z] = v[z]
      PROVE  Instance(q[l], b) = Instance(q[l], v)
  <2>1. \A n \in Positions : Instance(q[l], b)[n] = Instance(q[l], v)[n]
    BY <1>3, <1>4, <1>5
  <2>2. QED BY <2>1, <1>2
<1>6. ASSUME Instance(q[l], b) = Instance(q[l], v), NEW z \in VarsOf(q[l])
      PROVE  b[z] = v[z]
  <2>1. PICK n \in Positions : IsVar(q[l][n]) /\ q[l][n].name = z
    BY <1>4
  <2>2. Instance(q[l], b)[n] = b[z] /\ Instance(q[l], v)[n] = v[z]
    BY <1>3, <2>1
  <2>3. QED BY <1>6, <2>2
<1>7. QED BY <1>1, <1>5, <1>6 DEF Agree

(* What later patterns bind is nothing to those before them.               *)
LEMMA AgreeFrame ==
  ASSUME NEW q \in Seq(Patterns), NEW m \in 0 .. Len(q), NEW v, NEW w, Agree(q, m, v, w)
  PROVE  /\ \A l \in 1 .. Len(q) : l <= m + 1 => Given(q, w, l) = Given(q, v, l)
         /\ \A l \in 1 .. Len(q) : l <= m + 1 =>
              \A b : Agree(q, l - 1, w, b) <=> Agree(q, l - 1, v, b)
         /\ \A l \in 1 .. m : /\ Instance(q[l], w) = Instance(q[l], v)
                              /\ \A z \in VarsOf(q[l]) : w[z] = v[z]
<1>1. ASSUME NEW l \in 1 .. Len(q), l <= m + 1
      PROVE  \A z \in UpTo(q, l - 1) : w[z] = v[z]
  <2>1. CASE m = 0
    <3>1. UpTo(q, l - 1) = {}
      <4>1. 1 .. l - 1 = {}
        BY <1>1, <2>1
      <4>2. QED BY <4>1 DEF UpTo
    <3>2. QED BY <3>1
  <2>2. CASE m # 0
    <3>1. m \in 1 .. Len(q) /\ l - 1 \in 0 .. m
      BY <1>1, <2>2
    <3>2. UpTo(q, l - 1) \subseteq UpTo(q, m)
      BY <3>1, UpToFacts
    <3>3. QED BY <3>2 DEF Agree
  <2>3. QED BY <2>1, <2>2
<1>2. ASSUME NEW l \in 1 .. Len(q), l <= m + 1 PROVE Given(q, w, l) = Given(q, v, l)
  <2>1. \A z \in UpTo(q, l - 1) : w[z] = v[z]
    BY <1>1, <1>2
  <2>2. QED BY <2>1 DEF Given
<1>3. ASSUME NEW l \in 1 .. Len(q), l <= m + 1, NEW b
      PROVE  Agree(q, l - 1, w, b) <=> Agree(q, l - 1, v, b)
  BY <1>1, <1>3 DEF Agree
<1>4. ASSUME NEW l \in 1 .. m
      PROVE  /\ Instance(q[l], w) = Instance(q[l], v)
             /\ \A z \in VarsOf(q[l]) : w[z] = v[z]
  <2>1. l \in 1 .. Len(q) /\ l \in 0 .. m /\ m \in 1 .. Len(q)
    OBVIOUS
  <2>2. UpTo(q, l) \subseteq UpTo(q, m) /\ VarsOf(q[l]) \subseteq UpTo(q, m)
    BY <2>1, UpToFacts
  <2>3. Agree(q, l, v, w)
    BY <2>2 DEF Agree
  <2>4. QED BY <2>1, <2>2, <2>3, SameInstance DEF Agree
<1>5. QED BY <1>2, <1>3, <1>4

(***************************************************************************)
(* The cursors of a query stand for its patterns                           *)
(***************************************************************************)
(* The cursors ls of the first m patterns of q are in the ranges of what   *)
(* the variables before them make of these.                                *)
Ranged(x, q, v, ls, m) ==
  \A l \in 1 .. m : InItsRange(x, ls[l]) /\ ls[l].pattern = Given(q, v, l)

(* They are on the facts that the variables make of the patterns.          *)
Placed(x, q, v, ls, m) ==
  \A l \in 1 .. m :
    /\ ls[l].node \in 1 .. Len(x[ls[l].index])
    /\ x[ls[l].index][ls[l].node] = Instance(q[l], v)
    /\ \A z \in VarsOf(q[l]) : VarType[z] \in {"Tag", v[z].type}

(* The innermost cursor is between two facts while it looks for one. *)
Depth == IF at = "next" THEN Len(levels) - 1 ELSE Len(levels)

JoinInv ==
  /\ OrderedInv
  /\ Ranged(index, spec, bound, levels, Len(levels))
  /\ Placed(index, spec, bound, levels, Depth)

(* What the variables of placed cursors are bound to. *)
LEMMA PlacedValues ==
  ASSUME Kept(Stored), Ordered(Stored), NEW q \in Specs, NEW v \in Bindings,
         NEW ls \in Seq(Cursors), NEW m \in 0 .. Len(ls), m <= Len(q),
         Placed(index, q, v, ls, m)
  PROVE  /\ \A z \in UpTo(q, m) : /\ v[z] \in Values /\ v[z] \in AllTags
                                  /\ VarType[z] \in {"Tag", v[z].type}
         /\ \A l \in 1 .. Len(q) : l <= m + 1 => Bounded(q, v, l)
         /\ \A l \in 1 .. m : Instance(q[l], v) \in indexed
<1>1. q \in Seq(Patterns) /\ Len(q) \in Nat \ {0}
  BY SpecFacts
<1>2. ASSUME NEW l \in 1 .. m PROVE Instance(q[l], v) \in indexed
  <2>1. ls[l] \in Cursors
    OBVIOUS
  <2>2. ls[l].index \in Indexes
    BY <2>1 DEF Cursors
  <2>3. /\ index[ls[l].index] \in Seq(Triples)
        /\ ToSet(index[ls[l].index]) = indexed
    BY <2>2, IndexTypes DEF Ordered, Indexed, Stored, indexed
  <2>4. /\ ls[l].node \in 1 .. Len(index[ls[l].index])
        /\ index[ls[l].index][ls[l].node] = Instance(q[l], v)
    BY DEF Placed
  <2>5. QED BY <2>3, <2>4 DEF ToSet
<1>3. indexed \subseteq Triples
  <2>1. "spo" \in Indexes
    BY DEF Indexes
  <2>2. index["spo"] \in Seq(Triples) /\ ToSet(index["spo"]) = indexed
    BY <2>1, IndexTypes DEF Ordered, Indexed, Stored, indexed
  <2>3. QED BY <2>2 DEF ToSet
<1>4. ASSUME NEW z \in UpTo(q, m)
      PROVE  v[z] \in Values /\ v[z] \in AllTags /\ VarType[z] \in {"Tag", v[z].type}
  <2>1. PICK l \in 1 .. m : z \in VarsOf(q[l])
    BY DEF UpTo
  <2>2. VarType[z] \in {"Tag", v[z].type}
    BY <2>1 DEF Placed
  <2>3. PICK n \in Positions : IsVar(q[l][n]) /\ q[l][n].name = z
    BY <2>1 DEF VarsOf
  <2>4. Instance(q[l], v)[n] = v[z]
    BY <2>3 DEF Instance
  <2>5. Instance(q[l], v) \in indexed
    BY <1>2
  <2>6. Instance(q[l], v)[n] \in Values /\ Instance(q[l], v)[n] \in AllTags
    BY <1>3, <2>5, TriplesAssumption DEF Values
  <2>7. QED BY <2>2, <2>4, <2>6
<1>5. ASSUME NEW l \in 1 .. Len(q), l <= m + 1 PROVE Bounded(q, v, l)
  <2>1. UpTo(q, l - 1) \subseteq UpTo(q, m)
    <3>1. CASE m = 0
      <4>1. 1 .. l - 1 = {}
        BY <1>5, <3>1
      <4>2. QED BY <4>1 DEF UpTo
    <3>2. CASE m # 0
      <4>1. m \in 1 .. Len(q) /\ l - 1 \in 0 .. m
        BY <1>5, <3>2
      <4>2. QED BY <1>1, <4>1, UpToFacts
    <3>3. QED BY <3>1, <3>2
  <2>2. QED BY <1>1, <1>4, <2>1 DEF Bounded
<1>6. QED BY <1>2, <1>4, <1>5

(* The invariants hold of more cursors when they hold of the one added.    *)
LEMMA OneMore ==
  ASSUME NEW x, NEW q, NEW v, NEW ls, NEW m \in Nat \ {0}
  PROVE  /\ Ranged(x, q, v, ls, m) <=>
              /\ Ranged(x, q, v, ls, m - 1)
              /\ InItsRange(x, ls[m]) /\ ls[m].pattern = Given(q, v, m)
         /\ Placed(x, q, v, ls, m) <=>
              /\ Placed(x, q, v, ls, m - 1)
              /\ ls[m].node \in 1 .. Len(x[ls[m].index])
              /\ x[ls[m].index][ls[m].node] = Instance(q[m], v)
              /\ \A z \in VarsOf(q[m]) : VarType[z] \in {"Tag", v[z].type}
<1>1. 1 .. m = (1 .. m - 1) \cup {m}
  OBVIOUS
<1>2. QED BY <1>1 DEF Ranged, Placed

(* They hold of the cursors that stay, with bindings that agree. *)
LEMMA RangedFrame ==
  ASSUME NEW q \in Seq(Patterns), NEW m \in 0 .. Len(q), NEW x, NEW v, NEW w,
         Agree(q, m, v, w), NEW ls, NEW ks, \A l \in 1 .. m : ks[l] = ls[l]
  PROVE  /\ Ranged(x, q, v, ls, m) => Ranged(x, q, w, ks, m)
         /\ \A k \in 0 .. m : Placed(x, q, v, ls, k) => Placed(x, q, w, ks, k)
<1>1. /\ \A l \in 1 .. m : Given(q, w, l) = Given(q, v, l)
      /\ \A l \in 1 .. m : Instance(q[l], w) = Instance(q[l], v)
      /\ \A l \in 1 .. m : \A z \in VarsOf(q[l]) : w[z] = v[z]
  BY AgreeFrame
<1>2. Ranged(x, q, v, ls, m) => Ranged(x, q, w, ks, m)
  BY <1>1 DEF Ranged
<1>3. ASSUME NEW k \in 0 .. m, Placed(x, q, v, ls, k) PROVE Placed(x, q, w, ks, k)
  <2>1. SUFFICES ASSUME NEW l \in 1 .. k
                 PROVE  /\ ks[l].node \in 1 .. Len(x[ks[l].index])
                        /\ x[ks[l].index][ks[l].node] = Instance(q[l], w)
                        /\ \A z \in VarsOf(q[l]) : VarType[z] \in {"Tag", w[z].type}
    BY DEF Placed
  <2>2. l \in 1 .. m
    OBVIOUS
  <2>3. QED BY <1>1, <1>3, <2>2 DEF Placed
<1>4. QED BY <1>2, <1>3

(* The facts of a query that runs. *)
LEMMA JoinFacts ==
  ASSUME JoinInv, at \notin {"idle", "done"}
  PROVE  /\ Kept(Stored) /\ Ordered(Stored) /\ spec \in Specs /\ spec \in Seq(Patterns)
         /\ Len(spec) \in Nat \ {0} /\ levels \in Seq(Cursors) /\ bound \in Bindings
         /\ Len(levels) \in 0 .. Len(spec) /\ Depth \in 0 .. Len(levels)
         /\ \A z \in UpTo(spec, Depth) : bound[z] \in AllTags
         /\ \A l \in 1 .. Len(spec) : l <= Depth + 1 => Bounded(spec, bound, l)
<1>1. QueryInv /\ Ordered(Stored)
  BY DEF JoinInv, OrderedInv
<1>2. /\ Kept(Stored) /\ levels \in Seq(Cursors) /\ bound \in Bindings
      /\ spec \in Specs /\ Len(levels) <= Len(spec)
  BY <1>1 DEF QueryInv, QueryTypes, Phases
<1>3. at = "next" => levels # <<>>
  BY <1>1 DEF QueryInv, Phases
<1>4. spec \in Seq(Patterns) /\ Len(spec) \in Nat \ {0}
  BY <1>2, SpecFacts
<1>5. Len(levels) \in 0 .. Len(spec) /\ Depth \in 0 .. Len(levels)
  BY <1>2, <1>3, <1>4 DEF Depth
<1>6. Placed(index, spec, bound, levels, Depth)
  BY DEF JoinInv
<1>7. Depth <= Len(spec)
  BY <1>2, <1>4, <1>5
<1>8. /\ \A z \in UpTo(spec, Depth) : bound[z] \in AllTags
      /\ \A l \in 1 .. Len(spec) : l <= Depth + 1 => Bounded(spec, bound, l)
  BY <1>1, <1>2, <1>5, <1>6, <1>7, PlacedValues
<1>9. QED BY <1>1, <1>2, <1>4, <1>5, <1>8

(* facts_spec_new_expand puts in what the cursors have bound. *)
LEMMA ExpandIsGiven ==
  ASSUME JoinInv, at = "open"
  PROVE  Expand(spec[Len(levels) + 1]) = Given(spec, bound, Len(levels) + 1)
<1> DEFINE L == Len(levels)
<1>1. /\ spec \in Seq(Patterns) /\ Len(spec) \in Nat \ {0} /\ levels \in Seq(Cursors)
      /\ L \in 0 .. Len(spec)
      /\ \A z \in UpTo(spec, Depth) : bound[z] \in AllTags
      /\ \A l \in 1 .. Len(spec) : l <= Depth + 1 => Bounded(spec, bound, l)
  BY JoinFacts
<1>2. Depth = L /\ BoundByLevels /\ L < Len(spec)
  BY DEF Depth, JoinInv, OrderedInv, QueryInv, Phases
<1>3. Ranged(index, spec, bound, levels, L)
  BY DEF JoinInv
<1>4. ASSUME NEW z \in Vars, bound[z] # Unbound PROVE z \in UpTo(spec, L)
  <2>1. PICK l \in 1 .. L : z \in VarsOf(levels[l].pattern)
    BY <1>2, <1>4 DEF BoundByLevels
  <2>2. l \in 1 .. Len(spec) /\ l <= Depth + 1
    BY <1>1, <1>2
  <2>3. levels[l].pattern = Given(spec, bound, l) /\ Bounded(spec, bound, l)
    BY <1>1, <1>3, <2>2 DEF Ranged
  <2>4. z \in VarsOf(spec[l])
    BY <2>1, <2>3, GivenFacts
  <2>5. QED BY <2>4 DEF UpTo
<1>5. ASSUME NEW z \in UpTo(spec, L) PROVE bound[z] # Unbound
  BY <1>1, <1>2, TermFacts
<1>6. spec[L + 1] \in Patterns
  BY <1>1, <1>2
<1>7. \A n \in Positions : IsVar(spec[L + 1][n]) => spec[L + 1][n].name \in Vars
  BY <1>6, PlaceFacts
<1>8. (L + 1) - 1 = L
  BY <1>1
<1> HIDE DEF L
<1>9. \A n \in Positions : IsVar(spec[L + 1][n]) =>
        (bound[spec[L + 1][n].name] # Unbound <=> spec[L + 1][n].name \in UpTo(spec, L))
  BY <1>4, <1>5, <1>7
<1>10. Expand(spec[L + 1]) = Given(spec, bound, L + 1)
  BY <1>8, <1>9 DEF Expand, Given
<1>11. QED BY <1>10 DEF L

(* facts_cursor_init puts a cursor at the start of its range. *)
LEMMA OpenRange ==
  ASSUME Kept(Stored), NEW p \in Patterns
  PROVE  InItsRange(index, Cursor(p)) /\ Cursor(p).pattern = p
         /\ Cursor(p).index = IndexOf(p)
         /\ Cursor(p).node = Pred(IndexOf(p), index[IndexOf(p)], Start(p))
<1>1. IndexOf(p) \in Indexes
  BY DEF IndexOf, Indexes
<1>2. index[IndexOf(p)] \in Seq(Triples) /\ Len(index[IndexOf(p)]) \in Nat
  BY <1>1, IndexTypes
<1>3. /\ Pred(IndexOf(p), index[IndexOf(p)], Start(p)) \in Nat
      /\ Pred(IndexOf(p), index[IndexOf(p)], Start(p)) <= Len(index[IndexOf(p)])
  BY <1>2, PredBounds
<1>4. /\ Cursor(p).pattern = p /\ Cursor(p).index = IndexOf(p)
      /\ Cursor(p).node = Pred(IndexOf(p), index[IndexOf(p)], Start(p))
      /\ Cursor(p) \in Cursors
  BY <1>1, <1>3 DEF Cursor, Cursors
<1>5. QED BY <1>3, <1>4 DEF InItsRange

(* A step that opens a cursor. *)
LEMMA OpenJoins ==
  ASSUME JoinInv, Open
  PROVE  /\ Ranged(index', spec', bound', levels', Len(levels'))
         /\ Placed(index', spec', bound', levels', Depth')
<1> DEFINE L == Len(levels)
           p == Expand(spec[L + 1])
<1>1. /\ at = "open" /\ at' = "next" /\ levels' = Append(levels, Cursor(p))
      /\ UNCHANGED <<set, missing, index, spec, bound, answers>>
  BY DEF Open, store
<1>2. /\ Kept(Stored) /\ spec \in Seq(Patterns) /\ Len(spec) \in Nat \ {0}
      /\ levels \in Seq(Cursors) /\ bound \in Bindings /\ L \in 0 .. Len(spec)
  BY <1>1, JoinFacts
<1>3. L < Len(spec) /\ Depth = L
  BY <1>1 DEF Depth, JoinInv, OrderedInv, QueryInv, Phases
<1>4. p = Given(spec, bound, L + 1)
  BY <1>1, ExpandIsGiven
<1>5. p \in Patterns
  <2>1. spec[L + 1] \in Patterns
    BY <1>2, <1>3
  <2>2. QED BY <1>2, <2>1, ExpandType DEF Bindings
<1>6. InItsRange(index, Cursor(p)) /\ Cursor(p).pattern = p /\ Cursor(p) \in Cursors
  BY <1>2, <1>5, OpenRange DEF InItsRange
<1> HIDE DEF p, L
<1>7. /\ Len(levels') = L + 1 /\ levels'[L + 1] = Cursor(p)
      /\ \A l \in 1 .. L : levels'[l] = levels[l]
  BY <1>1, <1>2, <1>6, AppendProperties DEF L
<1>8. Ranged(index, spec, bound, levels, L) /\ Placed(index, spec, bound, levels, L)
  BY <1>3 DEF JoinInv, L
<1>9. Agree(spec, L, bound, bound) /\ L \in 0 .. L
  BY <1>2 DEF Agree
<1>10. Ranged(index, spec, bound, levels', L) /\ Placed(index, spec, bound, levels', L)
  BY <1>2, <1>7, <1>8, <1>9, RangedFrame
<1>11. L + 1 \in Nat \ {0} /\ (L + 1) - 1 = L
  BY <1>2
<1>12. Ranged(index, spec, bound, levels', L + 1)
  BY <1>4, <1>6, <1>7, <1>10, <1>11, OneMore
<1>13. Depth' = L
  BY <1>1, <1>7, <1>11 DEF Depth
<1>14. QED BY <1>1, <1>7, <1>10, <1>12, <1>13

(* What facts_cursor_next finds. *)
Hit(L, n, f) ==
  /\ at = "next" /\ spec \in Specs /\ L \in 1 .. Len(spec) /\ L = Len(levels)
  /\ Bounded(spec, bound, L)
  /\ Top = levels[L] /\ InItsRange(index, Top) /\ Top.pattern = Given(spec, bound, L)
  /\ Top.pattern \in Patterns
  /\ n \in Top.node + 1 .. Len(index[Top.index]) /\ n \in Matching(Top)
  /\ \A m \in Matching(Top) : n <= m
  /\ f = index[Top.index][n] /\ f \in Triples /\ Typed(Top.pattern, f)
  /\ Matches(Top.pattern, f)

(* The cursor on top is on the first fact that matches. *)
LEMMA AdvanceHits ==
  ASSUME OrderIsTotal, JoinInv, Advance
  PROVE  Hit(Len(levels), Min(Matching(Top)), index[Top.index][Min(Matching(Top))])
<1> DEFINE L == Len(levels)
           n == Min(Matching(Top))
           f == index[Top.index][n]
<1>1. at = "next" /\ Matching(Top) # {} /\ levels # <<>>
  BY DEF Advance, JoinInv, OrderedInv, QueryInv, Phases
<1>2. /\ Kept(Stored) /\ Ordered(Stored) /\ spec \in Specs /\ Len(spec) \in Nat \ {0}
      /\ levels \in Seq(Cursors) /\ L \in 0 .. Len(spec)
      /\ \A l \in 1 .. Len(spec) : l <= Depth + 1 => Bounded(spec, bound, l)
  BY <1>1, JoinFacts
<1>3. L \in Nat \ {0} /\ Top \in Cursors /\ Top.pattern \in Patterns /\ Top = levels[L]
      /\ Top.node \in Nat
  BY <1>1, <1>2, TopFacts DEF Top
<1>4. L \in 1 .. Len(spec) /\ L <= Depth + 1
  BY <1>1, <1>2, <1>3 DEF Depth
<1>5. Bounded(spec, bound, L)
  BY <1>2, <1>4
<1>6. InItsRange(index, Top) /\ Top.pattern = Given(spec, bound, L)
  BY <1>3 DEF JoinInv, Ranged
<1>7. n \in Matching(Top) /\ \A m \in Matching(Top) : n <= m
  BY <1>1, <1>2, <1>3, MatchingBounds
<1>8. n \in Top.node + 1 .. Len(index[Top.index]) /\ f \in Triples /\ Typed(Top.pattern, f)
  BY <1>2, <1>3, <1>7, MatchingBounds
<1>9. n \in InRange(Top)
  BY <1>7 DEF Matching
<1>10. Matches(Top.pattern, f)
  BY <1>2, <1>6, <1>8, <1>9, RangeExact
<1>11. QED BY <1>1, <1>2, <1>3, <1>4, <1>5, <1>6, <1>7, <1>8, <1>10 DEF Hit

(* What a step that finds a fact binds. *)
LEMMA AdvanceBinds ==
  ASSUME OrderIsTotal, JoinInv, Advance, NEW L, NEW n, NEW f, Hit(L, n, f),
         n = Min(Matching(Top))
  PROVE  /\ Instance(spec[L], bound') = f /\ Agree(spec, L - 1, bound, bound')
         /\ \A z \in VarsOf(spec[L]) : VarType[z] \in {"Tag", bound'[z].type}
         /\ Len(levels') = L /\ levels' \in Seq(Cursors)
         /\ \A l \in 1 .. L - 1 : levels'[l] = levels[l]
         /\ levels'[L].index = Top.index /\ levels'[L].pattern = Top.pattern
         /\ levels'[L].node = n
<1> DEFINE p == Top.pattern
<1>1. /\ bound' = Bind(p, f) /\ levels' = [levels EXCEPT ![Len(levels)].node = n]
      /\ UNCHANGED <<set, index, spec>>
  BY DEF Advance, store, Hit
<1>2. /\ spec \in Seq(Patterns) /\ levels \in Seq(Cursors) /\ bound \in Bindings
      /\ Placed(index, spec, bound, levels, Depth) /\ Depth \in 0 .. Len(levels)
      /\ Kept(Stored) /\ Ordered(Stored) /\ Len(spec) \in Nat \ {0}
  BY JoinFacts DEF Hit, JoinInv
<1>3. L = Len(levels) /\ L \in 1 .. Len(spec) /\ Depth = L - 1 /\ levels # <<>> /\ n \in Nat
  <2>1. L = Len(levels) /\ L \in 1 .. Len(spec) /\ Depth = L - 1
    BY DEF Hit, Depth
  <2>2. levels # <<>>
    BY <1>2, <2>1
  <2>3. Top.node \in Nat
    BY <1>2, <2>2, TopFacts
  <2>4. n \in Top.node + 1 .. Len(index[Top.index])
    BY DEF Hit
  <2>5. QED BY <2>1, <2>2, <2>3, <2>4
<1>4. bound' = [x \in Vars |-> IF x \in VarsOf(p) THEN f[Place(p, x)] ELSE bound[x]]
  BY <1>1 DEF Bind
<1>5. /\ Bounded(spec, bound, L) /\ p = Given(spec, bound, L) /\ p \in Patterns
      /\ f \in Triples /\ Matches(p, f) /\ Typed(p, f)
  BY DEF Hit
<1> HIDE DEF p
<1>6. Instance(spec[L], bound') = f /\ Agree(spec, L - 1, bound, bound')
  BY <1>4, <1>5, GivenBinds
<1>7. ASSUME NEW z \in VarsOf(spec[L]) PROVE VarType[z] \in {"Tag", bound'[z].type}
  <2>1. CASE z \in UpTo(spec, L - 1)
    <3>1. bound'[z] = bound[z]
      BY <1>6, <2>1 DEF Agree
    <3>2. Depth <= Len(spec)
      BY <1>3
    <3>3. VarType[z] \in {"Tag", bound[z].type}
      BY <1>2, <1>3, <2>1, <3>2, PlacedValues DEF Hit
    <3>4. QED BY <3>1, <3>3
  <2>2. CASE z \notin UpTo(spec, L - 1)
    <3>1. PICK m \in Positions : IsVar(spec[L][m]) /\ spec[L][m].name = z
      BY DEF VarsOf
    <3>2. p[m] = spec[L][m]
      BY <1>5, <2>2, <3>1 DEF Given
    <3>3. VarType[z] \in {"Tag", f[m].type}
      BY <1>5, <3>1, <3>2 DEF Typed
    <3>4. bound'[z] = f[m]
      <4>1. Instance(spec[L], bound')[m] = bound'[z]
        BY <3>1 DEF Instance
      <4>2. QED BY <1>6, <4>1
    <3>5. QED BY <3>3, <3>4
  <2>3. QED BY <2>1, <2>2
<1>8. /\ Len(levels') = L /\ levels' \in Seq(Cursors)
      /\ \A l \in 1 .. L - 1 : levels'[l] = levels[l]
      /\ levels'[L].index = Top.index /\ levels'[L].pattern = Top.pattern
      /\ levels'[L].node = n
  <2>1. Moved(levels', n)
    BY <1>1 DEF Moved
  <2>2. /\ levels' \in Seq(Cursors) /\ Len(levels') = Len(levels)
        /\ \A l \in 1 .. Len(levels) :
             /\ levels'[l].pattern = levels[l].pattern /\ levels'[l].index = levels[l].index
             /\ levels'[l].node = IF l = Len(levels) THEN n ELSE levels[l].node
    BY <1>2, <1>3, <2>1, MoveFacts
  <2>3. \A l \in 1 .. L - 1 : levels'[l] = levels[l]
    BY <1>1, <1>2, <1>3
  <2>4. QED BY <1>3, <2>2, <2>3 DEF Top
<1>9. QED BY <1>6, <1>7, <1>8

(* A step that finds a fact. *)
LEMMA AdvanceJoins ==
  ASSUME OrderIsTotal, JoinInv, Advance
  PROVE  /\ Ranged(index', spec', bound', levels', Len(levels'))
         /\ Placed(index', spec', bound', levels', Depth')
<1> DEFINE L == Len(levels)
           n == Min(Matching(Top))
           f == index[Top.index][n]
<1>1. Hit(L, n, f)
  BY AdvanceHits
<1>2. n = Min(Matching(Top))
  OBVIOUS
<1> HIDE DEF L, n, f
<1>3. /\ Instance(spec[L], bound') = f /\ Agree(spec, L - 1, bound, bound')
      /\ \A z \in VarsOf(spec[L]) : VarType[z] \in {"Tag", bound'[z].type}
      /\ Len(levels') = L /\ levels' \in Seq(Cursors)
      /\ \A l \in 1 .. L - 1 : levels'[l] = levels[l]
      /\ levels'[L].index = Top.index /\ levels'[L].pattern = Top.pattern
      /\ levels'[L].node = n
  BY <1>1, <1>2, AdvanceBinds
<1>4. index' = index /\ spec' = spec /\ at' \in {"open", "answer"}
  BY DEF Advance, store
<1>5. /\ L \in 1 .. Len(spec) /\ L = Len(levels) /\ InItsRange(index, Top)
      /\ Top.pattern = Given(spec, bound, L) /\ f = index[Top.index][n]
      /\ n \in Top.node + 1 .. Len(index[Top.index]) /\ at = "next"
  BY <1>1 DEF Hit
<1>6. /\ spec \in Seq(Patterns) /\ Len(spec) \in Nat \ {0}
      /\ Ranged(index, spec, bound, levels, L) /\ Placed(index, spec, bound, levels, L - 1)
  BY <1>5, JoinFacts DEF JoinInv, Depth
<1>7. Depth' = L /\ L - 1 \in 0 .. Len(spec) /\ L \in Nat \ {0} /\ (L - 1) + 1 = L
      /\ L - 1 \in 0 .. L - 1
  BY <1>3, <1>4, <1>5, <1>6 DEF Depth
<1>8. Ranged(index, spec, bound, levels, L - 1)
  BY <1>6, <1>7, OneMore
<1>9. Ranged(index, spec, bound', levels', L - 1) /\ Placed(index, spec, bound', levels', L - 1)
  BY <1>3, <1>6, <1>7, <1>8, RangedFrame
<1>10. Given(spec, bound', L) = Given(spec, bound, L)
  BY <1>3, <1>5, <1>6, <1>7, AgreeFrame
<1>11. InItsRange(index, levels'[L]) /\ levels'[L].pattern = Given(spec, bound', L)
  <2>1. levels'[L] \in Cursors
    BY <1>3, <1>7
  <2>2. /\ Top \in Cursors /\ Top.index = IndexOf(Top.pattern)
        /\ Pred(Top.index, index[Top.index], Start(Top.pattern)) <= Top.node
    BY <1>5 DEF InItsRange
  <2>3. Top.index \in Indexes /\ Top.node \in Nat
    BY <2>2 DEF Cursors
  <2>4. Len(index[Top.index]) \in Nat
    <3>1. Kept(Stored)
      BY <1>5, JoinFacts
    <3>2. QED BY <2>3, <3>1, IndexTypes
  <2>5. Pred(Top.index, index[Top.index], Start(Top.pattern)) \in Nat
    BY <2>4, PredBounds
  <2>6. /\ Pred(Top.index, index[Top.index], Start(Top.pattern)) <= n
        /\ n <= Len(index[Top.index])
    BY <1>5, <2>2, <2>3, <2>4, <2>5
  <2>7. QED BY <1>3, <1>5, <1>10, <2>1, <2>2, <2>6 DEF InItsRange
<1>12. Ranged(index, spec, bound', levels', L)
  BY <1>7, <1>9, <1>11, OneMore
<1>13. levels'[L].node \in 1 .. Len(index[levels'[L].index])
  <2>1. Top.node \in Nat
    BY <1>5 DEF InItsRange, Cursors
  <2>2. QED BY <1>3, <1>5, <2>1
<1>14. Placed(index, spec, bound', levels', L)
  BY <1>3, <1>5, <1>7, <1>9, <1>13, OneMore
<1>15. QED BY <1>3, <1>4, <1>7, <1>12, <1>14

(* What a step leaves bound that finds no fact. *)
Missed(L) ==
  /\ at = "next" /\ Matching(Top) = {} /\ spec \in Specs /\ L \in 1 .. Len(spec)
  /\ L = Len(levels) /\ Bounded(spec, bound, L)
  /\ Top = levels[L] /\ InItsRange(index, Top) /\ Top.pattern = Given(spec, bound, L)

(* The bindings of the levels around the exhausted cursor stay. *)
LEMMA BacktrackMisses ==
  ASSUME JoinInv, Backtrack
  PROVE  /\ Missed(Len(levels)) /\ Agree(spec, Len(levels) - 1, bound, bound')
         /\ levels' \in Seq(Cursors) /\ Len(levels') = Len(levels) - 1
         /\ \A l \in 1 .. Len(levels) - 1 : levels'[l] = levels[l]
<1> DEFINE L == Len(levels)
           p == Top.pattern
<1>1. at = "next" /\ Matching(Top) = {} /\ levels # <<>> /\ bound' = Reset(p)
      /\ levels' = Front(levels)
  BY DEF Backtrack, JoinInv, OrderedInv, QueryInv, Phases
<1>2. /\ spec \in Specs /\ spec \in Seq(Patterns) /\ Len(spec) \in Nat \ {0}
      /\ levels \in Seq(Cursors) /\ L \in 0 .. Len(spec)
      /\ \A l \in 1 .. Len(spec) : l <= Depth + 1 => Bounded(spec, bound, l)
  BY <1>1, JoinFacts
<1>3. L \in Nat \ {0} /\ Top = levels[L]
  BY <1>1, <1>2, TopFacts DEF Top
<1>4. L \in 1 .. Len(spec) /\ L <= Depth + 1
  BY <1>1, <1>2, <1>3 DEF Depth
<1>5. Bounded(spec, bound, L)
  BY <1>2, <1>4
<1>6. InItsRange(index, Top) /\ Top.pattern = Given(spec, bound, L)
  BY <1>3 DEF JoinInv, Ranged
<1>7. /\ levels' \in Seq(Cursors) /\ Len(levels') = Len(levels) - 1
      /\ \A l \in 1 .. Len(levels) - 1 : levels'[l] = levels[l]
  BY <1>1, <1>2, FrontFacts
<1>8. Agree(spec, L - 1, bound, bound')
  <2>1. VarsOf(p) = VarsOf(spec[L]) \ UpTo(spec, L - 1)
    BY <1>5, <1>6, GivenFacts
  <2>2. UpTo(spec, L) \subseteq Vars /\ UpTo(spec, L) = UpTo(spec, L - 1) \cup VarsOf(spec[L])
    BY <1>2, <1>4, UpToFacts
  <2>3. \A z \in UpTo(spec, L - 1) : Reset(p)[z] = bound[z]
    BY <2>1, <2>2 DEF Reset
  <2>4. QED BY <1>1, <2>3 DEF Agree
<1>9. QED BY <1>1, <1>2, <1>3, <1>4, <1>5, <1>6, <1>7, <1>8 DEF Missed

(* A step that finds none. *)
LEMMA BacktrackJoins ==
  ASSUME JoinInv, Backtrack
  PROVE  /\ Ranged(index', spec', bound', levels', Len(levels'))
         /\ Placed(index', spec', bound', levels', Depth')
<1> DEFINE L == Len(levels)
<1>1. /\ Missed(L) /\ Agree(spec, L - 1, bound, bound')
      /\ levels' \in Seq(Cursors) /\ Len(levels') = L - 1
      /\ \A l \in 1 .. L - 1 : levels'[l] = levels[l]
  BY BacktrackMisses
<1>2. /\ L \in 1 .. Len(spec) /\ at = "next" /\ spec \in Seq(Patterns)
      /\ Len(spec) \in Nat \ {0}
  BY <1>1, JoinFacts DEF Missed
<1>3. /\ Ranged(index, spec, bound, levels, L)
      /\ Placed(index, spec, bound, levels, L - 1)
  BY <1>2 DEF JoinInv, Depth
<1>4. /\ at' = IF L = 1 THEN "done" ELSE "next"
      /\ UNCHANGED <<index, spec>>
  BY DEF Backtrack, store
<1> HIDE DEF L
<1>5. L \in Nat \ {0} /\ L - 1 \in 0 .. Len(spec) /\ L - 1 \in 0 .. L - 1
  BY <1>2
<1>6. Ranged(index, spec, bound, levels, L - 1)
  BY <1>3, <1>5, OneMore
<1>7. /\ Ranged(index, spec, bound', levels', L - 1)
      /\ \A k \in 0 .. L - 1 : Placed(index, spec, bound', levels', k)
  <2>1. \A k \in 0 .. L - 1 : Placed(index, spec, bound, levels, k)
    BY <1>3, <1>5 DEF Placed
  <2>2. QED BY <1>1, <1>2, <1>5, <1>6, <2>1, RangedFrame
<1>8. Depth' \in 0 .. L - 1
  BY <1>1, <1>4, <1>5 DEF Depth
<1>9. QED BY <1>1, <1>4, <1>7, <1>8

(* Every step. *)
LEMMA JoinInvKept == ASSUME OrderIsTotal, JoinInv, [Next]_vars PROVE JoinInv'
<1>1. OrderedInv'
  BY QueryInvKept, OrderedKept DEF JoinInv, OrderedInv
<1>2. ASSUME levels' = <<>>
      PROVE  /\ Ranged(index', spec', bound', levels', Len(levels'))
             /\ Placed(index', spec', bound', levels', Depth')
  <2>1. Len(levels') = 0 /\ Depth' \in {0, -1}
    BY <1>2 DEF Depth
  <2>2. 1 .. Len(levels') = {} /\ 1 .. Depth' = {}
    BY <2>1
  <2>3. QED BY <2>2 DEF Ranged, Placed
<1>3. at \in {"idle", "done"} => levels = <<>>
  BY DEF JoinInv, OrderedInv, QueryInv, Phases
<1>4. CASE Open \/ Advance \/ Backtrack
  BY <1>1, <1>4, OpenJoins, AdvanceJoins, BacktrackJoins DEF JoinInv
<1>5. CASE More
  <2>1. at = "answer" /\ at' = "next" /\ UNCHANGED <<index, spec, levels, bound>>
    BY <1>5 DEF More, store
  <2>2. Depth = Len(levels) /\ Depth' = Len(levels) - 1
    BY <2>1 DEF Depth
  <2>3. levels \in Seq(Cursors)
    BY <2>1, JoinFacts
  <2>4. 1 .. Len(levels) - 1 \subseteq 1 .. Len(levels)
    BY <2>3
  <2>5. Placed(index, spec, bound, levels, Len(levels) - 1)
    BY <2>2, <2>4 DEF JoinInv, Placed
  <2>6. QED BY <1>1, <2>1, <2>2, <2>5 DEF JoinInv
<1>6. CASE Stop
  BY <1>1, <1>2, <1>6 DEF Stop, JoinInv
<1>7. CASE Return
  BY <1>1, <1>2, <1>3, <1>7 DEF Return, JoinInv
<1>8. CASE RemoveAll \/ (\E f \in Triples : AddFact(f) \/ AddFails(f) \/ RemoveFact(f))
                     \/ \E q \in Specs : Query(q)
  BY <1>1, <1>2, <1>3, <1>8 DEF RemoveAll, AddFact, AddFails, RemoveFact, Query, JoinInv
<1>9. CASE UNCHANGED vars
  BY <1>1, <1>9 DEF vars, JoinInv, Depth
<1>10. QED BY <1>4, <1>5, <1>6, <1>7, <1>8, <1>9 DEF Next

(* There is no cursor in the first state. *)
LEMMA JoinInvStarts == Init => JoinInv
<1>1. SUFFICES ASSUME Init PROVE JoinInv
  OBVIOUS
<1>2. Len(levels) = 0 /\ Depth = 0
  BY <1>1 DEF Init, Depth
<1>3. 1 .. Len(levels) = {} /\ 1 .. Depth = {}
  BY <1>2
<1>4. OrderedInv
  BY <1>1, OrderedStarts
<1>5. QED BY <1>3, <1>4 DEF JoinInv, Ranged, Placed

(***************************************************************************)
(* Answers: what the cursors have passed is what has been answered         *)
(***************************************************************************)
(* The fact that b makes of pattern l is one of the first k of index i of  *)
(* x, and b is what the query has bound before that pattern.               *)
PassedAt(x, q, v, b, i, l, k) ==
  /\ Agree(q, l - 1, v, b)
  /\ \E n \in 1 .. Len(x[i]) : n <= k /\ x[i][n] = Instance(q[l], b)

(* A cursor has passed the facts before its own, and the innermost one its *)
(* own when it is on top of them, looking for the next.                    *)
Behind(ls, top, l) == IF top /\ l = Len(ls) THEN ls[l].node ELSE ls[l].node - 1

Passed(x, q, v, ls, top, b) ==
  \E l \in 1 .. Len(ls) : PassedAt(x, q, v, b, ls[l].index, l, Behind(ls, top, l))

(* The fact a solution makes of a pattern is in every index, once. *)
LEMMA SolutionFacts ==
  ASSUME OrderIsTotal, Kept(Stored), Ordered(Stored), spec \in Specs,
         NEW b \in Solutions, NEW l \in 1 .. Len(spec), NEW i \in Indexes
  PROVE  /\ index[i] \in Seq(Triples) /\ Len(index[i]) \in Nat
         /\ \E n \in 1 .. Len(index[i]) : index[i][n] = Instance(spec[l], b)
         /\ \A m, n \in 1 .. Len(index[i]) : index[i][m] = index[i][n] => m = n
<1>1. /\ index[i] \in Seq(Triples) /\ Len(index[i]) \in Nat
      /\ Sorted(i, index[i]) /\ ToSet(index[i]) = indexed
  BY IndexTypes DEF Ordered, Indexed, Stored, indexed
<1>2. IsInjective(index[i]) /\ DOMAIN index[i] = 1 .. Len(index[i])
  BY <1>1, SortedOnce
<1>3. Instance(spec[l], b) \in indexed
  BY DEF Solutions
<1>4. \E n \in 1 .. Len(index[i]) : index[i][n] = Instance(spec[l], b)
  BY <1>1, <1>3 DEF ToSet
<1>5. QED BY <1>1, <1>2, <1>4 DEF IsInjective

(* A cursor reaches the fact of each solution that agrees with what is     *)
(* bound.                                                                  *)
LEMMA SolutionInRange ==
  ASSUME OrderIsTotal, Kept(Stored), Ordered(Stored), spec \in Specs,
         NEW v, NEW l, Bounded(spec, v, l),
         NEW c, InItsRange(index, c), c.pattern = Given(spec, v, l), c.pattern \in Patterns,
         NEW b \in Solutions, Agree(spec, l - 1, v, b),
         NEW n \in 1 .. Len(index[c.index]), index[c.index][n] = Instance(spec[l], b)
  PROVE  /\ n > Pred(c.index, index[c.index], Start(c.pattern))
         /\ n > c.node => n \in Matching(c)
<1> DEFINE p == c.pattern
           f == index[c.index][n]
           k == Pred(c.index, index[c.index], Start(p))
<1>1. Matches(p, f)
  BY GivenMatches
<1>2. c.index \in Indexes /\ c.node \in Nat
  BY DEF InItsRange, Cursors
<1>3. Len(index[c.index]) \in Nat /\ k \in Nat
  BY <1>2, IndexTypes, PredBounds
<1>4. /\ \A m \in c.node + 1 .. Len(index[c.index]) :
           m \in InRange(c) <=> Matches(p, index[c.index][m])
      /\ \A m \in 1 .. k : ~ Matches(p, index[c.index][m])
  BY RangeExact
<1>5. n > k
  BY <1>1, <1>3, <1>4
<1>6. n > c.node => n \in InRange(c)
  BY <1>1, <1>2, <1>3, <1>4
<1>7. Typed(p, f)
  <2>1. SUFFICES ASSUME NEW m \in Positions, IsVar(p[m])
                 PROVE  VarType[p[m].name] \in {"Tag", f[m].type}
    BY DEF Typed
  <2>2. p[m] = spec[l][m] /\ IsVar(spec[l][m])
    BY <2>1, GivenFacts
  <2>3. f[m] = b[p[m].name]
    BY <2>2 DEF Instance
  <2>4. p[m].name \in Asked
    <3>1. p[m].name \in VarsOf(spec[l]) /\ l \in 1 .. Len(spec)
      BY <2>2 DEF VarsOf, Bounded
    <3>2. QED BY <3>1 DEF Asked
  <2>5. QED BY <2>3, <2>4 DEF Solutions
<1>8. QED BY <1>5, <1>6, <1>7 DEF Matching

(* What later patterns bind is nothing to what is passed before them. *)
LEMMA PassedFrame ==
  ASSUME NEW q \in Seq(Patterns), NEW m \in 0 .. Len(q), NEW v, NEW w, Agree(q, m, v, w),
         NEW l \in 1 .. Len(q), l <= m + 1, NEW x, NEW b, NEW i, NEW k
  PROVE  PassedAt(x, q, w, b, i, l, k) <=> PassedAt(x, q, v, b, i, l, k)
<1>1. Agree(q, l - 1, w, b) <=> Agree(q, l - 1, v, b)
  BY AgreeFrame
<1>2. QED BY <1>1 DEF PassedAt

(* A cursor starts before the facts of all the solutions. *)
LEMMA OpenPasses ==
  ASSUME OrderIsTotal, JoinInv, Open, NEW b \in Solutions
  PROVE  Passed(index, spec, bound, levels', TRUE, b) <=>
           Passed(index, spec, bound, levels, FALSE, b)
<1> DEFINE L == Len(levels)
           p == Expand(spec[L + 1])
           c == Cursor(p)
<1>1. at = "open" /\ levels' = Append(levels, c)
  BY DEF Open
<1>2. /\ Kept(Stored) /\ Ordered(Stored) /\ spec \in Specs /\ spec \in Seq(Patterns)
      /\ Len(spec) \in Nat \ {0} /\ levels \in Seq(Cursors) /\ bound \in Bindings
      /\ L \in 0 .. Len(spec)
      /\ \A l \in 1 .. Len(spec) : l <= Depth + 1 => Bounded(spec, bound, l)
  BY <1>1, JoinFacts
<1>3. L < Len(spec) /\ Depth = L
  BY <1>1 DEF Depth, JoinInv, OrderedInv, QueryInv, Phases
<1>4. p = Given(spec, bound, L + 1) /\ Bounded(spec, bound, L + 1)
  BY <1>1, <1>2, <1>3, ExpandIsGiven
<1>5. p \in Patterns
  <2>1. spec[L + 1] \in Patterns
    BY <1>2, <1>3
  <2>2. QED BY <1>2, <2>1, ExpandType DEF Bindings
<1>6. /\ InItsRange(index, c) /\ c.pattern = p /\ c.index = IndexOf(p) /\ c \in Cursors
      /\ c.node = Pred(IndexOf(p), index[IndexOf(p)], Start(p))
  BY <1>2, <1>5, OpenRange DEF InItsRange
<1> HIDE DEF p, L, c
<1>7. /\ Len(levels') = L + 1 /\ levels'[L + 1] = c
      /\ \A l \in 1 .. L : levels'[l] = levels[l]
  BY <1>1, <1>2, <1>6, AppendProperties DEF L
<1>8. ~ PassedAt(index, spec, bound, b, c.index, L + 1, c.node)
  <2>1. SUFFICES ASSUME Agree(spec, (L + 1) - 1, bound, b),
                        NEW n \in 1 .. Len(index[c.index]), n <= c.node,
                        index[c.index][n] = Instance(spec[L + 1], b)
                 PROVE  FALSE
    BY DEF PassedAt
  <2>2. n > Pred(c.index, index[c.index], Start(c.pattern))
    BY <1>2, <1>4, <1>5, <1>6, <2>1, SolutionInRange
  <2>3. c.node \in Nat
    BY <1>6 DEF Cursors
  <2>4. QED BY <1>6, <2>1, <2>2, <2>3
<1>9. \A l \in 1 .. L : /\ levels'[l].index = levels[l].index
                        /\ Behind(levels', TRUE, l) = Behind(levels, FALSE, l)
  <2>1. ASSUME NEW l \in 1 .. L PROVE l # Len(levels') /\ levels'[l] = levels[l]
    BY <1>2, <1>7
  <2>2. QED BY <2>1 DEF Behind
<1>10. levels'[L + 1].index = c.index /\ Behind(levels', TRUE, L + 1) = c.node
  BY <1>7 DEF Behind
<1>11. 1 .. Len(levels') = (1 .. L) \cup {L + 1}
  BY <1>2, <1>7
<1>12. QED BY <1>8, <1>9, <1>10, <1>11 DEF Passed, L

(* The fact found is the first of a solution after those passed. *)
LEMMA AdvancePasses ==
  ASSUME OrderIsTotal, JoinInv, Advance, NEW b \in Solutions
  PROVE  /\ Passed(index, spec, bound', levels', FALSE, b) <=>
              Passed(index, spec, bound, levels, TRUE, b)
         /\ Passed(index, spec, bound', levels', TRUE, b) <=>
              \/ Passed(index, spec, bound, levels, TRUE, b)
              \/ Agree(spec, Len(levels), bound', b)
<1> DEFINE L == Len(levels)
           n == Min(Matching(Top))
           f == index[Top.index][n]
           i == Top.index
           At(k) == PassedAt(index, spec, bound, b, i, L, k)
<1>1. Hit(L, n, f)
  BY AdvanceHits
<1>2. n = Min(Matching(Top)) /\ f = index[i][n] /\ L = Len(levels)
  OBVIOUS
<1> HIDE DEF L, n, f
<1>3. /\ Instance(spec[L], bound') = f /\ Agree(spec, L - 1, bound, bound')
      /\ Len(levels') = L
      /\ \A l \in 1 .. L - 1 : levels'[l] = levels[l]
      /\ levels'[L].index = i /\ levels'[L].node = n
  BY <1>1, <1>2, AdvanceBinds
<1>4. /\ at = "next" /\ spec \in Specs /\ L \in 1 .. Len(spec)
      /\ Bounded(spec, bound, L) /\ Top = levels[L] /\ InItsRange(index, Top)
      /\ Top.pattern = Given(spec, bound, L) /\ Top.pattern \in Patterns
      /\ n \in Top.node + 1 .. Len(index[i]) /\ \A m \in Matching(Top) : n <= m
  BY <1>1 DEF Hit
<1>5. /\ Kept(Stored) /\ Ordered(Stored) /\ spec \in Seq(Patterns) /\ Len(spec) \in Nat \ {0}
  BY <1>4, JoinFacts
<1>6. i \in Indexes /\ Top.node \in Nat
  BY <1>4 DEF InItsRange, Cursors
<1>7. /\ Len(index[i]) \in Nat
      /\ \A m, k \in 1 .. Len(index[i]) : index[i][m] = index[i][k] => m = k
  BY <1>4, <1>5, <1>6, SolutionFacts
<1>8. n \in Nat /\ n \in 1 .. Len(index[i]) /\ Top.node <= n - 1 /\ L \in Nat \ {0}
  BY <1>4, <1>5, <1>6, <1>7
<1>9. ASSUME Agree(spec, L - 1, bound, b), NEW m \in 1 .. Len(index[i]),
             index[i][m] = Instance(spec[L], b)
      PROVE  m > Top.node => n <= m
  <2>1. m > Top.node => m \in Matching(Top)
    BY <1>4, <1>5, <1>9, SolutionInRange
  <2>2. QED BY <1>4, <2>1
<1>10. At(Top.node) <=> At(n - 1)
  <2>1. ASSUME At(Top.node) PROVE At(n - 1)
    <3>1. PICK m \in 1 .. Len(index[i]) : m <= Top.node /\ index[i][m] = Instance(spec[L], b)
      BY <2>1 DEF PassedAt
    <3>2. m <= n - 1
      BY <1>6, <1>8, <3>1
    <3>3. QED BY <2>1, <3>1, <3>2 DEF PassedAt
  <2>2. ASSUME At(n - 1) PROVE At(Top.node)
    <3>1. PICK m \in 1 .. Len(index[i]) : m <= n - 1 /\ index[i][m] = Instance(spec[L], b)
      BY <2>2 DEF PassedAt
    <3>2. Agree(spec, L - 1, bound, b)
      BY <2>2 DEF PassedAt
    <3>3. m > Top.node => n <= m
      BY <1>9, <3>1, <3>2
    <3>4. m <= Top.node
      BY <1>6, <1>8, <3>1, <3>3
    <3>5. QED BY <2>2, <3>1, <3>4 DEF PassedAt
  <2>3. QED BY <2>1, <2>2
<1>11. At(n) <=> At(n - 1) \/ (Agree(spec, L - 1, bound, b) /\ Instance(spec[L], b) = f)
  <2>1. ASSUME At(n)
        PROVE  At(n - 1) \/ (Agree(spec, L - 1, bound, b) /\ Instance(spec[L], b) = f)
    <3>1. PICK m \in 1 .. Len(index[i]) : m <= n /\ index[i][m] = Instance(spec[L], b)
      BY <2>1 DEF PassedAt
    <3>2. m <= n - 1 \/ m = n
      BY <1>8, <3>1
    <3>3. QED BY <1>2, <2>1, <3>1, <3>2 DEF PassedAt
  <2>2. ASSUME At(n - 1) PROVE At(n)
    <3>1. \A m \in 1 .. Len(index[i]) : m <= n - 1 => m <= n
      BY <1>8
    <3>2. QED BY <2>2, <3>1 DEF PassedAt
  <2>3. ASSUME Agree(spec, L - 1, bound, b), Instance(spec[L], b) = f PROVE At(n)
    <3>1. n <= n
      BY <1>8
    <3>2. QED BY <1>2, <1>8, <2>3, <3>1 DEF PassedAt
  <2>4. QED BY <2>1, <2>2, <2>3
<1>12. Agree(spec, L, bound', b) <=>
         Agree(spec, L - 1, bound, b) /\ Instance(spec[L], b) = f
  <2>1. L - 1 \in 0 .. Len(spec) /\ L <= (L - 1) + 1
    BY <1>4, <1>5
  <2>2. Agree(spec, L - 1, bound', b) <=> Agree(spec, L - 1, bound, b)
    BY <1>3, <1>4, <1>5, <2>1, AgreeFrame
  <2>3. QED BY <1>3, <1>4, <1>5, <2>2, SameInstance
<1>13. ASSUME NEW l \in 1 .. L, NEW j, NEW k
       PROVE  PassedAt(index, spec, bound', b, j, l, k) <=>
                PassedAt(index, spec, bound, b, j, l, k)
  <2>1. L - 1 \in 0 .. Len(spec) /\ l \in 1 .. Len(spec) /\ l <= (L - 1) + 1
    BY <1>4, <1>5
  <2>2. QED BY <1>3, <1>5, <2>1, PassedFrame
<1>14. ASSUME NEW l \in 1 .. L - 1
       PROVE  /\ levels'[l].index = levels[l].index /\ l \in 1 .. L
              /\ Behind(levels', FALSE, l) = Behind(levels, TRUE, l)
              /\ Behind(levels', TRUE, l) = Behind(levels, TRUE, l)
  <2>1. l # L /\ levels'[l] = levels[l] /\ l \in 1 .. L
    BY <1>3, <1>8
  <2>2. QED BY <1>2, <1>3, <2>1 DEF Behind
<1>15. /\ Behind(levels', FALSE, L) = n - 1 /\ Behind(levels', TRUE, L) = n
       /\ Behind(levels, TRUE, L) = Top.node /\ levels[L].index = i
  BY <1>2, <1>3, <1>4 DEF Behind
<1> DEFINE Outer == \E l \in 1 .. L - 1 :
                      PassedAt(index, spec, bound, b, levels[l].index, l, Behind(levels, TRUE, l))
<1>16. 1 .. L = (1 .. L - 1) \cup {L} /\ L \in 1 .. L
  BY <1>8
<1>17. Passed(index, spec, bound, levels, TRUE, b) <=> Outer \/ At(Top.node)
  BY <1>2, <1>15, <1>16 DEF Passed
<1>18. Passed(index, spec, bound', levels', FALSE, b) <=> Outer \/ At(n - 1)
  <2> DEFINE P(l) == PassedAt(index, spec, bound', b, levels'[l].index, l, Behind(levels', FALSE, l))
             Q(l) == PassedAt(index, spec, bound, b, levels[l].index, l, Behind(levels, TRUE, l))
  <2>1. ASSUME NEW l \in 1 .. L - 1 PROVE P(l) <=> Q(l)
    <3>1. l \in 1 .. L
      BY <1>14
    <3>2. P(l) <=> PassedAt(index, spec, bound, b, levels'[l].index, l, Behind(levels', FALSE, l))
      BY <1>13, <3>1
    <3>3. QED BY <1>14, <3>2
  <2>2. P(L) <=> At(n - 1)
    <3>1. P(L) <=> PassedAt(index, spec, bound, b, levels'[L].index, L, Behind(levels', FALSE, L))
      BY <1>13, <1>16
    <3>2. QED BY <1>3, <1>15, <3>1
  <2>3. Passed(index, spec, bound', levels', FALSE, b) <=> \E l \in 1 .. L : P(l)
    BY <1>3 DEF Passed
  <2> HIDE DEF P
  <2>4. QED BY <1>16, <2>1, <2>2, <2>3
<1>19. Passed(index, spec, bound', levels', TRUE, b) <=> Outer \/ At(n)
  <2> DEFINE P(l) == PassedAt(index, spec, bound', b, levels'[l].index, l, Behind(levels', TRUE, l))
             Q(l) == PassedAt(index, spec, bound, b, levels[l].index, l, Behind(levels, TRUE, l))
  <2>1. ASSUME NEW l \in 1 .. L - 1 PROVE P(l) <=> Q(l)
    <3>1. l \in 1 .. L
      BY <1>14
    <3>2. P(l) <=> PassedAt(index, spec, bound, b, levels'[l].index, l, Behind(levels', TRUE, l))
      BY <1>13, <3>1
    <3>3. QED BY <1>14, <3>2
  <2>2. P(L) <=> At(n)
    <3>1. P(L) <=> PassedAt(index, spec, bound, b, levels'[L].index, L, Behind(levels', TRUE, L))
      BY <1>13, <1>16
    <3>2. QED BY <1>3, <1>15, <3>1
  <2>3. Passed(index, spec, bound', levels', TRUE, b) <=> \E l \in 1 .. L : P(l)
    BY <1>3 DEF Passed
  <2> HIDE DEF P
  <2>4. QED BY <1>16, <2>1, <2>2, <2>3
<1>20. QED BY <1>2, <1>10, <1>11, <1>12, <1>17, <1>18, <1>19

(* An exhausted cursor has passed all the solutions with the bindings of   *)
(* those around it.                                                        *)
LEMMA BacktrackPasses ==
  ASSUME OrderIsTotal, JoinInv, Backtrack, NEW b \in Solutions
  PROVE  /\ Len(levels) # 1 => (Passed(index, spec, bound', levels', TRUE, b) <=>
                                  Passed(index, spec, bound, levels, TRUE, b))
         /\ Len(levels) = 1 => Passed(index, spec, bound, levels, TRUE, b)
<1> DEFINE L == Len(levels)
           i == Top.index
           Outer == \E l \in 1 .. L - 1 :
                      PassedAt(index, spec, bound, b, levels[l].index, l, levels[l].node - 1)
<1>1. /\ Missed(L) /\ Agree(spec, L - 1, bound, bound')
      /\ Len(levels') = L - 1
      /\ \A l \in 1 .. L - 1 : levels'[l] = levels[l]
  BY BacktrackMisses
<1>2. /\ at = "next" /\ Matching(Top) = {} /\ spec \in Specs /\ L \in 1 .. Len(spec)
      /\ Bounded(spec, bound, L) /\ Top = levels[L] /\ InItsRange(index, Top)
      /\ Top.pattern = Given(spec, bound, L) /\ Top.pattern \in Patterns
      /\ L = Len(levels)
  BY <1>1 DEF Missed, InItsRange, Cursors
<1>3. /\ Kept(Stored) /\ Ordered(Stored) /\ spec \in Seq(Patterns)
      /\ Len(spec) \in Nat \ {0} /\ levels \in Seq(Cursors)
  BY <1>2, JoinFacts
<1>4. i \in Indexes /\ Top.node \in Nat
  BY <1>2 DEF InItsRange, Cursors
<1>5. Placed(index, spec, bound, levels, L - 1)
  BY <1>2 DEF JoinInv, Depth
<1> HIDE DEF L
<1>6. L \in Nat \ {0} /\ 1 .. L = (1 .. L - 1) \cup {L}
  BY <1>2, <1>3
<1>7. PassedAt(index, spec, bound, b, i, L, Top.node) <=> Agree(spec, L - 1, bound, b)
  <2>1. SUFFICES ASSUME Agree(spec, L - 1, bound, b)
                 PROVE  \E n \in 1 .. Len(index[i]) :
                          n <= Top.node /\ index[i][n] = Instance(spec[L], b)
    BY DEF PassedAt
  <2>2. Len(index[i]) \in Nat
    BY <1>2, <1>3, <1>4, SolutionFacts
  <2>3. PICK n \in 1 .. Len(index[i]) : index[i][n] = Instance(spec[L], b)
    BY <1>2, <1>3, <1>4, SolutionFacts
  <2>4. n > Top.node => n \in Matching(Top)
    BY <1>2, <1>3, <2>1, <2>3, SolutionInRange
  <2>5. n <= Top.node
    BY <1>2, <1>4, <2>2, <2>4
  <2>6. QED BY <2>3, <2>5
<1>8. /\ Behind(levels, TRUE, L) = Top.node /\ levels[L].index = i
      /\ \A l \in 1 .. L - 1 : Behind(levels, TRUE, l) = levels[l].node - 1
  <2>1. \A l \in 1 .. L - 1 : l # L
    BY <1>6
  <2>2. QED BY <1>2, <2>1 DEF Behind
<1>9. Passed(index, spec, bound, levels, TRUE, b) <=> Outer \/ Agree(spec, L - 1, bound, b)
  BY <1>2, <1>6, <1>7, <1>8 DEF Passed
<1>10. CASE L = 1
  <2>1. 1 .. L - 1 = {}
    BY <1>10
  <2>2. Agree(spec, L - 1, bound, b)
    BY <2>1 DEF Agree, UpTo
  <2>3. QED BY <1>2, <1>9, <1>10, <2>2
<1>11. CASE L # 1
  <2> DEFINE M == L - 1
             j == levels[M].index
             Inner == \E l \in 1 .. M - 1 :
                        PassedAt(index, spec, bound, b, levels[l].index, l, levels[l].node - 1)
             At(k) == PassedAt(index, spec, bound, b, j, M, k)
  <2>1. /\ M \in Nat \ {0} /\ M \in 1 .. Len(spec) /\ 1 .. M = (1 .. M - 1) \cup {M}
        /\ M \in 1 .. Len(levels)
    BY <1>2, <1>3, <1>6, <1>11
  <2>2. levels[M] \in Cursors
    BY <1>3, <2>1
  <2>3. j \in Indexes /\ levels[M].node \in Nat
    BY <2>2 DEF Cursors
  <2>4. /\ levels[M].node \in 1 .. Len(index[j])
        /\ index[j][levels[M].node] = Instance(spec[M], bound)
    BY <1>5, <2>1 DEF Placed
  <2> HIDE DEF M
  <2>5. /\ Len(index[j]) \in Nat
        /\ \A m, n \in 1 .. Len(index[j]) : index[j][m] = index[j][n] => m = n
    BY <1>2, <1>3, <2>1, <2>3, SolutionFacts
  <2>6. Agree(spec, M, bound, b) <=>
          Agree(spec, M - 1, bound, b) /\ Instance(spec[M], b) = Instance(spec[M], bound)
    BY <1>3, <2>1, SameInstance
  <2>7. At(levels[M].node) <=> At(levels[M].node - 1) \/ Agree(spec, M, bound, b)
    <3>1. ASSUME At(levels[M].node)
          PROVE  At(levels[M].node - 1) \/ Agree(spec, M, bound, b)
      <4>1. PICK m \in 1 .. Len(index[j]) :
              m <= levels[M].node /\ index[j][m] = Instance(spec[M], b)
        BY <3>1 DEF PassedAt
      <4>2. m <= levels[M].node - 1 \/ m = levels[M].node
        BY <2>3, <4>1
      <4>3. QED BY <2>4, <2>6, <3>1, <4>1, <4>2 DEF PassedAt
    <3>2. ASSUME At(levels[M].node - 1) PROVE At(levels[M].node)
      <4>1. \A m \in 1 .. Len(index[j]) : m <= levels[M].node - 1 => m <= levels[M].node
        BY <2>3
      <4>2. QED BY <3>2, <4>1 DEF PassedAt
    <3>3. ASSUME Agree(spec, M, bound, b) PROVE At(levels[M].node)
      <4>1. levels[M].node <= levels[M].node
        BY <2>3
      <4>2. QED BY <2>4, <2>6, <3>3, <4>1 DEF PassedAt
    <3>4. QED BY <3>1, <3>2, <3>3
  <2>8. ASSUME NEW l \in 1 .. M, NEW d, NEW k
        PROVE  PassedAt(index, spec, bound', b, d, l, k) <=>
                 PassedAt(index, spec, bound, b, d, l, k)
    <3>1. L - 1 \in 0 .. Len(spec) /\ l \in 1 .. Len(spec) /\ l <= (L - 1) + 1
      BY <1>3, <1>6, <2>1 DEF M
    <3>2. QED BY <1>1, <1>3, <3>1, PassedFrame
  <2>9. /\ Len(levels') = M /\ levels'[M] = levels[M]
        /\ \A l \in 1 .. M - 1 : levels'[l] = levels[l] /\ l # M
    BY <1>1, <2>1 DEF M
  <2>10. /\ Behind(levels', TRUE, M) = levels[M].node
         /\ \A l \in 1 .. M - 1 : Behind(levels', TRUE, l) = levels[l].node - 1
    BY <2>9 DEF Behind
  <2>11. Passed(index, spec, bound', levels', TRUE, b) <=> Inner \/ At(levels[M].node)
    <3> DEFINE P(l) == PassedAt(index, spec, bound', b, levels'[l].index, l, Behind(levels', TRUE, l))
               Q(l) == PassedAt(index, spec, bound, b, levels[l].index, l, levels[l].node - 1)
    <3>1. ASSUME NEW l \in 1 .. M - 1 PROVE P(l) <=> Q(l)
      <4>1. l \in 1 .. M
        BY <2>1
      <4>2. P(l) <=> PassedAt(index, spec, bound, b, levels'[l].index, l, Behind(levels', TRUE, l))
        BY <2>8, <4>1
      <4>3. QED BY <2>9, <2>10, <4>2
    <3>2. P(M) <=> At(levels[M].node)
      <4>1. P(M) <=> PassedAt(index, spec, bound, b, levels'[M].index, M, Behind(levels', TRUE, M))
        BY <2>1, <2>8
      <4>2. QED BY <2>9, <2>10, <4>1
    <3>3. Passed(index, spec, bound', levels', TRUE, b) <=> \E l \in 1 .. M : P(l)
      BY <2>9 DEF Passed
    <3> HIDE DEF P
    <3>4. QED BY <2>1, <3>1, <3>2, <3>3
  <2>12. Outer <=> Inner \/ At(levels[M].node - 1)
    <3>1. Outer <=> \E l \in 1 .. M :
                      PassedAt(index, spec, bound, b, levels[l].index, l, levels[l].node - 1)
      BY DEF M
    <3> HIDE DEF Outer
    <3>2. QED BY <2>1, <3>1
  <2>13. QED BY <1>2, <1>9, <1>11, <2>7, <2>11, <2>12 DEF M
<1>12. QED BY <1>10, <1>11

(* The answer found last is a solution, and none of those passed. *)
LEMMA NewAnswer ==
  ASSUME OrderIsTotal, JoinInv, Advance, Len(levels) = Len(spec),
         NEW s, s = Restrict(bound', Asked)
  PROVE  /\ s \in Solutions /\ ~ Passed(index, spec, bound, levels, TRUE, s)
         /\ \A b \in Solutions : Agree(spec, Len(levels), bound', b) <=> b = s
<1> DEFINE L == Len(levels)
           n == Min(Matching(Top))
           f == index[Top.index][n]
<1>1. Hit(L, n, f)
  BY AdvanceHits
<1>2. n = Min(Matching(Top)) /\ L = Len(levels)
  OBVIOUS
<1> HIDE DEF L, n, f
<1>3. /\ Len(levels') = L /\ levels' \in Seq(Cursors)
      /\ \A l \in 1 .. L - 1 : levels'[l] = levels[l]
      /\ levels'[L].index = Top.index /\ levels'[L].node = n
  BY <1>1, <1>2, AdvanceBinds
<1>4. /\ at = "next" /\ spec \in Specs /\ L \in 1 .. Len(spec) /\ Top = levels[L]
      /\ n \in Top.node + 1 .. Len(index[Top.index])
  BY <1>1 DEF Hit
<1>5. /\ Kept(Stored) /\ Ordered(Stored) /\ spec \in Seq(Patterns)
      /\ Len(spec) \in Nat \ {0}
  BY <1>4, JoinFacts
<1>6. index' = index /\ spec' = spec /\ at' = "answer"
  BY DEF Advance, store
<1>7. L = Len(spec) /\ L \in Nat \ {0} /\ L \in 0 .. L /\ L \in 0 .. Len(levels') /\ L <= Len(spec)
      /\ L \in 0 .. Len(spec)
  BY <1>2, <1>3, <1>5
<1>8. Placed(index, spec, bound', levels', L)
  <2>1. Placed(index', spec', bound', levels', Depth')
    BY AdvanceJoins
  <2>2. Depth' = L
    BY <1>3, <1>6 DEF Depth
  <2>3. QED BY <1>6, <2>1, <2>2
<1>9. bound' \in Bindings
  <2>1. QueryInv
    BY DEF JoinInv, OrderedInv
  <2>2. QueryInv'
    BY <2>1, AdvanceSteps
  <2>3. QED BY <2>2 DEF QueryInv, QueryTypes
<1>10. /\ \A z \in UpTo(spec, L) : /\ bound'[z] \in Values
                                   /\ VarType[z] \in {"Tag", bound'[z].type}
       /\ \A l \in 1 .. L : Instance(spec[l], bound') \in indexed
  BY <1>3, <1>4, <1>5, <1>7, <1>8, <1>9, PlacedValues
<1>11. Asked = UpTo(spec, L)
  BY <1>7 DEF Asked, UpTo
<1>12. s = [z \in Asked |-> bound'[z]]
  BY DEF Restrict
<1>13. Agree(spec, L, bound', s)
  BY <1>11, <1>12 DEF Agree
<1>14. \A l \in 1 .. L : Instance(spec[l], s) = Instance(spec[l], bound')
  BY <1>5, <1>7, <1>13, AgreeFrame
<1>15. s \in Solutions
  <2>1. s \in [Asked -> Values]
    BY <1>10, <1>11, <1>12
  <2>2. \A z \in Asked : VarType[z] \in {"Tag", s[z].type}
    BY <1>10, <1>11, <1>12
  <2>3. \A l \in 1 .. Len(spec) : Instance(spec[l], s) \in indexed
    BY <1>7, <1>10, <1>14
  <2>4. QED BY <2>1, <2>2, <2>3 DEF Solutions
<1>16. ASSUME NEW b \in Solutions PROVE Agree(spec, L, bound', b) <=> b = s
  <2>1. b \in [Asked -> Values]
    BY DEF Solutions
  <2>2. b = [z \in Asked |-> b[z]]
    BY <2>1
  <2>3. QED BY <1>11, <1>12, <2>2 DEF Agree
<1>17. ~ Passed(index, spec, bound, levels, TRUE, s)
  <2>1. SUFFICES ASSUME NEW l \in 1 .. L,
                        PassedAt(index, spec, bound, s, levels[l].index, l,
                                 Behind(levels, TRUE, l))
                 PROVE  FALSE
    BY <1>2 DEF Passed
  <2> DEFINE i == levels'[l].index
             k == levels'[l].node
  <2>2. /\ k \in 1 .. Len(index[i]) /\ index[i][k] = Instance(spec[l], s)
    BY <1>8, <1>14 DEF Placed
  <2>3. i \in Indexes /\ k \in Nat
    <3>1. levels'[l] \in Cursors
      BY <1>3
    <3>2. QED BY <3>1 DEF Cursors
  <2>4. i = levels[l].index
    <3>1. CASE l = L
      BY <1>3, <1>4, <3>1
    <3>2. CASE l # L
      <4>1. l \in 1 .. L - 1
        BY <1>7, <3>2
      <4>2. QED BY <1>3, <4>1
    <3>3. QED BY <3>1, <3>2
  <2>5. PICK m \in 1 .. Len(index[i]) :
          m <= Behind(levels, TRUE, l) /\ index[i][m] = Instance(spec[l], s)
    BY <2>1, <2>4 DEF PassedAt
  <2>10. Len(index[i]) \in Nat
    BY <1>5, <2>3, IndexTypes
  <2>6. m = k
    <3>1. l \in 1 .. Len(spec)
      BY <1>7
    <3>2. \A d, e \in 1 .. Len(index[i]) : index[i][d] = index[i][e] => d = e
      BY <1>4, <1>5, <1>15, <2>3, <3>1, SolutionFacts
    <3>3. QED BY <2>2, <2>5, <3>2
  <2>7. CASE l = L
    <3>1. Behind(levels, TRUE, l) = Top.node /\ k = n
      BY <1>2, <1>3, <1>4, <2>7 DEF Behind
    <3>2. Top.node \in Nat
      <4>1. InItsRange(index, Top)
        BY <1>1 DEF Hit
      <4>2. QED BY <4>1 DEF InItsRange, Cursors
    <3>3. i = Top.index
      BY <1>3, <2>7
    <3> HIDE DEF i, k
    <3>4. n >= Top.node + 1
      BY <1>4, <2>10, <3>2, <3>3
    <3>5. k <= Top.node /\ k = n /\ k \in Nat
      BY <2>3, <2>5, <2>6, <3>1
    <3>6. QED BY <3>2, <3>4, <3>5
  <2>8. CASE l # L
    <3>1. l \in 1 .. L - 1
      BY <1>7, <2>8
    <3>2. Behind(levels, TRUE, l) = k - 1
      BY <1>2, <1>3, <2>8, <3>1 DEF Behind
    <3> HIDE DEF i, k
    <3>3. k <= k - 1 /\ k \in Nat
      BY <2>3, <2>5, <2>6, <3>2
    <3>4. QED BY <3>3
  <2>9. QED BY <2>7, <2>8
<1>18. QED BY <1>2, <1>15, <1>16, <1>17

(* The answers, as bindings of the variables D of the query. *)
Bound(given, D) == [k \in 1 .. Len(given) |-> Restrict(given[k], D)]

(* h has what g has and e, which is new in it if it is to be injective. *)
Gains(g, h, e) ==
  /\ ToSet(h) = ToSet(g) \cup {e}
  /\ IsInjective(g) /\ e \notin ToSet(g) => IsInjective(h)

(* An answer more. *)
LEMMA AnswerMore ==
  ASSUME NEW given \in Seq(Bindings), NEW w \in Bindings, NEW D,
         NEW r, r = Append(given, w)
  PROVE  Gains(Bound(given, D), Bound(r, D), Restrict(w, D))
<1> DEFINE g == Bound(given, D)
           h == Bound(r, D)
           K == Len(given)
<1>1. /\ Len(r) = K + 1 /\ K \in Nat /\ r[K + 1] = w
      /\ \A k \in 1 .. K : r[k] = given[k]
  <2>1. Len(r) = K + 1 /\ K \in Nat
    OBVIOUS
  <2>2. r[K + 1] = w
    OBVIOUS
  <2>3. ASSUME NEW k \in 1 .. K PROVE r[k] = given[k]
    OBVIOUS
  <2>4. QED BY <2>1, <2>2, <2>3
<1>2. /\ DOMAIN g = 1 .. K /\ DOMAIN h = 1 .. K + 1
      /\ \A k \in 1 .. K : g[k] = Restrict(given[k], D)
      /\ \A k \in 1 .. K + 1 : h[k] = Restrict(r[k], D)
  BY <1>1 DEF Bound
<1>3. ToSet(g) = {g[k] : k \in 1 .. K} /\ ToSet(h) = {h[k] : k \in 1 .. K + 1}
  BY <1>2 DEF ToSet
<1> HIDE DEF g, h, K
<1>4. (\A k \in 1 .. K : h[k] = g[k]) /\ h[K + 1] = Restrict(w, D)
  <2>1. ASSUME NEW k \in 1 .. K PROVE h[k] = g[k]
    <3>1. k \in 1 .. K + 1 /\ r[k] = given[k]
      BY <1>1
    <3>2. h[k] = Restrict(r[k], D) /\ g[k] = Restrict(given[k], D)
      BY <1>2, <3>1
    <3>3. QED BY <3>1, <3>2
  <2>2. K + 1 \in 1 .. K + 1 /\ r[K + 1] = w
    BY <1>1
  <2>3. h[K + 1] = Restrict(r[K + 1], D)
    BY <1>2, <2>2
  <2>4. QED BY <2>1, <2>2, <2>3
<1>5. 1 .. K + 1 = (1 .. K) \cup {K + 1} /\ K + 1 \notin 1 .. K
  BY <1>1
<1>6. ToSet(h) = ToSet(g) \cup {Restrict(w, D)}
  BY <1>3, <1>4, <1>5
<1>7. ASSUME IsInjective(g), Restrict(w, D) \notin ToSet(g) PROVE IsInjective(h)
  <2>1. \A k \in 1 .. K : g[k] # Restrict(w, D)
    BY <1>3, <1>7
  <2>2. \A j, k \in 1 .. K : g[j] = g[k] => j = k
    BY <1>2, <1>7 DEF IsInjective
  <2>3. SUFFICES ASSUME NEW j \in 1 .. K + 1, NEW k \in 1 .. K + 1, h[j] = h[k]
                 PROVE  j = k
    BY <1>2 DEF IsInjective
  <2>4. QED BY <1>4, <1>5, <2>1, <2>2, <2>3
<1>8. QED BY <1>6, <1>7 DEF g, h, Gains

(* What the query has answered are solutions, each once; those it has not  *)
(* answered are the ones its cursors have not passed.                      *)
Answered(b) == b \in ToSet(Bound(answers, Asked))

AnsweredInv ==
  /\ JoinInv
  /\ at # "idle" => /\ IsInjective(Bound(answers, Asked))
                    /\ \A b : Answered(b) => b \in Solutions
  /\ at \notin {"idle", "done"} =>
       \A b \in Solutions :
         Answered(b) <=> Passed(index, spec, bound, levels, at # "open", b)
  /\ at = "done" => \A b \in Solutions : Answered(b)

(* A query starts with no answer and nothing passed. *)
LEMMA QueryAnswers ==
  ASSUME OrderIsTotal, AnsweredInv, NEW q \in Specs, Query(q) PROVE AnsweredInv'
<1>1. JoinInv /\ JoinInv'
  BY JoinInvKept DEF AnsweredInv, Next
<1>2. at' = "open" /\ levels' = <<>> /\ answers' = <<>>
  BY <1>1 DEF Query, JoinInv, OrderedInv, QueryInv, Phases
<1>3. Len(levels') = 0 /\ Len(answers') = 0 /\ 1 .. 0 = {}
  BY <1>2
<1>4. \A D : DOMAIN Bound(answers', D) = {}
  BY <1>3 DEF Bound
<1>5. /\ IsInjective(Bound(answers, Asked))'
      /\ \A b : ~ Answered(b)'
  BY <1>4 DEF IsInjective, ToSet, Answered
<1>6. \A b : ~ Passed(index', spec', bound', levels', TRUE, b)
             /\ ~ Passed(index', spec', bound', levels', FALSE, b)
  BY <1>3 DEF Passed
<1>7. QED BY <1>1, <1>2, <1>5, <1>6 DEF AnsweredInv

(* A step of a query, which leaves the facts and the patterns as they are. *)
Asking ==
  /\ UNCHANGED <<index, spec>> /\ Solutions' = Solutions /\ Asked' = Asked

(* These steps do. *)
LEMMA AsksTheSame ==
  ASSUME Open \/ Advance \/ Backtrack \/ More
  PROVE  Asking
<1>1. UNCHANGED <<set, index, spec>>
  BY DEF Open, Advance, Backtrack, More, store
<1>2. Asked' = Asked
  BY <1>1 DEF Asked
<1>3. indexed' = indexed /\ Values' = Values
  BY <1>1 DEF indexed, Values
<1>4. Solutions' = Solutions
  BY <1>1, <1>2, <1>3 DEF Solutions
<1>5. QED BY <1>1, <1>2, <1>4 DEF Asking

(* Steps that give no answer. *)
LEMMA SilentAnswers ==
  ASSUME OrderIsTotal, AnsweredInv, Open \/ Backtrack \/ More PROVE AnsweredInv'
<1>1. JoinInv /\ JoinInv'
  BY JoinInvKept DEF AnsweredInv, Next
<1>2. Asking /\ answers' = answers
  BY AsksTheSame DEF Open, Backtrack, More
<1>3. /\ (\A b : Answered(b)' <=> Answered(b))
      /\ Bound(answers, Asked)' = Bound(answers, Asked)
  BY <1>2 DEF Asking, Answered
<1>4. at # "idle" => /\ IsInjective(Bound(answers, Asked))'
                     /\ \A b : Answered(b)' => b \in Solutions
  BY <1>3 DEF AnsweredInv
<1>5. CASE Open
  <2>1. at = "open" /\ at' = "next" /\ bound' = bound
    BY <1>5 DEF Open
  <2>2. \A b \in Solutions :
          Answered(b) <=> Passed(index, spec, bound, levels, FALSE, b)
    BY <2>1 DEF AnsweredInv
  <2>3. \A b \in Solutions : Passed(index, spec, bound, levels', TRUE, b) <=>
                               Passed(index, spec, bound, levels, FALSE, b)
    BY <1>1, <1>5, OpenPasses
  <2>4. \A b \in Solutions :
          Answered(b)' <=> Passed(index', spec', bound', levels', TRUE, b)
    BY <1>2, <1>3, <2>1, <2>2, <2>3 DEF Asking
  <2>5. QED BY <1>1, <1>2, <1>4, <2>1, <2>4 DEF AnsweredInv, Asking
<1>6. CASE More
  <2>1. at = "answer" /\ at' = "next" /\ UNCHANGED <<bound, levels>>
    BY <1>6 DEF More
  <2>2. \A b \in Solutions :
          Answered(b) <=> Passed(index, spec, bound, levels, TRUE, b)
    BY <2>1 DEF AnsweredInv
  <2>3. \A b \in Solutions :
          Answered(b)' <=> Passed(index', spec', bound', levels', TRUE, b)
    BY <1>2, <1>3, <2>1, <2>2 DEF Asking
  <2>4. QED BY <1>1, <1>2, <1>4, <2>1, <2>3 DEF AnsweredInv, Asking
<1>7. CASE Backtrack
  <2>1. at = "next" /\ at' = IF Len(levels) = 1 THEN "done" ELSE "next"
    BY <1>7 DEF Backtrack
  <2>2. \A b \in Solutions :
          Answered(b) <=> Passed(index, spec, bound, levels, TRUE, b)
    BY <2>1 DEF AnsweredInv
  <2>3. CASE Len(levels) = 1
    <3>1. \A b \in Solutions : Answered(b)'
      BY <1>1, <1>3, <1>7, <2>2, <2>3, BacktrackPasses
    <3>2. QED BY <1>1, <1>2, <1>4, <2>1, <2>3, <3>1 DEF AnsweredInv, Asking
  <2>4. CASE Len(levels) # 1
    <3>1. \A b \in Solutions : Passed(index, spec, bound', levels', TRUE, b) <=>
                                 Passed(index, spec, bound, levels, TRUE, b)
      BY <1>1, <1>7, <2>4, BacktrackPasses
    <3>2. \A b \in Solutions :
            Answered(b)' <=> Passed(index', spec', bound', levels', TRUE, b)
      BY <1>2, <1>3, <2>2, <3>1 DEF Asking
    <3>3. QED BY <1>1, <1>2, <1>4, <2>1, <2>4, <3>2 DEF AnsweredInv, Asking
  <2>5. QED BY <2>3, <2>4
<1>8. QED BY <1>5, <1>6, <1>7

(* The innermost cursor finds a fact: the answer is new. *)
LEMMA AdvanceAnswers == ASSUME OrderIsTotal, AnsweredInv, Advance PROVE AnsweredInv'
<1> DEFINE s == Restrict(bound', Asked)
<1>1. JoinInv /\ JoinInv'
  BY JoinInvKept DEF AnsweredInv, Next
<1>2. Asking /\ at = "next"
  BY AsksTheSame DEF Advance
<1>3. /\ IsInjective(Bound(answers, Asked)) /\ \A b : Answered(b) => b \in Solutions
      /\ \A b \in Solutions :
           Answered(b) <=> Passed(index, spec, bound, levels, TRUE, b)
  BY <1>2 DEF AnsweredInv
<1>4. CASE Len(levels) # Len(spec)
  <2>1. at' = "open" /\ answers' = answers
    BY <1>4 DEF Advance
  <2>2. /\ \A b : Answered(b)' <=> Answered(b)
        /\ Bound(answers, Asked)' = Bound(answers, Asked)
    BY <1>2, <2>1 DEF Asking, Answered
  <2>3. \A b \in Solutions : Passed(index, spec, bound', levels', FALSE, b) <=>
                               Passed(index, spec, bound, levels, TRUE, b)
    BY <1>1, AdvancePasses
  <2>4. \A b \in Solutions :
          Answered(b)' <=> Passed(index', spec', bound', levels', FALSE, b)
    BY <1>2, <1>3, <2>2, <2>3 DEF Asking
  <2>5. QED BY <1>1, <1>2, <1>3, <2>1, <2>2, <2>4 DEF AnsweredInv, Asking
<1>5. CASE Len(levels) = Len(spec)
  <2>1. at' = "answer" /\ answers' = Append(answers, bound')
    BY <1>5 DEF Advance
  <2>2. answers \in Seq(Bindings) /\ bound' \in Bindings
    BY <1>1 DEF JoinInv, OrderedInv, QueryInv, QueryTypes
  <2>3. /\ s \in Solutions /\ ~ Passed(index, spec, bound, levels, TRUE, s)
        /\ \A b \in Solutions : Agree(spec, Len(levels), bound', b) <=> b = s
    BY <1>1, <1>5, NewAnswer
  <2>4. ~ Answered(s)
    BY <1>3, <2>3
  <2> HIDE DEF s
  <2>5. /\ ToSet(Bound(answers', Asked)) = ToSet(Bound(answers, Asked)) \cup {s}
        /\ IsInjective(Bound(answers', Asked))
    <3> DEFINE r == answers'
               w == bound'
               D == Asked
    <3>1. r = Append(answers, w) /\ answers \in Seq(Bindings) /\ w \in Bindings
      BY <2>1, <2>2
    <3>2. s = Restrict(w, D) /\ s \notin ToSet(Bound(answers, D)) /\ IsInjective(Bound(answers, D))
      BY <1>3, <2>4 DEF Answered, s
    <3> HIDE DEF r, w, D
    <3>3. Gains(Bound(answers, D), Bound(r, D), Restrict(w, D))
      BY <3>1, AnswerMore
    <3>4. QED BY <3>2, <3>3 DEF r, D, Gains
  <2>6. /\ \A b : Answered(b)' <=> Answered(b) \/ b = s
        /\ IsInjective(Bound(answers, Asked))'
    BY <1>2, <2>5 DEF Asking, Answered
  <2>7. \A b \in Solutions : Passed(index, spec, bound', levels', TRUE, b) <=>
                               \/ Passed(index, spec, bound, levels, TRUE, b)
                               \/ Agree(spec, Len(levels), bound', b)
    BY <1>1, AdvancePasses
  <2>8. \A b \in Solutions :
          Answered(b)' <=> Passed(index', spec', bound', levels', TRUE, b)
    BY <1>2, <1>3, <2>3, <2>6, <2>7 DEF Asking
  <2>9. \A b : Answered(b)' => b \in Solutions
    BY <1>3, <2>3, <2>6
  <2>10. QED BY <1>1, <1>2, <2>1, <2>6, <2>8, <2>9 DEF AnsweredInv, Asking
<1>6. QED BY <1>4, <1>5

(* Every step. *)
LEMMA AnsweredInvKept == ASSUME OrderIsTotal, AnsweredInv, [Next]_vars PROVE AnsweredInv'
<1>1. JoinInv'
  BY JoinInvKept DEF AnsweredInv
<1>2. CASE \E q \in Specs : Query(q)
  BY <1>2, QueryAnswers
<1>3. CASE Open \/ Backtrack \/ More
  BY <1>3, SilentAnswers
<1>4. CASE Advance
  BY <1>4, AdvanceAnswers
<1>5. CASE Stop \/ Return \/ RemoveAll
           \/ \E f \in Triples : AddFact(f) \/ AddFails(f) \/ RemoveFact(f)
  <2>1. at' = "idle"
    BY <1>5 DEF Stop, Return, RemoveAll, AddFact, AddFails, RemoveFact
  <2>2. QED BY <1>1, <2>1 DEF AnsweredInv
<1>6. CASE UNCHANGED vars
  <2>1. UNCHANGED <<set, index, at, spec, levels, bound, answers>>
    BY <1>6 DEF vars
  <2>2. Asked' = Asked /\ indexed' = indexed /\ Values' = Values
    BY <2>1 DEF Asked, indexed, Values
  <2>3. Solutions' = Solutions
    BY <2>1, <2>2 DEF Solutions
  <2>4. QED BY <1>1, <2>1, <2>2, <2>3 DEF AnsweredInv, Answered
<1>7. QED BY <1>2, <1>3, <1>4, <1>5, <1>6 DEF Next

(* Where compare_tag orders the tags as their values are, a query that its *)
(* caller sees through has answered every solution, once, and nothing      *)
(* else, though facts_cursor_next never looks whether a fact matches.      *)
THEOREM AnswersAreExact == OrderIsTotal => (Spec => []AnswersExact)
<1>1. SUFFICES ASSUME OrderIsTotal PROVE Spec => []AnswersExact
  OBVIOUS
<1>2. Init => AnsweredInv
  BY JoinInvStarts DEF AnsweredInv, Init
<1>3. AnsweredInv /\ [Next]_vars => AnsweredInv'
  BY <1>1, AnsweredInvKept
<1>4. AnsweredInv => AnswersExact
  <2>1. SUFFICES ASSUME AnsweredInv, at = "done"
                 PROVE  /\ ToSet([k \in 1 .. Len(answers) |-> Restrict(answers[k], Asked)])
                             = Solutions
                        /\ IsInjective([k \in 1 .. Len(answers) |->
                                          Restrict(answers[k], Asked)])
    BY DEF AnswersExact
  <2>2. Bound(answers, Asked) = [k \in 1 .. Len(answers) |-> Restrict(answers[k], Asked)]
    BY DEF Bound
  <2>3. /\ IsInjective(Bound(answers, Asked))
        /\ \A b : b \in ToSet(Bound(answers, Asked)) <=> b \in Solutions
    BY <2>1 DEF AnsweredInv, Answered
  <2>4. ToSet(Bound(answers, Asked)) = Solutions
    BY <2>3
  <2>5. QED BY <2>2, <2>3, <2>4
<1>5. QED
  BY <1>2, <1>3, <1>4, PTL DEF Spec
=============================================================================
