----------------------- MODULE FactsPersistenceProofs -----------------------
(***************************************************************************)
(* Proofs about FactsPersistence.tla, for every set of facts and every     *)
(* UW_MAX: any number of processes, crashes and failed writes.             *)
(*                                                                         *)
(* Built says what a file makes of each fact from its last record alone,   *)
(* so that nothing here replays a file from its start.                     *)
(***************************************************************************)
EXTENDS FactsPersistence, SequenceTheorems, TLAPS

USE UwMaxAssumption

-----------------------------------------------------------------------------
(* The last of the first n records of w that is about f is record j.       *)
IsLast(w, n, j, f) ==
  /\ j \in 1 .. n
  /\ w[j].fact = f
  /\ \A k \in j + 1 .. n : w[k].fact # f

(* The first n records of w make the store s.                              *)
Makes(w, n, s) ==
  \A f \in Triples :
    IF s[f] = NoId
      THEN \A j \in 1 .. n : IsLast(w, n, j, f) => w[j].op = "remove"
      ELSE \E j \in 1 .. n : IsLast(w, n, j, f) /\ w[j] = Record("add", s[f], f)

Built(w, s) == Makes(w, Len(w), s)

(* IdsInOrder and RecordsAlternate of a file; d is short.                  *)
Increasing(w) ==
  /\ \A i \in 1 .. Len(w) : w[i].id > 0
  /\ \A i, j \in 1 .. Len(w) : i < j => w[i].id < w[j].id

Alternates(w, d) ==
  \A i \in 1 .. Len(w) :
    /\ \A j \in 1 .. i - 1 : IsLast(w, i - 1, j, w[i].fact) => w[j].op # w[i].op
    /\ w[i].op = "remove" /\ (\A j \in 1 .. i - 1 : ~IsLast(w, i - 1, j, w[i].fact)) =>
         0 < d /\ d <= w[i].id

Good(w, d) == Increasing(w) /\ Alternates(w, d)

(* An operation on a database with the facts s may write the record r.     *)
Fits(r, s) ==
  /\ r \in Records
  /\ r.id > 0
  /\ IF r.op = "remove" THEN s[r.fact] # NoId ELSE s[r.fact] = NoId

IdsBelow(w, n) == \A i \in 1 .. Len(w) : w[i].id < n
IdsFrom(w, n) == \A i \in 1 .. Len(w) : w[i].id >= n
StoreBelow(s, n) == \A f \in Triples : s[f] < n

(* The oldest facts of a store.                                            *)
Cut(s, c) == [f \in Triples |-> IF s[f] <= c THEN s[f] ELSE NoId]

(* A file w has the facts s but for those numbered after c and before d,   *)
(* of which it has no record at all.                                       *)
Shows(w, s, c, d) ==
  /\ Built(w, Without(s, c, d))
  /\ \A f \in Triples :
       c < s[f] /\ s[f] < d => \A i \in 1 .. Len(w) : w[i].fact # f

(* The records t make the store s of the store p.                          *)
Leads(p, t, s) ==
  \A f \in Triples :
    /\ (\A i \in 1 .. Len(t) : t[i].fact # f) => s[f] = p[f]
    /\ \A j \in 1 .. Len(t) :
         IsLast(t, Len(t), j, f) => s[f] = IF t[j].op = "add" THEN t[j].id ELSE NoId

(* What a file w holds that is neither being written back nor appended to: *)
(* p is published, l is limbo, d is short.                                 *)
Holds(w, p, l, d) ==
  \E c \in Ids : Built(w, Without(p, c, d)) \/ Built(w, Without(Apply(p, l), c, d))

Live == {"idle", "transaction", "publish"}

(* The invariant, by phase.                                                *)
FileGood ==
  /\ Good(file, short)
  /\ phase \notin {"transaction", "publish"} => txn = <<>>
  /\ log = "open" \/ phase = "rewrite" => tail # "skipped"
  /\ phase \notin Live => log = "none"
  /\ phase # "rewrite" /\ log # "open" /\ tail # "refused" =>
       Holds(file, published, limbo, short)

ClosedEmpty == phase = "closed" => store = Empty /\ pos = 0

ReplayFollows ==
  phase = "replay" =>
    /\ Makes(file, pos, store)
    /\ \A i \in 1 .. pos : file[i].id < nextId

RewriteFollows ==
  phase = "rewrite" =>
    /\ limbo = NoRecord
    /\ published = store
    /\ Good(file, 0)
    /\ tail = "none" => Built(file, Cut(store, cursor))
    /\ \A i \in 1 .. Len(file) : file[i].id <= cursor /\ store[file[i].fact] = file[i].id
    /\ cursor < nextId
    /\ StoreBelow(store, nextId)
    /\ \A f, g \in Triples : store[f] = store[g] /\ store[f] # NoId => f = g
    /\ IF short = 0 THEN tail = "none" /\ Ahead(cursor) = {} ELSE short = nextId

(* What follows the file is the rest of a transaction.                     *)
FileFollows ==
  /\ Good(file \o txn, short)
  /\ IdsBelow(file \o txn, nextId)
  /\ \E c \in Ids : Shows(file, published, c, short) /\ Shows(file \o txn, store, c, short)

LiveFollows ==
  phase \in Live =>
    /\ log # "none"
    /\ phase # "idle" => log = "open"
    /\ short <= nextId
    /\ IdsBelow(file, nextId)
    /\ IdsBelow(txn, nextId)
    /\ IdsFrom(txn, short)
    /\ StoreBelow(store, nextId)
    /\ StoreBelow(published, nextId)
    /\ log = "open" =>
         /\ limbo = NoRecord
         /\ Leads(published, txn, store)
         /\ tail = "none" => FileFollows
    /\ phase = "transaction" => base = published

Inv == TypeOK /\ FileGood /\ ClosedEmpty /\ ReplayFollows /\ RewriteFollows /\ LiveFollows

-----------------------------------------------------------------------------
(* Lemmas about types.                                                     *)

(* Identifiers are numbers.                                                *)
LEMMA IdsAreNat == \A c \in Ids : c \in Nat /\ c < UwMax
BY DEF Ids

(* The fields of a record.                                                 *)
LEMMA RecordFields ==
  ASSUME NEW r \in Records
  PROVE  /\ r.op \in {"add", "remove"} /\ r.id \in Ids /\ r.fact \in Triples
         /\ r.id \in Nat
         /\ r = Record(r.op, r.id, r.fact)
BY IdsAreNat DEF Records, Record

(* The records of a file.                                                  *)
LEMMA FileRecords ==
  ASSUME NEW w \in Seq(Records)
  PROVE  /\ Len(w) \in Nat
         /\ DOMAIN w = 1 .. Len(w)
         /\ \A i \in 1 .. Len(w) : w[i] \in Records /\ w[i].id \in Nat
BY RecordFields

(* The identifiers in a store.                                             *)
LEMMA StoreIds ==
  ASSUME NEW s \in Stores, NEW f \in Triples
  PROVE  s[f] \in Ids /\ s[f] \in Nat
BY IdsAreNat DEF Stores

-----------------------------------------------------------------------------
(* Lemmas about Makes.                                                     *)

(* What the first n records make depends on them only.                     *)
LEMMA MakesAgree ==
  ASSUME NEW v, NEW w, NEW n \in Nat, NEW s,
         \A i \in 1 .. n : v[i] = w[i],
         Makes(v, n, s)
  PROVE  Makes(w, n, s)
<1>1. \A j, f : IsLast(v, n, j, f) <=> IsLast(w, n, j, f)
  BY DEF IsLast
<1>2. \A j \in 1 .. n : v[j] = w[j]
  OBVIOUS
<1> QED
  BY <1>1, <1>2 DEF Makes

(* No record makes the empty store.                                        *)
LEMMA MakesEmpty ==
  ASSUME NEW w
  PROVE  Makes(w, 0, Empty)
BY DEF Makes, Empty, NoId

(* Records have one last record at most about each fact.                   *)
LEMMA LastUnique ==
  ASSUME NEW w, NEW n \in Nat, NEW f, NEW i, NEW j,
         IsLast(w, n, i, f), IsLast(w, n, j, f)
  PROVE  i = j
BY DEF IsLast

(* A file makes one store.                                                 *)
LEMMA MakesUnique ==
  ASSUME NEW w, NEW n \in Nat, NEW s \in Stores, NEW t \in Stores,
         Makes(w, n, s), Makes(w, n, t)
  PROVE  s = t
<1>1. ASSUME NEW f \in Triples, s[f] # t[f] PROVE FALSE
  <2>1. CASE s[f] # NoId /\ t[f] # NoId
    <3>1. PICK i \in 1 .. n : IsLast(w, n, i, f) /\ w[i] = Record("add", s[f], f)
      BY <2>1 DEF Makes
    <3>2. PICK j \in 1 .. n : IsLast(w, n, j, f) /\ w[j] = Record("add", t[f], f)
      BY <2>1 DEF Makes
    <3>3. i = j
      BY <3>1, <3>2, LastUnique
    <3> QED
      BY <1>1, <3>1, <3>2, <3>3 DEF Record
  <2>2. CASE s[f] = NoId
    <3>1. PICK j \in 1 .. n : IsLast(w, n, j, f) /\ w[j] = Record("add", t[f], f)
      BY <1>1, <2>2 DEF Makes
    <3>2. w[j].op = "remove"
      BY <2>2, <3>1 DEF Makes
    <3> QED
      BY <3>1, <3>2 DEF Record
  <2>3. CASE t[f] = NoId
    <3>1. PICK j \in 1 .. n : IsLast(w, n, j, f) /\ w[j] = Record("add", s[f], f)
      BY <1>1, <2>3 DEF Makes
    <3>2. w[j].op = "remove"
      BY <2>3, <3>1 DEF Makes
    <3> QED
      BY <3>1, <3>2 DEF Record
  <2> QED
    BY <2>1, <2>2, <2>3
<1> QED
  BY <1>1 DEF Stores

(* The identifier of a stored fact is that of a record.                    *)
LEMMA MakesFromRecord ==
  ASSUME NEW w, NEW n \in Nat, NEW s, Makes(w, n, s), NEW f \in Triples, s[f] # NoId
  PROVE  \E i \in 1 .. n : w[i] = Record("add", s[f], f)
BY DEF Makes

(* It is below any bound on the identifiers of the records.                *)
LEMMA MakesBelow ==
  ASSUME NEW w, NEW n \in Nat, NEW s \in Stores, Makes(w, n, s),
         NEW b \in Nat \ {0}, \A i \in 1 .. n : w[i].id < b
  PROVE  StoreBelow(s, b)
<1>1. ASSUME NEW f \in Triples, s[f] # NoId PROVE s[f] < b
  <2>1. PICK i \in 1 .. n : w[i] = Record("add", s[f], f)
    BY <1>1, MakesFromRecord
  <2> QED
    BY <2>1 DEF Record
<1>2. NoId < b
  BY DEF NoId
<1>3. ASSUME NEW f \in Triples PROVE s[f] < b
  BY <1>1, <1>2
<1> QED
  BY <1>3 DEF StoreBelow

(* Two stored facts have different identifiers.                            *)
LEMMA MakesInjective ==
  ASSUME NEW w \in Seq(Records), Increasing(w), NEW n \in 0 .. Len(w), NEW s \in Stores,
         Makes(w, n, s), NEW f \in Triples, NEW g \in Triples,
         s[f] = s[g], s[f] # NoId
  PROVE  f = g
<1>1. PICK i \in 1 .. n : w[i] = Record("add", s[f], f)
  BY MakesFromRecord
<1>2. PICK j \in 1 .. n : w[j] = Record("add", s[g], g)
  BY MakesFromRecord
<1>3. Len(w) \in Nat /\ w[i].id = w[j].id /\ w[i].id \in Nat
  BY <1>1, <1>2 DEF Record, Stores, Ids
<1>4. i = j
  BY <1>3 DEF Increasing
<1> QED
  BY <1>1, <1>2, <1>4 DEF Record

(* One more record makes what Apply says.                                  *)
LEMMA MakesStep ==
  ASSUME NEW w, NEW n \in Nat, NEW s \in Stores,
         w[n + 1] \in Records, w[n + 1].id > 0, Makes(w, n, s)
  PROVE  Makes(w, n + 1, Apply(s, w[n + 1]))
<1> DEFINE r == w[n + 1]
           t == Apply(s, r)
<1>1. r.fact \in Triples /\ r.id \in Ids /\ r.op \in {"add", "remove"}
      /\ r = Record(r.op, r.id, r.fact)
  BY DEF Records, Record
<1>2. \A f \in Triples \ {r.fact} : t[f] = s[f]
  BY <1>1 DEF Apply, Stores
<1>3. t[r.fact] = IF r.op = "add" THEN r.id ELSE NoId
  BY <1>1 DEF Apply, Stores
<1>4. \A j, f : f # r.fact => (IsLast(w, n, j, f) <=> IsLast(w, n + 1, j, f))
  BY DEF IsLast
<1>5. \A j : IsLast(w, n + 1, j, r.fact) <=> j = n + 1
  BY DEF IsLast
<1>6. ASSUME NEW f \in Triples, f # r.fact
      PROVE  IF t[f] = NoId
             THEN \A j \in 1 .. n + 1 : IsLast(w, n + 1, j, f) => w[j].op = "remove"
             ELSE \E j \in 1 .. n + 1 : IsLast(w, n + 1, j, f) /\ w[j] = Record("add", t[f], f)
  <2>1. CASE t[f] = NoId
    <3>1. s[f] = NoId
      BY <1>2, <1>6, <2>1
    <3>2. \A j \in 1 .. n : IsLast(w, n, j, f) => w[j].op = "remove"
      BY <3>1 DEF Makes
    <3>3. \A j : IsLast(w, n + 1, j, f) => j \in 1 .. n /\ IsLast(w, n, j, f)
      BY <1>4, <1>6 DEF IsLast
    <3> QED
      BY <2>1, <3>2, <3>3
  <2>2. CASE t[f] # NoId
    <3>1. s[f] = t[f]
      BY <1>2, <1>6
    <3>2. PICK j \in 1 .. n : IsLast(w, n, j, f) /\ w[j] = Record("add", s[f], f)
      BY <2>2, <3>1 DEF Makes
    <3>3. j \in 1 .. n + 1 /\ IsLast(w, n + 1, j, f)
      BY <1>4, <1>6, <3>2
    <3> QED
      BY <2>2, <3>1, <3>2, <3>3
  <2> QED
    BY <2>1, <2>2
<1>7. IF t[r.fact] = NoId
        THEN \A j \in 1 .. n + 1 : IsLast(w, n + 1, j, r.fact) => w[j].op = "remove"
        ELSE \E j \in 1 .. n + 1 : IsLast(w, n + 1, j, r.fact)
                                   /\ w[j] = Record("add", t[r.fact], r.fact)
  <2>1. CASE r.op = "remove"
    BY <1>3, <1>5, <2>1
  <2>2. CASE r.op = "add"
    <3>1. t[r.fact] = r.id /\ r.id # NoId
      BY <1>3, <2>2 DEF NoId
    <3>2. w[n + 1] = Record("add", t[r.fact], r.fact)
      BY <1>1, <2>2, <3>1
    <3> QED
      BY <1>5, <3>1, <3>2
  <2> QED
    BY <1>1, <2>1, <2>2
<1> QED
  BY <1>6, <1>7 DEF Makes

-----------------------------------------------------------------------------
(* Lemmas about good files.                                                *)

(* The beginning of a good file is good.                                   *)
LEMMA GoodPrefix ==
  ASSUME NEW w \in Seq(Records), NEW v \in Seq(Records), NEW d \in Nat, Good(w, d),
         Len(v) <= Len(w), \A i \in 1 .. Len(v) : v[i] = w[i]
  PROVE  Good(v, d)
<1>1. Len(v) \in Nat /\ Len(w) \in Nat
  OBVIOUS
<1>2. Increasing(v)
  BY <1>1 DEF Good, Increasing
<1>3. ASSUME NEW i \in 1 .. Len(v)
      PROVE  i \in 1 .. Len(w) /\ v[i] = w[i] /\ \A j \in 1 .. i - 1 : v[j] = w[j]
  BY <1>1
<1>4. ASSUME NEW i \in 1 .. Len(v)
      PROVE  \A j, f : IsLast(v, i - 1, j, f) <=> IsLast(w, i - 1, j, f)
  <2>1. \A j \in 1 .. i - 1 : v[j] = w[j]
    BY <1>3
  <2> QED
    BY <2>1 DEF IsLast
<1>5. Alternates(v, d)
  BY <1>3, <1>4 DEF Good, Alternates
<1> QED
  BY <1>2, <1>5 DEF Good

(* A file that is short of nothing is short of nothing more.               *)
LEMMA GoodShort ==
  ASSUME NEW w, NEW d \in Nat, Good(w, 0)
  PROVE  Good(w, d)
BY DEF Good, Alternates

(* The empty file is good, and makes the empty store.                      *)
LEMMA GoodEmpty ==
  ASSUME NEW d \in Nat
  PROVE  Good(<<>>, d) /\ Built(<<>>, Empty)
BY MakesEmpty DEF Good, Increasing, Alternates, Built

(* The next record of a good file: an addition adds what those before it   *)
(* do not make.                                                            *)
LEMMA MakesFits ==
  ASSUME NEW w \in Seq(Records), NEW d \in Nat, Good(w, d), NEW n \in 0 .. Len(w) - 1, NEW s,
         Makes(w, n, s)
  PROVE  /\ w[n + 1] \in Records /\ w[n + 1].id > 0
         /\ w[n + 1].op = "add" => s[w[n + 1].fact] = NoId
<1> DEFINE r == w[n + 1]
<1>1. n + 1 \in 1 .. Len(w) /\ n \in Nat /\ (n + 1) - 1 = n
  OBVIOUS
<1>2. r \in Records /\ r.id > 0 /\ r.fact \in Triples /\ r.op \in {"add", "remove"}
  <2>1. r \in Records
    BY <1>1, FileRecords
  <2>2. r.id > 0
    BY <1>1 DEF Good, Increasing
  <2> QED
    BY <2>1, <2>2, RecordFields
<1>3. ASSUME r.op = "add", s[r.fact] # NoId PROVE FALSE
  <2>1. \A j \in 1 .. n : IsLast(w, n, j, r.fact) => w[j].op # "add"
    BY <1>1, <1>3 DEF Good, Alternates
  <2>2. PICK j \in 1 .. n :
          IsLast(w, n, j, r.fact) /\ w[j] = Record("add", s[r.fact], r.fact)
    BY <1>2, <1>3 DEF Makes
  <2> QED
    BY <2>1, <2>2 DEF Record
<1> QED
  BY <1>2, <1>3

(* A store may be kept while the bound on identifiers is raised.           *)
LEMMA BelowGrows ==
  ASSUME NEW w \in Seq(Records), NEW s \in Stores, NEW m \in Nat, NEW n \in Nat, m <= n
  PROVE  /\ IdsBelow(w, m) => IdsBelow(w, n)
         /\ StoreBelow(s, m) => StoreBelow(s, n)
<1>1. \A i \in 1 .. Len(w) : w[i].id \in Nat
  BY FileRecords
<1>2. \A f \in Triples : s[f] \in Nat
  BY StoreIds
<1> QED
  BY <1>1, <1>2 DEF IdsBelow, StoreBelow

-----------------------------------------------------------------------------
(* Lemmas about a store without the facts that an opening left out.        *)

(* It is a store.                                                          *)
LEMMA WithoutIsStore ==
  ASSUME NEW s \in Stores, NEW c, NEW d
  PROVE  Without(s, c, d) \in Stores
BY DEF Without, Stores, Ids, NoId

(* No fact was left out.                                                   *)
LEMMA WithoutNone ==
  ASSUME NEW s \in Stores, NEW c \in Ids
  PROVE  Without(s, c, 0) = s
<1>1. \A f \in Triples : s[f] >= 0
  BY StoreIds
<1> QED
  BY <1>1 DEF Without, Stores

(* All but the oldest were left out.                                       *)
LEMMA WithoutCut ==
  ASSUME NEW s, NEW c \in Nat, NEW d \in Nat, StoreBelow(s, d),
         \A f \in Triples : s[f] \in Nat
  PROVE  Without(s, c, d) = Cut(s, c)
BY DEF Without, Cut, StoreBelow

(* A record written after the facts were left out leaves out no more.      *)
LEMMA WithoutApply ==
  ASSUME NEW s \in Stores, NEW c \in Ids, NEW d \in Nat, NEW r \in Records, r.id >= d
  PROVE  Without(Apply(s, r), c, d) = Apply(Without(s, c, d), r)
<1>1. c \in Nat /\ r.id \in Nat /\ r.fact \in Triples /\ r.op \in {"add", "remove"}
  BY IdsAreNat, RecordFields
<1>2. CASE r.op = "add"
  BY <1>1, <1>2 DEF Apply, Without, Stores
<1>3. CASE r.op = "remove"
  BY <1>1, <1>3 DEF Apply, Without, Stores, NoId
<1> QED
  BY <1>1, <1>2, <1>3

(* What the record of an operation makes of a file: it may be appended,    *)
(* and removes a fact only if the file has it, or has never had it.        *)
LEMMA AppendGood ==
  ASSUME NEW w \in Seq(Records), NEW s \in Stores, NEW c \in Ids, NEW d \in Nat,
         Good(w, d), Shows(w, s, c, d),
         NEW r \in Records, Fits(r, s), IdsBelow(w, r.id), d <= r.id
  PROVE  Good(Append(w, r), d)
<1> DEFINE v == Append(w, r)
           n == Len(w)
           g == Without(s, c, d)
<1>1. n \in Nat /\ v \in Seq(Records) /\ Len(v) = n + 1 /\ v[n + 1] = r
      /\ \A i \in 1 .. n : v[i] = w[i]
  OBVIOUS
<1>2. r.id > 0 /\ r.id \in Nat /\ r.fact \in Triples /\ r.op \in {"add", "remove"}
      /\ c \in Nat /\ s[r.fact] \in Nat
  BY RecordFields, IdsAreNat, StoreIds DEF Fits
<1>3. Makes(v, n, g)
  BY <1>1, MakesAgree DEF Shows, Built
<1>5. Increasing(v)
  <2>1. \A i \in 1 .. n : w[i] \in Records /\ w[i].id \in Nat
    BY FileRecords
  <2>2. \A i \in 1 .. n + 1 : v[i].id > 0
    BY <1>1, <1>2 DEF Good, Increasing
  <2>3. ASSUME NEW i \in 1 .. n + 1, NEW j \in 1 .. n + 1, i < j
        PROVE  v[i].id < v[j].id
    <3>1. i \in 1 .. n /\ v[i] = w[i]
      BY <1>1, <2>3
    <3>2. CASE j = n + 1
      BY <1>1, <3>1, <3>2 DEF IdsBelow
    <3>3. CASE j \in 1 .. n
      BY <1>1, <2>3, <3>1, <3>3 DEF Good, Increasing
    <3> QED
      BY <1>1, <3>2, <3>3
  <2> QED
    BY <1>1, <2>2, <2>3 DEF Increasing
<1>6. ASSUME NEW i \in 1 .. n
      PROVE  /\ \A j \in 1 .. i - 1 : IsLast(v, i - 1, j, v[i].fact) => v[j].op # v[i].op
             /\ v[i].op = "remove" /\ (\A j \in 1 .. i - 1 : ~IsLast(v, i - 1, j, v[i].fact)) =>
                  0 < d /\ d <= v[i].id
  <2>1. v[i] = w[i] /\ \A j \in 1 .. i - 1 : v[j] = w[j]
    BY <1>1
  <2>2. \A j, f : IsLast(v, i - 1, j, f) <=> IsLast(w, i - 1, j, f)
    BY <2>1 DEF IsLast
  <2> QED
    BY <2>1, <2>2 DEF Good, Alternates
<1>7. \A j \in 1 .. n : IsLast(v, n, j, r.fact) => v[j].op # r.op
  <2>1. CASE g[r.fact] = NoId /\ r.op = "add"
    BY <1>2, <1>3, <2>1 DEF Makes
  <2>2. CASE g[r.fact] # NoId
    <3>1. PICK k \in 1 .. n : IsLast(v, n, k, r.fact) /\ v[k] = Record("add", g[r.fact], r.fact)
      BY <1>2, <1>3, <2>2 DEF Makes
    <3>2. s[r.fact] # NoId
      BY <1>2, <2>2 DEF Without
    <3>3. r.op = "remove"
      BY <1>2, <3>2 DEF Fits
    <3>4. \A j \in 1 .. n : IsLast(v, n, j, r.fact) => j = k
      BY <1>1, <3>1, LastUnique
    <3> QED
      BY <3>1, <3>3, <3>4 DEF Record
  <2>3. CASE g[r.fact] = NoId /\ r.op = "remove"
    <3>1. c < s[r.fact] /\ s[r.fact] < d
      BY <1>2, <2>3 DEF Fits, Without
    <3>2. \A i \in 1 .. n : v[i].fact # r.fact
      BY <1>1, <1>2, <3>1 DEF Shows
    <3> QED
      BY <3>2 DEF IsLast
  <2> QED
    BY <1>2, <2>1, <2>2, <2>3
<1>8. ASSUME r.op = "remove", \A j \in 1 .. n : ~IsLast(v, n, j, r.fact) PROVE 0 < d
  <2>1. g[r.fact] = NoId
    BY <1>2, <1>3, <1>8 DEF Makes
  <2>2. s[r.fact] # NoId
    BY <1>8 DEF Fits
  <2>3. c < s[r.fact] /\ s[r.fact] < d
    BY <1>2, <2>1, <2>2 DEF Without
  <2> QED
    BY <1>2, <2>3
<1>9. Alternates(v, d)
  <2>1. ASSUME NEW i \in 1 .. n + 1
        PROVE  /\ \A j \in 1 .. i - 1 : IsLast(v, i - 1, j, v[i].fact) => v[j].op # v[i].op
               /\ v[i].op = "remove" /\ (\A j \in 1 .. i - 1 : ~IsLast(v, i - 1, j, v[i].fact)) =>
                    0 < d /\ d <= v[i].id
    <3>1. CASE i \in 1 .. n
      BY <1>6, <3>1
    <3>2. CASE i = n + 1
      <4>1. i - 1 = n /\ v[i] = r
        BY <1>1, <3>2
      <4> HIDE DEF v, n
      <4> QED
        BY <1>7, <1>8, <4>1
    <3> QED
      BY <1>1, <3>1, <3>2
  <2> QED
    BY <1>1, <2>1 DEF Alternates
<1> QED
  BY <1>5, <1>9 DEF Good

(* A record written after the facts were left out shows in the file.       *)
LEMMA AppendShows ==
  ASSUME NEW w \in Seq(Records), NEW s \in Stores, NEW c \in Ids, NEW d \in Nat,
         Shows(w, s, c, d), NEW r \in Records, r.id > 0, d <= r.id
  PROVE  Shows(Append(w, r), Apply(s, r), c, d)
<1> DEFINE v == Append(w, r)
           n == Len(w)
           g == Without(s, c, d)
           t == Apply(s, r)
<1>1. n \in Nat /\ v \in Seq(Records) /\ Len(v) = n + 1 /\ v[n + 1] = r
      /\ \A i \in 1 .. n : v[i] = w[i]
  OBVIOUS
<1>2. r.id \in Nat /\ r.fact \in Triples /\ r.op \in {"add", "remove"} /\ c \in Nat
  BY RecordFields, IdsAreNat
<1>3. g \in Stores
  BY WithoutIsStore
<1>4. Built(v, Without(t, c, d))
  <2>1. Makes(v, n, g)
    BY <1>1, MakesAgree DEF Shows, Built
  <2>2. Makes(v, n + 1, Apply(g, r))
    BY <1>1, <1>3, <2>1, MakesStep
  <2>3. Apply(g, r) = Without(t, c, d)
    BY WithoutApply
  <2> QED
    BY <1>1, <2>2, <2>3 DEF Built
<1>5. ASSUME NEW f \in Triples, c < t[f], t[f] < d, NEW i \in 1 .. n + 1
      PROVE  v[i].fact # f
  <2>1. f # r.fact
    BY <1>2, <1>5 DEF Apply, Stores, NoId
  <2>2. t[f] = s[f]
    BY <1>2, <2>1 DEF Apply, Stores
  <2>3. CASE i = n + 1
    BY <1>1, <2>1, <2>3
  <2>4. CASE i \in 1 .. n
    BY <1>1, <1>5, <2>2, <2>4 DEF Shows
  <2> QED
    BY <1>1, <2>3, <2>4
<1> QED
  BY <1>1, <1>4, <1>5 DEF Shows

(* Its identifier is the largest.                                          *)
LEMMA AppendBelow ==
  ASSUME NEW w \in Seq(Records), NEW r \in Records, NEW b \in Nat, IdsBelow(w, b), r.id < b
  PROVE  /\ Append(w, r) \in Seq(Records) /\ Len(Append(w, r)) = Len(w) + 1
         /\ IdsBelow(Append(w, r), b)
<1>1. /\ Len(w) \in Nat /\ Append(w, r) \in Seq(Records) /\ Len(Append(w, r)) = Len(w) + 1
      /\ Append(w, r)[Len(w) + 1] = r
      /\ \A i \in 1 .. Len(w) : Append(w, r)[i] = w[i]
  OBVIOUS
<1>2. \A i \in 1 .. Len(w) + 1 : i = Len(w) + 1 \/ i \in 1 .. Len(w)
  BY <1>1
<1> QED
  BY <1>1, <1>2 DEF IdsBelow

(* A bound on the identifiers of a store.                                  *)
LEMMA ApplyBelow ==
  ASSUME NEW s \in Stores, NEW r \in Records, NEW b \in Nat \ {0}, StoreBelow(s, b), r.id < b
  PROVE  StoreBelow(Apply(s, r), b)
<1>1. r.fact \in Triples /\ r.op \in {"add", "remove"} /\ NoId < b
  BY RecordFields DEF NoId
<1>2. ASSUME NEW f \in Triples
      PROVE  Apply(s, r)[f] \in {s[f], r.id, NoId}
  BY <1>1 DEF Apply, Stores
<1> QED
  BY <1>1, <1>2 DEF StoreBelow

-----------------------------------------------------------------------------
(* Lemmas about what the records of a transaction make of a store.         *)

(* No record makes the same store.                                         *)
LEMMA LeadsNone ==
  ASSUME NEW p \in Stores, NEW s \in Stores
  PROVE  Leads(p, <<>>, s) <=> s = p
<1>1. Len(<<>>) = 0
  OBVIOUS
<1>2. s = p <=> \A f \in Triples : s[f] = p[f]
  BY DEF Stores
<1> QED
  BY <1>1, <1>2 DEF Leads

(* One more record is logged.                                              *)
LEMMA LeadsLog ==
  ASSUME NEW p \in Stores, NEW s \in Stores, NEW t \in Seq(Records), NEW r \in Records,
         Leads(p, t, s)
  PROVE  Leads(p, Append(t, r), Apply(s, r))
<1> DEFINE v == Append(t, r)
           n == Len(t)
           u == Apply(s, r)
<1>1. n \in Nat /\ Len(v) = n + 1 /\ v[n + 1] = r /\ \A i \in 1 .. n : v[i] = t[i]
  OBVIOUS
<1>2. r.fact \in Triples /\ r.op \in {"add", "remove"}
  BY RecordFields
<1>3. u[r.fact] = IF r.op = "add" THEN r.id ELSE NoId
  BY <1>2 DEF Apply, Stores
<1>4. \A f \in Triples : f # r.fact => u[f] = s[f]
  BY <1>2 DEF Apply, Stores
<1> HIDE DEF v, n, u
<1>5. \A j : IsLast(v, n + 1, j, r.fact) => j = n + 1
  BY <1>1 DEF IsLast
<1>6. ASSUME NEW f \in Triples, f # r.fact
      PROVE  /\ (\A i \in 1 .. n + 1 : v[i].fact # f) => u[f] = p[f]
             /\ \A j \in 1 .. n + 1 :
                  IsLast(v, n + 1, j, f) => u[f] = IF v[j].op = "add" THEN v[j].id ELSE NoId
  <2>1. u[f] = s[f]
    BY <1>4, <1>6
  <2>2. (\A i \in 1 .. n + 1 : v[i].fact # f) => u[f] = p[f]
    <3>1. (\A i \in 1 .. n + 1 : v[i].fact # f) => \A i \in 1 .. n : t[i].fact # f
      BY <1>1
    <3> QED
      BY <2>1, <3>1 DEF Leads, n
  <2>3. ASSUME NEW j \in 1 .. n + 1, IsLast(v, n + 1, j, f)
        PROVE  u[f] = IF v[j].op = "add" THEN v[j].id ELSE NoId
    <3>1. j \in 1 .. n /\ v[j] = t[j]
      BY <1>1, <1>6, <2>3 DEF IsLast
    <3>2. \A k \in j + 1 .. n : v[k].fact # f /\ v[k] = t[k]
      BY <1>1, <2>3, <3>1 DEF IsLast
    <3>3. IsLast(t, n, j, f)
      BY <2>3, <3>1, <3>2 DEF IsLast
    <3> QED
      BY <2>1, <3>1, <3>3 DEF Leads, n
  <2> QED
    BY <2>2, <2>3
<1>7. /\ ~ \A i \in 1 .. n + 1 : v[i].fact # r.fact
      /\ \A j \in 1 .. n + 1 :
           IsLast(v, n + 1, j, r.fact) => u[r.fact] = IF v[j].op = "add" THEN v[j].id ELSE NoId
  <2>1. n + 1 \in 1 .. n + 1
    BY <1>1
  <2> QED
    BY <1>1, <1>3, <1>5, <2>1
<1>8. ASSUME NEW f \in Triples
      PROVE  /\ (\A i \in 1 .. n + 1 : v[i].fact # f) => u[f] = p[f]
             /\ \A j \in 1 .. n + 1 :
                  IsLast(v, n + 1, j, f) => u[f] = IF v[j].op = "add" THEN v[j].id ELSE NoId
  BY <1>6, <1>7
<1>9. Leads(p, v, u)
  BY <1>1, <1>8 DEF Leads
<1> QED
  BY <1>9 DEF v, u

(* The oldest record is published.                                         *)
LEMMA LeadsPublish ==
  ASSUME NEW p \in Stores, NEW s \in Stores, NEW t \in Seq(Records), t # <<>>,
         Leads(p, t, s)
  PROVE  Leads(Apply(p, Head(t)), Tail(t), s)
<1> DEFINE h == Head(t)
           v == Tail(t)
           n == Len(v)
           q == Apply(p, h)
<1>1. /\ h \in Records /\ h = t[1] /\ n \in Nat /\ Len(t) = n + 1
      /\ \A i \in 1 .. n : v[i] = t[i + 1]
  BY HeadTailProperties
<1>2. h.fact \in Triples /\ h.op \in {"add", "remove"}
  BY <1>1, RecordFields
<1>3. q[h.fact] = IF h.op = "add" THEN h.id ELSE NoId
  BY <1>2 DEF Apply, Stores
<1>4. \A f \in Triples : f # h.fact => q[f] = p[f]
  BY <1>2 DEF Apply, Stores
<1> HIDE DEF h, v, n, q
<1>5. ASSUME NEW f \in Triples, \A i \in 1 .. n : v[i].fact # f
      PROVE  s[f] = q[f]
  <2>1. \A k \in 2 .. n + 1 : t[k].fact # f
    <3> TAKE k \in 2 .. n + 1
    <3>1. k - 1 \in 1 .. n /\ (k - 1) + 1 = k
      BY <1>1
    <3> QED
      BY <1>1, <1>5, <3>1
  <2>2. CASE f = h.fact
    <3>1. 1 \in 1 .. n + 1 /\ IsLast(t, n + 1, 1, f)
      BY <1>1, <2>1, <2>2 DEF IsLast
    <3> QED
      BY <1>1, <1>3, <2>2, <3>1 DEF Leads
  <2>3. CASE f # h.fact
    <3>1. \A i \in 1 .. n + 1 : t[i].fact # f
      BY <1>1, <2>1, <2>3
    <3> QED
      BY <1>1, <1>4, <2>3, <3>1 DEF Leads
  <2> QED
    BY <2>2, <2>3
<1>6. ASSUME NEW f \in Triples, NEW j \in 1 .. n, IsLast(v, n, j, f)
      PROVE  s[f] = IF v[j].op = "add" THEN v[j].id ELSE NoId
  <2>1. j + 1 \in 1 .. n + 1 /\ t[j + 1] = v[j] /\ v[j].fact = f
    BY <1>1, <1>6 DEF IsLast
  <2>2. \A k \in j + 2 .. n + 1 : t[k].fact # f
    <3> TAKE k \in j + 2 .. n + 1
    <3>1. k - 1 \in 1 .. n /\ k - 1 \in j + 1 .. n /\ (k - 1) + 1 = k
      BY <1>1
    <3> QED
      BY <1>1, <1>6, <3>1 DEF IsLast
  <2>3. IsLast(t, n + 1, j + 1, f)
    BY <2>1, <2>2 DEF IsLast
  <2> QED
    BY <1>1, <2>1, <2>3 DEF Leads
<1>7. Leads(q, v, s)
  BY <1>5, <1>6 DEF Leads, n
<1> QED
  BY <1>7 DEF q, h, v

-----------------------------------------------------------------------------
(* Lemmas about the oldest facts of a store.                               *)

(* They are a store.                                                       *)
LEMMA CutIsStore ==
  ASSUME NEW s \in Stores, NEW c
  PROVE  Cut(s, c) \in Stores
BY DEF Cut, Stores, Ids, NoId

(* Nothing is cut when nothing is ahead.                                   *)
LEMMA CutAll ==
  ASSUME NEW s \in Stores, NEW c \in Ids, \A f \in Triples : ~ (s[f] > c)
  PROVE  Cut(s, c) = s
BY DEF Cut, Stores, Ids

(* Everything is cut at NoId.                                              *)
LEMMA CutNone ==
  ASSUME NEW s \in Stores
  PROVE  Cut(s, NoId) = Empty
BY DEF Cut, Stores, Ids, NoId, Empty

(* The oldest facts and the next one.                                      *)
LEMMA CutNext ==
  ASSUME NEW s \in Stores, NEW c \in Ids, NEW f \in Triples, s[f] > c,
         \A g \in Triples : s[g] > c => s[f] <= s[g],
         \A g \in Triples : s[g] = s[f] => g = f
  PROVE  /\ Cut(s, s[f]) = Apply(Cut(s, c), Record("add", s[f], f))
         /\ Cut(s, c)[f] = NoId
         /\ Record("add", s[f], f) \in Records
<1>1. \A g \in Triples : s[g] \in Nat /\ c \in Nat
  BY StoreIds, IdsAreNat
<1>2. ASSUME NEW g \in Triples, g # f PROVE s[g] <= s[f] <=> s[g] <= c
  <2>1. s[g] # s[f]
    BY <1>2
  <2> QED
    BY <1>1, <2>1
<1>3. Apply(Cut(s, c), Record("add", s[f], f)) = [Cut(s, c) EXCEPT ![f] = s[f]]
  BY DEF Apply, Record
<1>4. Cut(s, s[f]) = [Cut(s, c) EXCEPT ![f] = s[f]]
  BY <1>1, <1>2 DEF Cut
<1>5. Cut(s, c)[f] = NoId
  BY <1>1 DEF Cut
<1>6. Record("add", s[f], f) \in Records
  BY DEF Record, Records, Stores
<1> QED
  BY <1>3, <1>4, <1>5, <1>6

-----------------------------------------------------------------------------
(* Lemmas about a file and the records of a transaction after it.          *)

(* A record written is one that was to be written.                         *)
LEMMA ConcatPublish ==
  ASSUME NEW w \in Seq(Records), NEW t \in Seq(Records), t # <<>>
  PROVE  /\ Head(t) \in Records /\ Tail(t) \in Seq(Records)
         /\ Append(w, Head(t)) \in Seq(Records)
         /\ Append(w, Head(t)) \o Tail(t) = w \o t
         /\ w \o t \in Seq(Records)
         /\ Len(w) < Len(w \o t)
         /\ (w \o t)[Len(w) + 1] = Head(t)
         /\ \A i \in 1 .. Len(w) : (w \o t)[i] = w[i]
<1> DEFINE v == Append(w, Head(t))
<1>1. /\ Head(t) \in Records /\ Tail(t) \in Seq(Records)
      /\ Len(Tail(t)) = Len(t) - 1
      /\ \A i \in 1 .. Len(Tail(t)) : Tail(t)[i] = t[i + 1]
  BY HeadTailProperties
<1>2. Head(t) = t[1] /\ Len(t) \in Nat \ {0} /\ Len(w) \in Nat
  OBVIOUS
<1>3. /\ v \in Seq(Records) /\ Len(v) = Len(w) + 1 /\ v[Len(w) + 1] = Head(t)
      /\ \A i \in 1 .. Len(w) : v[i] = w[i]
  BY <1>1
<1>4. /\ w \o t \in Seq(Records)
      /\ Len(w \o t) = Len(w) + Len(t)
      /\ \A i \in 1 .. Len(w) + Len(t) :
           (w \o t)[i] = IF i <= Len(w) THEN w[i] ELSE t[i - Len(w)]
  BY ConcatProperties
<1>5. /\ v \o Tail(t) \in Seq(Records)
      /\ Len(v \o Tail(t)) = Len(v) + Len(Tail(t))
      /\ \A i \in 1 .. Len(v) + Len(Tail(t)) :
           (v \o Tail(t))[i] = IF i <= Len(v) THEN v[i] ELSE Tail(t)[i - Len(v)]
  BY <1>1, <1>3, ConcatProperties
<1>6. Len(v \o Tail(t)) = Len(w \o t)
  BY <1>1, <1>2, <1>3, <1>4, <1>5
<1>7. \A i \in 1 .. Len(w \o t) : (v \o Tail(t))[i] = (w \o t)[i]
  <2> TAKE i \in 1 .. Len(w \o t)
  <2>1. CASE i <= Len(w)
    BY <1>1, <1>2, <1>3, <1>4, <1>5, <2>1
  <2>2. CASE i = Len(w) + 1
    BY <1>1, <1>2, <1>3, <1>4, <1>5, <2>2
  <2>3. CASE i > Len(w) + 1
    <3>1. /\ i - Len(v) \in 1 .. Len(Tail(t))
          /\ (i - Len(v)) + 1 = i - Len(w)
          /\ ~ (i <= Len(v)) /\ ~ (i <= Len(w))
          /\ i \in 1 .. Len(v) + Len(Tail(t))
      BY <1>1, <1>2, <1>3, <1>4, <2>3
    <3>2. (v \o Tail(t))[i] = Tail(t)[i - Len(v)]
      BY <1>5, <3>1
    <3>3. (w \o t)[i] = t[i - Len(w)]
      BY <1>4, <3>1
    <3> QED
      BY <1>1, <3>1, <3>2, <3>3
  <2> QED
    BY <1>2, <1>4, <2>1, <2>2, <2>3
<1>8. v \o Tail(t) = w \o t
  BY <1>4, <1>5, <1>6, <1>7, SeqEqual
<1> QED
  BY <1>1, <1>2, <1>3, <1>4, <1>8

(* A record logged is the last one to be written.                          *)
LEMMA ConcatLog ==
  ASSUME NEW w \in Seq(Records), NEW t \in Seq(Records), NEW r \in Records
  PROVE  w \o Append(t, r) = Append(w \o t, r)
<1> DEFINE u == w \o t
<1>1. Len(w) \in Nat /\ Len(t) \in Nat
  OBVIOUS
<1>2. /\ u \in Seq(Records) /\ Len(u) = Len(w) + Len(t)
      /\ \A i \in 1 .. Len(w) + Len(t) : u[i] = IF i <= Len(w) THEN w[i] ELSE t[i - Len(w)]
  BY ConcatProperties
<1>3. /\ Append(t, r) \in Seq(Records) /\ Len(Append(t, r)) = Len(t) + 1
      /\ Append(t, r)[Len(t) + 1] = r /\ \A i \in 1 .. Len(t) : Append(t, r)[i] = t[i]
  OBVIOUS
<1>4. /\ w \o Append(t, r) \in Seq(Records)
      /\ Len(w \o Append(t, r)) = Len(w) + Len(Append(t, r))
      /\ \A i \in 1 .. Len(w) + Len(Append(t, r)) :
           (w \o Append(t, r))[i] = IF i <= Len(w) THEN w[i] ELSE Append(t, r)[i - Len(w)]
  BY <1>3, ConcatProperties
<1>5. /\ Append(u, r) \in Seq(Records) /\ Len(Append(u, r)) = Len(u) + 1
      /\ Append(u, r)[Len(u) + 1] = r /\ \A i \in 1 .. Len(u) : Append(u, r)[i] = u[i]
  BY <1>2
<1>6. Len(w \o Append(t, r)) = Len(Append(u, r))
  BY <1>1, <1>2, <1>3, <1>4, <1>5
<1>7. \A i \in 1 .. Len(Append(u, r)) : (w \o Append(t, r))[i] = Append(u, r)[i]
  <2> TAKE i \in 1 .. Len(Append(u, r))
  <2>1. CASE i <= Len(w)
    BY <1>1, <1>2, <1>3, <1>4, <1>5, <2>1
  <2>2. CASE i > Len(w) /\ i <= Len(u)
    BY <1>1, <1>2, <1>3, <1>4, <1>5, <2>2
  <2>3. CASE i = Len(u) + 1
    BY <1>1, <1>2, <1>3, <1>4, <1>5, <2>3
  <2>4. i \in Nat /\ i <= Len(u) + 1 /\ Len(u) \in Nat
    BY <1>1, <1>2, <1>5
  <2> QED
    BY <1>1, <2>1, <2>2, <2>3, <2>4
<1> QED
  BY <1>4, <1>5, <1>6, <1>7, SeqEqual

(* A record makes a store of a store.                                      *)
LEMMA ApplyIsStore ==
  ASSUME NEW s \in Stores, NEW r \in Records \cup {NoRecord}
  PROVE  Apply(s, r) \in Stores
<1>1. CASE r \in Records
  <2>1. NoId \in Ids
    BY DEF NoId, Ids
  <2> QED
    BY <1>1, <2>1, RecordFields DEF Apply, Stores
<1>2. CASE r = NoRecord
  BY <1>2 DEF Apply, NoRecord
<1> QED
  BY <1>1, <1>2

-----------------------------------------------------------------------------
(* The invariant.                                                          *)

(* Types, in the form the proofs use.                                      *)
LEMMA Types ==
  ASSUME TypeOK
  PROVE  /\ file \in Seq(Records) /\ txn \in Seq(Records)
         /\ file \o txn \in Seq(Records)
         /\ Len(file) \in Nat /\ pos \in 0 .. Len(file)
         /\ tail \in Tails
         /\ store \in Stores /\ base \in Stores /\ published \in Stores
         /\ cursor \in Ids /\ cursor \in Nat
         /\ nextId \in Nat \ {0} /\ nextId <= UwMax
         /\ limbo \in Records \cup {NoRecord}
         /\ short \in 0 .. UwMax /\ short \in Nat
<1>1. /\ file \in Seq(Records) /\ txn \in Seq(Records)
      /\ pos \in 0 .. Len(file)
      /\ tail \in Tails
      /\ store \in Stores /\ base \in Stores /\ published \in Stores
      /\ cursor \in Ids
      /\ limbo \in Records \cup {NoRecord} /\ short \in 0 .. UwMax
  BY DEF TypeOK
<1>2. nextId \in 1 .. UwMax
  BY DEF TypeOK
<1>3. file \o txn \in Seq(Records)
  BY <1>1, ConcatProperties
<1>4. cursor \in Nat
  BY <1>1, IdsAreNat
<1>5. nextId \in Nat \ {0} /\ nextId <= UwMax
  BY <1>2
<1>6. Len(file) \in Nat /\ short \in Nat
  BY <1>1
<1> QED
  BY <1>1, <1>3, <1>4, <1>5, <1>6

(* NoId is an identifier.                                                  *)
LEMMA NoIdIsId == NoId \in Ids /\ NoId \in Nat
BY DEF NoId, Ids

(* The facts written back up to c are those that the file shows.           *)
LEMMA CutIsWithout ==
  ASSUME NEW s \in Stores, NEW c \in Ids, NEW d \in Nat,
         StoreBelow(s, d) \/ (d = 0 /\ \A f \in Triples : ~ (s[f] > c))
  PROVE  Without(s, c, d) = Cut(s, c)
<1>1. c \in Nat /\ \A f \in Triples : s[f] \in Nat
  BY IdsAreNat, StoreIds
<1>2. CASE StoreBelow(s, d)
  BY <1>1, <1>2, WithoutCut
<1>3. CASE d = 0 /\ \A f \in Triples : ~ (s[f] > c)
  BY <1>3, WithoutNone, CutAll
<1> QED
  BY <1>2, <1>3

(* What a file holds of which one can tell what it shows.                  *)
LEMMA HoldsPublished ==
  ASSUME NEW w, NEW p, NEW l, NEW d, NEW c \in Ids, Built(w, Without(p, c, d))
  PROVE  Holds(w, p, l, d)
BY DEF Holds

(* ... and with a record in doubt.                                         *)
LEMMA HoldsLimbo ==
  ASSUME NEW w, NEW p, NEW l, NEW d, NEW c \in Ids, Built(w, Without(Apply(p, l), c, d))
  PROVE  Holds(w, p, l, d)
BY DEF Holds

(* What the file shows while the facts are written back.                   *)
LEMMA RewriteShows ==
  ASSUME Inv, phase = "rewrite", tail = "none"
  PROVE  Shows(file, store, cursor, short) /\ published = store
<1>1. /\ file \in Seq(Records) /\ store \in Stores /\ cursor \in Ids /\ short \in Nat
      /\ cursor \in Nat /\ nextId \in Nat
  BY Types DEF Inv
<1>2. /\ published = store
      /\ Built(file, Cut(store, cursor))
      /\ \A i \in 1 .. Len(file) : file[i].id <= cursor /\ store[file[i].fact] = file[i].id
      /\ StoreBelow(store, nextId)
      /\ IF short = 0 THEN Ahead(cursor) = {} ELSE short = nextId
  BY DEF Inv, RewriteFollows
<1>3. StoreBelow(store, short) \/ (short = 0 /\ \A f \in Triples : ~ (store[f] > cursor))
  BY <1>2 DEF Ahead
<1>4. Built(file, Without(store, cursor, short))
  BY <1>1, <1>2, <1>3, CutIsWithout
<1>5. ASSUME NEW f \in Triples, cursor < store[f], NEW i \in 1 .. Len(file)
      PROVE  file[i].fact # f
  <2>1. store[f] \in Nat
    BY <1>1, StoreIds
  <2> QED
    BY <1>1, <1>2, <1>5, <2>1
<1> QED
  BY <1>2, <1>4, <1>5 DEF Shows

(* The records on disk are good, and hold what Holds says, also while they *)
(* are written back or appended to.                                        *)
LEMMA CrashHolds ==
  ASSUME Inv
  PROVE  /\ Good(file, short)
         /\ tail # "refused" => Holds(file, published, limbo, short)
<1>1. Good(file, short)
  BY DEF Inv, FileGood
<1>2. cursor \in Ids
  BY Types DEF Inv
<1>3. CASE phase # "rewrite" /\ log # "open"
  BY <1>1, <1>3 DEF Inv, FileGood
<1>4. CASE phase = "rewrite" /\ tail # "refused"
  <2>1. tail = "none"
    BY <1>4, Types DEF Inv, FileGood, Tails
  <2>2. Built(file, Without(published, cursor, short))
    BY <1>4, <2>1, RewriteShows DEF Shows
  <2> QED
    BY <1>1, <1>2, <2>2, HoldsPublished
<1>5. CASE log = "open" /\ tail # "refused"
  <2>1. tail = "none" /\ phase \in Live
    BY <1>5, Types DEF Inv, FileGood, Tails
  <2>2. FileFollows
    BY <1>5, <2>1 DEF Inv, LiveFollows
  <2>3. PICK c \in Ids : Shows(file, published, c, short)
    BY <2>2 DEF FileFollows
  <2>4. Built(file, Without(published, c, short))
    BY <2>3 DEF Shows
  <2> QED
    BY <1>1, <2>4, HoldsPublished
<1> QED
  BY <1>1, <1>3, <1>4, <1>5

(* Nothing else than the file matters once the process is gone.            *)
LEMMA GoneInv ==
  ASSUME Gone, file' \in Seq(Records), tail' \in Tails, published' \in Stores,
         limbo' \in Records \cup {NoRecord}, short' \in 0 .. UwMax,
         Good(file', short'),
         tail' # "refused" => Holds(file', published', limbo', short')
  PROVE  Inv'
<1>1. Empty \in Stores /\ 0 \in Ids /\ <<>> \in Seq(Records)
  BY DEF Empty, Stores, Ids, NoId
<1>2. TypeOK'
  <2>1. 0 \in 0 .. Len(file') /\ 1 \in 1 .. UwMax
    OBVIOUS
  <2> QED
    BY <1>1, <2>1 DEF TypeOK, Gone, Phases, NoId
<1>3. FileGood'
  BY DEF FileGood, Gone, Live
<1>4. ClosedEmpty' /\ ReplayFollows' /\ RewriteFollows' /\ LiveFollows'
  BY DEF ClosedEmpty, ReplayFollows, RewriteFollows, LiveFollows, Gone, Live
<1> QED
  BY <1>2, <1>3, <1>4 DEF Inv

(* A crash outside a write.                                                *)
LEMMA GoneUnchanged ==
  ASSUME Inv, Gone, UNCHANGED <<onDisk, history>>
  PROVE  Inv'
<1>1. file' = file /\ tail' = tail /\ published' = published /\ limbo' = limbo /\ short' = short
  BY DEF onDisk, history
<1>2. tail \in Tails /\ TypeOK
  BY DEF Inv, TypeOK
<1> QED
  BY <1>1, <1>2, CrashHolds, Types, GoneInv

(* No record waits to be written outside a transaction.                    *)
LEMMA NoTransaction ==
  ASSUME Inv, phase \notin {"transaction", "publish"}
  PROVE  txn = <<>> /\ file \o txn = file
BY ConcatEmptySeq, Types DEF Inv, FileGood

(* While the log has not failed and no transaction is open, memory is what *)
(* is published.                                                           *)
LEMMA IdleIsPublished ==
  ASSUME Inv, phase = "idle", log = "open"
  PROVE  store = published
<1>1. Leads(published, txn, store) /\ txn = <<>>
  BY NoTransaction DEF Inv, LiveFollows, Live
<1>2. store \in Stores /\ published \in Stores
  BY Types DEF Inv
<1> QED
  BY <1>1, <1>2, LeadsNone

(* A record that an operation could write fits memory.                     *)
LEMMA NextFits ==
  ASSUME TypeOK, HasNextId, NEW r \in NextRecords
  PROVE  r \in Records /\ Fits(r, store) /\ r.id = nextId
<1>1. store \in Stores /\ nextId \in Nat \ {0} /\ nextId < UwMax
  BY Types DEF HasNextId
<1>2. nextId \in Ids
  BY <1>1 DEF Ids
<1>3. \A f \in Triples : store[f] \in Nat
  BY <1>1, StoreIds
<1>4. CASE \E f \in Triples \ Ahead(NoId) : r = Addition(f)
  <2>1. PICK f \in Triples \ Ahead(NoId) : r = Addition(f)
    BY <1>4
  <2>2. store[f] = NoId
    BY <1>3 DEF Ahead, NoId
  <2> QED
    BY <1>1, <1>2, <2>1, <2>2 DEF Addition, Record, Records, Fits
<1>5. CASE \E f \in Ahead(NoId) : r = Removal(f)
  <2>1. PICK f \in Ahead(NoId) : r = Removal(f)
    BY <1>5
  <2>2. f \in Triples /\ store[f] # NoId
    BY <1>3 DEF Ahead, NoId
  <2> QED
    BY <1>1, <1>2, <2>1, <2>2 DEF Removal, Record, Records, Fits
<1> QED
  BY <1>4, <1>5 DEF NextRecords

-----------------------------------------------------------------------------
(* The invariant is kept by every step.                                    *)

(* A new database is an empty file.                                        *)
LEMMA InitInv == Init => Inv
<1> SUFFICES ASSUME Init PROVE Inv
  OBVIOUS
<1>1. Empty \in Stores /\ NoId \in Ids
  BY NoIdIsId DEF Empty, Stores
<1>2. TypeOK
  <2>1. 0 \in 0 .. Len(<<>>) /\ 1 \in 1 .. UwMax /\ <<>> \in Seq(Records) /\ 0 \in 0 .. UwMax
    OBVIOUS
  <2> QED
    BY <1>1, <2>1 DEF TypeOK, Init, Tails, Phases
<1>3. FileGood
  <2>1. Good(file, short)
    BY GoodEmpty DEF Init
  <2>2. Built(file, Without(published, NoId, short))
    BY <1>1, GoodEmpty, WithoutNone DEF Init
  <2>3. Holds(file, published, limbo, short)
    BY <1>1, <2>2, HoldsPublished
  <2> QED
    BY <2>1, <2>3 DEF FileGood, Init
<1>4. ClosedEmpty /\ ReplayFollows /\ RewriteFollows /\ LiveFollows
  BY DEF ClosedEmpty, ReplayFollows, RewriteFollows, LiveFollows, Init, Live
<1> QED
  BY <1>2, <1>3, <1>4 DEF Inv

(* facts_open_file.                                                        *)
LEMMA OpenFileInv ==
  ASSUME Inv, OpenFile
  PROVE  Inv'
<1> USE DEF OpenFile, onDisk, memory, history
<1>1. TypeOK'
  BY DEF Inv, TypeOK, Phases
<1>2. FileGood'
  BY DEF Inv, FileGood, Live
<1>3. ReplayFollows'
  <2>1. pos = 0 /\ store = Empty
    BY DEF Inv, ClosedEmpty
  <2>2. Makes(file, pos, store) /\ \A i \in 1 .. pos : file[i].id < nextId
    BY <2>1, MakesEmpty
  <2> QED
    BY <2>2 DEF ReplayFollows
<1>4. ClosedEmpty' /\ RewriteFollows' /\ LiveFollows'
  BY DEF ClosedEmpty, RewriteFollows, LiveFollows, Live
<1> QED
  BY <1>1, <1>2, <1>3, <1>4 DEF Inv

(* A record replayed.                                                      *)
LEMMA ReplayRecordInv ==
  ASSUME Inv, ReplayRecord
  PROVE  Inv'
<1> DEFINE r == file[pos + 1]
<1>1. /\ file \in Seq(Records) /\ store \in Stores /\ Len(file) \in Nat /\ short \in Nat
      /\ pos \in 0 .. Len(file) - 1 /\ pos \in Nat /\ nextId \in Nat \ {0} /\ nextId <= UwMax
  BY Types DEF Inv, ReplayRecord
<1>2. Good(file, short) /\ Makes(file, pos, store) /\ \A i \in 1 .. pos : file[i].id < nextId
  BY CrashHolds DEF Inv, ReplayFollows, ReplayRecord
<1>3. r \in Records /\ r.id > 0 /\ (r.op = "add" => store[r.fact] = NoId)
  BY <1>1, <1>2, MakesFits
<1>4. r.id \in Nat /\ r.id < UwMax
  BY <1>3, RecordFields, IdsAreNat
<1>5. store' = Apply(store, r) /\ nextId' = Larger(nextId, r.id + 1)
  BY <1>3 DEF ReplayRecord, ReplayAdd, ReplayRemove
<1>6. nextId' \in Nat \ {0} /\ nextId' <= UwMax /\ nextId <= nextId' /\ r.id < nextId'
  BY <1>1, <1>4, <1>5 DEF Larger
<1>7. TypeOK'
  <2>1. store' \in Stores
    BY <1>1, <1>3, <1>5, ApplyIsStore
  <2>2. pos' \in 0 .. Len(file') /\ nextId' \in 1 .. UwMax
    BY <1>1, <1>6 DEF ReplayRecord, onDisk
  <2> QED
    BY <2>1, <2>2 DEF Inv, TypeOK, ReplayRecord, onDisk, history
<1>8. FileGood'
  BY DEF Inv, FileGood, ReplayRecord, onDisk, history
<1>9. ReplayFollows'
  <2>1. Makes(file, pos + 1, store')
    BY <1>1, <1>2, <1>3, <1>5, MakesStep
  <2>2. ASSUME NEW i \in 1 .. pos + 1 PROVE file[i].id < nextId'
    <3>1. CASE i = pos + 1
      BY <1>6, <3>1
    <3>2. CASE i # pos + 1
      <4>1. i \in 1 .. pos /\ i \in 1 .. Len(file)
        BY <1>1, <3>2
      <4>2. file[i].id < nextId /\ file[i].id \in Nat
        BY <1>1, <1>2, <4>1, FileRecords
      <4> QED
        BY <1>1, <1>6, <4>2
    <3> QED
      BY <3>1, <3>2
  <2> QED
    BY <2>1, <2>2 DEF ReplayFollows, ReplayRecord, onDisk
<1>10. ClosedEmpty' /\ RewriteFollows' /\ LiveFollows'
  BY DEF ClosedEmpty, RewriteFollows, LiveFollows, ReplayRecord, Live
<1> QED
  BY <1>7, <1>8, <1>9, <1>10 DEF Inv

(* What the replay of a whole file has found.                              *)
LEMMA ReplayFound ==
  ASSUME Inv, phase = "replay", pos = Len(file), tail # "refused"
  PROVE  /\ Built(file, store)
         /\ short = 0 => store \in {published, Apply(published, limbo)}
         /\ \E c \in Ids : store \in {Without(published, c, short),
                                      Without(Apply(published, limbo), c, short)}
<1> DEFINE a == Apply(published, limbo)
<1>1. /\ store \in Stores /\ published \in Stores /\ a \in Stores /\ Len(file) \in Nat
      /\ short \in Nat
  BY Types, ApplyIsStore DEF Inv
<1>2. Built(file, store) /\ Holds(file, published, limbo, short)
  BY CrashHolds DEF Inv, ReplayFollows, Built
<1>3. \A t \in Stores : Built(file, t) => store = t
  BY <1>1, <1>2, MakesUnique DEF Built
<1>4. PICK c \in Ids :
        Built(file, Without(published, c, short)) \/ Built(file, Without(a, c, short))
  BY <1>2 DEF Holds
<1>5. store \in {Without(published, c, short), Without(a, c, short)}
  BY <1>1, <1>3, <1>4, WithoutIsStore
<1>6. short = 0 => store \in {published, a}
  BY <1>1, <1>5, WithoutNone
<1> QED
  BY <1>2, <1>5, <1>6

(* The file truncated: what it held is in memory.                          *)
LEMMA TruncateInv ==
  ASSUME Inv, Truncate
  PROVE  Inv'
<1>1. /\ phase = "replay" /\ pos = Len(file) /\ tail # "refused" /\ phase' = "rewrite"
      /\ pos' = 0 /\ cursor' = NoId /\ file' = <<>> /\ tail' = "none" /\ limbo' = NoRecord
      /\ store' = store /\ nextId' = nextId /\ log' = log /\ base' = base /\ txn' = txn
      /\ published' = store
      /\ short' = IF Ahead(NoId) = {} THEN 0 ELSE nextId
  BY DEF Truncate, memory
<1>2. /\ file \in Seq(Records) /\ store \in Stores
      /\ Len(file) \in Nat /\ nextId \in Nat \ {0} /\ nextId <= UwMax
  BY Types DEF Inv
<1>3. txn = <<>> /\ Good(file, short) /\ Built(file, store)
  BY <1>1, NoTransaction, CrashHolds, ReplayFound
<1>4. short' \in 0 .. UwMax /\ short' \in Nat
  BY <1>1, <1>2
<1>5. TypeOK'
  <2>1. <<>> \in Seq(Records) /\ 0 \in 0 .. Len(<<>>)
    OBVIOUS
  <2> QED
    BY <1>1, <1>2, <1>4, <2>1, NoIdIsId DEF Inv, TypeOK, Tails, Phases
<1>6. FileGood'
  <2>1. Good(<<>>, short')
    BY <1>4, GoodEmpty
  <2>2. log = "none"
    BY <1>1 DEF Inv, FileGood, Live
  <2> QED
    BY <1>1, <1>3, <2>1, <2>2 DEF FileGood
<1>7. RewriteFollows'
  <2>1. Good(<<>>, 0) /\ Built(<<>>, Cut(store, NoId))
    BY <1>2, CutNone, GoodEmpty
  <2>2. NoId < nextId
    BY <1>2 DEF NoId
  <2>3. StoreBelow(store, nextId)
    BY <1>1, <1>2, <1>3, MakesBelow DEF Inv, ReplayFollows, Built
  <2>4. \A f, g \in Triples : store[f] = store[g] /\ store[f] # NoId => f = g
    BY <1>2, <1>3, MakesInjective DEF Good, Built
  <2>5. (Ahead(cursor))' = Ahead(NoId)
    BY <1>1 DEF Ahead
  <2>6. \A i \in 1 .. Len(<<>>) : <<>>[i].id <= NoId /\ store[<<>>[i].fact] = <<>>[i].id
    OBVIOUS
  <2> QED
    BY <1>1, <1>2, <2>1, <2>2, <2>3, <2>4, <2>5, <2>6 DEF RewriteFollows
<1>8. ClosedEmpty' /\ ReplayFollows' /\ LiveFollows'
  BY <1>1 DEF ClosedEmpty, ReplayFollows, LiveFollows, Live
<1> QED
  BY <1>5, <1>6, <1>7, <1>8 DEF Inv

(* The next fact to write back.                                            *)
LEMMA RewriteNext ==
  ASSUME Inv, phase = "rewrite", NEW f \in Triples, IsNext(f)
  PROVE  /\ store[f] \in Ids /\ store[f] \in Nat /\ store[f] < nextId /\ cursor < store[f]
         /\ short = nextId /\ nextId > 0 /\ short \in 0 .. UwMax
         /\ \A i \in 1 .. Len(file) : file[i].id <= store[f]
         /\ \A i \in 1 .. Len(file) : file[i].id \in Nat
<1>1. /\ file \in Seq(Records) /\ store \in Stores /\ cursor \in Ids /\ cursor \in Nat
      /\ nextId \in Nat \ {0} /\ short \in 0 .. UwMax
  BY Types DEF Inv
<1>2. /\ \A i \in 1 .. Len(file) : file[i].id <= cursor
      /\ StoreBelow(store, nextId)
      /\ IF short = 0 THEN Ahead(cursor) = {} ELSE short = nextId
  BY DEF Inv, RewriteFollows
<1>3. f \in Ahead(cursor) /\ store[f] > cursor /\ store[f] \in Ids /\ store[f] \in Nat
  BY <1>1, StoreIds DEF IsNext, Ahead
<1>4. short = nextId
  BY <1>2, <1>3
<1>5. store[f] < nextId
  BY <1>2 DEF StoreBelow
<1>6. \A i \in 1 .. Len(file) : file[i].id \in Nat
  BY <1>1, FileRecords
<1>7. \A i \in 1 .. Len(file) : file[i].id <= store[f]
  BY <1>1, <1>2, <1>3, <1>6
<1> QED
  BY <1>1, <1>3, <1>4, <1>5, <1>6, <1>7

(* What a fact written back makes of the file.                             *)
LEMMA RewriteBuilds ==
  ASSUME Inv, phase = "rewrite", tail = "none", NEW f \in Triples, IsNext(f),
         NEW w, w = Append(file, Record("add", store[f], f))
  PROVE  /\ w \in Seq(Records) /\ Len(w) = Len(file) + 1 /\ Good(w, 0)
         /\ Built(w, Cut(store, store[f]))
         /\ \A i \in 1 .. Len(w) : w[i].id <= store[f] /\ store[w[i].fact] = w[i].id
<1> DEFINE r == Record("add", store[f], f)
           s == Cut(store, cursor)
<1>1. /\ Good(file, 0) /\ Built(file, s)
      /\ \A i \in 1 .. Len(file) : file[i].id <= cursor /\ store[file[i].fact] = file[i].id
      /\ \A g \in Triples : store[g] = store[f] /\ store[g] # NoId => g = f
  BY DEF Inv, RewriteFollows
<1>2. /\ file \in Seq(Records) /\ store \in Stores /\ cursor \in Ids /\ cursor \in Nat
      /\ Len(file) \in Nat
  BY Types DEF Inv
<1>3. /\ store[f] \in Ids /\ store[f] \in Nat /\ cursor < store[f]
      /\ \A i \in 1 .. Len(file) : file[i].id \in Nat
  BY RewriteNext
<1>4. \A g \in Triples : store[g] > cursor => store[f] <= store[g]
  BY DEF IsNext, Ahead
<1>5. store[f] > 0 /\ store[f] # NoId
  BY <1>2, <1>3 DEF NoId
<1>6. Cut(store, store[f]) = Apply(s, r) /\ s[f] = NoId /\ r \in Records
  BY <1>1, <1>2, <1>3, <1>4, <1>5, CutNext
<1>7. r.op = "add" /\ r.id = store[f] /\ r.fact = f /\ 0 <= r.id
  BY <1>3 DEF Record
<1>8. Fits(r, s)
  BY <1>5, <1>6, <1>7 DEF Fits
<1>9. IdsBelow(file, r.id)
  BY <1>1, <1>2, <1>3, <1>7 DEF IdsBelow
<1>10. s \in Stores /\ Apply(s, r) \in Stores /\ 0 \in Nat
  BY <1>2, <1>6, CutIsStore, ApplyIsStore
<1> HIDE DEF r, s
<1>11. Shows(file, s, NoId, 0)
  <2>1. Without(s, NoId, 0) = s
    BY <1>10, NoIdIsId, WithoutNone
  <2>2. \A g \in Triples : s[g] \in Nat
    BY <1>10, StoreIds
  <2> QED
    BY <1>1, <2>1, <2>2 DEF Shows
<1>12. Good(Append(file, r), 0)
  BY <1>1, <1>2, <1>6, <1>7, <1>8, <1>9, <1>10, <1>11, NoIdIsId, AppendGood
<1>13. r.id > 0
  BY <1>5, <1>7
<1>14. Shows(Append(file, r), Apply(s, r), NoId, 0)
  BY <1>2, <1>6, <1>7, <1>10, <1>11, <1>13, NoIdIsId, AppendShows
<1>15. Built(Append(file, r), Cut(store, store[f]))
  <2>1. Without(Apply(s, r), NoId, 0) = Apply(s, r)
    BY <1>10, NoIdIsId, WithoutNone
  <2> QED
    BY <1>6, <1>14, <2>1 DEF Shows
<1>16. w = Append(file, r)
  BY DEF r
<1>17. /\ w \in Seq(Records) /\ Len(w) = Len(file) + 1 /\ w[Len(file) + 1] = r
       /\ \A i \in 1 .. Len(file) : w[i] = file[i]
  BY <1>2, <1>6, <1>16
<1>18. ASSUME NEW i \in 1 .. Len(w)
       PROVE  w[i].id <= store[f] /\ store[w[i].fact] = w[i].id
  <2>1. CASE i = Len(file) + 1
    BY <1>3, <1>7, <1>17, <2>1
  <2>2. CASE i # Len(file) + 1
    <3>1. i \in 1 .. Len(file) /\ w[i] = file[i]
      BY <1>2, <1>17, <2>2
    <3> QED
      BY <1>1, <1>2, <1>3, <3>1
  <2> QED
    BY <2>1, <2>2
<1> QED
  BY <1>12, <1>15, <1>16, <1>17, <1>18

(* What the loop of facts_dump_binary leaves of the invariant, whatever it *)
(* has written.                                                            *)
LEMMA RewriteGoesOn ==
  ASSUME Inv, phase = "rewrite", NEW f \in Triples, IsNext(f),
         UNCHANGED <<phase, pos, memory, published, limbo>>, cursor' = store[f],
         file' \in Seq(Records), Len(file) <= Len(file'),
         Good(file', 0),
         tail' \in {"none", "refused"},
         tail' = "none" => Built(file', Cut(store, store[f])),
         \A i \in 1 .. Len(file') : file'[i].id <= store[f] /\ store[file'[i].fact] = file'[i].id,
         short' = nextId \/ (short' = 0 /\ tail' = "none" /\ Ahead(store[f]) = {})
  PROVE  Inv'
<1>1. /\ phase' = phase /\ pos' = pos /\ limbo' = limbo /\ published' = published
      /\ store' = store /\ nextId' = nextId /\ log' = log /\ base' = base /\ txn' = txn
  BY DEF memory
<1>2. /\ store[f] \in Ids /\ store[f] \in Nat /\ store[f] < nextId
      /\ short = nextId /\ nextId > 0 /\ short \in 0 .. UwMax
  BY RewriteNext
<1>3. short' \in 0 .. UwMax /\ short' \in Nat
  BY <1>2
<1>4. TypeOK'
  <2>1. Len(file) \in Nat /\ Len(file') \in Nat /\ pos \in 0 .. Len(file)
    BY Types DEF Inv
  <2>2. pos' \in 0 .. Len(file')
    BY <1>1, <2>1
  <2> QED
    BY <1>1, <1>2, <1>3, <2>2 DEF Inv, TypeOK, Tails
<1>5. FileGood'
  <2>1. Good(file', short')
    BY <1>3, GoodShort
  <2>2. log = "none" /\ txn = <<>>
    BY DEF Inv, FileGood, Live
  <2> QED
    BY <1>1, <2>1, <2>2 DEF FileGood
<1>6. RewriteFollows'
  <2>1. /\ limbo = NoRecord /\ published = store /\ StoreBelow(store, nextId)
        /\ \A g, h \in Triples : store[g] = store[h] /\ store[g] # NoId => g = h
    BY DEF Inv, RewriteFollows
  <2>2. (Ahead(cursor))' = Ahead(store[f])
    BY <1>1 DEF Ahead
  <2>3. IF short' = 0 THEN tail' = "none" /\ Ahead(store[f]) = {} ELSE short' = nextId
    BY <1>2
  <2> QED
    BY <1>1, <1>2, <2>1, <2>2, <2>3 DEF RewriteFollows
<1>7. ClosedEmpty' /\ ReplayFollows' /\ LiveFollows'
  BY <1>1 DEF ClosedEmpty, ReplayFollows, LiveFollows, Live
<1> QED
  BY <1>4, <1>5, <1>6, <1>7 DEF Inv

(* A fact written back, if need be behind a record that cannot be read.    *)
LEMMA RewriteRecordInv ==
  ASSUME Inv, RewriteRecord
  PROVE  Inv'
<1>1. PICK f \in Triples :
        /\ IsNext(f)
        /\ WriteWhole(Record("add", store[f], f))
        /\ cursor' = store[f]
        /\ short' = IF tail = "none" /\ Ahead(store[f]) = {} THEN 0 ELSE short
  BY DEF RewriteRecord
<1>2. phase = "rewrite" /\ UNCHANGED <<phase, pos, memory, published, limbo>>
  BY DEF RewriteRecord
<1>3. /\ file \in Seq(Records) /\ Len(file) \in Nat /\ tail \in {"none", "refused"}
  BY <1>2, Types DEF Inv, FileGood, Tails
<1>4. short = nextId
  BY <1>1, <1>2, RewriteNext
<1>5. CASE tail = "none"
  <2>1. file' = Append(file, Record("add", store[f], f)) /\ tail' = "none"
    BY <1>1, <1>5 DEF WriteWhole
  <2>2. /\ file' \in Seq(Records) /\ Len(file') = Len(file) + 1 /\ Good(file', 0)
        /\ Built(file', Cut(store, store[f]))
        /\ \A i \in 1 .. Len(file') :
             file'[i].id <= store[f] /\ store[file'[i].fact] = file'[i].id
    BY <1>1, <1>2, <1>5, <2>1, RewriteBuilds
  <2>3. Len(file) <= Len(file')
    BY <1>3, <2>2
  <2>4. short' = nextId \/ (short' = 0 /\ tail' = "none" /\ Ahead(store[f]) = {})
    BY <1>1, <1>4, <2>1
  <2> QED
    BY <1>1, <1>2, <2>1, <2>2, <2>3, <2>4, RewriteGoesOn
<1>6. CASE tail = "refused"
  <2>1. file' = file /\ tail' = "refused" /\ short' = nextId
    BY <1>1, <1>4, <1>6 DEF WriteWhole
  <2>2. /\ Good(file, 0) /\ \A i \in 1 .. Len(file) : store[file[i].fact] = file[i].id
    BY <1>2 DEF Inv, RewriteFollows
  <2>3. \A i \in 1 .. Len(file') :
          file'[i].id <= store[f] /\ store[file'[i].fact] = file'[i].id
    BY <1>1, <1>2, <2>1, <2>2, RewriteNext
  <2> QED
    BY <1>1, <1>2, <1>3, <2>1, <2>2, <2>3, RewriteGoesOn
<1> QED
  BY <1>3, <1>5, <1>6

(* Memory that runs out while a record is made.                            *)
LEMMA RewriteGarbledInv ==
  ASSUME Inv, RewriteGarbled
  PROVE  Inv'
<1>1. PICK f \in Triples : IsNext(f) /\ cursor' = store[f]
  BY DEF RewriteGarbled
<1>2. /\ phase = "rewrite" /\ UNCHANGED <<phase, pos, memory, published, limbo>>
      /\ file' = file /\ tail' = "refused" /\ short' = short
  BY DEF RewriteGarbled, history
<1>3. file \in Seq(Records) /\ Len(file) \in Nat
  BY Types DEF Inv
<1>4. short = nextId
  BY <1>1, <1>2, RewriteNext
<1>5. Good(file, 0) /\ \A i \in 1 .. Len(file) : store[file[i].fact] = file[i].id
  BY <1>2 DEF Inv, RewriteFollows
<1>6. \A i \in 1 .. Len(file') :
        file'[i].id <= store[f] /\ store[file'[i].fact] = file'[i].id
  BY <1>1, <1>2, <1>5, RewriteNext
<1> QED
  BY <1>1, <1>2, <1>3, <1>4, <1>5, <1>6, RewriteGoesOn

(* A crash or a failure while a fact is written back.                      *)
LEMMA RewriteCutInv ==
  ASSUME Inv, RewriteCut
  PROVE  Inv'
<1>1. PICK f \in Triples :
        /\ IsNext(f)
        /\ WriteCut(Record("add", store[f], f))
        /\ short' = IF file' # file /\ Ahead(store[f]) = {} THEN 0 ELSE short
  BY DEF RewriteCut
<1>2. /\ phase = "rewrite" /\ Gone /\ limbo' = limbo /\ published' = published
  BY DEF RewriteCut
<1> DEFINE w == Append(file, Record("add", store[f], f))
<1>3. /\ file \in Seq(Records) /\ store \in Stores /\ published \in Stores
      /\ Len(file) \in Nat /\ tail \in Tails /\ limbo \in Records \cup {NoRecord}
      /\ nextId \in Nat
  BY Types DEF Inv
<1>4. /\ store[f] \in Ids /\ store[f] \in Nat
      /\ short = nextId /\ short \in 0 .. UwMax
  BY <1>1, <1>2, RewriteNext
<1>5. published = store /\ StoreBelow(store, nextId)
  BY <1>2 DEF Inv, RewriteFollows
<1>6. short' \in 0 .. UwMax /\ short' \in Nat
  BY <1>1, <1>4
<1>7. CASE tail = "none" /\ file' = w /\ tail' = "none"
  <2>1. /\ w \in Seq(Records) /\ Len(w) = Len(file) + 1 /\ Good(w, 0)
        /\ Built(w, Cut(store, store[f]))
    BY <1>1, <1>2, <1>7, RewriteBuilds
  <2>2. w # file
    BY <1>3, <2>1
  <2>3. \/ short' = nextId
        \/ short' = 0 /\ \A g \in Triples : ~ (store[g] > store[f])
    BY <1>1, <1>4 DEF Ahead
  <2>4. Without(published, store[f], short') = Cut(store, store[f])
    BY <1>3, <1>4, <1>5, <1>6, <2>3, CutIsWithout
  <2>5. Holds(file', published', limbo', short')
    BY <1>2, <1>4, <1>7, <2>1, <2>4, HoldsPublished
  <2>6. Good(file', short')
    BY <1>6, <1>7, <2>1, GoodShort
  <2> QED
    BY <1>2, <1>3, <1>6, <1>7, <2>1, <2>5, <2>6, GoneInv DEF Tails
<1>8. CASE file' = file /\ tail' \in Tails /\ (tail' # "refused" => tail # "refused")
  <2>1. short' = short
    BY <1>1, <1>8
  <2>2. /\ Good(file', short')
        /\ tail' # "refused" => Holds(file', published', limbo', short')
    BY <1>2, <1>8, <2>1, CrashHolds
  <2> QED
    BY <1>2, <1>3, <1>6, <1>8, <2>2, GoneInv
<1>9. \/ tail = "none" /\ file' = w /\ tail' = "none"
      \/ file' = file /\ tail' \in Tails /\ (tail' # "refused" => tail # "refused")
  BY <1>1, <1>3 DEF WriteCut, WriteWhole, Tails, onDisk
<1> QED
  BY <1>7, <1>8, <1>9

(* The database is open, on a file that is short if memory ran out.        *)
LEMMA OpenLogInv ==
  ASSUME Inv, OpenLog
  PROVE  Inv'
<1>1. /\ phase = "rewrite" /\ phase' = "idle" /\ log' = "open" /\ cursor' = NoId
      /\ file' = file /\ tail' = tail /\ pos' = pos /\ store' = store /\ nextId' = nextId
      /\ base' = base /\ txn' = txn /\ limbo' = limbo /\ published' = published
      /\ short' = short
  BY DEF OpenLog, onDisk, history
<1>2. txn = <<>> /\ file \o txn = file
  BY <1>1, NoTransaction
<1>3. /\ limbo = NoRecord /\ cursor < nextId /\ StoreBelow(store, nextId)
      /\ published = store
      /\ \A i \in 1 .. Len(file) : file[i].id <= cursor
      /\ short = 0 \/ short = nextId
  BY <1>1 DEF Inv, RewriteFollows
<1>4. /\ store \in Stores /\ file \in Seq(Records) /\ cursor \in Nat /\ nextId \in Nat
      /\ cursor \in Ids
  BY Types DEF Inv
<1>5. TypeOK'
  BY <1>1, <1>4, NoIdIsId DEF Inv, TypeOK, Phases
<1>6. FileGood'
  BY <1>1, <1>2 DEF Inv, FileGood, Live
<1>7. IdsBelow(file, nextId)
  <2>1. \A i \in 1 .. Len(file) : file[i].id \in Nat
    BY <1>4, FileRecords
  <2> QED
    BY <1>3, <1>4, <2>1 DEF IdsBelow
<1>8. tail = "none" => FileFollows'
  <2>1. Good(file, short)
    BY CrashHolds
  <2>2. tail = "none" => Shows(file, store, cursor, short)
    BY <1>1, RewriteShows
  <2> QED
    BY <1>1, <1>2, <1>3, <1>4, <1>7, <2>1, <2>2 DEF FileFollows
<1>9. LiveFollows'
  <2>1. Leads(published, txn, store)
    BY <1>2, <1>3, <1>4, LeadsNone
  <2>2. IdsBelow(txn, nextId) /\ IdsFrom(txn, short)
    BY <1>2 DEF IdsBelow, IdsFrom
  <2>3. short <= nextId
    BY <1>3, <1>4
  <2> QED
    BY <1>1, <1>3, <1>7, <1>8, <2>1, <2>2, <2>3 DEF LiveFollows
<1>10. ClosedEmpty' /\ ReplayFollows' /\ RewriteFollows'
  BY <1>1 DEF ClosedEmpty, ReplayFollows, RewriteFollows
<1> QED
  BY <1>5, <1>6, <1>9, <1>10 DEF Inv

(* The file may grow by the record r, which p acknowledges.                *)
GrowsBy(r) ==
  tail = "none" =>
    /\ Good(Append(file, r), short)
    /\ \E c \in Ids : Shows(Append(file, r), Apply(published, r), c, short)

(* A database that is open for writing.                                    *)
LEMMA OpenLive ==
  ASSUME Inv, log = "open"
  PROVE  /\ phase \in Live /\ tail \in {"none", "refused"} /\ limbo = NoRecord
         /\ short <= nextId
         /\ IdsBelow(file, nextId) /\ IdsBelow(txn, nextId) /\ IdsFrom(txn, short)
         /\ StoreBelow(store, nextId) /\ StoreBelow(published, nextId)
         /\ Leads(published, txn, store)
         /\ tail = "none" => FileFollows
<1>1. phase \in Live /\ tail \in {"none", "refused"}
  BY Types DEF Inv, FileGood, Tails
<1> QED
  BY <1>1 DEF Inv, LiveFollows

(* What an operation makes of the file and the records that follow it.     *)
LEMMA LogBuilds ==
  ASSUME Inv, log = "open", tail = "none", HasNextId, NEW r \in NextRecords,
         NEW c \in Ids, Shows(file \o txn, store, c, short)
  PROVE  /\ Good(Append(file \o txn, r), short)
         /\ IdsBelow(Append(file \o txn, r), nextId + 1)
         /\ Shows(Append(file \o txn, r), Apply(store, r), c, short)
<1> DEFINE w == file \o txn
<1>1. /\ w \in Seq(Records) /\ store \in Stores /\ short \in Nat /\ nextId \in Nat \ {0}
      /\ TypeOK
  BY Types DEF Inv
<1>2. short <= nextId /\ Good(w, short) /\ IdsBelow(w, nextId)
  BY OpenLive DEF FileFollows
<1>3. r \in Records /\ Fits(r, store) /\ r.id = nextId
  BY <1>1, NextFits
<1> HIDE DEF w
<1>4. Good(Append(w, r), short)
  BY <1>1, <1>2, <1>3, AppendGood DEF w
<1>5. IdsBelow(Append(w, r), nextId + 1)
  <2>1. IdsBelow(w, nextId + 1)
    BY <1>1, <1>2, BelowGrows
  <2>2. r.id < nextId + 1 /\ nextId + 1 \in Nat
    BY <1>1, <1>3
  <2> QED
    BY <1>1, <1>3, <2>1, <2>2, AppendBelow
<1>6. Shows(Append(w, r), Apply(store, r), c, short)
  <2>1. r.id > 0 /\ short <= r.id
    BY <1>1, <1>2, <1>3
  <2> QED
    BY <1>1, <1>3, <2>1, AppendShows DEF w
<1> QED
  BY <1>4, <1>5, <1>6 DEF w

(* A record is written whole, unless no one can read what follows.         *)
LEMMA WholeGood ==
  ASSUME Inv, log = "open", NEW r \in Records, GrowsBy(r), WriteWhole(r),
         NEW b \in Nat, IdsBelow(file, b), r.id < b
  PROVE  /\ file' \in Seq(Records) /\ Len(file) <= Len(file')
         /\ tail' = tail
         /\ Good(file', short) /\ IdsBelow(file', b)
         /\ file' = IF tail = "none" THEN Append(file, r) ELSE file
<1>1. file \in Seq(Records) /\ Len(file) \in Nat
  BY Types DEF Inv
<1>2. file' = (IF tail = "none" THEN Append(file, r) ELSE file) /\ tail' = tail
  BY DEF WriteWhole
<1>3. CASE tail = "none"
  <2>1. /\ Append(file, r) \in Seq(Records) /\ Len(Append(file, r)) = Len(file) + 1
        /\ IdsBelow(Append(file, r), b)
    BY <1>1, AppendBelow
  <2> QED
    BY <1>1, <1>2, <1>3, <2>1 DEF GrowsBy
<1>4. CASE tail # "none"
  BY <1>1, <1>2, <1>4, CrashHolds
<1> QED
  BY <1>3, <1>4

(* A write cut: the file holds the record that was to be written, or does  *)
(* not, if anyone can still read it.                                       *)
LEMMA CutHolds ==
  ASSUME Inv, log = "open", NEW r \in Records, GrowsBy(r), WriteCut(r),
         NEW b \in Nat, IdsBelow(file, b), r.id < b
  PROVE  /\ file' \in Seq(Records) /\ Len(file) <= Len(file')
         /\ tail' \in Tails
         /\ Good(file', short) /\ IdsBelow(file', b)
         /\ tail' # "refused" => Holds(file', published, r, short)
<1>1. /\ file \in Seq(Records) /\ Len(file) \in Nat /\ tail \in {"none", "refused"}
      /\ Good(file, short)
  BY Types, OpenLive, CrashHolds DEF Inv
<1>2. CASE tail = "none" /\ file' = Append(file, r) /\ tail' = "none"
  <2>1. /\ Append(file, r) \in Seq(Records) /\ Len(Append(file, r)) = Len(file) + 1
        /\ IdsBelow(Append(file, r), b)
    BY <1>1, AppendBelow
  <2>2. PICK c \in Ids : Shows(Append(file, r), Apply(published, r), c, short)
    BY <1>2 DEF GrowsBy
  <2>3. Built(Append(file, r), Without(Apply(published, r), c, short))
    BY <2>2 DEF Shows
  <2>4. Holds(Append(file, r), published, r, short)
    BY <2>3, HoldsLimbo
  <2> QED
    BY <1>1, <1>2, <2>1, <2>4 DEF GrowsBy, Tails
<1>3. CASE file' = file /\ tail' \in Tails /\ tail = "none"
  <2>1. PICK c \in Ids : Shows(file, published, c, short)
    BY <1>3, OpenLive DEF FileFollows
  <2>2. Built(file, Without(published, c, short))
    BY <2>1 DEF Shows
  <2>3. Holds(file, published, r, short)
    BY <2>2, HoldsPublished
  <2> QED
    BY <1>1, <1>3, <2>3
<1>4. CASE file' = file /\ tail = "refused" /\ tail' = "refused"
  BY <1>1, <1>4 DEF Tails
<1>5. \/ tail = "none" /\ file' = Append(file, r) /\ tail' = "none"
      \/ file' = file /\ tail' \in Tails /\ tail = "none"
      \/ file' = file /\ tail = "refused" /\ tail' = "refused"
  BY <1>1 DEF WriteCut, WriteWhole, onDisk, Tails
<1> QED
  BY <1>2, <1>3, <1>4, <1>5

(* What an operation outside a transaction would write.                    *)
LEMMA OperateBuilds ==
  ASSUME Inv, Writable, NEW r \in NextRecords
  PROVE  /\ r \in Records /\ r.id < nextId + 1 /\ nextId + 1 \in Nat
         /\ store = published /\ txn = <<>> /\ file \o txn = file
         /\ short <= nextId + 1
         /\ GrowsBy(r)
         /\ IdsBelow(file, nextId + 1)
         /\ StoreBelow(store, nextId + 1) /\ StoreBelow(Apply(store, r), nextId + 1)
         /\ tail = "none" => \E c \in Ids : Shows(Append(file, r), Apply(store, r), c, short)
<1>1. phase = "idle" /\ log = "open" /\ HasNextId /\ TypeOK
  BY DEF Writable, Inv
<1>2. /\ file \in Seq(Records) /\ store \in Stores /\ nextId \in Nat \ {0} /\ short \in Nat
  BY <1>1, Types
<1>3. r \in Records /\ r.id = nextId
  BY <1>1, NextFits
<1>4. txn = <<>> /\ file \o txn = file /\ store = published
  BY <1>1, NoTransaction, IdleIsPublished
<1>5. /\ IdsBelow(file, nextId) /\ StoreBelow(store, nextId) /\ short <= nextId
      /\ tail = "none" => FileFollows
  BY <1>1, OpenLive
<1>6. IdsBelow(file, nextId + 1) /\ StoreBelow(store, nextId + 1)
  BY <1>2, <1>5, BelowGrows
<1>7. r.id < nextId + 1 /\ nextId + 1 \in Nat \ {0} /\ short <= nextId + 1
  BY <1>2, <1>3, <1>5
<1>8. StoreBelow(Apply(store, r), nextId + 1)
  BY <1>2, <1>3, <1>6, <1>7, ApplyBelow
<1>9. ASSUME tail = "none"
      PROVE  /\ Good(Append(file, r), short)
             /\ \E c \in Ids : Shows(Append(file, r), Apply(store, r), c, short)
  <2>1. PICK c \in Ids : Shows(file \o txn, store, c, short)
    BY <1>5, <1>9 DEF FileFollows
  <2>2. /\ Good(Append(file \o txn, r), short)
        /\ Shows(Append(file \o txn, r), Apply(store, r), c, short)
    BY <1>1, <1>9, <2>1, LogBuilds
  <2> QED
    BY <1>4, <2>2
<1> QED
  BY <1>3, <1>4, <1>6, <1>7, <1>8, <1>9 DEF GrowsBy

(* An operation that is acknowledged.                                      *)
LEMMA OperateInv ==
  ASSUME Inv, Operate
  PROVE  Inv'
<1>1. PICK r \in NextRecords :
        WriteWhole(r) /\ store' = Apply(store, r) /\ published' = Apply(published, r)
  BY DEF Operate, Acknowledged
<1>2. /\ Writable /\ phase = "idle" /\ log = "open" /\ nextId < UwMax
      /\ phase' = phase /\ pos' = pos /\ cursor' = cursor /\ log' = log /\ base' = base
      /\ txn' = txn /\ limbo' = limbo /\ short' = short /\ nextId' = nextId + 1
  BY DEF Operate, Writable, HasNextId
<1>3. /\ r \in Records /\ r.id < nextId + 1 /\ nextId + 1 \in Nat
      /\ store = published /\ txn = <<>> /\ short <= nextId + 1 /\ GrowsBy(r)
      /\ IdsBelow(file, nextId + 1) /\ StoreBelow(Apply(store, r), nextId + 1)
      /\ tail = "none" => \E c \in Ids : Shows(Append(file, r), Apply(store, r), c, short)
  BY <1>2, OperateBuilds
<1>4. /\ file' \in Seq(Records) /\ Len(file) <= Len(file') /\ tail' = tail
      /\ Good(file', short) /\ IdsBelow(file', nextId + 1)
      /\ file' = IF tail = "none" THEN Append(file, r) ELSE file
  BY <1>1, <1>2, <1>3, WholeGood
<1>5. /\ nextId \in Nat \ {0} /\ Len(file) \in Nat /\ pos \in 0 .. Len(file)
      /\ store \in Stores
  BY Types DEF Inv
<1>6. store' \in Stores /\ published' = store'
  BY <1>1, <1>3, <1>5, ApplyIsStore
<1>7. TypeOK'
  <2>1. pos' \in 0 .. Len(file') /\ nextId' \in 1 .. UwMax
    BY <1>2, <1>4, <1>5
  <2> QED
    BY <1>2, <1>4, <1>6, <2>1 DEF Inv, TypeOK
<1>8. FileGood'
  BY <1>2, <1>3, <1>4 DEF Inv, FileGood, Live
<1>9. limbo = NoRecord
  BY <1>2, OpenLive
<1>10. tail = "none" => FileFollows'
  <2>1. (file \o txn)' = file'
    BY <1>2, <1>3, <1>4, ConcatEmptySeq
  <2>2. tail = "none" => \E c \in Ids : Shows(file', store', c, short)
    BY <1>1, <1>3, <1>4
  <2> QED
    BY <1>2, <1>4, <1>6, <2>1, <2>2 DEF FileFollows
<1>11. LiveFollows'
  <2>1. Leads(published', txn', store')
    BY <1>2, <1>3, <1>6, LeadsNone
  <2>2. IdsBelow(txn', nextId') /\ IdsFrom(txn', short')
    BY <1>2, <1>3 DEF IdsBelow, IdsFrom
  <2>3. StoreBelow(store', nextId')
    BY <1>1, <1>2, <1>3
  <2> QED
    BY <1>2, <1>3, <1>4, <1>6, <1>9, <1>10, <2>1, <2>2, <2>3 DEF LiveFollows
<1>12. ClosedEmpty' /\ ReplayFollows' /\ RewriteFollows'
  BY <1>2 DEF ClosedEmpty, ReplayFollows, RewriteFollows
<1> QED
  BY <1>7, <1>8, <1>11, <1>12 DEF Inv

(* An operation whose write failed.                                        *)
LEMMA OperateFailsInv ==
  ASSUME Inv, OperateFails
  PROVE  Inv'
<1>1. PICK r \in NextRecords : WriteCut(r) /\ limbo' = r /\ log' = "failed"
  BY DEF OperateFails, WriteFails
<1>2. /\ Writable /\ phase = "idle" /\ log = "open" /\ nextId < UwMax
      /\ phase' = phase /\ pos' = pos /\ cursor' = cursor /\ store' = store /\ base' = base
      /\ txn' = txn /\ published' = published /\ short' = short /\ nextId' = nextId + 1
  BY DEF OperateFails, Writable, HasNextId
<1>3. /\ r \in Records /\ r.id < nextId + 1 /\ nextId + 1 \in Nat
      /\ store = published /\ txn = <<>> /\ short <= nextId + 1 /\ GrowsBy(r)
      /\ IdsBelow(file, nextId + 1) /\ StoreBelow(store, nextId + 1)
  BY <1>2, OperateBuilds
<1>4. /\ file' \in Seq(Records) /\ Len(file) <= Len(file') /\ tail' \in Tails
      /\ Good(file', short) /\ IdsBelow(file', nextId + 1)
      /\ tail' # "refused" => Holds(file', published, r, short)
  BY <1>1, <1>2, <1>3, CutHolds
<1>5. TypeOK'
  <2>1. nextId \in Nat \ {0} /\ Len(file) \in Nat /\ pos \in 0 .. Len(file)
    BY Types DEF Inv
  <2>2. pos' \in 0 .. Len(file') /\ nextId' \in 1 .. UwMax
    BY <1>2, <1>4, <2>1
  <2> QED
    BY <1>1, <1>2, <1>3, <1>4, <2>2 DEF Inv, TypeOK
<1>6. FileGood'
  BY <1>1, <1>2, <1>3, <1>4 DEF FileGood, Live
<1>7. LiveFollows'
  <2>1. IdsBelow(txn', nextId') /\ IdsFrom(txn', short')
    BY <1>2, <1>3 DEF IdsBelow, IdsFrom
  <2> QED
    BY <1>1, <1>2, <1>3, <1>4, <2>1 DEF LiveFollows
<1>8. ClosedEmpty' /\ ReplayFollows' /\ RewriteFollows'
  BY <1>2 DEF ClosedEmpty, ReplayFollows, RewriteFollows
<1> QED
  BY <1>5, <1>6, <1>7, <1>8 DEF Inv

(* A crash in the write of an operation.                                   *)
LEMMA OperateCutInv ==
  ASSUME Inv, OperateCut
  PROVE  Inv'
<1>1. PICK r \in NextRecords : WriteCut(r) /\ limbo' = r
  BY DEF OperateCut
<1>2. Writable /\ log = "open" /\ Gone /\ published' = published /\ short' = short
  BY DEF OperateCut, Writable
<1>3. /\ r \in Records /\ r.id < nextId + 1 /\ nextId + 1 \in Nat
      /\ GrowsBy(r) /\ IdsBelow(file, nextId + 1)
  BY <1>2, OperateBuilds
<1>4. /\ file' \in Seq(Records) /\ tail' \in Tails /\ Good(file', short)
      /\ tail' # "refused" => Holds(file', published, r, short)
  BY <1>1, <1>2, <1>3, CutHolds
<1>5. published \in Stores /\ short \in 0 .. UwMax
  BY Types DEF Inv
<1> QED
  BY <1>1, <1>2, <1>3, <1>4, <1>5, GoneInv

(* facts_transaction_start.                                                *)
LEMMA StartInv ==
  ASSUME Inv, Start
  PROVE  Inv'
<1>1. /\ phase = "idle" /\ log = "open" /\ nextId < UwMax
      /\ phase' = "transaction" /\ nextId' = nextId + 1 /\ base' = store /\ txn' = <<>>
      /\ file' = file /\ tail' = tail /\ pos' = pos /\ cursor' = cursor /\ store' = store
      /\ log' = log /\ published' = published /\ limbo' = limbo /\ short' = short
  BY DEF Start, HasNextId, onDisk, history
<1>2. txn = <<>> /\ file \o txn = file /\ store = published
  BY <1>1, NoTransaction, IdleIsPublished
<1>3. nextId \in Nat \ {0} /\ store \in Stores /\ file \in Seq(Records) /\ short \in Nat
  BY Types DEF Inv
<1>4. TypeOK'
  <2>1. nextId' \in 1 .. UwMax /\ <<>> \in Seq(Records)
    BY <1>1, <1>3
  <2> QED
    BY <1>1, <1>3, <2>1 DEF Inv, TypeOK, Phases
<1>5. FileGood'
  BY <1>1, <1>2 DEF Inv, FileGood, Live
<1>6. LiveFollows'
  <2>1. /\ limbo = NoRecord /\ short <= nextId
        /\ IdsBelow(file, nextId) /\ StoreBelow(store, nextId)
        /\ tail = "none" => FileFollows
    BY <1>1, OpenLive
  <2>2. IdsBelow(file, nextId + 1) /\ StoreBelow(store, nextId + 1) /\ short <= nextId + 1
    BY <1>3, <2>1, BelowGrows
  <2>3. Leads(published', txn', store')
    BY <1>1, <1>2, <1>3, LeadsNone
  <2>4. IdsBelow(txn', nextId') /\ IdsFrom(txn', short')
    BY <1>1 DEF IdsBelow, IdsFrom
  <2>5. tail = "none" => FileFollows'
    BY <1>1, <1>2, <2>1, <2>2 DEF FileFollows
  <2> QED
    BY <1>1, <1>2, <2>1, <2>2, <2>3, <2>4, <2>5 DEF LiveFollows
<1>7. ClosedEmpty' /\ ReplayFollows' /\ RewriteFollows'
  BY <1>1 DEF ClosedEmpty, ReplayFollows, RewriteFollows
<1> QED
  BY <1>4, <1>5, <1>6, <1>7 DEF Inv

(* The bounds on the records of a transaction, as one is logged.           *)
LEMMA LogBounds ==
  ASSUME NEW t \in Seq(Records), NEW r \in Records, NEW d \in Nat, NEW b \in Nat,
         IdsFrom(t, d), d <= r.id
  PROVE  Append(t, r) \in Seq(Records) /\ IdsFrom(Append(t, r), d)
<1>1. /\ Len(t) \in Nat /\ Append(t, r) \in Seq(Records) /\ Len(Append(t, r)) = Len(t) + 1
      /\ Append(t, r)[Len(t) + 1] = r
      /\ \A i \in 1 .. Len(t) : Append(t, r)[i] = t[i]
  OBVIOUS
<1>2. \A i \in 1 .. Len(t) + 1 : i = Len(t) + 1 \/ i \in 1 .. Len(t)
  BY <1>1
<1>3. r.id \in Nat
  BY RecordFields
<1> QED
  BY <1>1, <1>2, <1>3 DEF IdsFrom

(* ... and as one is published.                                            *)
LEMMA PublishBounds ==
  ASSUME NEW t \in Seq(Records), t # <<>>, NEW d, NEW b, IdsFrom(t, d), IdsBelow(t, b)
  PROVE  /\ Head(t) \in Records /\ Tail(t) \in Seq(Records)
         /\ Head(t).id >= d /\ Head(t).id < b
         /\ IdsFrom(Tail(t), d) /\ IdsBelow(Tail(t), b)
<1>1. /\ Head(t) \in Records /\ Head(t) = t[1] /\ Tail(t) \in Seq(Records)
      /\ Len(Tail(t)) \in Nat /\ Len(t) = Len(Tail(t)) + 1
      /\ \A i \in 1 .. Len(Tail(t)) : Tail(t)[i] = t[i + 1]
  BY HeadTailProperties
<1>2. 1 \in 1 .. Len(t) /\ \A i \in 1 .. Len(Tail(t)) : i + 1 \in 1 .. Len(t)
  BY <1>1
<1> QED
  BY <1>1, <1>2 DEF IdsFrom, IdsBelow

(* An operation in a transaction.                                          *)
LEMMA MutateInv ==
  ASSUME Inv, Mutate
  PROVE  Inv'
<1>1. PICK r \in NextRecords : store' = Apply(store, r) /\ txn' = Append(txn, r)
  BY DEF Mutate
<1>2. /\ phase = "transaction" /\ phase' = phase /\ HasNextId /\ nextId < UwMax
      /\ nextId' = nextId + 1 /\ base' = base
      /\ file' = file /\ tail' = tail /\ pos' = pos /\ cursor' = cursor
      /\ log' = log /\ published' = published /\ limbo' = limbo /\ short' = short
  BY DEF Mutate, HasNextId, onDisk, history
<1>3. /\ file \in Seq(Records) /\ txn \in Seq(Records) /\ file \o txn \in Seq(Records)
      /\ store \in Stores /\ published \in Stores /\ nextId \in Nat \ {0} /\ short \in Nat
      /\ TypeOK
  BY Types DEF Inv
<1>4. log = "open" /\ base = published
  BY <1>2 DEF Inv, LiveFollows, Live
<1>5. /\ limbo = NoRecord /\ short <= nextId
      /\ IdsBelow(file, nextId) /\ IdsBelow(txn, nextId) /\ IdsFrom(txn, short)
      /\ StoreBelow(store, nextId) /\ StoreBelow(published, nextId)
      /\ Leads(published, txn, store)
      /\ tail = "none" => FileFollows
  BY <1>4, OpenLive
<1>6. r \in Records /\ r.id = nextId
  BY <1>2, <1>3, NextFits
<1>7. /\ nextId + 1 \in Nat \ {0} /\ nextId <= nextId + 1
      /\ r.id < nextId + 1 /\ short <= r.id /\ short <= nextId + 1
  BY <1>3, <1>5, <1>6
<1>8. store' \in Stores /\ txn' \in Seq(Records)
  BY <1>1, <1>3, <1>6, ApplyIsStore
<1>9. TypeOK'
  <2>1. nextId' \in 1 .. UwMax
    BY <1>2, <1>3
  <2> QED
    BY <1>2, <1>8, <2>1 DEF Inv, TypeOK
<1>10. FileGood'
  BY <1>2, <1>4 DEF Inv, FileGood, Live
<1>11. ASSUME tail = "none" PROVE FileFollows'
  <2>1. PICK c \in Ids : Shows(file, published, c, short) /\ Shows(file \o txn, store, c, short)
    BY <1>5, <1>11 DEF FileFollows
  <2>2. /\ Good(Append(file \o txn, r), short)
        /\ IdsBelow(Append(file \o txn, r), nextId + 1)
        /\ Shows(Append(file \o txn, r), Apply(store, r), c, short)
    BY <1>2, <1>4, <1>11, <2>1, LogBuilds
  <2>3. (file \o txn)' = Append(file \o txn, r)
    BY <1>1, <1>2, <1>3, <1>6, ConcatLog
  <2> QED
    BY <1>1, <1>2, <2>1, <2>2, <2>3 DEF FileFollows
<1>12. LiveFollows'
  <2>1. IdsBelow(file, nextId + 1) /\ StoreBelow(store, nextId + 1)
        /\ StoreBelow(published, nextId + 1) /\ IdsBelow(txn, nextId + 1)
    BY <1>3, <1>5, <1>7, BelowGrows
  <2>2. IdsBelow(txn', nextId + 1)
    BY <1>1, <1>3, <1>6, <1>7, <2>1, AppendBelow
  <2>3. IdsFrom(txn', short)
    BY <1>1, <1>3, <1>5, <1>6, <1>7, LogBounds
  <2>4. StoreBelow(store', nextId + 1)
    BY <1>1, <1>3, <1>6, <1>7, <2>1, ApplyBelow
  <2>5. Leads(published, txn', store')
    BY <1>1, <1>3, <1>5, <1>6, LeadsLog
  <2> QED
    BY <1>2, <1>4, <1>5, <1>7, <1>11, <2>1, <2>2, <2>3, <2>4, <2>5 DEF LiveFollows
<1>13. ClosedEmpty' /\ ReplayFollows' /\ RewriteFollows'
  BY <1>2 DEF ClosedEmpty, ReplayFollows, RewriteFollows
<1> QED
  BY <1>9, <1>10, <1>12, <1>13 DEF Inv

(* A transaction undone.                                                   *)
LEMMA RollbackInv ==
  ASSUME Inv, Rollback
  PROVE  Inv'
<1>1. /\ phase = "transaction" /\ phase' = "idle" /\ store' = base /\ base' = Empty
      /\ txn' = <<>> /\ file' = file /\ tail' = tail /\ pos' = pos /\ cursor' = cursor
      /\ nextId' = nextId /\ log' = log
      /\ published' = published /\ limbo' = limbo /\ short' = short
  BY DEF Rollback, onDisk, history
<1>2. file \in Seq(Records) /\ base \in Stores /\ published \in Stores
  BY Types DEF Inv
<1>3. log = "open" /\ base = published
  BY <1>1 DEF Inv, LiveFollows, Live
<1>4. /\ limbo = NoRecord /\ short <= nextId
      /\ IdsBelow(file, nextId) /\ StoreBelow(published, nextId)
      /\ tail = "none" => FileFollows
  BY <1>3, OpenLive
<1>5. TypeOK'
  <2>1. Empty \in Stores /\ <<>> \in Seq(Records)
    BY NoIdIsId DEF Empty, Stores
  <2> QED
    BY <1>1, <1>2, <2>1 DEF Inv, TypeOK, Phases
<1>6. FileGood'
  BY <1>1, <1>3 DEF Inv, FileGood, Live
<1>7. ASSUME tail = "none" PROVE FileFollows'
  <2>1. PICK c \in Ids : Shows(file, published, c, short)
    BY <1>4, <1>7 DEF FileFollows
  <2>2. (file \o txn)' = file
    BY <1>1, <1>2, ConcatEmptySeq
  <2>3. Good(file, short)
    BY CrashHolds
  <2> QED
    BY <1>1, <1>3, <1>4, <2>1, <2>2, <2>3 DEF FileFollows
<1>8. LiveFollows'
  <2>1. Leads(published', txn', store')
    BY <1>1, <1>2, <1>3, LeadsNone
  <2>2. IdsBelow(txn', nextId') /\ IdsFrom(txn', short')
    BY <1>1 DEF IdsBelow, IdsFrom
  <2> QED
    BY <1>1, <1>3, <1>4, <1>7, <2>1, <2>2 DEF LiveFollows
<1>9. ClosedEmpty' /\ ReplayFollows' /\ RewriteFollows'
  BY <1>1 DEF ClosedEmpty, ReplayFollows, RewriteFollows
<1> QED
  BY <1>5, <1>6, <1>8, <1>9 DEF Inv

(* The publication begins.                                                 *)
LEMMA CommitInv ==
  ASSUME Inv, Commit
  PROVE  Inv'
<1>1. /\ phase = "transaction" /\ phase' = "publish" /\ base' = Empty
      /\ txn' = txn /\ file' = file /\ tail' = tail /\ pos' = pos /\ cursor' = cursor
      /\ nextId' = nextId /\ log' = log /\ store' = store
      /\ published' = published /\ limbo' = limbo /\ short' = short
  BY DEF Commit, onDisk, history
<1>2. TypeOK'
  <2>1. Empty \in Stores
    BY NoIdIsId DEF Empty, Stores
  <2> QED
    BY <1>1, <2>1 DEF Inv, TypeOK, Phases
<1>3. FileGood'
  BY <1>1 DEF Inv, FileGood, Live
<1>4. LiveFollows'
  BY <1>1 DEF Inv, LiveFollows, FileFollows, Live
<1>5. ClosedEmpty' /\ ReplayFollows' /\ RewriteFollows'
  BY <1>1 DEF ClosedEmpty, ReplayFollows, RewriteFollows
<1> QED
  BY <1>2, <1>3, <1>4, <1>5 DEF Inv

(* What the next record published makes of the file.                       *)
LEMMA PublishBuilds ==
  ASSUME Inv, phase = "publish", txn # <<>>
  PROVE  /\ log = "open"
         /\ Head(txn) \in Records /\ Tail(txn) \in Seq(Records)
         /\ Head(txn).id < nextId /\ nextId \in Nat
         /\ IdsFrom(Tail(txn), short) /\ IdsBelow(Tail(txn), nextId)
         /\ IdsBelow(file, nextId)
         /\ StoreBelow(Apply(published, Head(txn)), nextId)
         /\ Leads(Apply(published, Head(txn)), Tail(txn), store)
         /\ GrowsBy(Head(txn))
         /\ tail = "none" =>
              /\ Append(file, Head(txn)) \o Tail(txn) = file \o txn
              /\ \E c \in Ids :
                   /\ Shows(Append(file, Head(txn)), Apply(published, Head(txn)), c, short)
                   /\ Shows(file \o txn, store, c, short)
<1> DEFINE r == Head(txn)
           v == Append(file, r)
           w == file \o txn
           p == Apply(published, r)
<1>1. /\ file \in Seq(Records) /\ txn \in Seq(Records) /\ w \in Seq(Records)
      /\ Len(file) \in Nat /\ published \in Stores /\ store \in Stores
      /\ nextId \in Nat \ {0} /\ short \in Nat
  BY Types DEF Inv
<1>2. log = "open"
  BY DEF Inv, LiveFollows, Live
<1>3. /\ IdsBelow(file, nextId) /\ IdsBelow(txn, nextId) /\ IdsFrom(txn, short)
      /\ StoreBelow(published, nextId) /\ Leads(published, txn, store)
      /\ tail = "none" => FileFollows
  BY <1>2, OpenLive
<1>4. /\ r \in Records /\ Tail(txn) \in Seq(Records)
      /\ r.id >= short /\ r.id < nextId
      /\ IdsFrom(Tail(txn), short) /\ IdsBelow(Tail(txn), nextId)
  BY <1>1, <1>3, PublishBounds
<1>5. Leads(p, Tail(txn), store)
  BY <1>1, <1>3, LeadsPublish
<1>6. StoreBelow(p, nextId)
  BY <1>1, <1>3, <1>4, ApplyBelow
<1>7. ASSUME tail = "none"
      PROVE  /\ Good(v, short) /\ v \o Tail(txn) = w
             /\ \E c \in Ids : Shows(v, p, c, short) /\ Shows(w, store, c, short)
  <2>1. Good(w, short)
    BY <1>3, <1>7 DEF FileFollows
  <2>2. PICK c \in Ids : Shows(file, published, c, short) /\ Shows(w, store, c, short)
    BY <1>3, <1>7 DEF FileFollows
  <2>3. /\ v \in Seq(Records)
        /\ v \o Tail(txn) = w /\ Len(file) < Len(w) /\ w[Len(file) + 1] = r
        /\ \A i \in 1 .. Len(file) : w[i] = file[i]
    BY <1>1, ConcatPublish
  <2>4. /\ Len(v) = Len(file) + 1 /\ v[Len(file) + 1] = r
        /\ \A i \in 1 .. Len(file) : v[i] = file[i]
    BY <1>1, <1>4
  <2>5. Len(w) \in Nat
    BY <1>1, FileRecords
  <2>6. Len(v) <= Len(w)
    BY <1>1, <2>3, <2>4, <2>5
  <2>7. \A i \in 1 .. Len(v) : v[i] = w[i]
    <3>1. ASSUME NEW i \in 1 .. Len(file) + 1 PROVE v[i] = w[i]
      <4>1. CASE i = Len(file) + 1
        BY <2>3, <2>4, <4>1
      <4>2. CASE i # Len(file) + 1
        BY <1>1, <2>3, <2>4, <4>2
      <4> QED
        BY <4>1, <4>2
    <3> QED
      BY <2>4, <3>1
  <2>8. Good(v, short)
    BY <1>1, <2>1, <2>3, <2>6, <2>7, GoodPrefix
  <2>9. r.id > 0 /\ short <= r.id
    <3>1. Len(file) + 1 \in 1 .. Len(v) /\ r.id \in Nat
      BY <1>1, <1>4, <2>4, RecordFields
    <3> QED
      BY <1>1, <1>4, <2>4, <2>8, <3>1 DEF Good, Increasing
  <2>10. Shows(v, p, c, short)
    BY <1>1, <1>4, <2>2, <2>9, AppendShows
  <2> QED
    BY <2>2, <2>3, <2>8, <2>10
<1>8. GrowsBy(r)
  BY <1>7 DEF GrowsBy
<1> QED
  BY <1>1, <1>2, <1>3, <1>4, <1>5, <1>6, <1>7, <1>8

(* A record published.                                                     *)
LEMMA PublishInv ==
  ASSUME Inv, Publish
  PROVE  Inv'
<1>1. /\ phase = "publish" /\ txn # <<>>
      /\ WriteWhole(Head(txn))
      /\ published' = Apply(published, Head(txn)) /\ txn' = Tail(txn)
      /\ phase' = phase /\ pos' = pos /\ cursor' = cursor /\ store' = store /\ nextId' = nextId
      /\ log' = log /\ base' = base /\ limbo' = limbo /\ short' = short
  BY DEF Publish, Acknowledged
<1>2. /\ log = "open" /\ Head(txn) \in Records /\ Tail(txn) \in Seq(Records)
      /\ Head(txn).id < nextId /\ nextId \in Nat
      /\ IdsFrom(Tail(txn), short) /\ IdsBelow(Tail(txn), nextId)
      /\ IdsBelow(file, nextId)
      /\ StoreBelow(Apply(published, Head(txn)), nextId)
      /\ Leads(Apply(published, Head(txn)), Tail(txn), store)
      /\ GrowsBy(Head(txn))
      /\ tail = "none" =>
           /\ Append(file, Head(txn)) \o Tail(txn) = file \o txn
           /\ \E c \in Ids :
                /\ Shows(Append(file, Head(txn)), Apply(published, Head(txn)), c, short)
                /\ Shows(file \o txn, store, c, short)
  BY <1>1, PublishBuilds
<1>3. /\ limbo = NoRecord /\ short <= nextId /\ StoreBelow(store, nextId)
      /\ tail = "none" => FileFollows
  BY <1>2, OpenLive
<1>4. /\ file' \in Seq(Records) /\ Len(file) <= Len(file') /\ tail' = tail
      /\ Good(file', short) /\ IdsBelow(file', nextId)
      /\ file' = IF tail = "none" THEN Append(file, Head(txn)) ELSE file
  BY <1>1, <1>2, WholeGood
<1>5. TypeOK'
  <2>1. Len(file) \in Nat /\ Len(file') \in Nat /\ pos \in 0 .. Len(file) /\ published \in Stores
    BY <1>4, Types DEF Inv
  <2>2. pos' \in 0 .. Len(file')
    BY <1>1, <1>4, <2>1
  <2>3. published' \in Stores
    BY <1>1, <1>2, <2>1, ApplyIsStore
  <2> QED
    BY <1>1, <1>2, <1>4, <2>2, <2>3 DEF Inv, TypeOK
<1>6. FileGood'
  BY <1>1, <1>2, <1>4 DEF Inv, FileGood, Live
<1>7. ASSUME tail = "none" PROVE FileFollows'
  <2>1. file' = Append(file, Head(txn)) /\ file' \o txn' = file \o txn
    BY <1>1, <1>2, <1>4, <1>7
  <2>2. Good(file \o txn, short) /\ IdsBelow(file \o txn, nextId)
    BY <1>3, <1>7 DEF FileFollows
  <2>3. PICK c \in Ids : Shows(file', published', c, short) /\ Shows(file' \o txn', store, c, short)
    BY <1>1, <1>2, <1>7, <2>1
  <2> QED
    BY <1>1, <2>1, <2>2, <2>3 DEF FileFollows
<1>8. LiveFollows'
  BY <1>1, <1>2, <1>3, <1>4, <1>7 DEF LiveFollows
<1>9. ClosedEmpty' /\ ReplayFollows' /\ RewriteFollows'
  BY <1>1 DEF ClosedEmpty, ReplayFollows, RewriteFollows
<1> QED
  BY <1>5, <1>6, <1>8, <1>9 DEF Inv

(* A record that could not be published.                                   *)
LEMMA PublishFailsInv ==
  ASSUME Inv, PublishFails
  PROVE  Inv'
<1>1. /\ phase = "publish" /\ txn # <<>> /\ WriteCut(Head(txn)) /\ limbo' = Head(txn)
      /\ log' = "failed" /\ phase' = "idle" /\ txn' = <<>>
      /\ pos' = pos /\ cursor' = cursor /\ store' = store /\ nextId' = nextId /\ base' = base
      /\ published' = published /\ short' = short
  BY DEF PublishFails, WriteFails
<1>2. /\ log = "open" /\ Head(txn) \in Records
      /\ Head(txn).id < nextId /\ nextId \in Nat
      /\ IdsBelow(file, nextId) /\ GrowsBy(Head(txn))
  BY <1>1, PublishBuilds
<1>3. short <= nextId /\ StoreBelow(store, nextId) /\ StoreBelow(published, nextId)
  BY <1>2, OpenLive
<1>4. /\ file' \in Seq(Records) /\ Len(file) <= Len(file') /\ tail' \in Tails
      /\ Good(file', short) /\ IdsBelow(file', nextId)
      /\ tail' # "refused" => Holds(file', published, Head(txn), short)
  BY <1>1, <1>2, CutHolds
<1>5. TypeOK'
  <2>1. Len(file) \in Nat /\ Len(file') \in Nat /\ pos \in 0 .. Len(file)
    BY <1>4, Types DEF Inv
  <2>2. pos' \in 0 .. Len(file') /\ <<>> \in Seq(Records)
    BY <1>1, <1>4, <2>1
  <2> QED
    BY <1>1, <1>2, <1>4, <2>2 DEF Inv, TypeOK, Phases
<1>6. FileGood'
  BY <1>1, <1>4 DEF FileGood, Live
<1>7. LiveFollows'
  <2>1. IdsBelow(txn', nextId') /\ IdsFrom(txn', short')
    BY <1>1 DEF IdsBelow, IdsFrom
  <2> QED
    BY <1>1, <1>3, <1>4, <2>1 DEF LiveFollows
<1>8. ClosedEmpty' /\ ReplayFollows' /\ RewriteFollows'
  BY <1>1 DEF ClosedEmpty, ReplayFollows, RewriteFollows
<1> QED
  BY <1>5, <1>6, <1>7, <1>8 DEF Inv

(* A crash in the publication of a record.                                 *)
LEMMA PublishCutInv ==
  ASSUME Inv, PublishCut
  PROVE  Inv'
<1>1. /\ phase = "publish" /\ txn # <<>> /\ WriteCut(Head(txn)) /\ limbo' = Head(txn)
      /\ Gone /\ published' = published /\ short' = short
  BY DEF PublishCut
<1>2. /\ log = "open" /\ Head(txn) \in Records
      /\ Head(txn).id < nextId /\ nextId \in Nat
      /\ IdsBelow(file, nextId) /\ GrowsBy(Head(txn))
  BY <1>1, PublishBuilds
<1>3. /\ file' \in Seq(Records) /\ tail' \in Tails /\ Good(file', short)
      /\ tail' # "refused" => Holds(file', published, Head(txn), short)
  BY <1>1, <1>2, CutHolds
<1>4. published \in Stores /\ short \in 0 .. UwMax
  BY Types DEF Inv
<1> QED
  BY <1>1, <1>2, <1>3, <1>4, GoneInv

(* The publication ends.                                                   *)
LEMMA PublishDoneInv ==
  ASSUME Inv, PublishDone
  PROVE  Inv'
<1>1. /\ phase = "publish" /\ txn = <<>> /\ phase' = "idle"
      /\ txn' = txn /\ file' = file /\ tail' = tail /\ pos' = pos /\ cursor' = cursor
      /\ nextId' = nextId /\ log' = log /\ store' = store /\ base' = base
      /\ published' = published /\ limbo' = limbo /\ short' = short
  BY DEF PublishDone, onDisk, memory, history
<1>2. TypeOK'
  BY <1>1 DEF Inv, TypeOK, Phases
<1>3. FileGood'
  BY <1>1 DEF Inv, FileGood, Live
<1>4. LiveFollows'
  BY <1>1 DEF Inv, LiveFollows, FileFollows, Live
<1>5. ClosedEmpty' /\ ReplayFollows' /\ RewriteFollows'
  BY <1>1 DEF ClosedEmpty, ReplayFollows, RewriteFollows
<1> QED
  BY <1>2, <1>3, <1>4, <1>5 DEF Inv

(* A step that changes nothing.                                            *)
LEMMA StutterInv ==
  ASSUME Inv, UNCHANGED vars
  PROVE  Inv'
<1> USE DEF vars, onDisk, memory, history
<1>1. TypeOK'
  BY DEF Inv, TypeOK
<1>2. FileGood'
  BY DEF Inv, FileGood
<1>3. ClosedEmpty' /\ ReplayFollows'
  BY DEF Inv, ClosedEmpty, ReplayFollows
<1>4. RewriteFollows'
  BY DEF Inv, RewriteFollows, Ahead
<1>5. LiveFollows'
  BY DEF Inv, LiveFollows, FileFollows
<1> QED
  BY <1>1, <1>2, <1>3, <1>4, <1>5 DEF Inv

(* The invariant is inductive.                                             *)
LEMMA NextInv == Inv /\ [Next]_vars => Inv'
<1> SUFFICES ASSUME Inv, [Next]_vars PROVE Inv'
  OBVIOUS
<1>1. CASE OpenFile
  BY <1>1, OpenFileInv
<1>2. CASE ReplayRecord
  BY <1>2, ReplayRecordInv
<1>3. CASE ReplayFails
  BY <1>3, GoneUnchanged DEF ReplayFails
<1>4. CASE Truncate
  BY <1>4, TruncateInv
<1>5. CASE RewriteRecord
  BY <1>5, RewriteRecordInv
<1>6. CASE RewriteCut
  BY <1>6, RewriteCutInv
<1>7. CASE OpenLog
  BY <1>7, OpenLogInv
<1>8. CASE OpenLogFails
  BY <1>8, GoneUnchanged DEF OpenLogFails
<1>9. CASE Operate
  BY <1>9, OperateInv
<1>10. CASE OperateFails
  BY <1>10, OperateFailsInv
<1>11. CASE OperateCut
  BY <1>11, OperateCutInv
<1>12. CASE Start
  BY <1>12, StartInv
<1>13. CASE Mutate
  BY <1>13, MutateInv
<1>14. CASE Rollback
  BY <1>14, RollbackInv
<1>15. CASE Commit
  BY <1>15, CommitInv
<1>16. CASE Publish
  BY <1>16, PublishInv
<1>17. CASE PublishFails
  BY <1>17, PublishFailsInv
<1>18. CASE PublishCut
  BY <1>18, PublishCutInv
<1>19. CASE PublishDone
  BY <1>19, PublishDoneInv
<1>20. CASE Close
  BY <1>20, GoneUnchanged DEF Close
<1>21. CASE Crash
  BY <1>21, GoneUnchanged DEF Crash
<1>22. CASE RewriteGarbled
  BY <1>22, RewriteGarbledInv
<1>23. CASE UNCHANGED vars
  BY <1>23, StutterInv
<1> QED
  BY <1>1, <1>2, <1>3, <1>4, <1>5, <1>6, <1>7, <1>8, <1>9, <1>10, <1>11, <1>12, <1>13,
     <1>14, <1>15, <1>16, <1>17, <1>18, <1>19, <1>20, <1>21, <1>22, <1>23 DEF Next

-----------------------------------------------------------------------------
(* What follows from the invariant.                                        *)

(* Inv holds in every reachable state.                                     *)
THEOREM Invariance == Spec => []Inv
<1>1. Init => Inv
  BY InitInv
<1>2. Inv /\ [Next]_vars => Inv'
  BY NextInv
<1> QED
  BY <1>1, <1>2, PTL DEF Spec

(* Types, and identifiers below UW_MAX (facts_next_id).                    *)
THEOREM TypeCorrect == Spec => []TypeOK
<1>1. Inv => TypeOK
  BY DEF Inv
<1> QED
  BY <1>1, Invariance, PTL

(* Identifiers are never given out again: they grow along the file, over   *)
(* every process that wrote it, and next_id, which facts_open_file takes   *)
(* from the records it replays, is above them.                             *)
THEOREM IdentifiersInOrder == Spec => []IdsInOrder
<1>1. Inv => IdsInOrder
  <2> SUFFICES ASSUME Inv PROVE IdsInOrder
    OBVIOUS
  <2>1. /\ file \in Seq(Records) /\ txn \in Seq(Records) /\ cursor \in Nat /\ nextId \in Nat
        /\ DOMAIN file = 1 .. Len(file)
    BY Types, FileRecords DEF Inv
  <2>2. \A i, j \in 1 .. Len(file) : i < j => file[i].id < file[j].id
    BY CrashHolds DEF Good, Increasing
  <2>3. ASSUME phase = "rewrite" PROVE IdsBelow(file, nextId) /\ StoreBelow(store, nextId)
    <3>1. /\ cursor < nextId /\ StoreBelow(store, nextId)
          /\ \A i \in 1 .. Len(file) : file[i].id <= cursor
      BY <2>3 DEF Inv, RewriteFollows
    <3>2. \A i \in 1 .. Len(file) : file[i].id \in Nat
      BY <2>1, FileRecords
    <3> QED
      BY <2>1, <3>1, <3>2 DEF IdsBelow
  <2>4. ASSUME phase \in Live PROVE IdsBelow(file, nextId) /\ StoreBelow(store, nextId)
    BY <2>4 DEF Inv, LiveFollows
  <2> QED
    BY <2>1, <2>2, <2>3, <2>4 DEF IdsInOrder, IdsBelow, StoreBelow, Live
<1> QED
  BY <1>1, Invariance, PTL

(* A file adds only what is absent and removes only what is there,         *)
(* whatever was rolled back, half published or cut before; or else what an *)
(* opening left out, after it did.                                         *)
THEOREM FileAlternates == Spec => []RecordsAlternate
<1>1. Inv => RecordsAlternate
  <2> SUFFICES ASSUME Inv PROVE RecordsAlternate
    OBVIOUS
  <2>1. /\ Alternates(file, short) /\ DOMAIN file = 1 .. Len(file)
        /\ short \in Nat /\ \A i \in 1 .. Len(file) : file[i].id \in Nat
    BY CrashHolds, Types, FileRecords DEF Inv, Good
  <2>2. ASSUME NEW i \in 1 .. Len(file), NEW f
        PROVE  \A j : j \in LastBefore(f, i) <=> IsLast(file, i - 1, j, f)
    BY DEF LastBefore, IsLast
  <2>3. ASSUME NEW i \in 1 .. Len(file)
        PROVE  /\ \A j \in LastBefore(file[i].fact, i) : file[j].op # file[i].op
               /\ file[i].op = "remove" /\ LastBefore(file[i].fact, i) = {} =>
                    short \in 1 .. file[i].id
    <3>1. \A j : j \in LastBefore(file[i].fact, i) => j \in 1 .. i - 1
      BY DEF LastBefore
    <3>2. \A j \in LastBefore(file[i].fact, i) : file[j].op # file[i].op
      BY <2>1, <2>2, <3>1 DEF Alternates
    <3>3. ASSUME file[i].op = "remove", LastBefore(file[i].fact, i) = {}
          PROVE  short \in 1 .. file[i].id
      <4>1. \A j \in 1 .. i - 1 : ~ IsLast(file, i - 1, j, file[i].fact)
        BY <2>2, <3>3
      <4>2. 0 < short /\ short <= file[i].id
        BY <2>1, <3>3, <4>1 DEF Alternates
      <4> QED
        BY <2>1, <4>2
    <3> QED
      BY <3>2, <3>3
  <2> QED
    BY <2>1, <2>3 DEF RecordsAlternate
<1> QED
  BY <1>1, Invariance, PTL

(* While its log has not failed, the memory of a process is what the       *)
(* records it and its predecessors acknowledged make.                      *)
THEOREM MemoryPublished == Spec => []MemoryIsPublished
<1>1. Inv => MemoryIsPublished
  BY IdleIsPublished DEF MemoryIsPublished
<1> QED
  BY <1>1, Invariance, PTL

(* Only the end of a replay leads to the rewriting of the file.            *)
LEMMA ReplayEnds ==
  ASSUME Next, phase = "replay", phase' = "rewrite"
  PROVE  pos = Len(file) /\ tail # "refused"
<1>1. Truncate
  BY DEF Next, OpenFile, ReplayRecord, ReplayFails, Gone, RewriteRecord, RewriteGarbled,
         RewriteCut, OpenLog, OpenLogFails, Operate, OperateFails, OperateCut, Writable, Start, Mutate,
         Rollback, Commit, Publish, PublishFails, PublishCut, PublishDone, Close, Crash
<1> QED
  BY <1>1 DEF Truncate

(* facts_open_file finds all that was acknowledged, and at most the one    *)
(* record whose write failed or was cut, unless the opening before left    *)
(* the file short.                                                         *)
THEOREM ReopensPublished == Spec => ReopensToPublished
<1>1. Inv /\ [Next]_vars =>
        [phase = "replay" /\ phase' = "rewrite" /\ short = 0 =>
           store \in {published, Apply(published, limbo)}]_vars
  BY ReplayEnds, ReplayFound
<1> QED
  BY <1>1, Invariance, PTL DEF Spec, ReopensToPublished

(* After an opening that left the file short, noticed or not, and whatever *)
(* was written since, the next one misses the youngest of the facts that   *)
(* the first one found, and nothing else.                                  *)
THEOREM OldestKept == Spec => KeepsOldest
<1>1. Inv /\ [Next]_vars =>
        [phase = "replay" /\ phase' = "rewrite" /\ short # 0 =>
           \E c \in Ids : store \in {Without(published, c, short),
                                     Without(Apply(published, limbo), c, short)}]_vars
  BY ReplayEnds, ReplayFound
<1> QED
  BY <1>1, Invariance, PTL DEF Spec, KeepsOldest
=============================================================================
