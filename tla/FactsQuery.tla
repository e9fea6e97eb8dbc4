----------------------------- MODULE FactsQuery -----------------------------
(***************************************************************************)
(* Queries of the fact database: the indexes that facts_add_fact_local and *)
(* facts_remove_fact_internal keep in the order of compare_tag, the range  *)
(* of one of them that a pattern is answered from (facts_with.c), and the  *)
(* join of several patterns by backtracking (facts_with_cursor.c).         *)
(*                                                                         *)
(* The facts are in a hash table (HashSet), each with a node in three      *)
(* indexes; the fourth, by identifier, is for facts_with_0_id only.  When  *)
(* memory runs out in a chain of the table the rest of the chain is gone   *)
(* from it, and stays in the indexes; in an index the process ends.        *)
(* A query holds the read lock (RwLock, SkipList): the indexes change      *)
(* between queries only.  An index is the sequence of its facts.           *)
(***************************************************************************)
EXTENDS Tags, Functions, FiniteSetsExt, SequencesExt

CONSTANTS Triples,   \* facts: <<subject, predicate, object>>
          Specs,     \* what is asked: sequences of patterns
          VarType,   \* VarType[x]: a type, or "Tag" for any
          Unbound,   \* a variable that is not bound
          Order,     \* Order[<<a, b>>]: what compare_tag answers
          Hash,      \* Hash[f]: the hash of a fact
          Buckets,   \* of the hash table
          MaxFacts   \* bound: facts in the database

Positions == 1..3
Indexes == {"spo", "pos", "osp"}
Vars == DOMAIN VarType

(* A term of a pattern is a tag or a variable. *)
Var(x) == [type |-> "PVAR", name |-> x]
IsVar(term) == term.type = "PVAR"

(* The tags that occur in facts and in patterns. *)
AllTags ==
  {f[n] : f \in Triples, n \in Positions}
    \cup {t \in UNION {{q[l][n] : l \in 1..Len(q), n \in Positions} : q \in Specs} :
            ~IsVar(t)}

(* A bound of a range: a term, or before or after everything.              *)
TagFirst == [type |-> "FIRST"]
TagLast == [type |-> "LAST"]

ASSUME TriplesAssumption == Triples \subseteq [Positions -> AllTags]

ASSUME TagsAssumption ==
  \A t \in AllTags : ~IsVar(t) /\ t \notin {TagFirst, TagLast, Unbound}

(* No pattern names a variable twice.                                      *)
ASSUME SpecsAssumption ==
  \A q \in Specs :
    /\ q \in Seq([Positions -> AllTags \cup {Var(x) : x \in Vars}]) /\ q # <<>>
    /\ \A l \in 1..Len(q) : \A m, n \in Positions :
         IsVar(q[l][m]) /\ q[l][m] = q[l][n] => m = n

(* compare_tag finds no difference between a tag and itself.               *)
ASSUME OrderAssumption == \A t \in AllTags : Order[<<t, t>>] = Equal

ASSUME HashAssumption ==
  Buckets \in Nat \ {0} /\ \A f \in Triples : Hash[f] \in Nat

VARIABLES
  set,      \* the hash table of the facts
  missing,  \* history: items of the table counted that no chain has
  index,    \* index[i]: the facts of index i, in its order
  at,       \* "idle", "open", "next", "answer" or "done"
  spec,     \* the query
  levels,   \* the cursors, outermost first
  bound,    \* bound[x]: the value of variable x
  answers   \* history: the bindings the query has answered

store == <<set, missing, index>>
vars == <<set, missing, index, at, spec, levels, bound, answers>>

(* compare_fact *)
SameFact(f, g) == \A n \in Positions : Order[<<f[n], g[n]>>] = Equal

INSTANCE HashSet WITH Same <- SameFact

facts == Items(set)

(* What queries are answered from: the facts of the indexes.               *)
indexed == ToSet(index["spo"])

Free == [x \in Vars |-> Unbound]

Init ==
  /\ set = EmptySet
  /\ missing = 0
  /\ index = [i \in Indexes |-> <<>>]
  /\ at = "idle"
  /\ spec = <<>>
  /\ levels = <<>>
  /\ bound = Free
  /\ answers = <<>>

(***************************************************************************)
(* The order of an index                                                   *)
(***************************************************************************)
(* compare_fact_spo, compare_fact_pos, compare_fact_osp: which position is *)
(* compared first, second and third.                                       *)
Keys == [spo |-> <<1, 2, 3>>, pos |-> <<2, 3, 1>>, osp |-> <<3, 1, 2>>]

CompareBound(a, b) ==
  IF a = b THEN Equal
  ELSE IF a = TagFirst \/ b = TagLast THEN Less
  ELSE IF a = TagLast \/ b = TagFirst THEN Greater
  ELSE Order[<<a, b>>]

CompareFacts(i, f, g) ==
  LET r == [n \in Positions |-> CompareBound(f[Keys[i][n]], g[Keys[i][n]])]
  IN  IF r[1] # Equal THEN r[1] ELSE IF r[2] # Equal THEN r[2] ELSE r[3]

(* skiplist_pred__fact: how many facts of q, index i, it walks past.       *)
Pred(i, q, f) ==
  LET stops == {n \in 1..Len(q) : CompareFacts(i, f, q[n]) # Greater}
  IN  IF stops = {} THEN Len(q) ELSE Min(stops) - 1

(* The node after it is the fact's. *)
HasNode(i, q, f) ==
  /\ Pred(i, q, f) < Len(q)
  /\ CompareFacts(i, f, q[Pred(i, q, f) + 1]) = Equal

(***************************************************************************)
(* Changes                                                                 *)
(***************************************************************************)
(* facts_add_fact_local.  The table knows a fact by its hash and by        *)
(* compare_tag, an index by compare_tag alone.                             *)
AddFact(f) ==
  /\ at = "idle"
  /\ SetGet(set, f) = {}
  /\ set.count < MaxFacts
  /\ set' = SetAdd(set, f)
  /\ index' = [i \in Indexes |->
                 IF HasNode(i, index[i], f) THEN index[i]
                 ELSE InsertAt(index[i], Pred(i, index[i], f) + 1, f)]
  /\ UNCHANGED <<missing, at, spec, levels, bound, answers>>

(* It has no memory for the item of the table.                             *)
AddFails(f) ==
  /\ at = "idle"
  /\ SetGet(set, f) = {}
  /\ set.count < MaxFacts
  /\ set' = SetAddFails(set, f)
  /\ missing' = missing + Len(set.items[Bucket(f)])
  /\ UNCHANGED <<index, at, spec, levels, bound, answers>>

(* facts_remove_fact_internal on table and indexes s.  That every index    *)
(* has the node is an assertion of the code.                               *)
Removable(s, f) ==
  SetGet(s.set, f) # {} /\ \A i \in Indexes : HasNode(i, s.index[i], f)

Removed(s, f) ==
  [set |-> SetRemove(s.set, f),
   index |-> [i \in Indexes |->
                RemoveAt(s.index[i], Pred(i, s.index[i], f) + 1)]]

Stored == [set |-> set, index |-> index]

RemoveFact(f) ==
  /\ at = "idle"
  /\ Removable(Stored, f)
  /\ set' = Removed(Stored, f).set
  /\ index' = Removed(Stored, f).index
  /\ UNCHANGED <<missing, at, spec, levels, bound, answers>>

(* facts_remove_all removes the facts that a walk of the table lists, one  *)
(* by one.                                                                 *)
RemoveAll ==
  LET listed == Listing(set)
      left[n \in 0..Len(listed)] ==
        IF n = 0 THEN Stored ELSE Removed(left[n - 1], listed[n])
  IN
  /\ at = "idle"
  /\ set.count > 0
  /\ \A n \in 1..Len(listed) : Removable(left[n - 1], listed[n])
  /\ set' = left[Len(listed)].set
  /\ index' = left[Len(listed)].index
  /\ UNCHANGED <<missing, at, spec, levels, bound, answers>>

(***************************************************************************)
(* Patterns                                                                *)
(***************************************************************************)
(* facts_spec_new_expand: bound variables are replaced by their values. *)
Expand(pattern) ==
  [n \in Positions |->
     IF IsVar(pattern[n]) /\ bound[pattern[n].name] # Unbound
     THEN bound[pattern[n].name] ELSE pattern[n]]

(* Faulty: the order of subjects for a pattern without a subject.          *)
IndexOfSubjects(p) ==
  IF IsVar(p[3]) THEN "spo" ELSE IF ~IsVar(p[2]) THEN "pos" ELSE "osp"

(* facts_with_tags, facts_with_0, facts_with_1_2, facts_with_3: the index  *)
(* in which what the pattern gives comes first.                            *)
IndexOf(p) ==
  IF \/ \A n \in Positions : IsVar(p[n])
     \/ \A n \in Positions : ~IsVar(p[n])
     \/ ~IsVar(p[1]) /\ IsVar(p[3])
  THEN "spo"
  ELSE IF ~IsVar(p[2]) THEN "pos" ELSE "osp"

(* The range from which to which the cursor goes. *)
Start(p) == [n \in Positions |-> IF IsVar(p[n]) THEN TagFirst ELSE p[n]]
End(p) == [n \in Positions |-> IF IsVar(p[n]) THEN TagLast ELSE p[n]]

(***************************************************************************)
(* Cursors                                                                 *)
(***************************************************************************)
Top == levels[Len(levels)]

(* facts_cursor_init: on the node before the range.                        *)
Cursor(p) ==
  [index |-> IndexOf(p), pattern |-> p,
   node |-> Pred(IndexOf(p), index[IndexOf(p)], Start(p))]

(* The variables of a cursor, and the positions they get their value from: *)
(* subject, predicate and object are set one after the other.              *)
VarsOf(p) == {p[n].name : n \in {m \in Positions : IsVar(p[m])}}
Place(p, x) == Max({n \in Positions : p[n] = Var(x)})

(* The types of the variables let the fact through. *)
Typed(p, f) ==
  \A n \in Positions :
    IsVar(p[n]) => VarType[p[n].name] \in {"Tag", f[n].type}

(* What facts_cursor_next may return: not past the end of the range. *)
InRange(c) ==
  {n \in (c.node + 1)..Len(index[c.index]) :
     \A m \in (c.node + 1)..n :
       CompareFacts(c.index, End(c.pattern), index[c.index][m]) # Less}

Matching(c) == {n \in InRange(c) : Typed(c.pattern, index[c.index][n])}

Bind(p, f) ==
  [x \in Vars |-> IF x \in VarsOf(p) THEN f[Place(p, x)] ELSE bound[x]]

(* var_reset of a cursor's variables, by facts_cursor_next at the end and  *)
(* by facts_cursor_clean.                                                  *)
Reset(p) == [x \in Vars |-> IF x \in VarsOf(p) THEN Unbound ELSE bound[x]]

(***************************************************************************)
(* facts_with_cursor_next                                                  *)
(***************************************************************************)
(* facts_with *)
Query(q) ==
  /\ at = "idle"
  /\ at' = "open"
  /\ spec' = q
  /\ UNCHANGED <<store, levels, bound, answers>>

(* A level that has no cursor yet gets one, for its pattern with what the  *)
(* levels around it have bound.                                            *)
Open ==
  /\ at = "open"
  /\ levels' = Append(levels, Cursor(Expand(spec[Len(levels) + 1])))
  /\ at' = "next"
  /\ UNCHANGED <<store, spec, bound, answers>>

(* The innermost cursor finds a fact: an answer, or on to the next level.  *)
Advance ==
  /\ at = "next"
  /\ Matching(Top) # {}
  /\ LET n == Min(Matching(Top)) IN
       /\ levels' = [levels EXCEPT ![Len(levels)].node = n]
       /\ bound' = Bind(Top.pattern, index[Top.index][n])
  /\ IF Len(levels) = Len(spec)
     THEN at' = "answer" /\ answers' = Append(answers, bound')
     ELSE at' = "open" /\ UNCHANGED answers
  /\ UNCHANGED <<store, spec>>

(* Faulty: the variables of a cursor that is exhausted keep their values.  *)
BacktrackBound ==
  /\ at = "next"
  /\ Matching(Top) = {}
  /\ levels' = Front(levels)
  /\ at' = IF Len(levels) = 1 THEN "done" ELSE "next"
  /\ UNCHANGED <<store, spec, bound, answers>>

(* It finds none: back to the level around it, which finds another.        *)
Backtrack ==
  /\ at = "next"
  /\ Matching(Top) = {}
  /\ bound' = Reset(Top.pattern)
  /\ levels' = Front(levels)
  /\ at' = IF Len(levels) = 1 THEN "done" ELSE "next"
  /\ UNCHANGED <<store, spec, answers>>

(* The caller asks for the next answer. *)
More ==
  /\ at = "answer"
  /\ at' = "next"
  /\ UNCHANGED <<store, spec, levels, bound, answers>>

(* facts_with_cursor_clean: the caller has had enough. *)
Stop ==
  /\ at = "answer"
  /\ bound' = [x \in Vars |->
                 IF \E l \in 1..Len(levels) : x \in VarsOf(levels[l].pattern)
                 THEN Unbound ELSE bound[x]]
  /\ at' = "idle"
  /\ spec' = <<>>
  /\ levels' = <<>>
  /\ answers' = <<>>
  /\ UNCHANGED store

(* The caller has seen that there is no more. *)
Return ==
  /\ at = "done"
  /\ at' = "idle"
  /\ spec' = <<>>
  /\ answers' = <<>>
  /\ UNCHANGED <<store, levels, bound>>

Next ==
  \/ \E f \in Triples : AddFact(f) \/ AddFails(f) \/ RemoveFact(f)
  \/ RemoveAll
  \/ \E q \in Specs : Query(q)
  \/ Open \/ Advance \/ Backtrack \/ More \/ Stop \/ Return

Spec == Init /\ [][Next]_vars

(***************************************************************************)
(* Properties                                                              *)
(***************************************************************************)
TypeOK ==
  /\ facts \subseteq Triples /\ set.count \in 0..MaxFacts /\ missing \in 0..MaxFacts
  /\ index \in [Indexes -> Seq(Triples)]
  /\ at \in {"idle", "open", "next", "answer", "done"}
  /\ spec \in Specs \cup {<<>>}
  /\ \A c \in ToSet(levels) : c.index \in Indexes /\ c.node \in Nat
  /\ DOMAIN bound = Vars

FactBefore(i, f, g) ==
  \E n \in Positions :
    /\ InOrder(f[Keys[i][n]], g[Keys[i][n]])
    /\ \A m \in 1..(n - 1) : f[Keys[i][m]] = g[Keys[i][m]]

(* Every fact is once in the chain of its hash, and a walk lists every     *)
(* fact: facts_remove_all relies on it.  The counts are those of the       *)
(* chains and of the items an insertion without memory cut off, and        *)
(* however many those are, the collisions are what the buckets in use      *)
(* leave over.                                                             *)
SetAccounts ==
  /\ \A h \in DOMAIN set.items :
       IsInjective(set.items[h]) /\ \A f \in ToSet(set.items[h]) : Bucket(f) = h
  /\ set.count = Cardinality(facts) + missing
  /\ set.collisions = set.count - Cardinality({h \in DOMAIN set.items : set.items[h] # <<>>})
  /\ ToSet(Listing(set)) = facts

(* Every fact of the table has its node in every index, at the place where *)
(* a walk looks for it: facts_remove_fact_internal asserts it of the fact  *)
(* that it removes (facts.c:2271).                                         *)
FactsFound == \A f \in facts : \A i \in Indexes : HasNode(i, index[i], f)

(* What the indexes need of compare_tag: that it makes of the tags, pair   *)
(* by pair, the order of their values, and that this is one.               *)
OrderIsTotal ==
  /\ \A t, v \in AllTags :
       /\ Order[<<t, v>>] \in {Less, Equal, Greater}
       /\ Order[<<t, v>>] = Equal <=> t = v
       /\ Order[<<t, v>>] = Less <=> InOrder(t, v)
       /\ Order[<<t, v>>] = Greater <=> InOrder(v, t)
  /\ \A t, v, w \in AllTags : InOrder(t, v) /\ InOrder(v, w) => InOrder(t, w)

(* The indexes hold the same facts, each once, in the order of their       *)
(* values: those of the table, and no other as long as none was cut off    *)
(* there.  The rows of compare_tag have to agree for it, one pair of types *)
(* by the other.  They do not for all tags, and for which they do,         *)
(* OrderIsTotal says.                                                      *)
IndexesOrdered ==
  \A i \in Indexes :
    /\ ToSet(index[i]) = indexed
    /\ facts \subseteq indexed
    /\ missing = 0 => facts = indexed
    /\ \A m, n \in 1..Len(index[i]) :
         m < n => FactBefore(i, index[i][m], index[i][n])

(* The bindings of the query's variables that make every pattern a fact.   *)
Instance(p, b) == [n \in Positions |-> IF IsVar(p[n]) THEN b[p[n].name] ELSE p[n]]
Asked == UNION {VarsOf(spec[l]) : l \in 1..Len(spec)}
Values == {f[n] : f \in indexed, n \in Positions}
Solutions ==
  {b \in [Asked -> Values] :
     /\ \A x \in Asked : VarType[x] \in {"Tag", b[x].type}
     /\ \A l \in 1..Len(spec) : Instance(spec[l], b) \in indexed}

(* A query that its caller sees through has answered every solution, once, *)
(* and nothing else: a cursor never looks whether a fact matches, the      *)
(* index it is in and the bounds of its range have to see to it.           *)
AnswersExact ==
  at = "done" =>
    LET found == [k \in 1..Len(answers) |-> Restrict(answers[k], Asked)] IN
    /\ ToSet(found) = Solutions
    /\ IsInjective(found)

(* Between queries the variables are free for the next one, also when a    *)
(* query was given up half way.                                            *)
VarsReset == at \in {"idle", "done"} => bound = Free
=============================================================================
