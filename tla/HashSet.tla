------------------------------ MODULE HashSet ------------------------------
(***************************************************************************)
(* The hash table of a database's facts, libkc3/set__fact.c: a chain of    *)
(* items per bucket, the count of the items and that of the collisions,    *)
(* and the walk of set_cursor__fact.c that stops at the count.             *)
(***************************************************************************)
EXTENDS Integers, Sequences, FiniteSetsExt, SequencesExt

CONSTANTS Hash,       \* Hash[d]: the hash of d
          Buckets,     \* the number of buckets
          Same(_, _)  \* compare_fact finds no difference

Bucket(d) == Hash[d] % Buckets

(* set_init__fact *)
EmptySet == [items |-> [h \in 0..(Buckets - 1) |-> <<>>], count |-> 0, collisions |-> 0]

(* set_get__fact: the places of d in its chain. *)
SetGet(set, d) ==
  LET chain == set.items[Bucket(d)] IN
  {n \in 1..Len(chain) : Hash[chain[n]] = Hash[d] /\ Same(chain[n], d)}

(* set_add__fact: an item after the first of its chain is a collision.     *)
SetAdd(set, d) ==
  LET h == Bucket(d)
      chain == set.items[h]
  IN  IF SetGet(set, d) # {} THEN set
      ELSE IF chain = <<>>
           THEN [set EXCEPT !.items[h] = <<d>>, !.count = @ + 1]
           ELSE [set EXCEPT !.items[h] = InsertAt(chain, 2, d),
                            !.count = @ + 1,
                            !.collisions = @ + 1]

(* set_add__fact without memory for the item.  set_add_collision__fact     *)
(* links what it got all the same: the chain ends after its first item,    *)
(* and the items it had after it are counted for good, with the new one.   *)
SetAddFails(set, d) ==
  LET h == Bucket(d)
      chain == set.items[h]
  IN  IF SetGet(set, d) # {} \/ chain = <<>> THEN set
      ELSE [set EXCEPT !.items[h] = <<chain[1]>>,
                       !.count = @ + 1,
                       !.collisions = @ + 1]

(* Faulty: every item that leaves was a collision.                         *)
SetRemoveCollision(set, d) ==
  IF SetGet(set, d) = {} THEN set
  ELSE [set EXCEPT !.items[Bucket(d)] = RemoveAt(@, Min(SetGet(set, d))),
                   !.count = @ - 1,
                   !.collisions = IF @ > 0 THEN @ - 1 ELSE @]

(* set_remove__fact: a chain that items are left in had a collision less.  *)
SetRemove(set, d) ==
  LET h == Bucket(d)
      rest == RemoveAt(set.items[h], Min(SetGet(set, d)))
  IN  IF SetGet(set, d) = {} THEN set
      ELSE [set EXCEPT !.items[h] = rest,
                       !.count = @ - 1,
                       !.collisions = IF rest = <<>> THEN @ ELSE @ - 1]

(* set_cursor_next__fact, again and again until there is no more.          *)
Listing(set) ==
  LET walk == FlattenSeq([h \in 1..Buckets |-> set.items[h - 1]]) IN
  SubSeq(walk, 1, IF set.count < Len(walk) THEN set.count ELSE Len(walk))

Items(set) == UNION {ToSet(set.items[h]) : h \in DOMAIN set.items}
=============================================================================
