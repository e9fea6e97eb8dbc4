------------------------------ MODULE SkipList ------------------------------
(***************************************************************************)
(* An index of the database, libkc3/skiplist__fact.c, and the cursors of   *)
(* facts_cursor.c over it, under the lock of the database.                 *)
(*                                                                         *)
(* A fact is a number, in the order of the index.  One action reads or     *)
(* writes the links of one node at one level, so that what a thread sees   *)
(* of a list that another thread is changing is in the model; the database *)
(* lock (RwLock) is what keeps them apart.  skiplist.c.in and              *)
(* skiplist_node.c.in are the templates of the code.                       *)
(***************************************************************************)
EXTENDS Integers

CONSTANTS Threads,
          Keys,       \* facts, positive
          Nil,        \* NULL, taken greater than every fact
          MaxHeight,  \* skiplist->max_height
          Typed       \* facts whose tags have the types of a typed variable

Head == 0

ASSUME KeysAssumption == Keys \subseteq Nat \ {0}
ASSUME NilAssumption == Nil \in Nat \ {0} /\ \A k \in Keys : k < Nil
ASSUME MaxHeightAssumption == MaxHeight \in Nat \ {0}
ASSUME TypedAssumption == Typed \subseteq Keys

Nodes == Keys \cup {Head}
Levels == 0..(MaxHeight - 1)

VARIABLES
  next,    \* next[n][l]: SKIPLIST_NODE_NEXT__fact(n, l)
  height,  \* height[k]: node->height, 0 if there is no node of k
  length,  \* skiplist->length
  at,      \* at[t]: where thread t is
  op,      \* op[t]: the call it is in
  node,    \* node[t]: the node it stands on
  level,   \* level[t]: the level it is working at
  pred,    \* pred[t]: what skiplist_pred__fact has found, level by level
  out      \* out[t]: what its cursor last returned, 0 if nothing yet

list == <<next, height, length>>
vars == <<next, height, length, at, op, node, level, pred, out>>

NoOp == [kind |-> "none", key |-> Nil, arg |-> 0, matching |-> {}]

Init ==
  /\ next = [n \in Nodes |-> [l \in Levels |-> Nil]]
  /\ height = [k \in Keys |-> 0]
  /\ length = 0
  /\ at = [t \in Threads |-> "idle"]
  /\ op = [t \in Threads |-> NoOp]
  /\ node = [t \in Threads |-> Head]
  /\ level = [t \in Threads |-> 0]
  /\ pred = [t \in Threads |-> [l \in Levels |-> Head]]
  /\ out = [t \in Threads |-> 0]

(***************************************************************************)
(* The lock of the database                                                *)
(***************************************************************************)
Writing(t) == op[t].kind \in {"insert", "remove"}
Reading(t) == op[t].kind = "scan"

WriteLockFree == \A t \in Threads : ~Writing(t) /\ ~Reading(t)
ReadLockFree == \A t \in Threads : ~Writing(t)

(***************************************************************************)
(* Calls                                                                   *)
(***************************************************************************)
Call(t, kind, key, arg, matching) ==
  /\ at[t] = "idle"
  /\ at' = [at EXCEPT ![t] = "walk"]
  /\ op' = [op EXCEPT ![t] = [kind |-> kind, key |-> key, arg |-> arg,
                              matching |-> matching]]
  /\ node' = [node EXCEPT ![t] = Head]
  /\ level' = [level EXCEPT ![t] = MaxHeight - 1]
  /\ UNCHANGED <<list, pred, out>>

Return(t) ==
  /\ at' = [at EXCEPT ![t] = "idle"]
  /\ op' = [op EXCEPT ![t] = NoOp]
  /\ node' = [node EXCEPT ![t] = Head]
  /\ level' = [level EXCEPT ![t] = 0]
  /\ pred' = [pred EXCEPT ![t] = [l \in Levels |-> Head]]
  /\ out' = [out EXCEPT ![t] = 0]

(* skiplist_insert__fact, with the height skiplist_random_height__fact     *)
(* will give.                                                              *)
Insert(t, k, h) ==
  /\ WriteLockFree
  /\ Call(t, "insert", k, h, {})

(* skiplist_remove__fact *)
Remove(t, k) ==
  /\ WriteLockFree
  /\ Call(t, "remove", k, 0, {})

(* Faulty: facts_with_tags does not ask for the lock.                      *)
ScanUnlocked(t, s, e, matching) == Call(t, "scan", s, e, matching)

(* facts_with_tags: a cursor from s to e, on facts of some types, with the *)
(* read lock from before it until facts_cursor_clean.                      *)
Scan(t, s, e, matching) ==
  /\ ReadLockFree
  /\ Call(t, "scan", s, e, matching)

(***************************************************************************)
(* skiplist_pred__fact, for all three                                      *)
(***************************************************************************)
Following(t) == next[node[t]][level[t]]

(* On to the next node of the level, which is before the key. *)
Step(t) ==
  /\ at[t] = "walk"
  /\ Following(t) < op[t].key
  /\ node' = [node EXCEPT ![t] = Following(t)]
  /\ UNCHANGED <<list, at, op, level, pred, out>>

(* Down one level, or done. *)
Descend(t) ==
  /\ at[t] = "walk"
  /\ Following(t) >= op[t].key
  /\ pred' = [pred EXCEPT ![t][level[t]] = node[t]]
  /\ IF level[t] > 0
     THEN /\ level' = [level EXCEPT ![t] = @ - 1]
          /\ UNCHANGED at
     ELSE /\ at' = [at EXCEPT ![t] = op[t].kind]
          /\ UNCHANGED level
  /\ UNCHANGED <<list, op, node, out>>

Candidate(t) == next[pred[t][0]][0]

(***************************************************************************)
(* Insertion and removal                                                   *)
(***************************************************************************)
(* The fact has a node: skiplist_insert__fact returns it. *)
InsertFound(t) ==
  /\ at[t] = "insert"
  /\ Candidate(t) = op[t].key
  /\ Return(t)
  /\ UNCHANGED list

(* It has none: skiplist_node_new__fact. *)
InsertNew(t) ==
  LET k == op[t].key IN
  /\ at[t] = "insert"
  /\ Candidate(t) # k
  /\ height' = [height EXCEPT ![k] = op[t].arg]
  /\ at' = [at EXCEPT ![t] = "link"]
  /\ UNCHANGED <<next, length, op, node, level, pred, out>>

(* Faulty: takes the predecessor of the bottom level for all levels.       *)
LinkAfterLowest(t) ==
  LET k == op[t].key  l == level[t]  p == pred[t][0] IN
  /\ at[t] = "link"
  /\ l < height[k]
  /\ next' = [next EXCEPT ![k][l] = next[p][l], ![p][l] = k]
  /\ level' = [level EXCEPT ![t] = @ + 1]
  /\ UNCHANGED <<height, length, at, op, node, pred, out>>

(* skiplist_node_insert__fact, one level of its loop. *)
Link(t) ==
  LET k == op[t].key  l == level[t]  p == pred[t][l] IN
  /\ at[t] = "link"
  /\ l < height[k]
  /\ next' = [next EXCEPT ![k][l] = next[p][l], ![p][l] = k]
  /\ level' = [level EXCEPT ![t] = @ + 1]
  /\ UNCHANGED <<height, length, at, op, node, pred, out>>

(* The end of the loop. *)
Linked(t) ==
  /\ at[t] = "link"
  /\ level[t] = height[op[t].key]
  /\ length' = length + 1
  /\ Return(t)
  /\ UNCHANGED <<next, height>>

(* skiplist_remove__fact: no node of the fact. *)
RemoveMissing(t) ==
  /\ at[t] = "remove"
  /\ Candidate(t) # op[t].key
  /\ Return(t)
  /\ UNCHANGED list

(* One level of its loop. *)
Unlink(t) ==
  LET k == op[t].key  l == level[t]  p == pred[t][l] IN
  /\ at[t] \in {"remove", "unlink"}
  /\ at[t] = "remove" => Candidate(t) = k
  /\ l < height[k]
  /\ next' = [next EXCEPT ![p][l] = next[k][l]]
  /\ level' = [level EXCEPT ![t] = @ + 1]
  /\ at' = [at EXCEPT ![t] = "unlink"]
  /\ UNCHANGED <<height, length, op, node, pred, out>>

(* The end of the loop: the node is freed, with what it held. *)
Unlinked(t) ==
  LET k == op[t].key IN
  /\ at[t] = "unlink"
  /\ level[t] = height[k]
  /\ height' = [height EXCEPT ![k] = 0]
  /\ next' = [next EXCEPT ![k] = [l \in Levels |-> Nil]]
  /\ length' = length - 1
  /\ Return(t)

(***************************************************************************)
(* facts_cursor_next: the cursor stands before the first fact of its range *)
(* or on the last one it returned.                                         *)
(***************************************************************************)
Successor(t) == next[node[t]][0]

(* The next fact, returned if its tags have the types asked for. *)
Advance(t) ==
  /\ at[t] = "scan"
  /\ Successor(t) <= op[t].arg
  /\ node' = [node EXCEPT ![t] = Successor(t)]
  /\ out' = IF Successor(t) \in op[t].matching
            THEN [out EXCEPT ![t] = Successor(t)] ELSE out
  /\ UNCHANGED <<list, at, op, level, pred>>

(* Faulty: exhausted when it meets the end of its range.                   *)
ExhaustedEarly(t) ==
  /\ at[t] = "scan"
  /\ Successor(t) >= op[t].arg
  /\ at' = [at EXCEPT ![t] = "ended"]
  /\ node' = [node EXCEPT ![t] = Head]
  /\ out' = [out EXCEPT ![t] = Nil]
  /\ UNCHANGED <<list, op, level, pred>>

(* No more facts: the cursor has no node and answers NULL. *)
Exhausted(t) ==
  /\ at[t] = "scan"
  /\ Successor(t) > op[t].arg
  /\ at' = [at EXCEPT ![t] = "ended"]
  /\ node' = [node EXCEPT ![t] = Head]
  /\ out' = [out EXCEPT ![t] = Nil]
  /\ UNCHANGED <<list, op, level, pred>>

(* facts_cursor_clean, then or before. *)
Stop(t) ==
  /\ at[t] \in {"scan", "ended"}
  /\ Return(t)
  /\ UNCHANGED list

Next ==
  \E t \in Threads :
    \/ \E k \in Keys :
         \/ \E h \in 1..MaxHeight : Insert(t, k, h)
         \/ Remove(t, k)
         \/ \E e \in Keys, matching \in {Keys, Typed} : Scan(t, k, e, matching)
    \/ Step(t) \/ Descend(t)
    \/ InsertFound(t) \/ InsertNew(t) \/ Link(t) \/ Linked(t)
    \/ RemoveMissing(t) \/ Unlink(t) \/ Unlinked(t)
    \/ Advance(t) \/ Exhausted(t) \/ Stop(t)

Spec == Init /\ [][Next]_vars

(***************************************************************************)
(* Properties                                                              *)
(***************************************************************************)
TypeOK ==
  /\ next \in [Nodes -> [Levels -> Keys \cup {Nil}]]
  /\ height \in [Keys -> 0..MaxHeight]
  /\ length \in Int
  /\ at \in [Threads -> {"idle", "walk", "insert", "link", "remove",
                         "unlink", "scan", "ended"}]
  /\ op \in [Threads -> [kind : {"none", "insert", "remove", "scan"},
                         key : Keys \cup {Nil}, arg : Nat, matching : SUBSET Keys]]
  /\ node \in [Threads -> Nodes]
  /\ level \in [Threads -> 0..MaxHeight]
  /\ pred \in [Threads -> [Levels -> Nodes]]
  /\ out \in [Threads -> Nodes \cup {Nil}]

(* The writer has not reached this level of the node it is linking, or is  *)
(* past it in the node it is unlinking.                                    *)
Loose(k, l) ==
  \E t \in Threads :
    /\ op[t].key = k
    /\ \/ at[t] = "link" /\ l >= level[t]
       \/ at[t] = "unlink" /\ l < level[t]

(* The nodes on level l. *)
OnLevel(l) == {k \in Keys : height[k] > l /\ ~Loose(k, l)}

(* On every level a node is followed by the least greater node of that     *)
(* level, also while skiplist_node_insert__fact and skiplist_remove__fact  *)
(* are between two levels: the levels are sorted, hold the nodes that are  *)
(* high enough and no freed one.                                           *)
LevelsSorted ==
  \A l \in Levels : \A n \in OnLevel(l) \cup {Head} :
    /\ next[n][l] \in OnLevel(l) \cup {Nil}
    /\ n < next[n][l]
    /\ \A k \in OnLevel(l) : k > n => next[n][l] <= k

(* No call and no cursor stands on a node that skiplist_remove__fact has   *)
(* freed.                                                                  *)
NoFreedAccess ==
  \A t \in Threads : node[t] # Head => height[node[t]] > 0

(* The set, and what its scans have left to answer. *)
Elems == OnLevel(0)
Left(t) ==
  IF at[t] = "scan"
  THEN {k \in Elems \cap op[t].matching : node[t] < k /\ k <= op[t].arg}
  ELSE {}

(* skiplist_insert__fact, skiplist_remove__fact and the cursors implement  *)
(* an ordered set with scans.                                              *)
Ordered == INSTANCE OrderedSet WITH
             elems <- Elems,
             left <- [t \in Threads |-> Left(t)],
             open <- [t \in Threads |-> at[t] \in {"scan", "ended"}]
Refines == Ordered!Spec
=============================================================================
