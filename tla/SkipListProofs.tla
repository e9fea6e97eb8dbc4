--------------------------- MODULE SkipListProofs ---------------------------
(***************************************************************************)
(* Proofs about SkipList.tla, for every set of threads, every set of facts *)
(* (also an infinite one) and every height.                                *)
(*                                                                         *)
(* The invariant has two parts.  Control is about the calls alone: a       *)
(* writer is alone, and a thread works at a level its node has.  Linkage   *)
(* is about the links: LevelsSorted, and what skiplist_pred__fact has      *)
(* found stays found until the loop has come to that level.                *)
(***************************************************************************)
EXTENDS SkipList, TLAPS

(* The lock of the database is held from the beginning to the end of a     *)
(* call.                                                                   *)
WriterIsAlone ==
  \A t, u \in Threads : Writing(t) /\ u # t => at[u] = "idle"

(* The states of a call, and its arguments. *)
Called(t) ==
  /\ at[t] = "idle" => op[t].kind = "none" /\ node[t] = Head /\ out[t] = 0
  /\ at[t] # "idle" => op[t].kind # "none" /\ op[t].key \in Keys
  /\ at[t] \in {"insert", "link"} => op[t].kind = "insert"
  /\ at[t] \in {"remove", "unlink"} => op[t].kind = "remove"
  /\ at[t] \in {"scan", "ended"} => op[t].kind = "scan"
  /\ at[t] \notin {"scan", "ended"} => out[t] = 0
  /\ op[t].kind = "insert" => op[t].arg \in 1..MaxHeight
  /\ op[t].kind = "scan" => op[t].arg \in Keys /\ op[t].matching \in {Keys, Typed}

(* The level a thread works at. *)
AtLevel(t) ==
  /\ at[t] = "walk" => level[t] \in Levels
  /\ at[t] \in {"insert", "remove"} => level[t] = 0
  /\ at[t] = "link" => level[t] <= height[op[t].key]
  /\ at[t] = "unlink" => level[t] <= height[op[t].key] /\ level[t] > 0

Control ==
  /\ TypeOK
  /\ WriterIsAlone
  /\ \A t \in Threads : Called(t) /\ AtLevel(t)

(* What the links of level l connect. *)
Chain(l) == OnLevel(l) \cup {Head}

(* The walk stands before the key, on its level. *)
WalksBefore(t) ==
  /\ node[t] \in Chain(0)
  /\ at[t] = "walk" => node[t] \in Chain(level[t])
  /\ at[t] \in {"walk", "insert", "link", "remove", "unlink"}
       => node[t] < op[t].key

(* The levels whose predecessor is found and still needed. *)
Pending(t) ==
  {l \in Levels : \/ at[t] = "walk" /\ l > level[t]
                  \/ /\ at[t] \in {"insert", "link", "remove", "unlink"}
                     /\ l >= level[t]}

(* It is the last node of its level before the key. *)
FoundBefore(t) ==
  \A l \in Pending(t) :
    /\ pred[t][l] \in Chain(l)
    /\ pred[t][l] < op[t].key
    /\ next[pred[t][l]][l] >= op[t].key

Linkage ==
  /\ LevelsSorted
  /\ \A t \in Threads : WalksBefore(t) /\ FoundBefore(t)

ListInv == Control /\ Linkage

USE KeysAssumption, NilAssumption, MaxHeightAssumption, TypedAssumption
    DEF Head

Links == [Nodes -> [Levels -> Keys \cup {Nil}]]

(* One link changes.                                                       *)
LEMMA OneLink ==
  ASSUME NEW f \in Links, NEW n \in Nodes, NEW l \in Levels, NEW v \in Keys \cup {Nil}
  PROVE  /\ [f EXCEPT ![n][l] = v] \in Links
         /\ \A m \in Nodes, j \in Levels :
              [f EXCEPT ![n][l] = v][m][j] = IF m = n /\ j = l THEN v ELSE f[m][j]
<1> DEFINE g == [f[n] EXCEPT ![l] = v]
<1>1. [f EXCEPT ![n][l] = v] = [f EXCEPT ![n] = g]
  OBVIOUS
<1>2. g \in [Levels -> Keys \cup {Nil}] /\ \A j \in Levels : g[j] = IF j = l THEN v ELSE f[n][j]
  BY DEF Links
<1> HIDE DEF g
<1>3. [f EXCEPT ![n] = g] \in Links
  BY <1>2 DEF Links
<1>4. \A m \in Nodes : [f EXCEPT ![n] = g][m] = IF m = n THEN g ELSE f[m]
  BY DEF Links
<1>5. QED
  BY <1>1, <1>2, <1>3, <1>4

(* Two links change, one after the other.                                  *)
LEMMA TwoLinks ==
  ASSUME NEW f \in Links, NEW n \in Nodes, NEW m \in Nodes, NEW l \in Levels,
         NEW v \in Keys \cup {Nil}, NEW w \in Keys \cup {Nil}
  PROVE  /\ [f EXCEPT ![n][l] = v, ![m][l] = w] \in Links
         /\ \A i \in Nodes, j \in Levels :
              [f EXCEPT ![n][l] = v, ![m][l] = w][i][j]
                = IF i = m /\ j = l THEN w
                  ELSE IF i = n /\ j = l THEN v ELSE f[i][j]
<1> DEFINE g == [f EXCEPT ![n][l] = v]
<1>1. g \in Links
  BY OneLink
<1>2. [f EXCEPT ![n][l] = v, ![m][l] = w] = [g EXCEPT ![m][l] = w]
  BY DEF Links
<1> HIDE DEF g
<1>3. [g EXCEPT ![m][l] = w] \in Links
  BY <1>1, OneLink
<1>4. \A i \in Nodes, j \in Levels :
        [f EXCEPT ![n][l] = v, ![m][l] = w][i][j]
          = IF i = m /\ j = l THEN w
            ELSE IF i = n /\ j = l THEN v ELSE f[i][j]
  BY DEF Links
<1>5. QED
  BY <1>2, <1>3, <1>4

(* NULL is after every fact.                                               *)
LEMMA NilIsLast ==
  /\ Nil \in Int
  /\ \A k \in Keys : k \in Int /\ 0 < k /\ k < Nil
  /\ \A x \in Keys \cup {Nil}, k \in Keys : x < k \/ x <= k => x \in Keys
BY KeysAssumption, NilAssumption

(* Nodes are compared as their facts are.                                  *)
LEMMA NodesAreNumbers == \A n \in Nodes : n \in Int /\ 0 <= n
BY NilIsLast DEF Nodes

(* The lock is free, or only readers hold it, when a call begins.          *)
LEMMA CallKeepsControl ==
  ASSUME Control, NEW t \in Threads,
         NEW kind \in {"insert", "remove", "scan"}, NEW key \in Keys,
         NEW arg \in Nat, NEW matching \in SUBSET Keys,
         Call(t, kind, key, arg, matching),
         kind = "insert" => arg \in 1..MaxHeight,
         kind = "scan" => arg \in Keys /\ matching \in {Keys, Typed},
         IF kind = "scan" THEN ReadLockFree ELSE WriteLockFree
  PROVE  Control'
<1> USE DEF Control
<1>1. op' \in [Threads -> [kind : {"none", "insert", "remove", "scan"},
                          key : Keys \cup {Nil}, arg : Nat, matching : SUBSET Keys]]
  BY DEF Call, TypeOK
<1>2. TypeOK'
  BY <1>1 DEF Call, list, TypeOK, Nodes, Levels
<1>3. WriterIsAlone'
  BY DEF Call, TypeOK, WriterIsAlone, Writing, Reading, WriteLockFree, ReadLockFree,
         Called
<1>4. ASSUME NEW u \in Threads PROVE Called(u)'
  BY DEF Call, TypeOK, Called
<1>5. ASSUME NEW u \in Threads PROVE AtLevel(u)'
  BY DEF Call, TypeOK, AtLevel, list, Levels
<1>6. QED
  BY <1>2, <1>3, <1>4, <1>5

(* When a call ends its thread has nothing left of it.                     *)
LEMMA ReturnKeepsControl ==
  ASSUME Control, NEW t \in Threads, Return(t),
         next' \in [Nodes -> [Levels -> Keys \cup {Nil}]],
         height' \in [Keys -> 0..MaxHeight],
         length' \in Int,
         height' = height \/ Writing(t)
  PROVE  Control'
<1> USE DEF Control
<1>1. op' \in [Threads -> [kind : {"none", "insert", "remove", "scan"},
                          key : Keys \cup {Nil}, arg : Nat, matching : SUBSET Keys]]
  BY DEF Return, TypeOK, NoOp
<1>2. pred' \in [Threads -> [Levels -> Nodes]]
  BY DEF Return, TypeOK, Nodes
<1>3. TypeOK'
  BY <1>1, <1>2 DEF Return, TypeOK, Nodes
<1>4. WriterIsAlone'
  BY DEF Return, NoOp, TypeOK, WriterIsAlone, Writing
<1>5. ASSUME NEW u \in Threads PROVE Called(u)'
  BY DEF Return, NoOp, TypeOK, Called
<1>6. ASSUME NEW u \in Threads PROVE AtLevel(u)'
  BY DEF Return, TypeOK, AtLevel, WriterIsAlone
<1>7. QED
  BY <1>3, <1>4, <1>5, <1>6

(* A step of skiplist_pred__fact to the next node of its level.            *)
LEMMA StepKeepsControl ==
  ASSUME Control, NEW t \in Threads, Step(t)
  PROVE  Control'
<1> USE DEF Control
<1>1. at[t] = "walk" /\ level[t] \in Levels /\ op[t].key \in Keys /\ node[t] \in Nodes
  BY DEF Step, AtLevel, Called, TypeOK
<1>2. Following(t) \in Keys
  <2>1. Following(t) \in Keys \cup {Nil}
    BY <1>1 DEF Following, TypeOK
  <2>2. QED
    BY <1>1, <2>1, NilIsLast DEF Step
<1>3. TypeOK'
  BY <1>1, <1>2 DEF Step, list, TypeOK, Nodes
<1>4. WriterIsAlone'
  BY <1>1 DEF Step, WriterIsAlone, Writing
<1>5. ASSUME NEW u \in Threads PROVE Called(u)'
  BY <1>1 DEF Step, TypeOK, Called
<1>6. ASSUME NEW u \in Threads PROVE AtLevel(u)'
  BY <1>1 DEF Step, TypeOK, AtLevel, list, Levels
<1>7. QED
  BY <1>3, <1>4, <1>5, <1>6

(* Its step to the level below, or its end.                                *)
LEMMA DescendKeepsControl ==
  ASSUME Control, NEW t \in Threads, Descend(t)
  PROVE  Control'
<1> USE DEF Control
<1>1. /\ at[t] = "walk" /\ level[t] \in Levels /\ op[t].key \in Keys /\ node[t] \in Nodes
      /\ op[t].kind \in {"insert", "remove", "scan"} /\ pred[t] \in [Levels -> Nodes]
  BY DEF Descend, AtLevel, Called, TypeOK
<1>2. pred' \in [Threads -> [Levels -> Nodes]]
  <2>1. [pred[t] EXCEPT ![level[t]] = node[t]] \in [Levels -> Nodes]
    BY <1>1
  <2>2. pred' = [pred EXCEPT ![t] = [pred[t] EXCEPT ![level[t]] = node[t]]]
    BY DEF Descend, TypeOK
  <2>3. QED
    BY <2>1, <2>2 DEF TypeOK
<1>3. /\ level' \in [Threads -> 0..MaxHeight]
      /\ at' \in [Threads -> {"idle", "walk", "insert", "link", "remove",
                             "unlink", "scan", "ended"}]
  <2>1. CASE level[t] > 0
    <3>1. level[t] - 1 \in 0..MaxHeight
      BY <1>1, <2>1 DEF Levels
    <3>2. QED
      BY <2>1, <3>1 DEF Descend, TypeOK
  <2>2. CASE ~(level[t] > 0)
    BY <1>1, <2>2 DEF Descend, TypeOK
  <2>3. QED
    BY <2>1, <2>2
<1>4. TypeOK'
  BY <1>2, <1>3 DEF Descend, list, TypeOK
<1>5. WriterIsAlone'
  BY <1>1 DEF Descend, TypeOK, WriterIsAlone, Writing
<1>6. ASSUME NEW u \in Threads PROVE Called(u)'
  BY <1>1 DEF Descend, TypeOK, Called
<1>7. ASSUME NEW u \in Threads PROVE AtLevel(u)'
  <2>1. CASE u # t
    BY <2>1 DEF Descend, TypeOK, AtLevel, list
  <2>2. CASE u = t /\ level[t] > 0
    <3>1. level'[t] \in Levels /\ at'[t] = "walk"
      BY <1>1, <2>2 DEF Descend, TypeOK, Levels
    <3>2. QED
      BY <2>2, <3>1 DEF AtLevel
  <2>3. CASE u = t /\ ~(level[t] > 0)
    <3>1. level'[t] = 0 /\ at'[t] \in {"insert", "remove", "scan"}
      BY <1>1, <2>3 DEF Descend, TypeOK, Levels
    <3>2. QED
      BY <2>3, <3>1 DEF AtLevel
  <2>4. QED
    BY <2>1, <2>2, <2>3
<1>8. QED
  BY <1>4, <1>5, <1>6, <1>7

(* A new node has the height of the call, and is linked from level 0.      *)
LEMMA InsertNewKeepsControl ==
  ASSUME Control, NEW t \in Threads, InsertNew(t)
  PROVE  Control'
<1> USE DEF Control
<1>1. at[t] = "insert" /\ op[t].key \in Keys /\ op[t].kind = "insert"
      /\ op[t].arg \in 1..MaxHeight /\ level[t] = 0
  BY DEF InsertNew, AtLevel, Called
<1>2. TypeOK'
  BY <1>1 DEF InsertNew, TypeOK
<1>3. WriterIsAlone'
  BY <1>1 DEF InsertNew, TypeOK, WriterIsAlone, Writing
<1>4. ASSUME NEW u \in Threads PROVE Called(u)'
  BY <1>1 DEF InsertNew, TypeOK, Called
<1>5. ASSUME NEW u \in Threads PROVE AtLevel(u)'
  BY <1>1 DEF InsertNew, TypeOK, AtLevel, WriterIsAlone, Writing
<1>6. QED
  BY <1>2, <1>3, <1>4, <1>5

(* What a writer that is linking or unlinking a node works with.           *)
LEMMA WriterTypes ==
  ASSUME Control, NEW t \in Threads, at[t] \in {"link", "remove", "unlink"},
         level[t] < height[op[t].key]
  PROVE  /\ op[t].key \in Keys /\ Writing(t)
         /\ level[t] \in Levels /\ level[t] + 1 \in 1..MaxHeight
         /\ pred[t][level[t]] \in Nodes /\ height[op[t].key] \in 1..MaxHeight
<1>1. op[t].key \in Keys /\ Writing(t)
  BY DEF Control, Called, Writing
<1>2. height[op[t].key] \in 0..MaxHeight /\ level[t] \in 0..MaxHeight
  BY <1>1 DEF Control, TypeOK
<1>3. level[t] \in Levels /\ level[t] + 1 \in 1..MaxHeight /\ height[op[t].key] \in 1..MaxHeight
  BY <1>2 DEF Levels
<1>4. QED
  BY <1>1, <1>3 DEF Control, TypeOK

(* The links of one level are written, and the writer goes up one level.   *)
LEMMA LinkKeepsControl ==
  ASSUME Control, NEW t \in Threads, Link(t)
  PROVE  Control'
<1> USE DEF Control
<1>1. /\ op[t].key \in Keys /\ Writing(t) /\ at[t] = "link"
      /\ level[t] \in Levels /\ level[t] + 1 \in 1..MaxHeight
      /\ pred[t][level[t]] \in Nodes /\ height[op[t].key] \in 1..MaxHeight
  BY WriterTypes DEF Link
<1>2. next' \in Links
  <2>1. next \in Links
    BY DEF TypeOK, Links
  <2>2. /\ op[t].key \in Nodes /\ op[t].key \in Keys \cup {Nil}
        /\ next[pred[t][level[t]]][level[t]] \in Keys \cup {Nil}
    BY <1>1, <2>1 DEF Nodes, Links
  <2>3. QED
    BY <1>1, <2>1, <2>2, TwoLinks DEF Link
<1>3. TypeOK'
  <2>1. next' \in [Nodes -> [Levels -> Keys \cup {Nil}]]
    BY <1>2 DEF Links
  <2>2. level' \in [Threads -> 0..MaxHeight]
    BY <1>1 DEF Link, TypeOK
  <2>3. QED
    BY <2>1, <2>2 DEF Link, TypeOK
<1>4. WriterIsAlone'
  BY <1>1 DEF Link, TypeOK, WriterIsAlone, Writing
<1>5. ASSUME NEW u \in Threads PROVE Called(u)'
  BY <1>1 DEF Link, TypeOK, Called
<1>6. ASSUME NEW u \in Threads PROVE AtLevel(u)'
  <2>1. CASE u # t
    BY <1>1, <2>1 DEF Link, TypeOK, AtLevel
  <2>2. CASE u = t
    <3>1. level'[t] = level[t] + 1 /\ at'[t] = "link" /\ op' = op /\ height' = height
      BY <1>1 DEF Link, TypeOK
    <3>2. level[t] < height[op[t].key]
      BY DEF Link
    <3>3. QED
      BY <1>1, <2>2, <3>1, <3>2 DEF AtLevel, Levels
  <2>3. QED
    BY <2>1, <2>2
<1>7. QED
  BY <1>3, <1>4, <1>5, <1>6

(* The same in the loop of skiplist_remove__fact.                          *)
LEMMA UnlinkKeepsControl ==
  ASSUME Control, NEW t \in Threads, Unlink(t)
  PROVE  Control'
<1> USE DEF Control
<1>1. /\ op[t].key \in Keys /\ Writing(t) /\ at[t] \in {"remove", "unlink"}
      /\ level[t] \in Levels /\ level[t] + 1 \in 1..MaxHeight
      /\ pred[t][level[t]] \in Nodes /\ height[op[t].key] \in 1..MaxHeight
  BY WriterTypes DEF Unlink
<1>2. next' \in [Nodes -> [Levels -> Keys \cup {Nil}]]
  <2>1. next \in Links
    BY DEF TypeOK, Links
  <2>2. next[op[t].key][level[t]] \in Keys \cup {Nil}
    BY <1>1, <2>1 DEF Links, Nodes
  <2>3. QED
    BY <1>1, <2>1, <2>2, OneLink DEF Unlink, Links
<1>3. TypeOK'
  BY <1>1, <1>2 DEF Unlink, TypeOK
<1>4. WriterIsAlone'
  BY <1>1 DEF Unlink, TypeOK, WriterIsAlone, Writing
<1>5. ASSUME NEW u \in Threads PROVE Called(u)'
  BY <1>1 DEF Unlink, TypeOK, Called
<1>6. ASSUME NEW u \in Threads PROVE AtLevel(u)'
  <2>1. CASE u # t
    BY <1>1, <2>1 DEF Unlink, TypeOK, AtLevel
  <2>2. CASE u = t
    <3>1. level'[t] = level[t] + 1 /\ at'[t] = "unlink" /\ op' = op /\ height' = height
      BY <1>1 DEF Unlink, TypeOK
    <3>2. level[t] < height[op[t].key]
      BY DEF Unlink
    <3>3. QED
      BY <1>1, <2>2, <3>1, <3>2 DEF AtLevel, Levels
  <2>3. QED
    BY <2>1, <2>2
<1>7. QED
  BY <1>3, <1>4, <1>5, <1>6

(* A cursor goes to the next fact, or has no more.                         *)
LEMMA CursorKeepsControl ==
  ASSUME Control, NEW t \in Threads, Advance(t) \/ Exhausted(t)
  PROVE  Control'
<1> USE DEF Control
<1>1. at[t] = "scan" /\ op[t].key \in Keys /\ op[t].kind = "scan" /\ op[t].arg \in Keys
  BY DEF Advance, Exhausted, Called
<1>2. Successor(t) \in Keys \cup {Nil}
  BY DEF Successor, TypeOK, Levels
<1>3. TypeOK'
  <2>1. CASE Advance(t)
    <3>1. Successor(t) \in Keys
      BY <1>1, <1>2, <2>1, NilIsLast DEF Advance
    <3>2. Successor(t) \in Nodes
      BY <3>1 DEF Nodes
    <3>3. QED
      BY <3>2, <2>1 DEF Advance, list, TypeOK, Nodes
  <2>2. CASE Exhausted(t)
    BY <2>2 DEF Exhausted, list, TypeOK, Nodes
  <2>3. QED
    BY <2>1, <2>2
<1>4. WriterIsAlone'
  BY <1>1 DEF Advance, Exhausted, TypeOK, WriterIsAlone, Writing
<1>5. ASSUME NEW u \in Threads PROVE Called(u)'
  BY <1>1 DEF Advance, Exhausted, TypeOK, Called
<1>6. ASSUME NEW u \in Threads PROVE AtLevel(u)'
  BY <1>1 DEF Advance, Exhausted, TypeOK, AtLevel, list
<1>7. QED
  BY <1>3, <1>4, <1>5, <1>6

(* The calls that return.                                                  *)
LEMMA EndsKeepControl ==
  ASSUME Control, NEW t \in Threads,
         \/ InsertFound(t) \/ Linked(t) \/ RemoveMissing(t) \/ Unlinked(t) \/ Stop(t)
  PROVE  Control'
<1>1. Return(t)
  BY DEF InsertFound, Linked, RemoveMissing, Unlinked, Stop
<1>2. CASE Unlinked(t)
  <2>1. op[t].key \in Keys /\ Writing(t)
    BY <1>2 DEF Unlinked, Control, Called, Writing
  <2>2. height' \in [Keys -> 0..MaxHeight] /\ length' \in Int
    BY <1>2, <2>1 DEF Unlinked, Control, TypeOK
  <2>3. next' \in [Nodes -> [Levels -> Keys \cup {Nil}]]
    BY <1>2, <2>1 DEF Unlinked, Control, TypeOK, Nodes
  <2>4. QED
    BY <1>1, <2>1, <2>2, <2>3, ReturnKeepsControl
<1>3. CASE ~Unlinked(t)
  <2>1. next' = next /\ height' = height /\ length' \in Int
    BY <1>3 DEF InsertFound, Linked, RemoveMissing, Stop, list, Control, TypeOK
  <2>2. QED
    BY <1>1, <2>1, ReturnKeepsControl DEF Control, TypeOK
<1>4. QED
  BY <1>2, <1>3

(* An empty index, and no call.                                            *)
LEMMA InitControl == Init => Control
<1> SUFFICES ASSUME Init PROVE Control
  OBVIOUS
<1>1. TypeOK
  BY DEF Init, TypeOK, NoOp, Nodes, Levels
<1>2. WriterIsAlone /\ \A t \in Threads : Called(t) /\ AtLevel(t)
  BY DEF Init, WriterIsAlone, Called, AtLevel, NoOp
<1>3. QED
  BY <1>1, <1>2 DEF Control

(* Every step keeps the calls as the lock allows them.                     *)
LEMMA NextControl == Control /\ [Next]_vars => Control'
<1> SUFFICES ASSUME Control, [Next]_vars PROVE Control'
  OBVIOUS
<1>1. ASSUME NEW t \in Threads, NEW k \in Keys, NEW h \in 1..MaxHeight, Insert(t, k, h)
      PROVE  Control'
  BY <1>1, CallKeepsControl DEF Insert
<1>2. ASSUME NEW t \in Threads, NEW k \in Keys, Remove(t, k)
      PROVE  Control'
  BY <1>2, CallKeepsControl DEF Remove
<1>3. ASSUME NEW t \in Threads, NEW k \in Keys, NEW e \in Keys,
             NEW matching \in {Keys, Typed}, Scan(t, k, e, matching)
      PROVE  Control'
  <2>1. e \in Nat /\ matching \in SUBSET Keys
    OBVIOUS
  <2>2. QED
    BY <1>3, <2>1, CallKeepsControl DEF Scan
<1>4. CASE UNCHANGED vars
  BY <1>4 DEF vars, list, Control, TypeOK, WriterIsAlone, Writing, Called, AtLevel
<1>5. QED
  BY <1>1, <1>2, <1>3, <1>4, StepKeepsControl, DescendKeepsControl, EndsKeepControl,
     InsertNewKeepsControl, LinkKeepsControl, UnlinkKeepsControl, CursorKeepsControl
     DEF Next

(* Types, and a writer alone, throughout.                                  *)
THEOREM SkipListTypes == Spec => []TypeOK
<1>1. Control => TypeOK
  BY DEF Control
<1>2. QED
  BY <1>1, InitControl, NextControl, PTL DEF Spec

(***************************************************************************)
(* A sorted list, alone                                                    *)
(***************************************************************************)
(* The links f connect the members of S in order, from Head to Nil. *)
Sorted(S, f) ==
  \A n \in S \cup {Head} :
    /\ f[n] \in S \cup {Nil}
    /\ n < f[n]
    /\ \A k \in S : k > n => f[n] <= k

Rows == [Nodes -> Keys \cup {Nil}]

(* Only the links of members count.                                        *)
LEMMA SortedFrame ==
  ASSUME NEW S \in SUBSET Keys, NEW f, NEW g, Sorted(S, f),
         \A n \in S \cup {Head} : g[n] = f[n]
  PROVE  Sorted(S, g)
BY DEF Sorted

(* A node goes in after the last one before it.                            *)
LEMMA SortedInsert ==
  ASSUME NEW S \in SUBSET Keys, NEW f, NEW g, Sorted(S, f),
         NEW k \in Keys, NEW p \in S \cup {Head}, p < k, f[p] >= k, k \notin S,
         g[p] = k, g[k] = f[p],
         \A n \in S \cup {Head} : n # p => g[n] = f[n]
  PROVE  Sorted(S \cup {k}, g)
<1> SUFFICES ASSUME NEW n \in (S \cup {k}) \cup {Head}
             PROVE  /\ g[n] \in (S \cup {k}) \cup {Nil}
                    /\ n < g[n]
                    /\ \A x \in S \cup {k} : x > n => g[n] <= x
  BY DEF Sorted
<1>0. /\ f[p] \in S \cup {Nil} /\ f[p] # k /\ f[p] \in Int /\ k \in Int /\ p \in Int
      /\ \A x \in S : x \in Int
  <2>1. f[p] \in S \cup {Nil}
    BY DEF Sorted
  <2>2. k \in Int /\ k # Nil /\ p \in Int /\ \A x \in S \cup {Nil} : x \in Int
    BY NilIsLast
  <2>3. QED
    BY <2>1, <2>2
<1>1. CASE n = p
  BY <1>0, <1>1, NilIsLast DEF Sorted
<1>2. CASE n = k
  <2>1. \A x \in S : x > k => f[p] <= x
    BY <1>0 DEF Sorted
  <2>2. QED
    BY <1>0, <1>2, <2>1, NilIsLast
<1>3. CASE n # p /\ n # k
  <2>1. /\ n \in S \cup {Head} /\ g[n] = f[n] /\ n \in Int
        /\ f[n] \in S \cup {Nil} /\ n < f[n]
        /\ \A x \in S : x > n => f[n] <= x
    BY <1>3, NilIsLast DEF Sorted
  <2>2. f[n] \in Int
    BY <2>1, <1>0, NilIsLast
  <2>3. k > n => f[n] <= k
    <3>1. SUFFICES ASSUME k > n PROVE f[n] <= k
      OBVIOUS
    <3>2. CASE n < p
      BY <3>2, <2>1, <2>2, <1>0
    <3>3. CASE n > p
      <4>1. n \in S /\ f[p] <= n
        BY <3>3, <2>1, <1>0 DEF Sorted
      <4>2. QED
        BY <4>1, <3>1, <2>1, <1>0
    <3>4. QED
      BY <3>2, <3>3, <1>3, <2>1, <1>0
  <2>4. QED
    BY <2>1, <2>3
<1>4. QED
  BY <1>1, <1>2, <1>3

(* The last node before it takes over its link.                            *)
LEMMA SortedRemove ==
  ASSUME NEW S \in SUBSET Keys, NEW f, NEW g, Sorted(S, f),
         NEW k \in S, NEW p \in S \cup {Head}, p < k, f[p] >= k,
         g[p] = f[k],
         \A n \in S \cup {Head} : n # p => g[n] = f[n]
  PROVE  Sorted(S \ {k}, g)
<1> SUFFICES ASSUME NEW n \in (S \ {k}) \cup {Head}
             PROVE  /\ g[n] \in (S \ {k}) \cup {Nil}
                    /\ n < g[n]
                    /\ \A x \in S \ {k} : x > n => g[n] <= x
  BY DEF Sorted
<1>0. /\ p \in Int /\ k \in Int /\ k \in Keys
      /\ \A x \in S : x \in Int
      /\ f[k] \in S \cup {Nil} /\ k < f[k] /\ f[k] \in Int
      /\ \A x \in S : x > k => f[k] <= x
  <2>1. k \in Keys /\ \A x \in S \cup {Nil} : x \in Int
    BY NilIsLast
  <2>2. p \in Int
    BY <2>1
  <2>3. f[k] \in S \cup {Nil} /\ k < f[k] /\ \A x \in S : x > k => f[k] <= x
    BY DEF Sorted
  <2>4. QED
    BY <2>1, <2>2, <2>3
<1>1. f[p] = k
  <2>1. f[p] \in S \cup {Nil} /\ (k > p => f[p] <= k)
    BY DEF Sorted
  <2>2. f[p] \in Int /\ k > p
    BY <2>1, <1>0, NilIsLast
  <2>3. QED
    BY <2>1, <2>2, <1>0
<1>2. CASE n = p
  <2>1. \A x \in S : x > p => k <= x
    BY <1>1 DEF Sorted
  <2>2. QED
    BY <1>0, <1>2, <2>1
<1>3. CASE n # p
  <2>1. /\ n \in S \cup {Head} /\ n # k /\ g[n] = f[n] /\ n \in Int
        /\ f[n] \in S \cup {Nil} /\ n < f[n]
        /\ \A x \in S : x > n => f[n] <= x
    BY <1>0, <1>3, NilIsLast DEF Sorted
  <2>2. f[n] # k
    <3>1. CASE n < p
      <4>1. p \in S /\ f[n] <= p
        BY <3>1, <2>1, <1>0, NilIsLast
      <4>2. QED
        BY <4>1, <2>1, <1>0, NilIsLast
    <3>2. CASE n > p
      <4>1. n \in S /\ f[p] <= n
        BY <3>2, <2>1, <1>0, NilIsLast DEF Sorted
      <4>2. QED
        BY <4>1, <1>1, <2>1, <1>0, NilIsLast
    <3>3. QED
      BY <3>1, <3>2, <1>3, <2>1, <1>0
  <2>3. QED
    BY <2>1, <2>2
<1>4. QED
  BY <1>2, <1>3

(***************************************************************************)
(* The nodes of a level                                                    *)
(***************************************************************************)
Row(l) == [n \in Nodes |-> next[n][l]]

(* LevelsSorted is about each level alone.                                 *)
LEMMA SortedByLevel ==
  /\ LevelsSorted <=> \A l \in Levels : Sorted(OnLevel(l), Row(l))
  /\ LevelsSorted' <=> \A l \in Levels : Sorted(OnLevel(l)', Row(l)')
<1>1. \A l \in Levels : \A n \in OnLevel(l) \cup {Head} : n \in Nodes
  BY DEF OnLevel, Nodes
<1>2. \A l \in Levels : \A n \in OnLevel(l)' \cup {Head} : n \in Nodes
  BY DEF OnLevel, Nodes
<1>3. LevelsSorted <=> \A l \in Levels : Sorted(OnLevel(l), Row(l))
  BY <1>1 DEF LevelsSorted, Sorted, Row
<1>4. LevelsSorted' <=> \A l \in Levels : Sorted(OnLevel(l)', Row(l)')
  BY <1>2 DEF LevelsSorted, Sorted, Row
<1>5. QED
  BY <1>3, <1>4

(* No writer is between two levels.                                        *)
Settled == \A u \in Threads : at[u] \notin {"link", "unlink"}

(* Then a level holds the nodes that are high enough.                      *)
LEMMA SettledLevels ==
  /\ Settled => \A l \in Levels : OnLevel(l) = {x \in Keys : height[x] > l}
  /\ Settled' => \A l \in Levels : OnLevel(l)' = {x \in Keys : height'[x] > l}
<1>1. Settled => \A l \in Levels : OnLevel(l) = {x \in Keys : height[x] > l}
  BY DEF Settled, OnLevel, Loose
<1>2. Settled' => \A l \in Levels : OnLevel(l)' = {x \in Keys : height'[x] > l}
  BY DEF Settled, OnLevel, Loose
<1>3. QED
  BY <1>1, <1>2

(* Who walks, looks or scans knows that none is.                           *)
LEMMA InCallSettled ==
  ASSUME Control, NEW t \in Threads, at[t] \notin {"idle", "link", "unlink"}
  PROVE  Settled
BY DEF Control, Settled, WriterIsAlone, Writing, Called

(* A level without one node, and with it. *)
Without(l, k) == {x \in Keys : height[x] > l /\ x # k}

(* The writer that links: the levels from its own on lack the node.        *)
LEMMA LinkingLevels ==
  /\ \A t \in Threads, l \in Levels :
       (\A u \in Threads : u # t => at[u] = "idle") /\ at[t] = "link"
       => OnLevel(l) = IF l >= level[t] THEN Without(l, op[t].key)
                       ELSE {x \in Keys : height[x] > l}
  /\ \A t \in Threads, l \in Levels :
       (\A u \in Threads : u # t => at'[u] = "idle") /\ at'[t] = "link"
       => OnLevel(l)' = IF l >= level'[t] THEN Without(l, op[t].key)'
                        ELSE {x \in Keys : height'[x] > l}
<1>1. ASSUME NEW t \in Threads, NEW l \in Levels,
             \A u \in Threads : u # t => at[u] = "idle", at[t] = "link"
      PROVE  OnLevel(l) = IF l >= level[t] THEN Without(l, op[t].key)
                          ELSE {x \in Keys : height[x] > l}
  BY <1>1 DEF OnLevel, Loose, Without
<1>2. ASSUME NEW t \in Threads, NEW l \in Levels,
             \A u \in Threads : u # t => at'[u] = "idle", at'[t] = "link"
      PROVE  OnLevel(l)' = IF l >= level'[t] THEN Without(l, op[t].key)'
                           ELSE {x \in Keys : height'[x] > l}
  BY <1>2 DEF OnLevel, Loose, Without
<1>3. QED
  BY <1>1, <1>2

(* The one that unlinks: those below its own do.                           *)
LEMMA UnlinkingLevels ==
  /\ \A t \in Threads, l \in Levels :
       (\A u \in Threads : u # t => at[u] = "idle") /\ at[t] = "unlink"
       => OnLevel(l) = IF l < level[t] THEN Without(l, op[t].key)
                       ELSE {x \in Keys : height[x] > l}
  /\ \A t \in Threads, l \in Levels :
       (\A u \in Threads : u # t => at'[u] = "idle") /\ at'[t] = "unlink"
       => OnLevel(l)' = IF l < level'[t] THEN Without(l, op[t].key)'
                        ELSE {x \in Keys : height'[x] > l}
<1>1. ASSUME NEW t \in Threads, NEW l \in Levels,
             \A u \in Threads : u # t => at[u] = "idle", at[t] = "unlink"
      PROVE  OnLevel(l) = IF l < level[t] THEN Without(l, op[t].key)
                          ELSE {x \in Keys : height[x] > l}
  BY <1>1 DEF OnLevel, Loose, Without
<1>2. ASSUME NEW t \in Threads, NEW l \in Levels,
             \A u \in Threads : u # t => at'[u] = "idle", at'[t] = "unlink"
      PROVE  OnLevel(l)' = IF l < level'[t] THEN Without(l, op[t].key)'
                           ELSE {x \in Keys : height'[x] > l}
  BY <1>2 DEF OnLevel, Loose, Without
<1>3. QED
  BY <1>1, <1>2

(***************************************************************************)
(* The steps that leave the links alone                                    *)
(***************************************************************************)
(* What they keep for everyone but the thread that takes them.             *)
LEMMA SettledFrame ==
  ASSUME Control, Linkage, Settled, Settled', next' = next, height' = height,
         NEW t \in Threads,
         \A u \in Threads : u # t =>
           /\ at'[u] = at[u] /\ op'[u] = op[u] /\ node'[u] = node[u]
           /\ level'[u] = level[u] /\ pred'[u] = pred[u]
  PROVE  /\ \A l \in Levels : OnLevel(l)' = OnLevel(l)
         /\ LevelsSorted'
         /\ \A u \in Threads : u # t => WalksBefore(u)' /\ FoundBefore(u)'
<1>1. \A l \in Levels : OnLevel(l)' = OnLevel(l)
  BY SettledLevels
<1>2. \A l \in Levels : Row(l)' = Row(l)
  BY DEF Row
<1>3. LevelsSorted'
  BY <1>1, <1>2, SortedByLevel DEF Linkage
<1>4. ASSUME NEW u \in Threads, u # t PROVE WalksBefore(u)'
  <2>1. 0 \in Levels /\ (at[u] = "walk" => level[u] \in Levels)
    BY DEF Levels, Control, AtLevel
  <2>2. WalksBefore(u)
    BY DEF Linkage
  <2>3. QED
    BY <1>1, <1>4, <2>1, <2>2 DEF WalksBefore, Chain
<1>5. ASSUME NEW u \in Threads, u # t PROVE FoundBefore(u)'
  <2>1. FoundBefore(u) /\ Pending(u)' = Pending(u)
    BY <1>5 DEF Linkage, Pending
  <2>2. \A l \in Pending(u) : l \in Levels
    BY DEF Pending
  <2>3. QED
    BY <1>1, <1>5, <2>1, <2>2 DEF FoundBefore, Chain
<1>6. QED
  BY <1>1, <1>3, <1>4, <1>5

(* A thread that has no call, or looks at Head, is at no wrong place.      *)
LEMMA IdleIsPlaced ==
  ASSUME NEW u \in Threads
  PROVE  /\ at[u] = "idle" /\ node[u] = Head => WalksBefore(u) /\ FoundBefore(u)
         /\ at'[u] = "idle" /\ node'[u] = Head => WalksBefore(u)' /\ FoundBefore(u)'
<1>1. at[u] = "idle" /\ node[u] = Head => WalksBefore(u) /\ FoundBefore(u)
  BY DEF WalksBefore, FoundBefore, Pending, Chain
<1>2. at'[u] = "idle" /\ node'[u] = Head => WalksBefore(u)' /\ FoundBefore(u)'
  BY DEF WalksBefore, FoundBefore, Pending, Chain
<1>3. QED
  BY <1>1, <1>2

(* A call begins at Head, on the highest level.                            *)
LEMMA CallKeepsLinkage ==
  ASSUME Control, Linkage, NEW t \in Threads,
         NEW kind \in {"insert", "remove", "scan"}, NEW key \in Keys,
         NEW arg \in Nat, NEW matching \in SUBSET Keys,
         Call(t, kind, key, arg, matching), ReadLockFree
  PROVE  Linkage' /\ Elems' = Elems
<1>1. Settled
  BY DEF ReadLockFree, Settled, Writing, Control, Called
<1>2. Settled' /\ next' = next /\ height' = height
  BY <1>1 DEF Call, Settled, list, Control, TypeOK
<1>3. \A u \in Threads : u # t =>
        /\ at'[u] = at[u] /\ op'[u] = op[u] /\ node'[u] = node[u]
        /\ level'[u] = level[u] /\ pred'[u] = pred[u]
  BY DEF Call, Control, TypeOK
<1>4. /\ \A l \in Levels : OnLevel(l)' = OnLevel(l)
      /\ LevelsSorted'
      /\ \A u \in Threads : u # t => WalksBefore(u)' /\ FoundBefore(u)'
  BY <1>1, <1>2, <1>3, SettledFrame
<1>5. at'[t] = "walk" /\ node'[t] = Head /\ level'[t] = MaxHeight - 1 /\ op'[t].key = key
  BY DEF Call, Control, TypeOK
<1>6. WalksBefore(t)'
  BY <1>5, NilIsLast DEF WalksBefore, Chain
<1>7. FoundBefore(t)'
  <2>1. Pending(t)' = {}
    BY <1>5 DEF Pending, Levels
  <2>2. QED
    BY <2>1 DEF FoundBefore
<1>8. QED
  BY <1>4, <1>6, <1>7 DEF Linkage, Elems, Levels

(* skiplist_pred__fact steps to a node of its level.                       *)
LEMMA StepKeepsLinkage ==
  ASSUME Control, Linkage, NEW t \in Threads, Step(t)
  PROVE  Linkage' /\ Elems' = Elems
<1>1. /\ at[t] = "walk" /\ level[t] \in Levels /\ 0 \in Levels /\ op[t].key \in Keys
      /\ Following(t) < op[t].key
  BY DEF Step, Control, AtLevel, Called, Levels
<1>2. Settled
  BY <1>1, InCallSettled
<1>3. Settled' /\ next' = next /\ height' = height /\ at' = at /\ op' = op
      /\ level' = level /\ pred' = pred
  BY <1>2 DEF Step, Settled, list
<1>4. node'[t] = Following(t) /\ \A u \in Threads : u # t => node'[u] = node[u]
  BY DEF Step, Control, TypeOK
<1>5. /\ \A l \in Levels : OnLevel(l)' = OnLevel(l)
      /\ LevelsSorted'
      /\ \A u \in Threads : u # t => WalksBefore(u)' /\ FoundBefore(u)'
  BY <1>2, <1>3, <1>4, SettledFrame
<1>6. Following(t) \in OnLevel(level[t])
  <2>1. node[t] \in Chain(level[t])
    BY <1>1 DEF Linkage, WalksBefore
  <2>2. Following(t) \in OnLevel(level[t]) \cup {Nil}
    BY <1>1, <2>1 DEF Linkage, LevelsSorted, Following, Chain
  <2>3. op[t].key \in Int /\ Nil \in Int /\ op[t].key < Nil
    BY <1>1, NilIsLast
  <2>4. QED
    BY <1>1, <2>2, <2>3
<1>7. Following(t) \in OnLevel(0)
  <2>1. height[Following(t)] > level[t] /\ Following(t) \in Keys
    BY <1>1, <1>2, <1>6, SettledLevels
  <2>2. height[Following(t)] \in 0..MaxHeight /\ level[t] \in 0..(MaxHeight - 1)
    BY <1>1, <2>1 DEF Levels, Control, TypeOK
  <2>3. height[Following(t)] > 0
    BY <2>1, <2>2
  <2>4. QED
    BY <1>1, <1>2, <2>1, <2>3, SettledLevels
<1>8. WalksBefore(t)'
  BY <1>1, <1>3, <1>4, <1>5, <1>6, <1>7 DEF WalksBefore, Chain
<1>9. FoundBefore(t)'
  <2>1. FoundBefore(t) /\ Pending(t)' = Pending(t) /\ \A l \in Pending(t) : l \in Levels
    BY <1>3 DEF Linkage, Pending
  <2>2. QED
    BY <1>3, <1>5, <2>1 DEF FoundBefore, Chain
<1>10. QED
  BY <1>5, <1>8, <1>9 DEF Linkage, Elems, Levels

(* It goes down with the last node before the key, or is done.             *)
LEMMA DescendKeepsLinkage ==
  ASSUME Control, Linkage, NEW t \in Threads, Descend(t)
  PROVE  Linkage' /\ Elems' = Elems
<1>1. /\ at[t] = "walk" /\ level[t] \in Levels /\ level[t] \in Int /\ 0 <= level[t]
      /\ 0 \in Levels /\ op[t].key \in Keys
      /\ Following(t) >= op[t].key /\ op[t].kind \in {"insert", "remove", "scan"}
  BY DEF Descend, Control, TypeOK, AtLevel, Called, Levels
<1>2. Settled
  BY <1>1, InCallSettled
<1>3. /\ next' = next /\ height' = height /\ op' = op /\ node' = node
      /\ pred'[t] = [pred[t] EXCEPT ![level[t]] = node[t]]
      /\ \A u \in Threads : u # t => pred'[u] = pred[u]
  BY DEF Descend, list, Control, TypeOK
<1>4. \/ /\ level[t] > 0 /\ at'[t] = "walk" /\ level'[t] = level[t] - 1
      \/ /\ level[t] = 0 /\ at'[t] = op[t].kind /\ level'[t] = 0
  <2>1. CASE level[t] > 0
    BY <1>1, <2>1 DEF Descend, Control, TypeOK
  <2>2. CASE ~(level[t] > 0)
    <3>1. level[t] = 0
      BY <1>1, <2>2
    <3>2. QED
      BY <1>1, <2>2, <3>1 DEF Descend, Control, TypeOK
  <2>3. QED
    BY <2>1, <2>2
<1>5. \A u \in Threads : u # t => at'[u] = at[u] /\ level'[u] = level[u]
  BY DEF Descend, Control, TypeOK
<1>6. Settled'
  BY <1>1, <1>2, <1>4, <1>5 DEF Settled
<1>7. /\ \A l \in Levels : OnLevel(l)' = OnLevel(l)
      /\ LevelsSorted'
      /\ \A u \in Threads : u # t => WalksBefore(u)' /\ FoundBefore(u)'
  <2>1. \A u \in Threads : u # t =>
          /\ at'[u] = at[u] /\ op'[u] = op[u] /\ node'[u] = node[u]
          /\ level'[u] = level[u] /\ pred'[u] = pred[u]
    BY <1>3, <1>5
  <2>2. QED
    BY <1>2, <1>3, <1>6, <2>1, SettledFrame
<1>8. node[t] \in Chain(level[t]) /\ node[t] \in Chain(0) /\ node[t] < op[t].key
  BY <1>1 DEF Linkage, WalksBefore
<1>9. WalksBefore(t)'
  <2>1. node[t] \in Chain(0)'
    BY <1>1, <1>7, <1>8 DEF Chain
  <2>2. at'[t] = "walk" => node[t] \in Chain(level[t])'
    <3>1. SUFFICES ASSUME at'[t] = "walk" PROVE node[t] \in Chain(level[t])'
      OBVIOUS
    <3>2. level'[t] = level[t] - 1 /\ level'[t] \in Levels
      BY <1>1, <1>4, <3>1 DEF Levels
    <3>3. node[t] \in Keys => node[t] \in OnLevel(level'[t])
      <4>1. SUFFICES ASSUME node[t] \in Keys PROVE height[node[t]] > level'[t]
        BY <1>2, <3>2, SettledLevels
      <4>2. height[node[t]] > level[t] /\ height[node[t]] \in 0..MaxHeight
        BY <1>1, <1>2, <1>8, <4>1, SettledLevels DEF Chain, Control, TypeOK
      <4>3. QED
        BY <1>1, <3>2, <4>2
    <3>4. node[t] \in Keys \/ node[t] = Head
      BY <1>8 DEF Chain, OnLevel
    <3>5. node[t] \in OnLevel(level'[t]) \cup {Head}
      BY <3>3, <3>4
    <3>6. QED
      BY <1>7, <3>2, <3>5 DEF Chain
  <2>3. QED
    BY <1>3, <1>8, <2>1, <2>2 DEF WalksBefore
<1>10. FoundBefore(t)'
  <2>1. ASSUME NEW l \in Levels, l = level[t] \/ l \in Pending(t)
        PROVE  /\ pred'[t][l] \in Chain(l)'
               /\ pred'[t][l] < op[t].key
               /\ next[pred'[t][l]][l] >= op[t].key
    <3>1. CASE l = level[t]
      <4>1. pred'[t][l] = node[t]
        BY <1>1, <1>3, <3>1 DEF Control, TypeOK
      <4>2. QED
        BY <1>1, <1>7, <1>8, <3>1, <4>1 DEF Chain, Following
    <3>2. CASE l \in Pending(t) /\ l # level[t]
      <4>1. pred'[t][l] = pred[t][l]
        BY <1>1, <1>3, <3>2 DEF Control, TypeOK
      <4>2. QED
        BY <1>7, <3>2, <4>1 DEF Chain, Linkage, FoundBefore
    <3>3. QED
      BY <2>1, <3>1, <3>2
  <2>2. ASSUME NEW l \in Levels, l \in Pending(t)' PROVE l = level[t] \/ l \in Pending(t)
    <3>1. l \in Int
      BY DEF Levels
    <3>2. l >= level[t]
      BY <1>1, <1>4, <2>2, <3>1 DEF Pending
    <3>3. QED
      BY <1>1, <3>1, <3>2 DEF Pending
  <2>3. \A l \in Pending(t)' : l \in Levels
    BY DEF Pending
  <2>4. QED
    BY <1>3, <2>1, <2>2, <2>3 DEF FoundBefore
<1>11. QED
  BY <1>7, <1>9, <1>10 DEF Linkage, Elems, Levels

(* A cursor goes on to the next fact, or loses its node.                   *)
LEMMA CursorKeepsLinkage ==
  ASSUME Control, Linkage, NEW t \in Threads, Advance(t) \/ Exhausted(t)
  PROVE  Linkage' /\ Elems' = Elems
<1>1. at[t] = "scan" /\ 0 \in Levels /\ op[t].arg \in Keys
  BY DEF Advance, Exhausted, Control, Called, Levels
<1>2. Settled
  BY <1>1, InCallSettled
<1>3. /\ next' = next /\ height' = height /\ op' = op /\ level' = level /\ pred' = pred
      /\ at'[t] \in {"scan", "ended"}
      /\ \A u \in Threads : u # t => at'[u] = at[u] /\ node'[u] = node[u]
  BY <1>1 DEF Advance, Exhausted, list, Control, TypeOK
<1>4. Settled'
  BY <1>2, <1>3 DEF Settled
<1>5. /\ \A l \in Levels : OnLevel(l)' = OnLevel(l)
      /\ LevelsSorted'
      /\ \A u \in Threads : u # t => WalksBefore(u)' /\ FoundBefore(u)'
  BY <1>2, <1>3, <1>4, SettledFrame
<1>6. node'[t] \in Chain(0)
  <2>1. CASE Exhausted(t)
    BY <2>1 DEF Exhausted, Chain, Control, TypeOK
  <2>2. CASE Advance(t)
    <3>1. Successor(t) \in OnLevel(0) \cup {Nil}
      BY <1>1 DEF Linkage, WalksBefore, LevelsSorted, Successor, Chain
    <3>2. op[t].arg \in Int /\ Nil \in Int /\ op[t].arg < Nil /\ Successor(t) <= op[t].arg
      BY <1>1, <2>2, NilIsLast DEF Advance
    <3>3. Successor(t) \in OnLevel(0)
      BY <3>1, <3>2
    <3>4. QED
      BY <2>2, <3>3 DEF Advance, Chain, Control, TypeOK
  <2>3. QED
    BY <2>1, <2>2
<1>7. WalksBefore(t)'
  BY <1>1, <1>3, <1>5, <1>6 DEF WalksBefore, Chain
<1>8. FoundBefore(t)'
  <2>1. Pending(t)' = {}
    BY <1>3 DEF Pending
  <2>2. QED
    BY <2>1 DEF FoundBefore
<1>9. QED
  BY <1>5, <1>7, <1>8 DEF Linkage, Elems, Levels

(* The calls that end without having written.                              *)
LEMMA EndsKeepLinkage ==
  ASSUME Control, Linkage, NEW t \in Threads,
         InsertFound(t) \/ RemoveMissing(t) \/ Stop(t)
  PROVE  Linkage' /\ Elems' = Elems
<1>1. at[t] \in {"insert", "remove", "scan", "ended"} /\ Return(t)
      /\ next' = next /\ height' = height
  BY DEF InsertFound, RemoveMissing, Stop, list
<1>2. Settled
  BY <1>1, InCallSettled
<1>3. /\ at'[t] = "idle" /\ node'[t] = Head
      /\ \A u \in Threads : u # t =>
           /\ at'[u] = at[u] /\ op'[u] = op[u] /\ node'[u] = node[u]
           /\ level'[u] = level[u] /\ pred'[u] = pred[u]
  BY <1>1 DEF Return, Control, TypeOK
<1>4. Settled'
  BY <1>2, <1>3 DEF Settled
<1>5. /\ \A l \in Levels : OnLevel(l)' = OnLevel(l)
      /\ LevelsSorted'
      /\ \A u \in Threads : u # t => WalksBefore(u)' /\ FoundBefore(u)'
  BY <1>1, <1>2, <1>3, <1>4, SettledFrame
<1>6. WalksBefore(t)' /\ FoundBefore(t)'
  BY <1>3, IdleIsPlaced
<1>7. QED
  BY <1>5, <1>6 DEF Linkage, Elems, Levels

(***************************************************************************)
(* The steps of a writer: every other thread is idle                       *)
(***************************************************************************)
(* What the others have to do with it.                                     *)
LEMMA OthersIdle ==
  ASSUME Control, NEW t \in Threads, Writing(t),
         \A u \in Threads : u # t => at'[u] = at[u] /\ node'[u] = node[u]
  PROVE  \A u \in Threads : u # t =>
           at[u] = "idle" /\ at'[u] = "idle" /\ WalksBefore(u)' /\ FoundBefore(u)'
BY IdleIsPlaced DEF Control, WriterIsAlone, Called

(* Before a loop has run at its level, the list has not changed there.     *)
LEMMA CandidateIsNode ==
  ASSUME Control, Linkage, NEW t \in Threads, at[t] \in {"insert", "remove"}
  PROVE  /\ pred[t][0] \in Chain(0) /\ pred[t][0] < op[t].key /\ 0 \in Levels
         /\ Candidate(t) >= op[t].key
         /\ op[t].key \in OnLevel(0) => Candidate(t) = op[t].key
<1>1. 0 \in Levels /\ level[t] = 0 /\ op[t].key \in Keys
  BY DEF Levels, Control, AtLevel, Called
<1>2. /\ pred[t][0] \in Chain(0) /\ pred[t][0] < op[t].key /\ Candidate(t) >= op[t].key
  <2>1. 0 \in Pending(t)
    BY <1>1 DEF Pending
  <2>2. QED
    BY <2>1 DEF Linkage, FoundBefore, Candidate
<1>3. Candidate(t) \in Int /\ op[t].key \in Int /\ pred[t][0] \in Int
  <2>1. pred[t][0] \in Nodes
    BY <1>1 DEF Control, TypeOK
  <2>2. next \in [Nodes -> [Levels -> Keys \cup {Nil}]]
    BY DEF Control, TypeOK
  <2>3. Candidate(t) \in Keys \cup {Nil}
    BY <1>1, <2>1, <2>2 DEF Candidate
  <2>4. Candidate(t) \in Int
    BY <2>3, NilIsLast
  <2>5. op[t].key \in Int
    BY <1>1, NilIsLast
  <2>6. pred[t][0] \in Int
    BY <2>1, NodesAreNumbers
  <2>7. QED
    BY <2>4, <2>5, <2>6
<1>4. op[t].key \in OnLevel(0) => Candidate(t) <= op[t].key
  BY <1>1, <1>2, <1>3 DEF Linkage, LevelsSorted, Candidate, Chain
<1>5. QED
  BY <1>1, <1>2, <1>3, <1>4

(* The new node is on no level yet.                                        *)
LEMMA InsertNewKeepsLinkage ==
  ASSUME Control, Linkage, NEW t \in Threads, InsertNew(t)
  PROVE  Linkage' /\ Elems' = Elems
<1> DEFINE k == op[t].key
<1>1. /\ at[t] = "insert" /\ Writing(t) /\ k \in Keys /\ level[t] = 0 /\ 0 \in Levels
      /\ Candidate(t) # k
  BY DEF InsertNew, Control, Called, AtLevel, Writing, Levels
<1>2. Settled
  BY <1>1, InCallSettled
<1>3. /\ next' = next /\ op' = op /\ node' = node /\ level' = level /\ pred' = pred
      /\ at'[t] = "link" /\ \A u \in Threads : u # t => at'[u] = at[u]
      /\ \A x \in Keys : x # k => height'[x] = height[x]
  BY <1>1 DEF InsertNew, Control, TypeOK
<1>4. \A u \in Threads : u # t =>
        at[u] = "idle" /\ at'[u] = "idle" /\ WalksBefore(u)' /\ FoundBefore(u)'
  BY <1>1, <1>3, OthersIdle
<1>5. k \notin OnLevel(0)
  BY <1>1, CandidateIsNode
<1>6. ~(height[k] > 0) /\ height[k] \in Int
  <2>1. OnLevel(0) = {x \in Keys : height[x] > 0}
    BY <1>1, <1>2, SettledLevels
  <2>2. height[k] \in 0..MaxHeight
    BY <1>1 DEF Control, TypeOK
  <2>3. QED
    BY <1>1, <1>5, <2>1, <2>2
<1>7. \A l \in Levels : OnLevel(l)' = OnLevel(l)
  <2>1. ASSUME NEW l \in Levels PROVE OnLevel(l)' = OnLevel(l)
    <3>1. OnLevel(l)' = Without(l, op[t].key)'
      BY <1>1, <1>3, <1>4, LinkingLevels DEF Levels
    <3>2. OnLevel(l) = {x \in Keys : height[x] > l}
      BY <1>2, SettledLevels
    <3>3. ~(height[k] > l)
      BY <1>6 DEF Levels
    <3>4. QED
      BY <1>3, <3>1, <3>2, <3>3 DEF Without
  <2>2. QED
    BY <2>1
<1>8. LevelsSorted'
  <2>1. \A l \in Levels : Row(l)' = Row(l)
    BY <1>3 DEF Row
  <2>2. QED
    BY <1>7, <2>1, SortedByLevel DEF Linkage
<1>9. WalksBefore(t)'
  BY <1>1, <1>3, <1>7 DEF Linkage, WalksBefore, Chain
<1>10. FoundBefore(t)'
  <2>1. FoundBefore(t) /\ Pending(t)' = Pending(t) /\ \A l \in Pending(t) : l \in Levels
    BY <1>1, <1>3 DEF Linkage, Pending
  <2>2. QED
    BY <1>3, <1>7, <2>1 DEF FoundBefore, Chain
<1>11. QED
  BY <1>1, <1>4, <1>7, <1>8, <1>9, <1>10 DEF Linkage, Elems

(* What the links of the other levels, and the walk, keep when only the    *)
(* level of the writer changes.                                            *)
LEMMA HigherLevelsKept ==
  ASSUME Control, Linkage, NEW t \in Threads,
         at[t] \in {"link", "remove", "unlink"}, at'[t] \in {"link", "unlink"},
         level[t] \in Levels, level'[t] = level[t] + 1,
         node'[t] = node[t], op'[t] = op[t], pred'[t] = pred[t],
         \A l \in Levels : l # level[t] =>
           OnLevel(l)' = OnLevel(l) /\ \A n \in Nodes : next'[n][l] = next[n][l],
         \A l \in Levels : \A n \in OnLevel(l) : n # op[t].key => n \in OnLevel(l)'
  PROVE  WalksBefore(t)' /\ FoundBefore(t)'
<1>1. /\ 0 \in Levels /\ op[t].key \in Keys /\ op[t].key \in Int
      /\ \A n \in Nodes : n \in Int
  <2>1. 0 \in Levels /\ op[t].key \in Keys
    BY DEF Levels, Control, Called
  <2>2. QED
    BY <2>1, NilIsLast, NodesAreNumbers
<1>2. node[t] \in Chain(0) /\ node[t] < op[t].key /\ node[t] \in Int
  BY <1>1 DEF Linkage, WalksBefore, Control, TypeOK
<1>3. WalksBefore(t)'
  BY <1>1, <1>2 DEF WalksBefore, Chain
<1>4. ASSUME NEW l \in Levels, l \in Pending(t)'
      PROVE  /\ pred'[t][l] \in Chain(l)' /\ pred'[t][l] < op'[t].key
             /\ next'[pred'[t][l]][l] >= op'[t].key
  <2>1. l \in Int /\ level[t] \in Int
    BY DEF Levels
  <2>2. l >= level[t] + 1
    BY <1>4 DEF Pending
  <2>3. l \in Pending(t) /\ l # level[t]
    BY <2>1, <2>2 DEF Pending
  <2>4. /\ pred[t][l] \in Chain(l) /\ pred[t][l] < op[t].key
        /\ next[pred[t][l]][l] >= op[t].key
    BY <2>3 DEF Linkage, FoundBefore
  <2>5. pred[t][l] \in Nodes
    BY DEF Control, TypeOK
  <2>6. QED
    BY <2>3, <2>4, <2>5 DEF Chain
<1>5. \A l \in Pending(t)' : l \in Levels
  BY DEF Pending
<1>6. QED
  BY <1>3, <1>4, <1>5 DEF FoundBefore

(* What a writer in a loop over the levels has before it: the node before  *)
(* the key, and on the levels it has linked, or not unlinked, the key.     *)
LEMMA InLoop ==
  ASSUME Control, Linkage, NEW t \in Threads, at[t] \in {"link", "remove", "unlink"},
         level[t] < height[op[t].key]
  PROVE  /\ op[t].key \in Keys /\ op[t].key \in Nodes /\ Writing(t) /\ next \in Links
         /\ level[t] \in Levels /\ level[t] \in Int /\ 0 <= level[t]
         /\ pred[t][level[t]] \in Nodes /\ pred[t][level[t]] \in Chain(level[t])
         /\ pred[t][level[t]] < op[t].key
         /\ next[pred[t][level[t]]][level[t]] >= op[t].key
         /\ next[pred[t][level[t]]][level[t]] \in Keys \cup {Nil}
<1>1. /\ op[t].key \in Keys /\ op[t].key \in Nodes /\ Writing(t) /\ next \in Links
      /\ level[t] \in Levels /\ pred[t][level[t]] \in Nodes
  BY WriterTypes DEF Nodes, Links, Control, TypeOK
<1>2. level[t] \in Int /\ 0 <= level[t]
  BY <1>1 DEF Levels
<1>3. level[t] \in Pending(t)
  BY <1>1, <1>2 DEF Pending
<1>4. QED
  BY <1>1, <1>2, <1>3 DEF Linkage, FoundBefore, Links

(* Link puts the node of the key on one level.                             *)
LEMMA LinkLevels ==
  ASSUME Control, Linkage, NEW t \in Threads, Link(t)
  PROVE  /\ \A l \in Levels : l # level[t] => OnLevel(l)' = OnLevel(l)
         /\ OnLevel(level[t]) = Without(level[t], op[t].key)
         /\ \A l \in Levels : l = level[t] => OnLevel(l)' = OnLevel(l) \cup {op[t].key}
<1> DEFINE k == op[t].key
<1>1. at[t] = "link" /\ level[t] < height[k]
  BY DEF Link
<1>2. k \in Keys /\ Writing(t) /\ level[t] \in Levels /\ level[t] \in Int
  BY <1>1, InLoop
<1>3. /\ height' = height /\ at' = at /\ op' = op /\ level'[t] = level[t] + 1
      /\ \A u \in Threads : u # t => at[u] = "idle"
  BY <1>2 DEF Link, Control, TypeOK, WriterIsAlone
<1>4. \A l \in Levels : /\ l \in Int
                        /\ OnLevel(l) = IF l >= level[t] THEN Without(l, k)
                                        ELSE {x \in Keys : height[x] > l}
                        /\ OnLevel(l)' = IF l >= level'[t] THEN Without(l, k)'
                                         ELSE {x \in Keys : height'[x] > l}
  BY <1>1, <1>3, LinkingLevels DEF Levels
<1>5. \A l \in Levels : Without(l, k)' = Without(l, k)
  BY <1>3 DEF Without
<1>6. ASSUME NEW l \in Levels, l # level[t] PROVE OnLevel(l)' = OnLevel(l)
  <2>1. l \in Int /\ (l >= level[t] <=> l >= level'[t])
    BY <1>2, <1>3, <1>4, <1>6
  <2>2. CASE l >= level[t]
    BY <2>1, <2>2, <1>4, <1>5
  <2>3. CASE ~(l >= level[t])
    BY <2>1, <2>3, <1>3, <1>4
  <2>4. QED
    BY <2>2, <2>3
<1>7. OnLevel(level[t]) = Without(level[t], k)
  BY <1>2, <1>4
<1>8. \A l \in Levels : l = level[t] => OnLevel(l)' = OnLevel(l) \cup {k}
  <2>1. \A l \in Levels : l = level[t] => OnLevel(l)' = {x \in Keys : height[x] > l}
    BY <1>2, <1>3, <1>4
  <2>2. QED
    BY <1>1, <1>2, <1>7, <2>1 DEF Without
<1>9. QED
  BY <1>6, <1>7, <1>8

(* Link keeps that level sorted, and the others as they are.               *)
LEMMA LinkKeepsLinkage ==
  ASSUME Control, Linkage, NEW t \in Threads, Link(t)
  PROVE  Linkage'
<1> DEFINE k == op[t].key
           l == level[t]
           p == pred[t][l]
<1>1. at[t] = "link" /\ l < height[k]
  BY DEF Link
<1>2. /\ k \in Keys /\ k \in Nodes /\ Writing(t) /\ next \in Links
      /\ l \in Levels /\ p \in Nodes /\ p \in Chain(l)
      /\ p < k /\ next[p][l] >= k /\ next[p][l] \in Keys \cup {Nil}
  BY <1>1, InLoop
<1>3. next' = [next EXCEPT ![k][l] = next[p][l], ![p][l] = k]
  BY DEF Link
<1> HIDE DEF k, l, p
<1>4. \A i \in Nodes, j \in Levels :
        next'[i][j] = IF i = p /\ j = l THEN k
                      ELSE IF i = k /\ j = l THEN next[p][l] ELSE next[i][j]
  <2>1. k \in Keys \cup {Nil}
    BY <1>2
  <2>2. \A i \in Nodes, j \in Levels :
          [next EXCEPT ![k][l] = next[p][l], ![p][l] = k][i][j]
            = IF i = p /\ j = l THEN k
              ELSE IF i = k /\ j = l THEN next[p][l] ELSE next[i][j]
    <3> DEFINE v == next[p][l]
    <3>1. v \in Keys \cup {Nil} /\ next \in Links /\ k \in Nodes /\ p \in Nodes /\ l \in Levels
      BY <1>2
    <3> HIDE DEF v
    <3>2. \A i \in Nodes, j \in Levels :
            [next EXCEPT ![k][l] = v, ![p][l] = k][i][j]
              = IF i = p /\ j = l THEN k
                ELSE IF i = k /\ j = l THEN v ELSE next[i][j]
      BY ONLY <3>1, <2>1 DEF Links
    <3>3. QED
      BY <3>2 DEF v
  <2>3. QED
    BY <1>3, <2>2
<1>5. /\ op' = op /\ node' = node /\ pred' = pred /\ at' = at /\ level'[t] = l + 1
  BY DEF Link, Control, TypeOK, l
<1>6. \A u \in Threads : u # t => WalksBefore(u)' /\ FoundBefore(u)'
  BY <1>2, <1>5, OthersIdle
<1>7. /\ \A j \in Levels : j # l => OnLevel(j)' = OnLevel(j)
      /\ OnLevel(l) = Without(l, k)
      /\ \A j \in Levels : j = l => OnLevel(j)' = OnLevel(j) \cup {k}
  BY LinkLevels DEF k, l
<1>8. WalksBefore(t)' /\ FoundBefore(t)'
  <2>1. \A j \in Levels : j # l =>
          OnLevel(j)' = OnLevel(j) /\ \A n \in Nodes : next'[n][j] = next[n][j]
    BY <1>4, <1>7
  <2>2. \A j \in Levels : \A n \in OnLevel(j) : n # k => n \in OnLevel(j)'
    BY <1>7
  <2>3. QED
    BY <1>1, <1>2, <1>5, <2>1, <2>2, HigherLevelsKept DEF k, l
<1>9. ASSUME NEW j \in Levels PROVE Sorted(OnLevel(j)', Row(j)')
  <2>1. Sorted(OnLevel(j), Row(j)) /\ OnLevel(j) \in SUBSET Keys
    BY SortedByLevel DEF Linkage, OnLevel
  <2>2. \A n \in OnLevel(j) \cup {Head} : n \in Nodes
    BY <2>1 DEF Nodes
  <2>3. CASE j # l
    <3>1. \A n \in OnLevel(j) \cup {Head} : Row(j)'[n] = Row(j)[n]
      BY <1>4, <2>2, <2>3 DEF Row
    <3>2. Sorted(OnLevel(j), Row(j)')
      BY <2>1, <3>1, SortedFrame
    <3>3. QED
      BY <1>7, <2>3, <3>2
  <2>4. CASE j = l
    <3>1. k \notin OnLevel(j) /\ p \in OnLevel(j) \cup {Head}
      BY <1>2, <1>7, <2>4 DEF Without, Chain
    <3>2. p # k /\ k # Head
      BY <1>2, NodesAreNumbers, NilIsLast
    <3>3. /\ Row(j)[p] >= k /\ Row(j)'[p] = k /\ Row(j)'[k] = Row(j)[p]
      BY <1>2, <1>4, <2>4, <3>2 DEF Row
    <3>4. \A n \in OnLevel(j) \cup {Head} : n # p => Row(j)'[n] = Row(j)[n]
      BY <1>4, <2>2, <3>1, <3>2 DEF Row
    <3>5. Sorted(OnLevel(j) \cup {k}, Row(j)')
      BY <1>2, <2>1, <3>1, <3>3, <3>4, SortedInsert
    <3>6. QED
      BY <1>7, <2>4, <3>5
  <2>5. QED
    BY <2>3, <2>4
<1>10. LevelsSorted'
  BY <1>9, SortedByLevel
<1>11. QED
  BY <1>6, <1>8, <1>10 DEF Linkage

(* Unlink takes the node of the key from one level.                        *)
LEMMA UnlinkLevels ==
  ASSUME Control, Linkage, NEW t \in Threads, Unlink(t)
  PROVE  /\ \A l \in Levels : l # level[t] => OnLevel(l)' = OnLevel(l)
         /\ op[t].key \in OnLevel(level[t])
         /\ \A l \in Levels : l = level[t] => OnLevel(l)' = OnLevel(l) \ {op[t].key}
<1> DEFINE k == op[t].key
<1>1. at[t] \in {"remove", "unlink"} /\ level[t] < height[k]
  BY DEF Unlink
<1>2. k \in Keys /\ Writing(t) /\ level[t] \in Levels /\ level[t] \in Int
  BY <1>1, InLoop
<1>3. /\ height' = height /\ at'[t] = "unlink" /\ op' = op /\ level'[t] = level[t] + 1
      /\ \A u \in Threads : u # t => at[u] = "idle" /\ at'[u] = "idle"
  BY <1>2 DEF Unlink, Control, TypeOK, WriterIsAlone
<1>4. ASSUME NEW l \in Levels
      PROVE  /\ l \in Int
             /\ OnLevel(l) = IF l < level[t] THEN Without(l, k) ELSE {x \in Keys : height[x] > l}
             /\ OnLevel(l)' = IF l < level[t] + 1 THEN Without(l, k)
                              ELSE {x \in Keys : height[x] > l}
  <2>1. l \in Int /\ 0 <= l
    BY DEF Levels
  <2>2. OnLevel(l)' = IF l < level'[t] THEN Without(l, k)'
                      ELSE {x \in Keys : height'[x] > l}
    BY <1>3, UnlinkingLevels
  <2>3. Without(l, k)' = Without(l, k)
    BY <1>3 DEF Without
  <2>4. CASE at[t] = "unlink"
    BY <1>3, <2>1, <2>2, <2>3, <2>4, UnlinkingLevels
  <2>5. CASE at[t] = "remove"
    <3>1. level[t] = 0
      BY <2>5 DEF Control, AtLevel
    <3>2. OnLevel(l) = {x \in Keys : height[x] > l}
      BY <2>5, InCallSettled, SettledLevels
    <3>3. QED
      BY <1>3, <2>1, <2>2, <2>3, <3>1, <3>2
  <2>6. QED
    BY <1>1, <2>4, <2>5
<1>5. ASSUME NEW l \in Levels, l # level[t] PROVE OnLevel(l)' = OnLevel(l)
  <2>1. l \in Int /\ (l < level[t] <=> l < level[t] + 1)
    BY <1>2, <1>4, <1>5
  <2>2. CASE l < level[t]
    BY <2>1, <2>2, <1>4
  <2>3. CASE ~(l < level[t])
    BY <2>1, <2>3, <1>4
  <2>4. QED
    BY <2>2, <2>3
<1>6. OnLevel(level[t]) = {x \in Keys : height[x] > level[t]}
  BY <1>2, <1>4
<1>7. \A l \in Levels : l = level[t] => OnLevel(l)' = OnLevel(l) \ {k}
  <2>1. \A l \in Levels : l = level[t] => OnLevel(l)' = Without(l, k)
    BY <1>2, <1>4
  <2>2. QED
    BY <1>1, <1>2, <1>6, <2>1 DEF Without
<1>8. QED
  BY <1>1, <1>2, <1>5, <1>6, <1>7

(* Unlink keeps that level sorted, and the others as they are.             *)
LEMMA UnlinkKeepsLinkage ==
  ASSUME Control, Linkage, NEW t \in Threads, Unlink(t)
  PROVE  Linkage'
<1> DEFINE k == op[t].key
           l == level[t]
           p == pred[t][l]
<1>1. at[t] \in {"remove", "unlink"} /\ l < height[k]
  BY DEF Unlink
<1>2. /\ k \in Keys /\ k \in Nodes /\ Writing(t) /\ next \in Links
      /\ l \in Levels /\ p \in Nodes /\ p \in Chain(l)
      /\ p < k /\ next[p][l] >= k
  BY <1>1, InLoop
<1>3. next' = [next EXCEPT ![p][l] = next[k][l]]
  BY DEF Unlink
<1>4. /\ op' = op /\ node' = node /\ pred' = pred /\ at'[t] = "unlink" /\ level'[t] = l + 1
      /\ \A u \in Threads : u # t => at'[u] = at[u]
  BY DEF Unlink, Control, TypeOK
<1>5. \A u \in Threads : u # t => WalksBefore(u)' /\ FoundBefore(u)'
  BY <1>2, <1>4, OthersIdle
<1>6. /\ \A j \in Levels : j # l => OnLevel(j)' = OnLevel(j)
      /\ k \in OnLevel(l)
      /\ \A j \in Levels : j = l => OnLevel(j)' = OnLevel(j) \ {k}
  BY UnlinkLevels
<1>7. \A i \in Nodes, j \in Levels :
        next'[i][j] = IF i = p /\ j = l THEN next[k][l] ELSE next[i][j]
  <2> HIDE DEF k, l, p
  <2>1. next[k][l] \in Keys \cup {Nil}
    BY <1>2 DEF Links
  <2>2. QED
    BY ONLY <1>2, <1>3, <2>1 DEF Links
<1>8. WalksBefore(t)' /\ FoundBefore(t)'
  <2>1. \A j \in Levels : j # l =>
          OnLevel(j)' = OnLevel(j) /\ \A n \in Nodes : next'[n][j] = next[n][j]
    BY <1>6, <1>7
  <2>2. \A j \in Levels : \A n \in OnLevel(j) : n # k => n \in OnLevel(j)'
    BY <1>6
  <2>3. QED
    BY <1>1, <1>2, <1>4, <2>1, <2>2, HigherLevelsKept
<1> HIDE DEF k, l, p
<1>9. ASSUME NEW j \in Levels PROVE Sorted(OnLevel(j)', Row(j)')
  <2>1. Sorted(OnLevel(j), Row(j)) /\ OnLevel(j) \in SUBSET Keys
    BY SortedByLevel DEF Linkage, OnLevel
  <2>2. \A n \in OnLevel(j) \cup {Head} : n \in Nodes
    BY <2>1 DEF Nodes
  <2>3. CASE j # l
    <3>1. \A n \in OnLevel(j) \cup {Head} : Row(j)'[n] = Row(j)[n]
      BY <1>7, <2>2, <2>3 DEF Row
    <3>2. Sorted(OnLevel(j), Row(j)')
      BY <2>1, <3>1, SortedFrame
    <3>3. QED
      BY <1>6, <2>3, <3>2
  <2>4. CASE j = l
    <3>1. k \in OnLevel(j) /\ p \in OnLevel(j) \cup {Head}
      BY <1>2, <1>6, <2>4 DEF Chain
    <3>2. Row(j)[p] >= k /\ Row(j)'[p] = Row(j)[k]
      BY <1>2, <1>7, <2>4 DEF Row
    <3>3. \A n \in OnLevel(j) \cup {Head} : n # p => Row(j)'[n] = Row(j)[n]
      BY <1>7, <2>2 DEF Row
    <3>4. Sorted(OnLevel(j) \ {k}, Row(j)')
      BY <1>2, <2>1, <3>1, <3>2, <3>3, SortedRemove
    <3>5. QED
      BY <1>6, <2>4, <3>4
  <2>5. QED
    BY <2>3, <2>4
<1>10. LevelsSorted'
  BY <1>9, SortedByLevel
<1>11. QED
  BY <1>5, <1>8, <1>10 DEF Linkage

(* The loop of skiplist_node_insert__fact ends: the node is on every level *)
(* of its height.                                                          *)
LEMMA LinkedKeepsLinkage ==
  ASSUME Control, Linkage, NEW t \in Threads, Linked(t)
  PROVE  Linkage' /\ Elems' = Elems
<1>1. /\ at[t] = "link" /\ op[t].key \in Keys /\ Writing(t) /\ Return(t)
      /\ level[t] = height[op[t].key]
  BY DEF Linked, Control, Called, Writing
<1>2. /\ next' = next /\ height' = height /\ at'[t] = "idle" /\ node'[t] = Head
      /\ \A u \in Threads : u # t => at'[u] = at[u] /\ node'[u] = node[u]
      /\ \A u \in Threads : u # t => at[u] = "idle"
  BY <1>1 DEF Linked, Return, Control, TypeOK, WriterIsAlone
<1>3. \A u \in Threads : WalksBefore(u)' /\ FoundBefore(u)'
  BY <1>1, <1>2, OthersIdle, IdleIsPlaced
<1>4. Settled'
  BY <1>2 DEF Settled
<1>5. ASSUME NEW l \in Levels PROVE OnLevel(l)' = OnLevel(l)
  <2>1. l \in Int /\ level[t] \in Int
    BY DEF Levels, Control, TypeOK
  <2>2. OnLevel(l)' = {x \in Keys : height[x] > l}
    BY <1>2, <1>4, SettledLevels
  <2>3. OnLevel(l) = IF l >= level[t] THEN Without(l, op[t].key)
                     ELSE {x \in Keys : height[x] > l}
    BY <1>1, <1>2, LinkingLevels
  <2>4. CASE l >= level[t]
    <3>1. ~(height[op[t].key] > l)
      BY <1>1, <2>1, <2>4
    <3>2. QED
      BY <2>2, <2>3, <2>4, <3>1 DEF Without
  <2>5. QED
    BY <2>2, <2>3, <2>4
<1>6. LevelsSorted'
  <2>1. \A l \in Levels : Row(l)' = Row(l)
    BY <1>2 DEF Row
  <2>2. QED
    BY <1>5, <2>1, SortedByLevel DEF Linkage
<1>7. QED
  BY <1>3, <1>5, <1>6 DEF Linkage, Elems, Levels

(* The loop of skiplist_remove__fact ends: the node is on no level, so     *)
(* that no link leads to it when it is freed.                              *)
LEMMA UnlinkedKeepsLinkage ==
  ASSUME Control, Linkage, NEW t \in Threads, Unlinked(t)
  PROVE  Linkage' /\ Elems' = Elems
<1> DEFINE k == op[t].key
<1>1. /\ at[t] = "unlink" /\ k \in Keys /\ Writing(t) /\ Return(t)
      /\ level[t] = height[k] /\ next' = [next EXCEPT ![k] = [l \in Levels |-> Nil]]
  BY DEF Unlinked, Control, Called, Writing
<1>2. /\ at'[t] = "idle" /\ node'[t] = Head
      /\ height'[k] = 0 /\ \A x \in Keys : x # k => height'[x] = height[x]
      /\ \A u \in Threads : u # t => at'[u] = at[u] /\ node'[u] = node[u]
      /\ \A u \in Threads : u # t => at[u] = "idle"
  BY <1>1 DEF Unlinked, Return, Control, TypeOK, WriterIsAlone
<1>3. \A u \in Threads : WalksBefore(u)' /\ FoundBefore(u)'
  BY <1>1, <1>2, OthersIdle, IdleIsPlaced
<1>4. Settled'
  BY <1>2 DEF Settled
<1>5. ASSUME NEW l \in Levels PROVE OnLevel(l)' = OnLevel(l) /\ k \notin OnLevel(l)
  <2>1. l \in Int /\ 0 <= l /\ level[t] \in Int
    BY DEF Levels, Control, TypeOK
  <2>2. OnLevel(l)' = {x \in Keys : height'[x] > l}
    BY <1>4, SettledLevels
  <2>3. OnLevel(l) = IF l < level[t] THEN Without(l, k) ELSE {x \in Keys : height[x] > l}
    BY <1>1, <1>2, UnlinkingLevels
  <2>4. OnLevel(l) = Without(l, k)
    <3>1. CASE ~(l < level[t])
      <4>1. ~(height[k] > l)
        BY <1>1, <2>1, <3>1
      <4>2. QED
        BY <2>3, <3>1, <4>1 DEF Without
    <3>2. QED
      BY <2>3, <3>1
  <2>5. ~(height'[k] > l)
    BY <1>2, <2>1
  <2>6. k \notin OnLevel(l)
    BY <2>4 DEF Without
  <2>7. ASSUME NEW x \in Keys PROVE x \in OnLevel(l)' <=> x \in OnLevel(l)
    BY <1>2, <2>2, <2>4, <2>5 DEF Without
  <2>8. OnLevel(l)' = OnLevel(l)
    BY <2>2, <2>4, <2>7 DEF Without
  <2>9. QED
    BY <2>6, <2>8
<1>6. LevelsSorted'
  <2>1. ASSUME NEW l \in Levels PROVE Sorted(OnLevel(l)', Row(l)')
    <3>1. Sorted(OnLevel(l), Row(l)) /\ OnLevel(l) \in SUBSET Keys /\ k \notin OnLevel(l)
      BY <1>5, SortedByLevel DEF Linkage, OnLevel
    <3>2. k # Head /\ \A n \in OnLevel(l) \cup {Head} : n \in Nodes
      BY <1>1, <3>1, NilIsLast DEF Nodes
    <3>3. \A n \in OnLevel(l) \cup {Head} : n \in Nodes /\ next'[n] = next[n]
      BY <1>1, <3>1, <3>2 DEF Control, TypeOK
    <3>4. \A n \in OnLevel(l) \cup {Head} : Row(l)'[n] = Row(l)[n]
      BY <3>3 DEF Row
    <3>5. Sorted(OnLevel(l), Row(l)')
      BY <3>1, <3>4, SortedFrame
    <3>6. QED
      BY <1>5, <3>5
  <2>2. QED
    BY <2>1, SortedByLevel
<1>7. QED
  BY <1>3, <1>5, <1>6 DEF Linkage, Elems, Levels

(* An empty index is sorted.                                               *)
LEMMA InitLinkage == Init => Linkage
<1> SUFFICES ASSUME Init PROVE Linkage
  OBVIOUS
<1>1. \A l \in Levels : OnLevel(l) = {}
  BY DEF Init, OnLevel, Levels
<1>2. LevelsSorted
  <2>1. \A l \in Levels : next[Head][l] = Nil
    BY DEF Init, Nodes
  <2>2. Head < Nil
    BY NilAssumption, NilIsLast
  <2>3. QED
    BY <1>1, <2>1, <2>2 DEF LevelsSorted
<1>3. \A t \in Threads : WalksBefore(t) /\ FoundBefore(t)
  BY IdleIsPlaced DEF Init
<1>4. QED
  BY <1>2, <1>3 DEF Linkage

(* Every step keeps the links as they should be.                           *)
LEMMA NextLinkage == Control /\ Linkage /\ [Next]_vars => Linkage'
<1> SUFFICES ASSUME Control, Linkage, [Next]_vars PROVE Linkage'
  OBVIOUS
<1>1. WriteLockFree => ReadLockFree
  BY DEF WriteLockFree, ReadLockFree
<1>2. ASSUME NEW t \in Threads, NEW k \in Keys, NEW h \in 1..MaxHeight, Insert(t, k, h)
      PROVE  Linkage'
  BY <1>1, <1>2, CallKeepsLinkage DEF Insert
<1>3. ASSUME NEW t \in Threads, NEW k \in Keys, Remove(t, k)
      PROVE  Linkage'
  BY <1>1, <1>3, CallKeepsLinkage DEF Remove
<1>4. ASSUME NEW t \in Threads, NEW k \in Keys, NEW e \in Keys,
             NEW matching \in {Keys, Typed}, Scan(t, k, e, matching)
      PROVE  Linkage'
  <2>1. e \in Nat /\ matching \in SUBSET Keys
    OBVIOUS
  <2>2. QED
    BY <1>4, <2>1, CallKeepsLinkage DEF Scan
<1>5. CASE UNCHANGED vars
  BY <1>5 DEF vars, list, Linkage, LevelsSorted, WalksBefore, FoundBefore, Pending, Chain,
     OnLevel, Loose
<1>6. QED
  BY <1>2, <1>3, <1>4, <1>5, StepKeepsLinkage, DescendKeepsLinkage, EndsKeepLinkage,
     InsertNewKeepsLinkage, LinkKeepsLinkage, LinkedKeepsLinkage, UnlinkKeepsLinkage,
     UnlinkedKeepsLinkage, CursorKeepsLinkage
     DEF Next

(* The invariant of the index.                                             *)
THEOREM ListInvariant == Spec => []ListInv
<1>1. Init => ListInv
  BY InitControl, InitLinkage DEF ListInv
<1>2. ListInv /\ [Next]_vars => ListInv'
  BY NextControl, NextLinkage DEF ListInv
<1>3. QED
  BY <1>1, <1>2, PTL DEF Spec

(* Every level of the index is sorted and complete after every write of a  *)
(* link, also between two levels of a loop.                                *)
THEOREM LevelsStaySorted == Spec => []LevelsSorted
<1>1. ListInv => LevelsSorted
  BY DEF ListInv, Linkage
<1>2. QED
  BY <1>1, ListInvariant, PTL

(* No call and no cursor stands on a node that skiplist_remove__fact has   *)
(* freed.                                                                  *)
THEOREM NoNodeUsedAfterFree == Spec => []NoFreedAccess
<1>1. ListInv => NoFreedAccess
  BY DEF ListInv, Linkage, NoFreedAccess, WalksBefore, Chain, OnLevel
<1>2. QED
  BY <1>1, ListInvariant, PTL

(***************************************************************************)
(* The index implements an ordered set with scans                          *)
(***************************************************************************)
(* The state of OrderedSet, as SkipList maps it. *)
LeftNow == [t \in Threads |-> Left(t)]
OpenNow == [t \in Threads |-> at[t] \in {"scan", "ended"}]

Abstract == <<Elems, LeftNow, OpenNow, out>>

(* A step that changes neither the set nor what the others do changes the  *)
(* scan of its thread alone.                                               *)
LEMMA OneScan ==
  ASSUME NEW t \in Threads, Elems' = Elems,
         \A u \in Threads : u # t => at'[u] = at[u] /\ op'[u] = op[u] /\ node'[u] = node[u]
  PROVE  /\ LeftNow' = [LeftNow EXCEPT ![t] = Left(t)']
         /\ OpenNow' = [OpenNow EXCEPT ![t] = (at'[t] \in {"scan", "ended"})]
<1>1. \A u \in Threads : u # t => Left(u)' = Left(u)
  BY DEF Left
<1>2. \A u \in Threads : u # t =>
        (at'[u] \in {"scan", "ended"} <=> at[u] \in {"scan", "ended"})
  OBVIOUS
<1>3. LeftNow' = [LeftNow EXCEPT ![t] = Left(t)']
  BY <1>1 DEF LeftNow
<1>4. OpenNow' = [OpenNow EXCEPT ![t] = (at'[t] \in {"scan", "ended"})]
  BY <1>2 DEF OpenNow
<1>5. QED
  BY <1>3, <1>4

(* One of a thread that does not scan is not seen.                         *)
LEMMA NoScanNoStep ==
  ASSUME NEW t \in Threads, Elems' = Elems, out' = out,
         \A u \in Threads : u # t => at'[u] = at[u] /\ op'[u] = op[u] /\ node'[u] = node[u],
         at[t] \notin {"scan", "ended"}, at'[t] \notin {"scan", "ended"}
  PROVE  UNCHANGED Abstract
<1>1. Left(t)' = Left(t)
  BY DEF Left
<1>2. LeftNow' = LeftNow
  BY <1>1, OneScan DEF LeftNow
<1>3. OpenNow' = OpenNow
  BY OneScan DEF OpenNow
<1>4. QED
  BY <1>2, <1>3 DEF Abstract

(* The beginning of every call, and the walk of a writer, are not seen.    *)
LEMMA CallNotSeen ==
  ASSUME Control, Linkage, NEW t \in Threads,
         NEW kind \in {"insert", "remove", "scan"}, NEW key \in Keys,
         NEW arg \in Nat, NEW matching \in SUBSET Keys,
         Call(t, kind, key, arg, matching), ReadLockFree
  PROVE  UNCHANGED Abstract
<1>1. Elems' = Elems
  BY CallKeepsLinkage
<1>2. /\ out' = out /\ at[t] = "idle" /\ at'[t] = "walk"
      /\ \A u \in Threads : u # t => at'[u] = at[u] /\ op'[u] = op[u] /\ node'[u] = node[u]
  BY DEF Call, Control, TypeOK
<1>3. QED
  BY <1>1, <1>2, NoScanNoStep

(* Nor is a step of the walk.                                              *)
LEMMA StepNotSeen ==
  ASSUME Control, Linkage, NEW t \in Threads, Step(t)
  PROVE  UNCHANGED Abstract
<1>1. Elems' = Elems
  BY StepKeepsLinkage
<1>2. /\ out' = out /\ at' = at /\ op' = op /\ at[t] = "walk"
      /\ \A u \in Threads : u # t => node'[u] = node[u]
  BY DEF Step, Control, TypeOK
<1>3. QED
  BY <1>1, <1>2, NoScanNoStep

(* Nor are a new node before it is linked, and the return of a call that   *)
(* does not scan.                                                          *)
LEMMA WriterNotSeen ==
  ASSUME Control, Linkage, NEW t \in Threads,
         \/ InsertFound(t) \/ RemoveMissing(t)
         \/ InsertNew(t) \/ Linked(t) \/ Unlinked(t)
  PROVE  UNCHANGED Abstract
<1>1. Elems' = Elems
  BY EndsKeepLinkage, InsertNewKeepsLinkage, LinkedKeepsLinkage, UnlinkedKeepsLinkage
<1>2. at[t] \in {"insert", "remove", "link", "unlink"}
  BY DEF InsertFound, RemoveMissing, InsertNew, Linked, Unlinked
<1>3. out[t] = 0
  BY <1>2 DEF Control, Called
<1>4. out' = out
  BY <1>3 DEF InsertFound, RemoveMissing, InsertNew, Linked, Unlinked, Return, Control, TypeOK
<1>5. /\ at'[t] \in {"idle", "link"}
      /\ \A u \in Threads : u # t => at'[u] = at[u] /\ op'[u] = op[u] /\ node'[u] = node[u]
  BY DEF InsertFound, RemoveMissing, InsertNew, Linked, Unlinked, Return, Control, TypeOK
<1>6. QED
  BY <1>1, <1>2, <1>4, <1>5, NoScanNoStep

(* While one thread writes no scan is open.                                *)
LEMMA NoneOpen ==
  ASSUME Control, NEW t \in Threads, Writing(t),
         at[t] \notin {"scan", "ended"}, at'[t] \notin {"scan", "ended"},
         \A u \in Threads : u # t => at'[u] = at[u]
  PROVE  /\ \A u \in Threads : ~OpenNow[u]
         /\ LeftNow' = LeftNow /\ OpenNow' = OpenNow
<1>1. \A u \in Threads : at[u] \notin {"scan", "ended"} /\ at'[u] \notin {"scan", "ended"}
  BY DEF Control, WriterIsAlone
<1>2. \A u \in Threads : Left(u)' = {} /\ Left(u) = {}
  BY <1>1 DEF Left
<1>3. \A u \in Threads : ~OpenNow[u]
  BY <1>1 DEF OpenNow
<1>4. LeftNow' = LeftNow
  BY <1>2 DEF LeftNow
<1>5. OpenNow' = OpenNow
  BY <1>1 DEF OpenNow
<1>6. QED
  BY <1>3, <1>4, <1>5

(* The fact enters the set when it is linked on the lowest level, and      *)
(* leaves it when it is unlinked there.                                    *)
LEMMA LinkChanges ==
  ASSUME Control, Linkage, NEW t \in Threads, Link(t) \/ Unlink(t)
  PROVE  Ordered!Next \/ UNCHANGED Abstract
<1> DEFINE k == op[t].key
<1>1. at[t] \in {"link", "remove", "unlink"} /\ level[t] < height[k]
  BY DEF Link, Unlink
<1>2. k \in Keys /\ Writing(t) /\ 0 \in Levels
  BY <1>1, InLoop DEF Levels
<1>3. /\ at'[t] \in {"link", "unlink"} /\ out' = out
      /\ \A u \in Threads : u # t => at'[u] = at[u]
  BY DEF Link, Unlink, Control, TypeOK
<1>4. /\ \A u \in Threads : ~OpenNow[u]
      /\ LeftNow' = LeftNow /\ OpenNow' = OpenNow
  BY <1>1, <1>2, <1>3, NoneOpen
<1>5. Elems' = Elems \/ Elems' = Elems \cup {k} \/ Elems' = Elems \ {k}
  <2>1. CASE Link(t)
    BY <1>2, <2>1, LinkLevels DEF Elems
  <2>2. CASE Unlink(t)
    BY <1>2, <2>2, UnlinkLevels DEF Elems
  <2>3. QED
    BY <2>1, <2>2
<1>6. CASE Elems' = Elems
  BY <1>3, <1>4, <1>6 DEF Abstract
<1>7. CASE Elems' = Elems \cup {k}
  <2>1. Ordered!Change(Elems \cup {k})
    BY <1>3, <1>4, <1>7 DEF Ordered!Change, OpenNow, LeftNow
  <2>2. QED
    BY <1>2, <2>1 DEF Ordered!Next
<1>8. CASE Elems' = Elems \ {k}
  <2>1. Ordered!Change(Elems \ {k})
    BY <1>3, <1>4, <1>8 DEF Ordered!Change, OpenNow, LeftNow
  <2>2. QED
    BY <1>2, <2>1 DEF Ordered!Next
<1>9. QED
  BY <1>5, <1>6, <1>7, <1>8

(* A scan begins when its walk ends, at the last node before its range.    *)
LEMMA DescendBegins ==
  ASSUME Control, Linkage, NEW t \in Threads, Descend(t)
  PROVE  Ordered!Next \/ UNCHANGED Abstract
<1> DEFINE s == op[t].key
           e == op[t].arg
           matching == op[t].matching
<1>1. /\ at[t] = "walk" /\ s \in Keys /\ out' = out /\ op' = op /\ node' = node
      /\ next' = next /\ op[t].kind \in {"insert", "remove", "scan"}
      /\ \A u \in Threads : u # t => at'[u] = at[u]
      /\ at'[t] = "walk" \/ (level[t] = 0 /\ at'[t] = op[t].kind)
  <2>1. level[t] \in Int /\ 0 <= level[t]
    BY DEF Descend, Control, AtLevel, Levels
  <2>2. level[t] > 0 \/ level[t] = 0
    BY <2>1
  <2>3. QED
    BY <2>2 DEF Descend, list, Control, TypeOK, Called
<1>2. Elems' = Elems
  BY DescendKeepsLinkage
<1>3. CASE at'[t] # "scan"
  <2>1. at'[t] \notin {"scan", "ended"}
    BY <1>1, <1>3
  <2>2. QED
    BY <1>1, <1>2, <2>1, NoScanNoStep
<1>4. CASE at'[t] = "scan"
  <2>1. level[t] = 0 /\ op[t].kind = "scan" /\ e \in Keys /\ matching \in {Keys, Typed}
    BY <1>1, <1>4 DEF Control, Called
  <2>2. node[t] \in Elems \cup {Head} /\ node[t] < s /\ next[node[t]][0] >= s
    BY <1>1, <2>1 DEF Linkage, WalksBefore, Chain, Elems, Descend, Following
  <2>3. 0 \in Levels /\ \A x \in Elems : x \in Keys
    BY DEF Levels, Elems, OnLevel
  <2>4. \A x \in Elems : x > node[t] => next[node[t]][0] <= x
    BY <2>2, <2>3 DEF Linkage, LevelsSorted, Elems
  <2>5. s \in Int /\ node[t] \in Int /\ next[node[t]][0] \in Int /\ \A x \in Elems : x \in Int
    <3>1. next \in [Nodes -> [Levels -> Keys \cup {Nil}]] /\ node[t] \in Nodes
      BY DEF Control, TypeOK
    <3>2. next[node[t]][0] \in Keys \cup {Nil}
      BY <2>3, <3>1
    <3>3. next[node[t]][0] \in Int
      BY <3>2, NilIsLast
    <3>4. QED
      BY <1>1, <2>3, <3>1, <3>3, NilIsLast, NodesAreNumbers
  <2>6. \A x \in Elems : node[t] < x <=> s <= x
    BY <2>2, <2>4, <2>5
  <2>7. Left(t)' = {x \in Elems \cap matching : s <= x /\ x <= e}
    <3>1. Left(t)' = {x \in Elems \cap matching : node[t] < x /\ x <= e}
      BY <1>1, <1>2, <1>4 DEF Left
    <3>2. QED
      BY <2>6, <3>1
  <2>8. /\ LeftNow' = [LeftNow EXCEPT ![t] = {x \in Elems \cap matching : s <= x /\ x <= e}]
        /\ OpenNow' = [OpenNow EXCEPT ![t] = TRUE]
    <3>1. /\ LeftNow' = [LeftNow EXCEPT ![t] = Left(t)']
          /\ OpenNow' = [OpenNow EXCEPT ![t] = (at'[t] \in {"scan", "ended"})]
      BY <1>1, <1>2, OneScan
    <3>2. (at'[t] \in {"scan", "ended"}) = TRUE
      BY <1>4
    <3>3. QED
      BY <2>7, <3>1, <3>2
  <2>9. ~OpenNow[t]
    BY <1>1 DEF OpenNow
  <2>10. PICK a \in Keys, b \in Keys, types \in {Keys, Typed} :
           a = s /\ b = e /\ types = matching
    BY <1>1, <2>1
  <2>11. Ordered!Begin(t, a, b, types)
    BY <1>1, <1>2, <2>8, <2>9, <2>10 DEF Ordered!Begin, LeftNow, OpenNow
  <2>12. QED
    BY <2>11 DEF Ordered!Next
<1>5. QED
  BY <1>3, <1>4

(* What a cursor that stands in the list has before it.                    *)
LEMMA SuccessorIsNext ==
  ASSUME Control, Linkage, NEW t \in Threads, at[t] = "scan"
  PROVE  /\ Successor(t) \in Elems \cup {Nil} /\ node[t] < Successor(t)
         /\ \A x \in Elems : node[t] < x => Successor(t) <= x
         /\ Successor(t) \in Int /\ node[t] \in Int /\ op[t].arg \in Int /\ op[t].arg < Nil
         /\ \A x \in Elems : x \in Int /\ x \in Keys
<1>1. 0 \in Levels /\ node[t] \in Elems \cup {Head} /\ node[t] \in Nodes /\ op[t].arg \in Keys
  BY DEF Levels, Linkage, WalksBefore, Chain, Elems, Control, TypeOK, Called
<1>2. \A x \in Elems : x \in Keys
  BY DEF Elems, OnLevel
<1>3. op[t].arg \in Int /\ op[t].arg < Nil /\ Nil \in Int /\ \A x \in Elems : x \in Int
  BY <1>1, <1>2, NilIsLast
<1>4. /\ Successor(t) \in Elems \cup {Nil} /\ node[t] < Successor(t)
      /\ \A x \in Elems : x > node[t] => Successor(t) <= x
  BY <1>1 DEF Linkage, LevelsSorted, Elems, Successor
<1>5. node[t] \in Int
  BY <1>1, NodesAreNumbers
<1>6. QED
  BY <1>1, <1>2, <1>3, <1>4, <1>5

(* The cursor answers with the least fact left, or skips one whose tags    *)
(* have other types.                                                       *)
LEMMA AdvanceAnswers ==
  ASSUME Control, Linkage, NEW t \in Threads, Advance(t)
  PROVE  Ordered!Next \/ UNCHANGED Abstract
<1> DEFINE k == Successor(t)
<1>1. /\ at[t] = "scan" /\ k <= op[t].arg /\ at' = at /\ op' = op
      /\ node'[t] = k /\ \A u \in Threads : u # t => node'[u] = node[u]
      /\ out' = IF k \in op[t].matching THEN [out EXCEPT ![t] = k] ELSE out
  BY DEF Advance, Control, TypeOK
<1>2. Elems' = Elems
  BY CursorKeepsLinkage
<1>3. /\ k \in Elems \cup {Nil} /\ node[t] < k
      /\ \A x \in Elems : node[t] < x => k <= x
      /\ k \in Int /\ node[t] \in Int /\ op[t].arg \in Int /\ op[t].arg < Nil
      /\ \A x \in Elems : x \in Int /\ x \in Keys
  BY <1>1, SuccessorIsNext
<1>4. k \in Elems /\ k \in Keys
  <2>1. k # Nil
    BY <1>1, <1>3
  <2>2. QED
    BY <1>3, <2>1
<1>5. Left(t) = {x \in Elems \cap op[t].matching : node[t] < x /\ x <= op[t].arg}
  BY <1>1 DEF Left
<1>6. Left(t)' = {x \in Elems \cap op[t].matching : k < x /\ x <= op[t].arg}
  BY <1>1, <1>2 DEF Left
<1> HIDE DEF k
<1>7. \A x \in Elems : k < x <=> node[t] < x /\ x # k
  BY <1>3, <1>4
<1>8. Left(t)' = Left(t) \ {k}
  BY <1>5, <1>6, <1>7
<1>9. /\ LeftNow' = [LeftNow EXCEPT ![t] = Left(t) \ {k}]
      /\ OpenNow' = OpenNow /\ LeftNow[t] = Left(t) /\ LeftNow \in [Threads -> SUBSET Elems]
  <2>1. LeftNow' = [LeftNow EXCEPT ![t] = Left(t)']
    BY <1>1, <1>2, OneScan
  <2>2. OpenNow' = OpenNow
    BY <1>1 DEF OpenNow
  <2>3. LeftNow[t] = Left(t) /\ LeftNow \in [Threads -> SUBSET Elems]
    BY DEF LeftNow, Left
  <2>4. QED
    BY <1>8, <2>1, <2>2, <2>3
<1>10. CASE k \in op[t].matching
  <2>1. k \in LeftNow[t] /\ \A x \in LeftNow[t] : k <= x
    BY <1>1, <1>3, <1>4, <1>5, <1>9, <1>10
  <2>2. LeftNow' = [LeftNow EXCEPT ![t] = LeftNow[t] \ {k}]
    BY <1>9
  <2>3. Ordered!Answer(t, k)
    BY <1>1, <1>2, <1>9, <1>10, <2>1, <2>2 DEF Ordered!Answer, LeftNow, OpenNow
  <2>4. QED
    BY <1>4, <2>3 DEF Ordered!Next
<1>11. CASE k \notin op[t].matching
  <2>1. k \notin Left(t)
    BY <1>5, <1>11
  <2>2. LeftNow' = LeftNow
    BY <1>9, <2>1 DEF LeftNow
  <2>3. QED
    BY <1>1, <1>2, <1>9, <1>11, <2>2 DEF Abstract
<1>12. QED
  BY <1>10, <1>11

(* It answers NULL when none is left.                                      *)
LEMMA ExhaustedAnswers ==
  ASSUME Control, Linkage, NEW t \in Threads, Exhausted(t)
  PROVE  Ordered!Next \/ UNCHANGED Abstract
<1>1. /\ at[t] = "scan" /\ Successor(t) > op[t].arg /\ at'[t] = "ended" /\ op' = op
      /\ \A u \in Threads : u # t => at'[u] = at[u] /\ node'[u] = node[u]
      /\ out' = [out EXCEPT ![t] = Nil]
  BY DEF Exhausted, Control, TypeOK
<1>2. Elems' = Elems
  BY CursorKeepsLinkage
<1>3. Left(t) = {}
  <2>1. /\ \A x \in Elems : node[t] < x => Successor(t) <= x
        /\ Successor(t) \in Int /\ op[t].arg \in Int /\ \A x \in Elems : x \in Int
    BY <1>1, SuccessorIsNext
  <2>2. \A x \in Elems : ~(node[t] < x /\ x <= op[t].arg)
    BY <1>1, <2>1
  <2>3. QED
    BY <2>2 DEF Left
<1>4. LeftNow' = LeftNow /\ LeftNow[t] = {} /\ OpenNow' = OpenNow /\ OpenNow[t]
  <2>1. Left(t)' = {}
    BY <1>1 DEF Left
  <2>2. LeftNow' = [LeftNow EXCEPT ![t] = Left(t)'] /\ LeftNow[t] = Left(t)
    BY <1>1, <1>2, OneScan DEF LeftNow
  <2>3. LeftNow' = LeftNow
    BY <1>3, <2>1, <2>2 DEF LeftNow
  <2>4. OpenNow' = OpenNow /\ OpenNow[t]
    <3>1. \A u \in Threads : (at'[u] \in {"scan", "ended"}) = (at[u] \in {"scan", "ended"})
      BY <1>1
    <3>2. QED
      BY <1>1, <3>1 DEF OpenNow
  <2>5. QED
    BY <1>3, <2>2, <2>3, <2>4
<1>5. Ordered!Exhausted(t)
  BY <1>1, <1>2, <1>4 DEF Ordered!Exhausted, LeftNow, OpenNow
<1>6. QED
  BY <1>5 DEF Ordered!Next

(* The end of a scan.                                                      *)
LEMMA StopEnds ==
  ASSUME Control, Linkage, NEW t \in Threads, Stop(t)
  PROVE  Ordered!Next \/ UNCHANGED Abstract
<1>1. /\ at[t] \in {"scan", "ended"} /\ at'[t] = "idle"
      /\ \A u \in Threads : u # t =>
           at'[u] = at[u] /\ op'[u] = op[u] /\ node'[u] = node[u]
      /\ out' = [out EXCEPT ![t] = 0]
  BY DEF Stop, Return, Control, TypeOK
<1>2. Elems' = Elems
  BY EndsKeepLinkage
<1>3. /\ LeftNow' = [LeftNow EXCEPT ![t] = {}]
      /\ OpenNow' = [OpenNow EXCEPT ![t] = FALSE] /\ OpenNow[t]
  <2>1. Left(t)' = {} /\ (at'[t] \in {"scan", "ended"}) = FALSE
    BY <1>1 DEF Left
  <2>2. /\ LeftNow' = [LeftNow EXCEPT ![t] = Left(t)']
        /\ OpenNow' = [OpenNow EXCEPT ![t] = (at'[t] \in {"scan", "ended"})]
    BY <1>1, <1>2, OneScan
  <2>3. OpenNow[t]
    BY <1>1 DEF OpenNow
  <2>4. QED
    BY <2>1, <2>2, <2>3
<1>4. Ordered!End(t)
  BY <1>1, <1>2, <1>3 DEF Ordered!End, LeftNow, OpenNow
<1>5. QED
  BY <1>4 DEF Ordered!Next

(* Each step is one of the ordered set, or not seen.                       *)
LEMMA NextRefines ==
  ListInv /\ [Next]_vars => [Ordered!Next]_Abstract
<1> SUFFICES ASSUME Control, Linkage, [Next]_vars
             PROVE  Ordered!Next \/ UNCHANGED Abstract
  BY DEF ListInv
<1>1. WriteLockFree => ReadLockFree
  BY DEF WriteLockFree, ReadLockFree
<1>2. ASSUME NEW t \in Threads, NEW k \in Keys, NEW h \in 1..MaxHeight, Insert(t, k, h)
      PROVE  UNCHANGED Abstract
  BY <1>1, <1>2, CallNotSeen DEF Insert
<1>3. ASSUME NEW t \in Threads, NEW k \in Keys, Remove(t, k)
      PROVE  UNCHANGED Abstract
  BY <1>1, <1>3, CallNotSeen DEF Remove
<1>4. ASSUME NEW t \in Threads, NEW k \in Keys, NEW e \in Keys,
             NEW matching \in {Keys, Typed}, Scan(t, k, e, matching)
      PROVE  UNCHANGED Abstract
  <2>1. e \in Nat /\ matching \in SUBSET Keys
    OBVIOUS
  <2>2. QED
    BY <1>4, <2>1, CallNotSeen DEF Scan
<1>5. CASE UNCHANGED vars
  BY <1>5 DEF vars, list, Abstract, Elems, OnLevel, Loose, LeftNow, OpenNow, Left
<1>6. QED
  BY <1>2, <1>3, <1>4, <1>5, StepNotSeen, WriterNotSeen, LinkChanges, DescendBegins,
     AdvanceAnswers, ExhaustedAnswers, StopEnds
     DEF Next

(* skiplist_insert__fact, skiplist_remove__fact and the cursors implement  *)
(* an ordered set with scans: a scan answers with the facts of its range,  *)
(* each once, in order, and nothing changes while it is open.              *)
THEOREM ImplementsOrderedSet == Spec => Refines
<1>1. Init => Ordered!Init
  <2> SUFFICES ASSUME Init PROVE Ordered!Init
    OBVIOUS
  <2>1. Elems = {}
    BY DEF Init, Elems, OnLevel
  <2>2. /\ [t \in Threads |-> Left(t)] = [t \in Threads |-> {}]
        /\ [t \in Threads |-> at[t] \in {"scan", "ended"}] = [t \in Threads |-> FALSE]
    <3>1. \A t \in Threads : at[t] = "idle"
      BY DEF Init
    <3>2. \A t \in Threads : Left(t) = {}
      BY <3>1 DEF Left
    <3>3. ASSUME NEW t \in Threads PROVE (at[t] \in {"scan", "ended"}) = FALSE
      <4>1. ~(at[t] \in {"scan", "ended"})
        BY <3>1
      <4>2. QED
        BY ONLY <4>1
    <3>4. QED
      BY <3>2, <3>3
  <2>3. QED
    BY <2>1, <2>2 DEF Init, Ordered!Init
<1>2. ListInv /\ [Next]_vars =>
        [Ordered!Next]_<<Elems, [t \in Threads |-> Left(t)],
                        [t \in Threads |-> at[t] \in {"scan", "ended"}], out>>
  BY NextRefines DEF Abstract, LeftNow, OpenNow
<1>3. QED
  BY <1>1, <1>2, ListInvariant, PTL DEF Spec, Refines, Ordered!Spec

=============================================================================
