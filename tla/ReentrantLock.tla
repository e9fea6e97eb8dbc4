--------------------------- MODULE ReentrantLock ---------------------------
(***************************************************************************)
(* What the callers of libkc3/rwlock.c rely on: a reentrant lock, written  *)
(* as the brackets each thread has open.  A thread acquires for reading    *)
(* when no other thread writes and for writing when no other thread has    *)
(* anything open; a writer may open further brackets of either kind.       *)
(* RwLock.tla, the code, is shown to implement this module.                *)
(***************************************************************************)
EXTENDS Naturals

CONSTANT Threads

VARIABLES reads,   \* reads[t]: read brackets thread t has open
          writes   \* writes[t]: write brackets thread t has open

vars == <<reads, writes>>

NothingOpen(t) == reads[t] = 0 /\ writes[t] = 0

Init == /\ reads = [t \in Threads |-> 0]
        /\ writes = [t \in Threads |-> 0]

AcquireRead(t) ==
  /\ \A u \in Threads \ {t} : writes[u] = 0
  /\ reads' = [reads EXCEPT ![t] = @ + 1]
  /\ UNCHANGED writes

AcquireWrite(t) ==
  /\ \A u \in Threads \ {t} : NothingOpen(u)
  /\ reads[t] = 0 \/ writes[t] > 0
  /\ writes' = [writes EXCEPT ![t] = @ + 1]
  /\ UNCHANGED reads

ReleaseRead(t) ==
  /\ reads[t] > 0
  /\ reads' = [reads EXCEPT ![t] = @ - 1]
  /\ UNCHANGED writes

ReleaseWrite(t) ==
  /\ writes[t] > 0
  /\ writes' = [writes EXCEPT ![t] = @ - 1]
  /\ UNCHANGED reads

Next == \E t \in Threads :
  AcquireRead(t) \/ AcquireWrite(t) \/ ReleaseRead(t) \/ ReleaseWrite(t)

Spec == Init /\ [][Next]_vars
=============================================================================
