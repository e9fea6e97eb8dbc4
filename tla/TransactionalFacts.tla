-------------------------- MODULE TransactionalFacts --------------------------
(***************************************************************************)
(* What a transaction of the fact database promises: a rollback restores,  *)
(* in one step and identifiers included, the database as it was when the   *)
(* transaction started, whatever was added, removed and committed inside;  *)
(* a nested commit only forgets its starting point; an identifier is given *)
(* out once.  Facts.tla, the undo log of the code, implements this module. *)
(***************************************************************************)
EXTENDS Naturals, Sequences

CONSTANT Triples

VARIABLES store,      \* the identifier of each stored fact, or NoId
          snapshots,  \* the stores to come back to, innermost first
          clock       \* the next identifier

vars == <<store, snapshots, clock>>

NoId == 0

Init == /\ store = [f \in Triples |-> NoId]
        /\ snapshots = <<>>
        /\ clock = 1

Add == \E f \in Triples :
  /\ store[f] = NoId
  /\ store' = [store EXCEPT ![f] = clock]
  /\ clock' = clock + 1
  /\ UNCHANGED snapshots

Remove == \E f \in Triples :
  /\ store[f] # NoId
  /\ store' = [store EXCEPT ![f] = NoId]
  /\ clock' \in {clock, clock + 1}
  /\ UNCHANGED snapshots

Start == /\ snapshots' = <<store>> \o snapshots
         /\ clock' = clock + 1
         /\ UNCHANGED store

Commit == /\ snapshots # <<>>
          /\ snapshots' = Tail(snapshots)
          /\ UNCHANGED <<store, clock>>

Rollback == \E n \in 1 .. Len(snapshots) :
  /\ store' = snapshots[n]
  /\ snapshots' = SubSeq(snapshots, n + 1, Len(snapshots))
  /\ clock' \in {clock, clock + 1}

(* A failed operation uses up an identifier.                               *)
LoseId == clock' = clock + 1 /\ UNCHANGED <<store, snapshots>>

Next == Add \/ Remove \/ Start \/ Commit \/ Rollback \/ LoseId

Spec == Init /\ [][Next]_vars
=============================================================================
