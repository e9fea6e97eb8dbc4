----------------------------- MODULE OrderedSet -----------------------------
(***************************************************************************)
(* What an index of the database promises: a set of facts in an order, and *)
(* scans of a range of it.  A scan answers with the facts of its range     *)
(* that were there when it began, each once, in order.  Nothing is         *)
(* inserted or removed while one is open.                                  *)
(***************************************************************************)
EXTENDS Integers

CONSTANTS Threads, Keys, Typed,
          Nil  \* what a scan answers when it has no more facts

VARIABLES
  elems,  \* the facts in the set
  left,   \* left[t]: what the scan of t has not answered yet
  open,   \* open[t]: t has a scan open
  out     \* out[t]: the last answer of the open scan of t, 0 if none

Init ==
  /\ elems = {}
  /\ left = [t \in Threads |-> {}]
  /\ open = [t \in Threads |-> FALSE]
  /\ out = [t \in Threads |-> 0]

Change(new) ==
  /\ \A t \in Threads : ~open[t]
  /\ elems' = new
  /\ UNCHANGED <<left, open, out>>

Begin(t, s, e, matching) ==
  /\ ~open[t]
  /\ open' = [open EXCEPT ![t] = TRUE]
  /\ left' = [left EXCEPT ![t] = {k \in elems \cap matching : s <= k /\ k <= e}]
  /\ UNCHANGED <<elems, out>>

Answer(t, k) ==
  /\ k \in left[t]
  /\ \A x \in left[t] : k <= x
  /\ out' = [out EXCEPT ![t] = k]
  /\ left' = [left EXCEPT ![t] = @ \ {k}]
  /\ UNCHANGED <<elems, open>>

Exhausted(t) ==
  /\ open[t]
  /\ left[t] = {}
  /\ out' = [out EXCEPT ![t] = Nil]
  /\ UNCHANGED <<elems, left, open>>

\* Its owner ends it, then or before.
End(t) ==
  /\ open[t]
  /\ open' = [open EXCEPT ![t] = FALSE]
  /\ left' = [left EXCEPT ![t] = {}]
  /\ out' = [out EXCEPT ![t] = 0]
  /\ UNCHANGED elems

Next ==
  \/ \E k \in Keys : Change(elems \cup {k}) \/ Change(elems \ {k})
  \/ \E t \in Threads :
       \/ \E s, e \in Keys, matching \in {Keys, Typed} : Begin(t, s, e, matching)
       \/ \E k \in Keys : Answer(t, k)
       \/ Exhausted(t) \/ End(t)

Spec == Init /\ [][Next]_<<elems, left, open, out>>
=============================================================================
