------------------------------- MODULE RwLock -------------------------------
(***************************************************************************)
(* libkc3/rwlock.c: a write-recursive lock built from a pthread_rwlock_t   *)
(* and an owner record (count, thread) that the process-wide               *)
(* g_rwlock_owner_mutex guards.                                            *)
(*                                                                         *)
(* One action is one critical section of the owner mutex or one pthread    *)
(* call, so the two windows of the code are states of the model: a thread  *)
(* holds the pthread lock before it is recorded as owner (pc = "own") and  *)
(* after its count has dropped to zero (pc = "wunlock").                   *)
(*                                                                         *)
(* rwlock_init passes no attributes: the pthread lock lets a reader in     *)
(* whenever no writer holds it, whoever waits.                             *)
(***************************************************************************)
EXTENDS Naturals

CONSTANTS Threads,   \* threads that share the lock
          NoThread,  \* no thread
          SwMax,     \* SW_MAX, the limit of the recursion count
          MaxCalls   \* bound: lock requests one thread makes

ASSUME NoThreadAssumption == NoThread \notin Threads
ASSUME SwMaxAssumption == SwMax \in Nat \ {0}
ASSUME MaxCallsAssumption == MaxCalls \in Nat

VARIABLES
  count,   \* rwlock->count
  thread,  \* rwlock->thread, meaningful while count > 0
  pw,      \* the thread that holds the pthread lock for writing
  pr,      \* pr[t]: read locks of the pthread lock that t holds
  pc,      \* where thread t is in rwlock.c
  reads,   \* reads[t]: rwlock_r calls of t not yet undone
  writes,  \* writes[t]: rwlock_w calls of t not yet undone
  calls    \* calls[t]: lock requests t has made

owner == <<count, thread>>
vars == <<count, thread, pw, pr, pc, reads, writes, calls>>

Waiting == {"rdlock", "wrlock"}
Locations == Waiting \cup {"idle", "own", "wunlock", "runlock"}

(* Faulty: believes the thread field when nobody owns the lock.            *)
OwnerIsSelfStale(t) == thread = t
(* Faulty: takes any owner for the calling thread.                         *)
OwnerIsSelfAny(t) == count > 0

OwnerIsSelf(t) == count > 0 /\ thread = t

Goto(t, loc) == pc' = [pc EXCEPT ![t] = loc]

Init ==
  /\ count = 0
  /\ thread = NoThread
  /\ pw = NoThread
  /\ pr = [t \in Threads |-> 0]
  /\ pc = [t \in Threads |-> "idle"]
  /\ reads = [t \in Threads |-> 0]
  /\ writes = [t \in Threads |-> 0]
  /\ calls = [t \in Threads |-> 0]

Request(t) ==
  /\ pc[t] = "idle"
  /\ calls[t] < MaxCalls
  /\ calls' = [calls EXCEPT ![t] = @ + 1]

(* Faulty: a writer's rwlock_r goes to the pthread lock it already holds.  *)
CallRUnchecked(t) ==
  /\ Request(t)
  /\ Goto(t, "rdlock")
  /\ UNCHANGED <<owner, pw, pr, reads, writes>>

(* rwlock_r, up to the pthread call. *)
CallR(t) ==
  /\ Request(t)
  /\ \/ /\ OwnerIsSelf(t)
        /\ reads' = [reads EXCEPT ![t] = @ + 1]
        /\ UNCHANGED pc
     \/ /\ ~OwnerIsSelf(t)
        /\ Goto(t, "rdlock")
        /\ UNCHANGED reads
  /\ UNCHANGED <<owner, pw, pr, writes>>

(* pthread_rwlock_rdlock, and the return of rwlock_r. *)
RdLock(t) ==
  /\ pc[t] = "rdlock"
  /\ pw = NoThread
  /\ pr' = [pr EXCEPT ![t] = @ + 1]
  /\ reads' = [reads EXCEPT ![t] = @ + 1]
  /\ Goto(t, "idle")
  /\ UNCHANGED <<owner, pw, writes, calls>>

(* Faulty: no limit on the recursion count.                                *)
CallWUnlimited(t) ==
  /\ Request(t)
  /\ reads[t] = 0 \/ writes[t] > 0
  /\ \/ /\ OwnerIsSelf(t)
        /\ count' = count + 1
        /\ writes' = [writes EXCEPT ![t] = @ + 1]
        /\ UNCHANGED pc
     \/ /\ ~OwnerIsSelf(t)
        /\ Goto(t, "wrlock")
        /\ UNCHANGED <<count, writes>>
  /\ UNCHANGED <<thread, pw, pr, reads>>

(* rwlock_w, up to the pthread call.  No caller asks for the write lock    *)
(* while it holds the read lock: it would wait for itself.                 *)
CallW(t) ==
  /\ Request(t)
  /\ reads[t] = 0 \/ writes[t] > 0
  /\ \/ /\ OwnerIsSelf(t)
        /\ count < SwMax
        /\ count' = count + 1
        /\ writes' = [writes EXCEPT ![t] = @ + 1]
        /\ UNCHANGED pc
     \/ /\ OwnerIsSelf(t)          \* recursion count exhausted: NULL
        /\ count = SwMax
        /\ UNCHANGED <<count, writes, pc>>
     \/ /\ ~OwnerIsSelf(t)
        /\ Goto(t, "wrlock")
        /\ UNCHANGED <<count, writes>>
  /\ UNCHANGED <<thread, pw, pr, reads>>

(* pthread_rwlock_wrlock. *)
WrLock(t) ==
  /\ pc[t] = "wrlock"
  /\ pw = NoThread
  /\ \A u \in Threads : pr[u] = 0
  /\ pw' = t
  /\ Goto(t, "own")
  /\ UNCHANGED <<owner, pr, reads, writes, calls>>

(* The second owner section of rwlock_w, and its return. *)
TakeOwnership(t) ==
  /\ pc[t] = "own"
  /\ thread' = t
  /\ count' = 1
  /\ writes' = [writes EXCEPT ![t] = @ + 1]
  /\ Goto(t, "idle")
  /\ UNCHANGED <<pw, pr, reads, calls>>

(* Faulty: decides whether this is the last bracket before the decrement.  *)
UnlockWLastTooEarly(t) ==
  /\ pc[t] = "idle"
  /\ writes[t] > 1 \/ (writes[t] = 1 /\ reads[t] = 0)
  /\ OwnerIsSelf(t)
  /\ count' = count - 1
  /\ writes' = [writes EXCEPT ![t] = @ - 1]
  /\ UNCHANGED <<thread, pw, pr, pc, reads, calls>>

(* rwlock_unlock_w, its owner section.  Callers close the read brackets    *)
(* they opened under a write lock before they close the last write one.    *)
UnlockW(t) ==
  /\ pc[t] = "idle"
  /\ writes[t] > 1 \/ (writes[t] = 1 /\ reads[t] = 0)
  /\ OwnerIsSelf(t)                \* else "not the writer": NULL
  /\ count' = count - 1
  /\ writes' = [writes EXCEPT ![t] = @ - 1]
  /\ Goto(t, IF count = 1 THEN "wunlock" ELSE "idle")
  /\ UNCHANGED <<thread, pw, pr, reads, calls>>

(* pthread_rwlock_unlock of the last write bracket. *)
WrUnlock(t) ==
  /\ pc[t] = "wunlock"
  /\ pw' = NoThread
  /\ Goto(t, "idle")
  /\ UNCHANGED <<owner, pr, reads, writes, calls>>

(* rwlock_unlock_r, up to the pthread call. *)
UnlockR(t) ==
  /\ pc[t] = "idle"
  /\ reads[t] > 0
  /\ \/ /\ OwnerIsSelf(t)
        /\ reads' = [reads EXCEPT ![t] = @ - 1]
        /\ UNCHANGED pc
     \/ /\ ~OwnerIsSelf(t)
        /\ Goto(t, "runlock")
        /\ UNCHANGED reads
  /\ UNCHANGED <<owner, pw, pr, writes, calls>>

(* pthread_rwlock_unlock of a read lock. *)
RdUnlock(t) ==
  /\ pc[t] = "runlock"
  /\ pr' = [pr EXCEPT ![t] = @ - 1]
  /\ reads' = [reads EXCEPT ![t] = @ - 1]
  /\ Goto(t, "idle")
  /\ UNCHANGED <<owner, pw, writes, calls>>

(* Every step of a thread but its decision to ask for the lock. *)
Proceed(t) ==
  \/ RdLock(t) \/ WrLock(t) \/ TakeOwnership(t)
  \/ UnlockW(t) \/ WrUnlock(t) \/ UnlockR(t) \/ RdUnlock(t)

Next == \E t \in Threads : CallR(t) \/ CallW(t) \/ Proceed(t)

Spec == Init /\ [][Next]_vars

(* A thread that runs, finishes what it started and closes its brackets.   *)
FairSpec == Spec /\ \A t \in Threads : WF_vars(Proceed(t))

-----------------------------------------------------------------------------
(* The types of the variables, at every step of rwlock_r, rwlock_w and     *)
(* their unlocks.                                                          *)
TypeOK ==
  /\ count \in 0..SwMax
  /\ thread \in Threads \cup {NoThread}
  /\ pw \in Threads \cup {NoThread}
  /\ pr \in [Threads -> Nat]
  /\ pc \in [Threads -> Locations]
  /\ reads \in [Threads -> Nat]
  /\ writes \in [Threads -> Nat]
  /\ calls \in [Threads -> Nat]

(* While a thread is between rwlock_w and the matching rwlock_unlock_w no  *)
(* other thread is inside a read or a write bracket, across the two        *)
(* windows where the owner record and the pthread lock disagree.           *)
MutualExclusion ==
  \A t, u \in Threads :
    t # u /\ writes[t] > 0 => writes[u] = 0 /\ reads[u] = 0

(* rwlock_unlock_r decides by the owner record whether to call             *)
(* pthread_rwlock_unlock: it never unlocks a pthread lock its thread does  *)
(* not hold, which would be undefined.                                     *)
UnlocksOnlyHeld ==
  \A t \in Threads : /\ pc[t] = "runlock" => pr[t] > 0
                     /\ pc[t] = "wunlock" => pw = t

(* The answer of rwlock_owner_is_self is used after the owner mutex is     *)
(* released: it is still right when the pthread call is made.              *)
OwnerCheckNotStale ==
  \A t \in Threads :
    pc[t] \in Waiting \cup {"runlock"} => ~OwnerIsSelf(t) /\ pw # t

(* The inductive invariant behind the properties above.  The pthread       *)
(* writer is exactly the thread that owns the lock or stands in one of the *)
(* two windows; the owner record counts that thread's write brackets; a    *)
(* thread with no write bracket has one pthread read lock per read bracket.*)
PthreadWriter ==
  /\ \A t \in Threads :
       pw = t <=> pc[t] \in {"own", "wunlock"} \/ OwnerIsSelf(t)
  /\ pw # NoThread => \A t \in Threads : pr[t] = 0

OwnerRecord ==
  /\ count > 0 => thread \in Threads /\ writes[thread] = count
  /\ \A t \in Threads : ~OwnerIsSelf(t) => writes[t] = 0 /\ reads[t] = pr[t]

AtCall ==
  \A t \in Threads :
    /\ pc[t] # "idle" => ~OwnerIsSelf(t)
    /\ pc[t] \in {"wrlock", "own", "wunlock"} => reads[t] = 0
    /\ pc[t] = "runlock" => reads[t] > 0

LockInv == TypeOK /\ PthreadWriter /\ OwnerRecord /\ AtCall

Abstract == INSTANCE ReentrantLock

(* rwlock.c implements the reentrant lock its callers rely on. *)
Refines == Abstract!Spec

(* The threads never wait for each other for ever: when each one closes    *)
(* the brackets it opened, every rwlock_r and rwlock_w is granted and      *)
(* undone, and the lock ends up free.                                      *)
AllReleased ==
  <>[](/\ pw = NoThread
       /\ \A t \in Threads : pc[t] = "idle" /\ reads[t] = 0 /\ writes[t] = 0)
=============================================================================
