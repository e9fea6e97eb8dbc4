---------------------------- MODULE RwLockProofs ----------------------------
(***************************************************************************)
(* Proofs about RwLock.tla, for every set of threads and every recursion   *)
(* limit.  LockInv is inductive; mutual exclusion, the unlocking           *)
(* discipline and the refinement of ReentrantLock follow from it.          *)
(***************************************************************************)
EXTENDS RwLock, TLAPS

USE DEF Request, Goto, owner, Waiting, Locations, OwnerIsSelf

(* A lock just initialised by rwlock_init satisfies the invariant.         *)
LEMMA InitLockInv == Init => LockInv
BY NoThreadAssumption, SwMaxAssumption
   DEF Init, LockInv, TypeOK, PthreadWriter, OwnerRecord, AtCall

(* Every step of rwlock_r, rwlock_w and their unlocks preserves it.        *)
LEMMA NextLockInv == LockInv /\ [Next]_vars => LockInv'
<1> SUFFICES ASSUME LockInv, [Next]_vars PROVE LockInv'
  OBVIOUS
<1> USE NoThreadAssumption, SwMaxAssumption, MaxCallsAssumption
    DEF LockInv, TypeOK, PthreadWriter, OwnerRecord, AtCall
<1>1. ASSUME NEW t \in Threads, CallR(t) PROVE LockInv'
  BY <1>1 DEF CallR
<1>2. ASSUME NEW t \in Threads, CallW(t) PROVE LockInv'
  BY <1>2 DEF CallW
<1>3. ASSUME NEW t \in Threads, RdLock(t) PROVE LockInv'
  BY <1>3 DEF RdLock
<1>4. ASSUME NEW t \in Threads, WrLock(t) PROVE LockInv'
  BY <1>4 DEF WrLock
<1>5. ASSUME NEW t \in Threads, TakeOwnership(t) PROVE LockInv'
  BY <1>5 DEF TakeOwnership
<1>6. ASSUME NEW t \in Threads, UnlockW(t) PROVE LockInv'
  BY <1>6 DEF UnlockW
<1>7. ASSUME NEW t \in Threads, WrUnlock(t) PROVE LockInv'
  BY <1>7 DEF WrUnlock
<1>8. ASSUME NEW t \in Threads, UnlockR(t) PROVE LockInv'
  BY <1>8 DEF UnlockR
<1>9. ASSUME NEW t \in Threads, RdUnlock(t) PROVE LockInv'
  BY <1>9 DEF RdUnlock
<1>10. CASE UNCHANGED vars
  BY <1>10 DEF vars
<1>11. QED
  BY <1>1, <1>2, <1>3, <1>4, <1>5, <1>6, <1>7, <1>8, <1>9, <1>10
     DEF Next, Proceed

(* The invariant holds throughout.                                         *)
THEOREM LockInvariant == Spec => []LockInv
BY InitLockInv, NextLockInv, PTL DEF Spec

(* The variables keep their types: the recursion count of rwlock_w never   *)
(* passes SW_MAX and no count of a bracket or of a pthread read lock drops *)
(* below zero.                                                             *)
THEOREM LockTypes == Spec => []TypeOK
<1>1. LockInv => TypeOK
  BY DEF LockInv
<1>2. QED
  BY <1>1, LockInvariant, PTL

(* A writer is alone, from the return of rwlock_w to rwlock_unlock_w: it   *)
(* is the owner, so no other thread has a bracket, pthread or not.         *)
THEOREM WriterAlone == Spec => []MutualExclusion
<1>1. LockInv => MutualExclusion
  BY NoThreadAssumption
     DEF LockInv, TypeOK, PthreadWriter, OwnerRecord, MutualExclusion
<1>2. QED
  BY <1>1, LockInvariant, PTL

(* No step of rwlock.c hands pthread_rwlock_unlock a lock the thread does  *)
(* not hold.                                                               *)
THEOREM UnlocksAreHeld == Spec => []UnlocksOnlyHeld
<1>1. LockInv => UnlocksOnlyHeld
  BY DEF LockInv, TypeOK, PthreadWriter, OwnerRecord, AtCall, UnlocksOnlyHeld
<1>2. QED
  BY <1>1, LockInvariant, PTL

(* What rwlock_owner_is_self answered still holds when it is used.         *)
THEOREM OwnerCheckHolds == Spec => []OwnerCheckNotStale
<1>1. LockInv => OwnerCheckNotStale
  BY DEF LockInv, TypeOK, PthreadWriter, AtCall, OwnerCheckNotStale
<1>2. QED
  BY <1>1, LockInvariant, PTL

(* The code implements the reentrant lock: each return of rwlock_r and     *)
(* rwlock_w is an acquisition, each unlock a release at the step that ends *)
(* the bracket, and every other step of the code is invisible.             *)
THEOREM ImplementsReentrantLock == Spec => Refines
<1> USE DEF Abstract!NothingOpen
<1>1. Init => Abstract!Init
  BY DEF Init, Abstract!Init
<1>2. LockInv /\ [Next]_vars => [Abstract!Next]_(Abstract!vars)
  <2> SUFFICES ASSUME LockInv, [Next]_vars
               PROVE  Abstract!Next \/ UNCHANGED <<reads, writes>>
    BY DEF Abstract!vars
  <2> USE NoThreadAssumption
      DEF LockInv, TypeOK, PthreadWriter, OwnerRecord, AtCall
  <2>1. ASSUME NEW t \in Threads, CallR(t)
        PROVE  Abstract!AcquireRead(t) \/ UNCHANGED <<reads, writes>>
    BY <2>1 DEF CallR, Abstract!AcquireRead
  <2>2. ASSUME NEW t \in Threads, RdLock(t) PROVE Abstract!AcquireRead(t)
    BY <2>2 DEF RdLock, Abstract!AcquireRead
  <2>3. ASSUME NEW t \in Threads, CallW(t)
        PROVE  Abstract!AcquireWrite(t) \/ UNCHANGED <<reads, writes>>
    BY <2>3 DEF CallW, Abstract!AcquireWrite
  <2>4. ASSUME NEW t \in Threads, TakeOwnership(t)
        PROVE  Abstract!AcquireWrite(t)
    BY <2>4 DEF TakeOwnership, Abstract!AcquireWrite
  <2>5. ASSUME NEW t \in Threads, UnlockW(t) PROVE Abstract!ReleaseWrite(t)
    BY <2>5 DEF UnlockW, Abstract!ReleaseWrite
  <2>6. ASSUME NEW t \in Threads, UnlockR(t)
        PROVE  Abstract!ReleaseRead(t) \/ UNCHANGED <<reads, writes>>
    BY <2>6 DEF UnlockR, Abstract!ReleaseRead
  <2>7. ASSUME NEW t \in Threads, RdUnlock(t) PROVE Abstract!ReleaseRead(t)
    BY <2>7 DEF RdUnlock, Abstract!ReleaseRead
  <2>8. ASSUME NEW t \in Threads, WrLock(t) \/ WrUnlock(t)
        PROVE  UNCHANGED <<reads, writes>>
    BY <2>8 DEF WrLock, WrUnlock
  <2>9. CASE UNCHANGED vars
    BY <2>9 DEF vars
  <2>10. QED
    BY <2>1, <2>2, <2>3, <2>4, <2>5, <2>6, <2>7, <2>8, <2>9
       DEF Next, Proceed, Abstract!Next
<1>3. QED
  BY <1>1, <1>2, LockInvariant, PTL DEF Spec, Refines, Abstract!Spec
=============================================================================
