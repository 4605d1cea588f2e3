--------------------------- MODULE ThreadLockProofs ----------------------------
(***************************************************************************)
(* Proofs about ThreadLock, for any set of threads.  A release frees the   *)
(* lock in one step and notifies in a later one; what carries the argument *)
(* is that a notified or notifying thread stays one until the lock is held *)
(* again.  The deadline of a thread is cleared before it leaves.           *)
(***************************************************************************)
EXTENDS ThreadLock, TLAPS

NotifierHasNoDeadline == \A t \in Threads : at[t] = "notify" => t \notin expired

IInv == TypeOK /\ NotifierHasNoDeadline /\ WakeupOnTheWay

LEMMA InitInv == Init => IInv
BY NoneAssumption DEF Init, IInv, TypeOK, NotifierHasNoDeadline, WakeupOnTheWay, Places, Kinds

(* Every step keeps the types.  A thread that comes to "out" has no        *)
(* deadline left.                                                          *)
LEMMA StepType == ASSUME IInv, NEW t \in Threads, Step(t)
                  PROVE  TypeOK' /\ NotifierHasNoDeadline'
<1> USE NoneAssumption DEF IInv, TypeOK, NotifierHasNoDeadline, Places, Kinds, Goto
<1>1. CASE TryAcquire(t)   BY <1>1 DEF TryAcquire, Take
<1>2. CASE StartAcquire(t) BY <1>2 DEF StartAcquire, KindsOf
<1>3. CASE Acquire(t)      BY <1>3 DEF Acquire, Take
<1>4. CASE Park(t)         BY <1>4 DEF Park
<1>5. CASE Expire(t)       BY <1>5 DEF Expire
<1>6. CASE Timeout(t)      BY <1>6 DEF Timeout
<1>7. CASE Fail(t)         BY <1>7 DEF Fail
<1>8. CASE Release(t)      BY <1>8 DEF Release
<1>9. CASE Notify(t)
  <2>1. CASE \E u \in Threads : at[u] = "parked"
    <3>1. PICK u \in Threads : /\ at[u] = "parked"
                               /\ at' = [at EXCEPT ![t] = "out", ![u] = "woken"]
      BY <1>9, <2>1 DEF Notify
    <3> QED BY <1>9, <3>1 DEF Notify
  <2>2. CASE ~\E u \in Threads : at[u] = "parked"
    BY <1>9, <2>2 DEF Notify
  <2> QED BY <2>1, <2>2
<1> QED BY <1>1, <1>2, <1>3, <1>4, <1>5, <1>6, <1>7, <1>8, <1>9 DEF Step

(* The steps that leave the lock held need no wakeup; the others keep one, *)
(* or leave nobody parked.                                                 *)
LEMMA StepWakeup == ASSUME IInv, NEW t \in Threads, Step(t)
                    PROVE  WakeupOnTheWay'
<1> USE DEF IInv, TypeOK, WakeupOnTheWay, Goto
<1>1. CASE TryAcquire(t)   BY <1>1 DEF TryAcquire, Take
<1>2. CASE StartAcquire(t) BY <1>2 DEF StartAcquire
<1>3. CASE Acquire(t)      BY <1>3 DEF Acquire, Take
<1>4. CASE Park(t)         BY <1>4 DEF Park
<1>5. CASE Expire(t)       BY <1>5 DEF Expire
<1>6. CASE Timeout(t)
  <2>1. \A u \in Threads : u # t => at'[u] = at[u]
    BY <1>6 DEF Timeout
  <2> QED BY <1>6, <2>1 DEF Timeout
<1>7. CASE Fail(t)         BY <1>7 DEF Fail
<1>8. CASE Release(t)      BY <1>8 DEF Release
<1>9. CASE Notify(t)
  <2>1. CASE \E u \in Threads : at[u] = "parked"
    <3>1. PICK u \in Threads : /\ at[u] = "parked"
                               /\ at' = [at EXCEPT ![t] = "out", ![u] = "woken"]
      BY <1>9, <2>1 DEF Notify
    <3>2. at'[u] = "woken"
      BY <1>9, <3>1 DEF Notify
    <3> QED BY <3>2
  <2>2. CASE ~\E u \in Threads : at[u] = "parked"
    BY <1>9, <2>2 DEF Notify
  <2> QED BY <2>1, <2>2
<1> QED BY <1>1, <1>2, <1>3, <1>4, <1>5, <1>6, <1>7, <1>8, <1>9 DEF Step

LEMMA NextInv == IInv /\ [Next]_vars => IInv'
<1> SUFFICES ASSUME IInv, [Next]_vars PROVE IInv'
  OBVIOUS
<1>1. CASE Next
  <2>1. PICK t \in Threads : Step(t)
    BY <1>1 DEF Next
  <2> QED BY <2>1, StepType, StepWakeup DEF IInv
<1>2. CASE UNCHANGED vars
  BY <1>2 DEF vars, IInv, TypeOK, NotifierHasNoDeadline, WakeupOnTheWay
<1> QED BY <1>1, <1>2

(* The inductive invariant holds in every reachable state.                 *)
THEOREM Invariance == Spec => []IInv
<1>1. Init => IInv
  BY InitInv
<1>2. IInv /\ [Next]_vars => IInv'
  BY NextInv
<1> QED BY <1>1, <1>2, PTL DEF Spec

(* RealLock's owner is recorded exactly while it is held, and a deadline   *)
(* belongs to a timed wait under way (type correctness).                   *)
THEOREM TypeCorrect == Spec => []TypeOK
<1>1. IInv => TypeOK
  BY DEF IInv
<1> QED BY <1>1, Invariance, PTL

(* No RealLock::release is lost on the waiters: whoever times out, and     *)
(* whoever takes the lock first, a free lock with a parked thread has a    *)
(* notification on its way or a woken thread about to look.                *)
THEOREM NoLostRelease == Spec => []WakeupOnTheWay
<1>1. IInv => WakeupOnTheWay
  BY DEF IInv
<1> QED BY <1>1, Invariance, PTL
================================================================================
