------------------------------- MODULE ThreadLock -------------------------------
(***************************************************************************)
(* RealLock (sync.rs), the lock behind _thread.lock, and its blocking      *)
(* acquires in thread_real.rs: plain, timed, and the main thread's, which  *)
(* waits in slices and serves signals between them.  Any thread may        *)
(* release the lock.  The state is read and written under a mutex that     *)
(* cv.wait gives up at once; release notifies after it has left the mutex. *)
(*                                                                         *)
(* A step is one section under that mutex.                                 *)
(***************************************************************************)
EXTENDS Naturals

CONSTANTS Threads, \* OS threads
          Main,    \* the main thread, the only one that serves signals
          None     \* no thread
ASSUME NoneAssumption == None \notin Threads

VARIABLES
  held,    \* LockState.held
  owner,   \* LockState.owner
  at,      \* where each thread is in its operation on the lock
  kind,    \* how it waits: "plain", "timed", or "sliced" (the main thread)
  expired  \* the threads whose deadline (or slice) is over

vars == <<held, owner, at, kind, expired>>

Kinds == {"plain", "timed", "sliced"}
KindsOf(t) == {"plain", IF t = Main THEN "sliced" ELSE "timed"}
Places == {"out", "enter", "parked", "woken", "late", "notify"}

Init ==
  /\ held = FALSE /\ owner = None
  /\ at = [t \in Threads |-> "out"]
  /\ kind = [t \in Threads |-> "plain"]
  /\ expired = {}

Goto(t, p) == at' = [at EXCEPT ![t] = p]

--------------------------------------------------------------------------------
(* The thread has the state mutex and finds the lock free.                 *)
Take(t) ==
  /\ ~held
  /\ held' = TRUE /\ owner' = t
  /\ Goto(t, "out")
  /\ expired' = expired \ {t}

(* try_acquire; when it fails it changes nothing.                          *)
TryAcquire(t) == at[t] = "out" /\ Take(t) /\ UNCHANGED kind

(* lock_acquire_blocking and lock_acquire_interruptible after a try that   *)
(* failed: the GIL is given up and the acquire starts.                     *)
StartAcquire(t) ==
  /\ at[t] = "out" /\ held
  /\ \E k \in KindsOf(t) : kind' = [kind EXCEPT ![t] = k]
  /\ Goto(t, "enter")
  /\ expired' = expired \ {t}
  /\ UNCHANGED <<held, owner>>

(* Entering the loop, after a notification, or after a timeout.            *)
Acquire(t) ==
  /\ at[t] \in {"enter", "woken", "late"}
  /\ Take(t)
  /\ UNCHANGED kind

(* Faulty variant: the deadline is not looked at after a notification.     *)
ParkPastDeadline(t) ==
  /\ at[t] \in {"enter", "woken"} /\ held
  /\ Goto(t, "parked")
  /\ UNCHANGED <<held, owner, kind, expired>>

(* while state.held: cv.wait, unless the deadline has passed.              *)
Park(t) ==
  /\ at[t] \in {"enter", "woken"} /\ held
  /\ t \notin expired
  /\ Goto(t, "parked")
  /\ UNCHANGED <<held, owner, kind, expired>>

(* Time passes beyond the deadline.                                        *)
Expire(t) ==
  /\ at[t] \in {"enter", "parked", "woken"} /\ kind[t] # "plain"
  /\ t \notin expired
  /\ expired' = expired \cup {t}
  /\ UNCHANGED <<held, owner, at, kind>>

(* wait_for's time is up; the thread has to get the mutex back.            *)
Timeout(t) ==
  /\ at[t] = "parked" /\ t \in expired
  /\ Goto(t, "late")
  /\ UNCHANGED <<held, owner, kind, expired>>

(* The acquire returns false: the deadline has passed while the lock is    *)
(* held.  The main thread may try another slice, or leave with the         *)
(* exception of a signal handler.                                          *)
Fail(t) ==
  /\ held /\ t \in expired
  /\ at[t] \in {"enter", "woken", "late"}
  /\ \/ Goto(t, "out")
     \/ kind[t] = "sliced" /\ Goto(t, "enter")
  /\ expired' = expired \ {t}
  /\ UNCHANGED <<held, owner, kind>>

(* Faulty variant: nobody is notified.                                     *)
ReleaseSilently(t) ==
  /\ at[t] = "out" /\ held
  /\ held' = FALSE /\ owner' = None
  /\ UNCHANGED <<at, kind, expired>>

(* release, by any thread; an error when the lock is free.                 *)
Release(t) ==
  /\ at[t] = "out" /\ held
  /\ held' = FALSE /\ owner' = None
  /\ Goto(t, "notify")
  /\ UNCHANGED <<kind, expired>>

(* notify_one, after the state mutex was left.                             *)
Notify(t) ==
  /\ at[t] = "notify"
  /\ IF \E u \in Threads : at[u] = "parked"
     THEN \E u \in Threads : at[u] = "parked" /\ at' = [at EXCEPT ![t] = "out", ![u] = "woken"]
     ELSE Goto(t, "out")
  /\ UNCHANGED <<held, owner, kind, expired>>

--------------------------------------------------------------------------------
Step(t) ==
  \/ TryAcquire(t) \/ StartAcquire(t) \/ Acquire(t) \/ Park(t) \/ Expire(t) \/ Timeout(t)
  \/ Fail(t) \/ Release(t) \/ Notify(t)

Next == \E t \in Threads : Step(t)
Spec == Init /\ [][Next]_vars

(* A thread inside an operation goes on and time passes; nothing makes a   *)
(* program release its locks.                                              *)
FairSpec ==
  /\ Spec
  /\ \A t \in Threads :
       /\ WF_vars(Acquire(t) \/ Park(t) \/ Fail(t) \/ Notify(t))
       /\ WF_vars(Expire(t)) /\ WF_vars(Timeout(t))

--------------------------------------------------------------------------------
(* Properties.                                                             *)

TypeOK ==
  /\ held \in BOOLEAN /\ owner \in Threads \cup {None}
  /\ held <=> owner # None
  /\ at \in [Threads -> Places]
  /\ kind \in [Threads -> Kinds]
  /\ expired \subseteq {t \in Threads : at[t] # "out" /\ kind[t] # "plain"}

(* A free lock with parked threads has a wakeup on its way, although the   *)
(* notification comes after the mutex was left, a waiter may take it and   *)
(* time out, and a third thread may take the lock in between.              *)
WakeupOnTheWay ==
  ~held /\ (\E t \in Threads : at[t] = "parked") =>
    \E u \in Threads : at[u] \in {"notify", "woken"}

(* A timed acquire by a thread other than the main one comes to its end.   *)
TimedEnds == \A t \in Threads :
  at[t] # "out" /\ kind[t] = "timed" ~> at[t] = "out"
================================================================================
