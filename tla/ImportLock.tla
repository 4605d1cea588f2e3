------------------------------- MODULE ImportLock ------------------------------
(***************************************************************************)
(* The global import lock (imp_mod.rs): reentrant, waited for outside the  *)
(* GIL, and taken by os.fork (os_process.rs) so that the child sees no     *)
(* module half loaded.  Its state is behind a parking_lot mutex that a     *)
(* waiting thread locks without the GIL.                                   *)
(*                                                                         *)
(* The model follows one process: at a fork it goes on as the parent or as *)
(* the child.  In the child the other threads are gone and the mutex is as *)
(* they left it.                                                           *)
(***************************************************************************)
EXTENDS Naturals

CONSTANTS Threads,  \* identities of OS threads
          Main,     \* the thread there is at the start
          None,     \* no thread
          Lost,     \* a thread that vanished in a fork
          MaxNest   \* bound on the levels one thread's code takes
ASSUME MainAssumption == Main \in Threads
ASSUME NoneAssumption == None \notin Threads /\ Lost \notin Threads /\ None # Lost
ASSUME NestAssumption == MaxNest \in Nat

VARIABLES
  owner,   \* ImportLockState.owner
  level,   \* ImportLockState.count
  mutex,   \* the thread inside the mutex without the GIL
  gil,     \* the thread that has the GIL
  at,      \* where each thread is
  goal,    \* what it wants the lock for: its own code, or a fork
  nest,    \* the levels its code has taken and not yet released
  partial  \* history: a fork left a holder of the lock behind

vars == <<owner, level, mutex, gil, at, goal, nest, partial>>

Waits == {"enter", "check", "parked", "woken"}
Places == Waits \cup {"py", "back", "fork", "child", "gone"}

Init ==
  /\ owner = None /\ level = 0 /\ mutex = None /\ gil = Main
  /\ at = [t \in Threads |-> IF t = Main THEN "py" ELSE "gone"]
  /\ goal = [t \in Threads |-> "own"]
  /\ nest = [t \in Threads |-> 0]
  /\ partial = FALSE

Goto(t, p) == at' = [at EXCEPT ![t] = p]
Runs(t) == gil = t /\ at[t] = "py"

--------------------------------------------------------------------------------
(* The GIL, and threads that start.                                        *)

Start(t, u) ==
  /\ Runs(t) /\ at[u] = "gone"
  /\ Goto(u, "py")
  /\ UNCHANGED <<owner, level, mutex, gil, goal, nest, partial>>

DropGil(t) ==
  /\ Runs(t)
  /\ gil' = None
  /\ UNCHANGED <<owner, level, mutex, at, goal, nest, partial>>

(* A thread back from its wait goes on with what it wanted the lock for.   *)
TakeGil(t) ==
  /\ gil = None /\ at[t] \in {"py", "back"}
  /\ gil' = t
  /\ Goto(t, IF at[t] = "back" /\ goal[t] = "fork" THEN "fork" ELSE "py")
  /\ UNCHANGED <<owner, level, mutex, goal, nest, partial>>

--------------------------------------------------------------------------------
(* import_lock_acquire, by _imp.acquire_lock or by os.fork.                *)

Mine(t) == owner \in {None, t}

(* One level more; user code counts those it takes itself.                 *)
Gain(t, g) ==
  /\ owner' = t /\ level' = level + 1
  /\ nest' = IF g = "own" THEN [nest EXCEPT ![t] = @ + 1] ELSE nest

(* Faulty variant: a fork does not wait for the lock.                      *)
AcquireTry(t, g) ==
  /\ Runs(t) /\ mutex = None
  /\ g = "own" => nest[t] < MaxNest
  /\ goal' = [goal EXCEPT ![t] = g]
  /\ IF Mine(t)
     THEN Gain(t, g) /\ Goto(t, IF g = "fork" THEN "fork" ELSE "py") /\ gil' = gil
     ELSE /\ Goto(t, IF g = "fork" THEN "fork" ELSE "enter")
          /\ gil' = IF g = "fork" THEN gil ELSE None
          /\ UNCHANGED <<owner, level, nest>>
  /\ UNCHANGED <<mutex, partial>>

(* The first section, under the GIL.                                       *)
Acquire(t, g) ==
  /\ Runs(t) /\ mutex = None
  /\ g = "own" => nest[t] < MaxNest
  /\ goal' = [goal EXCEPT ![t] = g]
  /\ IF Mine(t)
     THEN Gain(t, g) /\ Goto(t, IF g = "fork" THEN "fork" ELSE "py") /\ gil' = gil
     ELSE Goto(t, "enter") /\ gil' = None /\ UNCHANGED <<owner, level, nest>>
  /\ UNCHANGED <<mutex, partial>>

(* The second one, without it: lock, and test the owner ...                *)
LockMutex(t) ==
  /\ at[t] \in {"enter", "woken"} /\ mutex = None
  /\ mutex' = t
  /\ Goto(t, "check")
  /\ UNCHANGED <<owner, level, gil, goal, nest, partial>>

Grant(t) ==
  /\ at[t] = "check" /\ Mine(t)
  /\ Gain(t, goal[t])
  /\ mutex' = None
  /\ Goto(t, "back")
  /\ UNCHANGED <<gil, goal, partial>>

(* ... or cv.wait, which unlocks and parks at once.                        *)
Park(t) ==
  /\ at[t] = "check" /\ ~Mine(t)
  /\ mutex' = None
  /\ Goto(t, "parked")
  /\ UNCHANGED <<owner, level, gil, goal, nest, partial>>

--------------------------------------------------------------------------------
(* import_lock_release, with notify_all inside the mutex.                  *)

(* Faulty variant: the release notifies nobody.                            *)
NoWake(t) == Goto(t, "py")

Wake(t) == at' = [u \in Threads |-> IF u = t THEN "py"
                                    ELSE IF level = 1 /\ at[u] = "parked" THEN "woken"
                                    ELSE at[u]]

GiveLevel(t) ==
  /\ mutex = None /\ owner = t
  /\ level' = level - 1
  /\ owner' = IF level = 1 THEN None ELSE owner
  /\ Wake(t)

Release(t) ==
  /\ Runs(t) /\ nest[t] > 0
  /\ GiveLevel(t)
  /\ nest' = [nest EXCEPT ![t] = @ - 1]
  /\ UNCHANGED <<mutex, gil, goal, partial>>

--------------------------------------------------------------------------------
(* libc::fork, after the lock was taken.                                   *)

(* The parent, or a fork that failed.                                      *)
ForkParent(t) ==
  /\ gil = t /\ at[t] = "fork"
  /\ GiveLevel(t)
  /\ UNCHANGED <<mutex, gil, goal, nest, partial>>

ForkChild(t) ==
  /\ gil = t /\ at[t] = "fork"
  /\ at' = [u \in Threads |-> IF u = t THEN "child" ELSE "gone"]
  /\ nest' = [u \in Threads |-> IF u = t THEN nest[t] ELSE 0]
  /\ mutex' = IF mutex = None THEN None ELSE Lost
  /\ partial' = (partial \/ \E u \in Threads \ {t} : nest[u] > 0)
  /\ UNCHANGED <<owner, level, gil, goal>>

(* Faulty variant: the whole lock is dropped.                              *)
ReinitAll(t) ==
  /\ at[t] = "child" /\ mutex = None
  /\ level' = 0 /\ owner' = None
  /\ Goto(t, "py")
  /\ UNCHANGED <<mutex, gil, goal, nest, partial>>

(* import_lock_reinit_in_child, which locks the mutex.                     *)
Reinit(t) ==
  /\ at[t] = "child" /\ mutex = None
  /\ level' = IF level > 0 THEN level - 1 ELSE level
  /\ owner' = IF level' > 0 THEN t ELSE None
  /\ Goto(t, "py")
  /\ UNCHANGED <<mutex, gil, goal, nest, partial>>

--------------------------------------------------------------------------------
WaitStep(t) == LockMutex(t) \/ Grant(t) \/ Park(t)

Next == \E t \in Threads :
  \/ DropGil(t) \/ TakeGil(t) \/ \E u \in Threads : Start(t, u)
  \/ \E g \in {"own", "fork"} : Acquire(t, g)
  \/ WaitStep(t)
  \/ Release(t) \/ ForkParent(t) \/ ForkChild(t) \/ Reinit(t)

Spec == Init /\ [][Next]_vars

--------------------------------------------------------------------------------
(* Properties.                                                             *)

TypeOK ==
  /\ owner \in Threads \cup {None} /\ level \in Nat
  /\ (owner = None <=> level = 0)
  /\ mutex \in Threads \cup {None, Lost} /\ gil \in Threads \cup {None}
  /\ at \in [Threads -> Places]
  /\ goal \in [Threads -> {"own", "fork"}]
  /\ nest \in [Threads -> 0 .. MaxNest]
  /\ partial \in BOOLEAN

(* The levels a thread holds: its code's, and the fork's.                  *)
Forking(t) == at[t] \in {"fork", "child"} \/ (at[t] = "back" /\ goal[t] = "fork")
Levels(t) == nest[t] + IF Forking(t) THEN 1 ELSE 0

(* The lock stays releasable level by level, by the thread whose code took *)
(* it, in the parent and in the child, whatever was nested around the fork *)
(* (import_lock_release would raise "not holding the import lock").        *)
LevelsMatch == \A t \in Threads :
  Levels(t) = IF owner = t THEN level ELSE 0

(* "The child then never observes partially initialized modules": nobody   *)
(* else was inside the lock when a child was made.                         *)
ChildSeesNoLoad == ~partial

(* Nobody sleeps beside a free lock: the test, the wait and the            *)
(* notification are all inside the mutex.                                  *)
ParkedBehindOwner == \A t \in Threads :
  at[t] = "parked" => owner \notin {None, t}
================================================================================
