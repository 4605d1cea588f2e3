---------------------------------- MODULE Gil ----------------------------------
(***************************************************************************)
(* The process-wide GIL of weavepy-vm (gil.rs): GilState::acquire and the  *)
(* release by GilGuard's drop, the per-thread guard stack, the entries     *)
(* that push on it (run_module, hold_gil, PyGILState_Ensure), the blocking *)
(* releases that empty it (allow_threads_then, PyEval_SaveThread) and the  *)
(* cooperative hand-off of maybe_yield_gil, which parks on switch_cond.    *)
(*                                                                         *)
(* One action is one atomic access to shared state.  What a thread does    *)
(* while it runs Python, or while it blocks outside the GIL, is abstracted *)
(* to its next operation on the GIL.  Whether the switch interval is over  *)
(* is left open here; module SwitchInterval models the two clocks.         *)
(***************************************************************************)
EXTENDS Integers, Sequences, FiniteSets, OsThreads

CONSTANTS None,       \* no thread: the zero of `holder` and of the lock words
          MaxFrames   \* bound on the nesting of scopes within one thread

ASSUME ThreadsAssumption == IsFiniteSet(Threads)
ASSUME NoneAssumption == None \notin Threads
ASSUME FramesAssumption == MaxFrames \in Nat

VARIABLES
  owner,    \* thread inside GilState.lock, a reentrant mutex
  count,    \* how many times the owner has locked it
  holder,   \* GilState.holder
  depth,    \* GilState.depth
  waiters,  \* GilState.breaker.waiters
  moved,    \* threads whose saved `gen` no longer equals switch_number
  mutex,    \* thread inside switch_mutex
  pc,       \* where each thread stands
  goal,     \* the operation an acquisition or a release is part of
  todo,     \* guards that operation still has to take or to drop
  taken,    \* its `count`: how many guards it popped
  guards,   \* length of each thread's GIL_GUARD_STACK
  frames    \* each thread's open scopes, innermost last

lockVars == <<owner, count, holder, depth>>
vars == <<lockVars, waiters, moved, mutex, pc, goal, todo, taken, guards, frames>>

--------------------------------------------------------------------------------
(* Types and the initial state.                                            *)

(* An "enter" scope took the GIL unless the thread held it (`n` guards     *)
(* pushed); "block" and "save" scopes gave up the `n` guards they popped.  *)
Frame == [kind : {"enter", "block", "save"}, n : Nat]

AcquireSteps == {"add", "lock", "remove", "bump", "notify", "register", "publish"}
DropSteps == {"unpublish", "unlock"}
ParkSteps == {"park", "check", "wait", "parked", "woken", "late"}
Steps == {"run", "timeout", "done"} \cup AcquireSteps \cup DropSteps \cup ParkSteps

Goals == {"none", "enter", "block", "save", "yield", "exit"}

Init ==
  /\ owner = None /\ count = 0 /\ holder = None /\ depth = 0
  /\ waiters = 0
  /\ moved = {}
  /\ mutex = None
  /\ pc = [t \in Threads |-> "run"]
  /\ goal = [t \in Threads |-> "none"]
  /\ todo = [t \in Threads |-> 0]
  /\ taken = [t \in Threads |-> 0]
  /\ guards = [t \in Threads |-> 0]
  /\ frames = [t \in Threads |-> <<>>]

--------------------------------------------------------------------------------
(* Steps shared by every operation.                                        *)

Goto(t, s) == pc' = [pc EXCEPT ![t] = s]

(* Take `n` guards, one GilState::acquire each, then finish operation `g`. *)
StartAcquire(t, g, n) ==
  /\ Goto(t, "add")
  /\ goal' = [goal EXCEPT ![t] = g]
  /\ todo' = [todo EXCEPT ![t] = n]
  /\ taken' = [taken EXCEPT ![t] = n]

(* Drop the `n` guards taken off the stack, then finish operation `g`.     *)
StartDrop(t, g, n) ==
  /\ Goto(t, "unpublish")
  /\ goal' = [goal EXCEPT ![t] = g]
  /\ todo' = [todo EXCEPT ![t] = n]
  /\ taken' = [taken EXCEPT ![t] = n]

PushFrame(t, k, n) ==
  /\ Len(frames[t]) < MaxFrames
  /\ frames' = [frames EXCEPT ![t] = Append(@, [kind |-> k, n |-> n])]

Top(t) == frames[t][Len(frames[t])]
TopIs(t, k) == frames[t] # <<>> /\ Top(t).kind = k

PopFrame(t) ==
  frames' = [frames EXCEPT ![t] = SubSeq(@, 1, Len(@) - 1)]

Idle(t) == pc[t] = "run"

--------------------------------------------------------------------------------
(* GilState::acquire and acquire_within.                                   *)

(* Faulty variant: the waiter is not counted.                              *)
AddNoWaiter(t) ==
  /\ pc[t] = "add"
  /\ Goto(t, "lock")
  /\ UNCHANGED <<lockVars, waiters, moved, mutex, goal, todo, taken, guards, frames>>

AddWaiter(t) ==
  /\ pc[t] = "add"
  /\ waiters' = waiters + 1
  /\ Goto(t, "lock")
  /\ UNCHANGED <<lockVars, moved, mutex, goal, todo, taken, guards, frames>>

(* Faulty variant: the lock is taken whoever is inside.                    *)
LockAnyway(t) ==
  /\ pc[t] = "lock"
  /\ owner' = t
  /\ count' = count + 1
  /\ Goto(t, "remove")
  /\ UNCHANGED <<holder, depth, waiters, moved, mutex, goal, todo, taken, guards, frames>>

(* try_lock_for succeeds; a 50 ms attempt that fails is tried again.       *)
Lock(t) ==
  /\ pc[t] = "lock"
  /\ owner \in {None, t}
  /\ owner' = t
  /\ count' = count + 1
  /\ Goto(t, "remove")
  /\ UNCHANGED <<holder, depth, waiters, moved, mutex, goal, todo, taken, guards, frames>>

(* acquire_within gives up when its one attempt fails (the exit of a       *)
(* thread that waits EXIT_GIL_WAIT for a busy GIL).                        *)
LockTimeout(t) ==
  /\ pc[t] = "lock" /\ goal[t] = "exit"
  /\ owner \notin {None, t}
  /\ Goto(t, "timeout")
  /\ UNCHANGED <<lockVars, waiters, moved, mutex, goal, todo, taken, guards, frames>>

RemoveWaiter(t) ==
  /\ pc[t] \in {"remove", "timeout"}
  /\ waiters' = waiters - 1
  /\ Goto(t, IF pc[t] = "remove" THEN "bump" ELSE "done")
  /\ UNCHANGED <<lockVars, moved, mutex, goal, todo, taken, guards, frames>>

(* note_acquired: switch_number moves past every saved `gen`, and then     *)
(* notify_all, which does not take switch_mutex.                           *)
Bump(t) ==
  /\ pc[t] = "bump"
  /\ moved' = Threads
  /\ Goto(t, "notify")
  /\ UNCHANGED <<lockVars, waiters, mutex, goal, todo, taken, guards, frames>>

Notify(t) ==
  /\ pc[t] = "notify"
  /\ pc' = [u \in Threads |-> IF u = t THEN "register"
                              ELSE IF pc[u] = "parked" THEN "woken" ELSE pc[u]]
  /\ UNCHANGED <<lockVars, waiters, moved, mutex, goal, todo, taken, guards, frames>>

(* note_vm_thread, which touches no GIL state: module GilCells adds what   *)
(* it does to the cells, and that it may have to wait there.               *)
Register(t) ==
  /\ pc[t] = "register"
  /\ Goto(t, "publish")
  /\ UNCHANGED <<lockVars, waiters, moved, mutex, goal, todo, taken, guards, frames>>

(* The new guard is counted; when it is the last one of its operation it   *)
(* reaches the guard stack: pushed by an entry and by RestoreThread,       *)
(* written over the stack by allow_threads_then and the hand-off, dropped  *)
(* at once by an exiting thread.                                           *)
Publish(t) ==
  /\ pc[t] = "publish"
  /\ holder' = t
  /\ depth' = depth + 1
  /\ todo' = [todo EXCEPT ![t] = IF goal[t] = "exit" THEN @ ELSE @ - 1]
  /\ Goto(t, IF goal[t] = "exit" THEN "unpublish"
             ELSE IF todo[t] > 1 THEN "add" ELSE "run")
  /\ guards' = [guards EXCEPT ![t] =
                  IF todo[t] > 1 \/ goal[t] = "exit" THEN @
                  ELSE IF goal[t] \in {"enter", "save"} THEN @ + 1
                  ELSE taken[t]]
  /\ UNCHANGED <<owner, count, waiters, moved, mutex, goal, taken, frames>>

--------------------------------------------------------------------------------
(* GilGuard's drop, guard by guard.                                        *)

Unpublish(t) ==
  /\ pc[t] = "unpublish"
  /\ depth' = depth - 1
  /\ holder' = IF depth' = 0 THEN None ELSE holder
  /\ Goto(t, "unlock")
  /\ UNCHANGED <<owner, count, waiters, moved, mutex, goal, todo, taken, guards, frames>>

AfterDrop(t) ==
  CASE todo[t] > 1        -> "unpublish"
    [] goal[t] = "yield"  -> "park"
    [] goal[t] = "exit"   -> "done"
    [] OTHER              -> "run"

Unlock(t) ==
  /\ pc[t] = "unlock"
  /\ count' = count - 1
  /\ owner' = IF count' = 0 THEN None ELSE owner
  /\ todo' = [todo EXCEPT ![t] = @ - 1]
  /\ Goto(t, AfterDrop(t))
  /\ UNCHANGED <<holder, depth, waiters, moved, mutex, goal, taken, guards, frames>>

--------------------------------------------------------------------------------
(* Entries: run_module, run_site, GilScope::engage, PyGILState_Ensure.     *)

Enter(t) ==
  /\ Idle(t) /\ guards[t] = 0
  /\ PushFrame(t, "enter", 1)
  /\ StartAcquire(t, "enter", 1)
  /\ UNCHANGED <<lockVars, waiters, moved, mutex, guards>>

(* Faulty variant: an entry pushes a guard though the thread has one.      *)
EnterAgain(t) ==
  /\ Idle(t) /\ guards[t] > 0
  /\ PushFrame(t, "enter", 1)
  /\ StartAcquire(t, "enter", 1)
  /\ UNCHANGED <<lockVars, waiters, moved, mutex, guards>>

EnterHeld(t) ==
  /\ Idle(t) /\ guards[t] > 0
  /\ PushFrame(t, "enter", 0)
  /\ UNCHANGED <<lockVars, waiters, moved, mutex, pc, goal, todo, taken, guards>>

(* The end of the scope: only an engaged one pops and drops a guard.       *)
Exit(t) ==
  /\ Idle(t) /\ TopIs(t, "enter") /\ Top(t).n = 1
  /\ PopFrame(t)
  /\ guards' = [guards EXCEPT ![t] = @ - 1]
  /\ StartDrop(t, "enter", 1)
  /\ UNCHANGED <<lockVars, waiters, moved, mutex>>

ExitHeld(t) ==
  /\ Idle(t) /\ TopIs(t, "enter") /\ Top(t).n = 0
  /\ PopFrame(t)
  /\ UNCHANGED <<lockVars, waiters, moved, mutex, pc, goal, todo, taken, guards>>

--------------------------------------------------------------------------------
(* Blocking releases: allow_threads_then and SaveThread / RestoreThread.   *)

(* Faulty variant: the guards are taken off the stack and not dropped.     *)
BlockInside(t) ==
  /\ Idle(t) /\ guards[t] > 0
  /\ PushFrame(t, "block", guards[t])
  /\ guards' = [guards EXCEPT ![t] = 0]
  /\ UNCHANGED <<lockVars, waiters, moved, mutex, pc, goal, todo, taken>>

Block(t) ==
  /\ Idle(t) /\ guards[t] > 0
  /\ PushFrame(t, "block", guards[t])
  /\ guards' = [guards EXCEPT ![t] = 0]
  /\ StartDrop(t, "block", guards[t])
  /\ UNCHANGED <<lockVars, waiters, moved, mutex>>

Save(t) ==
  /\ Idle(t) /\ guards[t] > 0
  /\ PushFrame(t, "save", 1)
  /\ guards' = [guards EXCEPT ![t] = @ - 1]
  /\ StartDrop(t, "save", 1)
  /\ UNCHANGED <<lockVars, waiters, moved, mutex>>

(* On an empty guard stack both are plain passthroughs (a null token).     *)
BlockIdle(t) ==
  /\ Idle(t) /\ guards[t] = 0
  /\ \E k \in {"block", "save"} : PushFrame(t, k, 0)
  /\ UNCHANGED <<lockVars, waiters, moved, mutex, pc, goal, todo, taken, guards>>

Resume(t) ==
  /\ Idle(t)
  /\ \E k \in {"block", "save"} :
       /\ TopIs(t, k) /\ Top(t).n > 0
       /\ StartAcquire(t, k, Top(t).n)
  /\ PopFrame(t)
  /\ UNCHANGED <<lockVars, waiters, moved, mutex, guards>>

(* allow_threads_then writes its empty vector over the stack.              *)
ResumeIdle(t) ==
  /\ Idle(t)
  /\ \E k \in {"block", "save"} :
       /\ TopIs(t, k) /\ Top(t).n = 0
       /\ guards' = [guards EXCEPT ![t] = IF k = "block" THEN 0 ELSE @]
  /\ PopFrame(t)
  /\ UNCHANGED <<lockVars, waiters, moved, mutex, pc, goal, todo, taken>>

--------------------------------------------------------------------------------
(* maybe_yield_gil: pop the guards, read `gen`, drop them, wait on         *)
(* switch_cond until switch_number moves, then take the guards back.       *)

Yield(t) ==
  /\ Idle(t) /\ waiters > 0 /\ guards[t] > 0
  /\ guards' = [guards EXCEPT ![t] = 0]
  /\ moved' = moved \ {t}
  /\ StartDrop(t, "yield", guards[t])
  /\ UNCHANGED <<lockVars, waiters, mutex, frames>>

TakeMutex(t) ==
  /\ pc[t] \in {"park", "woken", "late"}
  /\ mutex = None
  /\ mutex' = IF pc[t] = "late" THEN None ELSE t
  /\ IF pc[t] = "late"
     THEN StartAcquire(t, "yield", taken[t])
     ELSE Goto(t, "check") /\ UNCHANGED <<goal, todo, taken>>
  /\ UNCHANGED <<lockVars, waiters, moved, guards, frames>>

(* The loop's condition, read under switch_mutex ...                       *)
Check(t) ==
  /\ pc[t] = "check"
  /\ t \notin moved /\ waiters > 0
  /\ Goto(t, "wait")
  /\ UNCHANGED <<lockVars, waiters, moved, mutex, goal, todo, taken, guards, frames>>

(* ... and then wait_for, which unlocks switch_mutex and parks at once.    *)
Wait(t) ==
  /\ pc[t] = "wait"
  /\ mutex' = None
  /\ Goto(t, "parked")
  /\ UNCHANGED <<lockVars, waiters, moved, goal, todo, taken, guards, frames>>

Proceed(t) ==
  /\ pc[t] = "check"
  /\ t \in moved \/ waiters = 0
  /\ mutex' = None
  /\ StartAcquire(t, "yield", taken[t])
  /\ UNCHANGED <<lockVars, waiters, moved, guards, frames>>

(* Faulty variant: the park is untimed.                                    *)
WaitForEver(t) == pc[t] = "parked" /\ FALSE /\ UNCHANGED vars

(* wait_for's 5 ms run out.                                                *)
WaitTimeout(t) ==
  /\ pc[t] = "parked"
  /\ Goto(t, "late")
  /\ UNCHANGED <<lockVars, waiters, moved, mutex, goal, todo, taken, guards, frames>>

--------------------------------------------------------------------------------
(* A thread ends outside every scope; ReleaseUnderGil's destructor takes   *)
(* the GIL directly, without the guard stack.                              *)
ThreadExit(t) ==
  /\ Idle(t) /\ frames[t] = <<>>
  /\ owner # t
  /\ StartAcquire(t, "exit", 1)
  /\ UNCHANGED <<lockVars, waiters, moved, mutex, guards, frames>>

(* os.fork in a thread that runs VM code, seen by the child, which goes on *)
(* as this process: only that thread is left.  reinit_after_fork_in_child  *)
(* forgets its guards, replaces the locks, zeroes what it published and    *)
(* counted, and takes as many guards again.  The other threads' identities *)
(* stand for the threads the child starts.  (In the parent a fork changes  *)
(* nothing here.)                                                          *)

Alone(t, f, x) == [u \in Threads |-> IF u = t THEN f[t] ELSE x]

(* Faulty variant: the vanished threads stay counted as waiters.           *)
ForkKeepsWaiters(t) ==
  /\ Idle(t) /\ guards[t] > 0
  /\ owner' = t /\ count' = guards[t]
  /\ holder' = t /\ depth' = guards[t]
  /\ moved' = Threads /\ mutex' = None
  /\ pc' = Alone(t, pc, "run") /\ goal' = Alone(t, goal, "none")
  /\ todo' = Alone(t, todo, 0) /\ taken' = Alone(t, taken, 0)
  /\ guards' = Alone(t, guards, 0) /\ frames' = Alone(t, frames, <<>>)
  /\ UNCHANGED waiters

Fork(t) ==
  /\ Idle(t) /\ guards[t] > 0
  /\ owner' = t /\ count' = guards[t]
  /\ holder' = t /\ depth' = guards[t]
  /\ waiters' = 0
  /\ moved' = Threads /\ mutex' = None
  /\ pc' = Alone(t, pc, "run") /\ goal' = Alone(t, goal, "none")
  /\ todo' = Alone(t, todo, 0) /\ taken' = Alone(t, taken, 0)
  /\ guards' = Alone(t, guards, 0) /\ frames' = Alone(t, frames, <<>>)

AllDone ==
  /\ \A t \in Threads : pc[t] = "done"
  /\ UNCHANGED vars

--------------------------------------------------------------------------------
AcquireStep(t) ==
  \/ AddWaiter(t) \/ Lock(t) \/ LockTimeout(t) \/ RemoveWaiter(t)
  \/ Bump(t) \/ Notify(t) \/ Register(t) \/ Publish(t)
DropStep(t) == Unpublish(t) \/ Unlock(t)
ScopeStep(t) == Enter(t) \/ EnterHeld(t) \/ Exit(t) \/ ExitHeld(t)
BlockStep(t) == Block(t) \/ Save(t) \/ BlockIdle(t) \/ Resume(t) \/ ResumeIdle(t)
YieldStep(t) == Yield(t) \/ TakeMutex(t) \/ Check(t) \/ Wait(t) \/ Proceed(t) \/ WaitTimeout(t)

ThreadStep(t) ==
  AcquireStep(t) \/ DropStep(t) \/ ScopeStep(t) \/ BlockStep(t) \/ YieldStep(t)
  \/ ThreadExit(t)

Next == (\E t \in Threads : ThreadStep(t) \/ Fork(t)) \/ AllDone

Spec == Init /\ [][Next]_vars

(***************************************************************************)
(* Fairness.  A thread that is in the middle of an operation goes on, and  *)
(* a thread that runs Python reaches a checkpoint (every 128 opcodes), but *)
(* nothing makes it leave a scope or a blocking call.  A waiter of the GIL *)
(* lock and of switch_mutex is not passed over for ever: both are          *)
(* parking_lot locks, whose unlock hands the lock to the oldest waiter at  *)
(* regular intervals (eventual fairness).                                  *)
(***************************************************************************)
Ongoing(t) ==
  \/ AddWaiter(t) \/ RemoveWaiter(t) \/ Bump(t) \/ Notify(t) \/ Register(t)
  \/ Publish(t) \/ Unpublish(t) \/ Unlock(t)
  \/ Check(t) \/ Wait(t) \/ Proceed(t)

Fairness == \A t \in Threads :
  /\ WF_vars(Ongoing(t)) /\ WF_vars(Yield(t)) /\ WF_vars(WaitTimeout(t))
  /\ SF_vars(Lock(t)) /\ SF_vars(TakeMutex(t))

FairSpec == Spec /\ Fairness

--------------------------------------------------------------------------------
(* Properties.                                                             *)

TypeOK ==
  /\ owner \in Threads \cup {None} /\ count \in Nat
  /\ holder \in Threads \cup {None} /\ depth \in Nat
  /\ waiters \in Nat
  /\ moved \in SUBSET Threads
  /\ mutex \in Threads \cup {None}
  /\ pc \in [Threads -> Steps]
  /\ goal \in [Threads -> Goals]
  /\ todo \in [Threads -> Nat]
  /\ taken \in [Threads -> Nat]
  /\ guards \in [Threads -> Nat]
  /\ frames \in [Threads -> Seq(Frame)]

(* A thread executes VM code: it has a guard and no GIL operation under way. *)
Running(t) == pc[t] = "run" /\ guards[t] > 0

(* current_thread_holds_gil reads only the thread's own guard stack, and   *)
(* every path that touches objects trusts it.  Between operations the      *)
(* stack tells the truth: a thread with guards is inside the lock exactly  *)
(* as often as it has guards and is the recorded holder, and a thread      *)
(* without guards is not inside.  So at most one thread runs VM code.      *)
StackBacksLock == \A t \in Threads : pc[t] \in {"run", "done"} =>
  IF guards[t] > 0
  THEN owner = t /\ holder = t /\ count = guards[t] /\ depth = guards[t]
  ELSE owner # t /\ holder # t

(* The guards a thread's open scopes promise: one inside an entry, none    *)
(* inside a blocking release.                                              *)
Holds(fs) == fs # <<>> /\ fs[Len(fs)].kind = "enter"
Promised(t) == IF Holds(frames[t]) THEN 1 ELSE 0

(* Whatever hand-offs, nested entries and blocking calls happened inside a *)
(* scope, the stack is back as the scope left it (GilScope's drop: "it     *)
(* restores as many as it took").  It never nests two guards, which is why *)
(* PyEval_SaveThread, popping one guard, does release the GIL.             *)
ScopesRestore == \A t \in Threads :
  pc[t] = "run" => guards[t] = Promised(t)

(* `holder` names the thread inside the lock, or nobody.                   *)
HolderInside == holder \in {owner, None}

(* breaker.waiters is the number of threads waiting for the GIL: a hand-off *)
(* is neither missed (a waiter starves) nor made to nobody.                *)
WaitersCounted ==
  waiters = Cardinality({t \in Threads : pc[t] \in {"lock", "remove", "timeout"}})

(* Every acquire, release, hand-off and thread exit comes to an end.       *)
OperationsEnd == \A t \in Threads :
  pc[t] \notin {"run", "done"} ~> pc[t] \in {"run", "done"}

(* What the rest of the VM is promised: GilContract, of the threads that   *)
(* execute VM code.                                                        *)
Contract == INSTANCE GilContract WITH running <- {t \in Threads : Running(t)}
ContractSpec == Contract!Spec
================================================================================
