# A TLA+ model of the WeavePy VM's concurrency core

WeavePy is a Python interpreter written in Rust: lexer, parser, compiler, a
virtual machine with several JIT tiers, a C API, and native versions of much of
the standard library. Most of it is sequential and is graded against CPython's
own test suite. What such a suite reaches badly is what happens between
threads, signals and coroutines: the global interpreter lock (GIL) and its
hand-off, the borrow state of every object under that lock, the primitives that
Python programs wait on, the work that waits for a safe point, the end of
threads and of the process, and the switching of greenlets and asyncio tasks.
This directory models that core from the source, checks it with TLC and proves
its main invariants with TLAPS.

Paths below are relative to the repository; `vm/` stands for
`crates/weavepy-vm/src/`.

## Inventory

| Component | State it keeps | Operations | Modelled in |
|---|---|---|---|
| GIL, `vm/gil.rs` | reentrant lock, `holder`, `depth`, `breaker.waiters`, `switch_number`/`switch_mutex`/`switch_cond`; per thread `GIL_GUARD_STACK` | `acquire`, `acquire_within`, guard drop, entries (`GilScope`, `run_module`, `PyGILState_Ensure`), blocking releases (`allow_threads_then`, `PyEval_SaveThread`), `maybe_yield_gil`, thread exit, `reinit_after_fork_in_child` | `Gil`, `GilContract`, `GilProofs` |
| Switch interval, `vm/gil.rs` | `GIL_HELD_SINCE`, `WAITER_SEEN_SINCE` (per thread), `WAITER_CLOCK_ARMED` (global) | `note_gil_acquired`, the three outcomes of a checkpoint | `SwitchInterval`, `GilProofs` |
| `GilCell`, `vm/sync.rs` | per cell a lock word and a borrow counter; `CELLS_SHARED`, `FIRST`, `SOLE_GUARDS`; per thread `live_guards` | biased and locked borrows, contention, guard drops, `note_vm_thread`, `revoke_bias`, `mark_cells_shared` | `GilCells` (on `Gil`), `GilProofs` |
| `_thread.lock`, `vm/sync.rs`, `vm/stdlib/thread_real.rs` | `LockState{held, owner}`, mutex, condition variable | try, plain, timed and sliced acquire, release by anybody | `ThreadLock`, `ThreadLockProofs` |
| `_queue.SimpleQueue`, `vm/stdlib/queue_native.rs`, `vm/stdlib/python/_queue.py` | deque, gate lock, `_locked` | put, get (nowait, timed, blocking), a handler's exception inside get | `SimpleQueue`, `SimpleQueueProofs` |
| Import lock, `vm/stdlib/imp_mod.rs` | `ImportLockState{owner, count}`, mutex, condition variable | acquire (under the GIL, then outside it), release, fork's acquisition, reinit in a fork child | `ImportLock`, `ImportLockProofs` |
| Fork, `vm/stdlib/os_process.rs`, `vm/gil.rs` | copies of everything above | after-fork hooks, GIL rebuilt, new registry, vanished threads | import lock in `ImportLock`, GIL in `Gil!Fork`, registry and handles in `ThreadLife!ForkChild` |
| Thread lifecycle, `vm/stdlib/thread_real.rs`, `vm/thread_registry.rs` | handle `done` and `join_lock`, registry entries and their events, phase of the main thread, ident map | start, the steps of a worker's end, join, `is_alive`, `_shutdown`, finalization | `ThreadLife`, `ThreadLifeProofs` |
| Async exceptions, pending calls, hot gates, `vm/gil.rs`, `vm/vm_singletons.rs`, `vm/hot_gates.rs` | `HOT`, `LOOP_GEN`, the loops' snapshots, the exception map, two queues and a latch | set, take, drain, requeue, raise and lower a bit | `EvalBreaker`, `EvalBreakerProofs` |
| Signals, `vm/stdlib/signal_mod.rs` | `ANY_TRIPPED`, `TRIPPED` per signal | the OS handler, `take_tripped`, delivery | `EvalBreaker`, `EvalBreakerProofs` |
| Greenlets, `vm/stdlib/greenlet_native.rs` | registry of bodies, `CHAIN` and `CURRENT` per thread, parents, suspended coroutines, saved execution states | create, switch, throw, death, collection, routing, teardown | `Greenlet`, `GreenletContract`, `GreenletProofs` |
| asyncio futures and tasks, `vm/stdlib/asyncio_mod.rs`, `vm/stdlib/asyncio_events.rs` | per future status and callbacks, per task awaited future, `must_cancel`, count of requests; ready queue, current task | complete, cancel, uncancel, create, eager start, step, wakeup | `AsyncTask`, `AsyncTaskProofs` |
| RLock, `vm/sync.rs` | owner, depth | acquire, release, `_release_save`, `_acquire_restore` | planned |
| Reference counts, `vm/rc.rs`, free-threading, `vm/gil.rs` | count words, `RC_SHARED` | plain and atomic increments, revocation | planned |
| Cycle collector, weak references, `vm/gc_trace.rs`, `vm/weakref_registry.rs` | object graph, generations | trial deletion, finalizers, callbacks | candidate |
| Interpreters and channels, import system, dict index, timsort run stack, exception table | | | candidates |
| Interpreter loop, JIT tiers, object model, parser and compiler, C API layouts, native stdlib, CLI, tools | | | not modelled (see the end) |

How they interact.  A thread that executes Python code has exactly one guard on
its own guard stack.  It touches objects through `GilCell` borrows.  Every 128
opcodes it comes to a checkpoint, which hands the GIL off if somebody waits, no
borrow of the thread is live, and both clocks have run out.  Anything that
blocks, a `_thread.lock` first of all, goes through `allow_threads_then`, which
empties the guard stack, runs the blocking call and fills the stack again.
`SimpleQueue` is built on a `_thread.lock`, half in Rust and half in Python, so
it can be preempted between any two bytecodes of the Python half.  `os.fork` takes
the import lock first, and rebuilds the GIL in the child before anything else.

Besides the GIL checkpoint, a dispatch loop has safe points for signals, pending
calls and asynchronous exceptions.  It looks at them only when `LOOP_GEN` has
moved and `HOT` has a bit set, so whoever leaves work behind must raise both.
Their handlers are Python code with safe points of their own.  A worker ends
step by step outside the GIL, beside the threads that join it and the main
thread's wait for all of them.  Greenlets and asyncio tasks switch within one
thread: the former over native stacks that can only be resumed and suspended,
the latter by handles in the ready queue of a loop.

What is hard, and what correctness means, per component:

- **GIL.** A stack, a lock, two published fields and a counter are updated one
  after the other, without one atomic section around them.  They must agree
  whenever somebody relies on them (`StackBacksLock`, `WaitersCounted`); nested
  scopes must restore what they found (`ScopesRestore`); threads run one at a
  time (`ContractSpec`); everybody who wants the GIL gets it (`OperationsEnd`).
- **Clocks.** Thread-local clocks beside a global flag; a clock of an earlier
  hold must not decide a later one (`NotedHoldsLast`, `ArmedCovers`), and a
  computing thread cannot keep the GIL (`WaiterServed`).
- **Cells.** No aliasing across two borrow paths and the revocation between
  them (`CellExclusion`), no hand-off inside a borrow (`GuardsSeen`), and who can
  wait for whom (`SpinsBehindBlocked`; `NoStuckDrain` and `NoCrossWait` do not hold).
- **Locks.** A notification after the mutex was left, timeouts that consume one,
  barging (`WakeupOnTheWay`, `TimedEnds`).
- **Queue.** Flag and gate set in two bytecodes and cleared in one native step
  (`FlagMeansGate`), one gate for many waiters (`NobodyStranded`, `ItemServed`).
- **Import lock.** The wait is outside the GIL, a fork copies the state at an
  arbitrary moment of it, and the child keeps the levels below the fork's own
  (`LevelsMatch`, `ChildSeesNoLoad`, `ParkedBehindOwner`).
- **Safe points.** Three flags for one signal, raised in one order by a handler
  that runs at any moment and lowered in the other (`SignalsOnTheWay`,
  `SignalServed`); bits that advertise more than one queue (`GateCovers`); loops
  that look at nothing while their snapshot is zero (`QuietSees`); drains that
  call code that drains, and calls that raise (`OneDrain`, `CallsKept`; `MainOnly`
  does not hold).
- **Ends of threads.** Four steps outside the GIL, in an order that joiners, the
  shutdown and a fork child each rely on (`JoinTellsEnd`, `WaitsEnd`); threads
  started while the shutdown waits (`ShutdownWaits`).
- **Greenlets.** A symmetric switch over asymmetric coroutines: no stack may be
  resumed twice or lost track of (`OneStack`), everybody gets the own execution
  state back (`OwnState`), a message reaches the greenlet it names unless that one
  has ended (`ContractSpec`), and it does reach somebody (`SwitchEnds`).  Removal
  from the registry meets greenlets that run, wait in the chain or are suspended;
  `NamesUs`, `NoPanic`, `ReapedAbandoned` and `BoundStays` are what the code says
  of that and does not keep.
- **Tasks.** A coroutine is resumed from a handle, a rescheduled step, a wakeup or
  its creator, never from two (`OneWayOn`); eager starts inside steps inside eager
  starts (`CurrentRuns`); a cancellation travels along awaited tasks and meets
  futures that are done already (`CancelOwed`, `CancelArrives`).

`PROJECT.json` lists every hazard at its line, with the properties for it.

## Modules and how they correspond to the code

### Gil

`owner` and `count` are the reentrant lock; `holder`, `depth`, `waiters` are the
fields of those names.  `moved` abstracts `switch_number`: the set of threads
whose saved `gen` differs from it by now.  `mutex` is `switch_mutex`; a thread
inside `switch_cond.wait_for` has `pc = "parked"`.  `guards[t]` is the length of
the guard stack and `frames[t]` the open scopes (`GilScope`s, blocking calls,
saved thread states), each with the number of guards it took or gave up.

One action is one access to shared state, in the code's order:
`AddWaiter → Lock → RemoveWaiter → Bump → Notify → Register → Publish` is
`GilState::acquire`, and `Unpublish → Unlock` the drop of a guard.  Every
operation (an entry, a resumed blocking call, the end of a hand-off) runs the
same steps, and `goal` says which one it is, so what `Publish` does to the guard
stack differs.  `LockTimeout` exists only for `acquire_within`, which only the
exit of a thread uses.  `Yield, TakeMutex, Check, Wait, WaitTimeout, Proceed` are
`maybe_yield_gil`.

`Fork` is `reinit_after_fork_in_child`: the model goes on as the child, which has
the forking thread with its guards on a fresh lock; the other identities become
threads that have not come in yet.  A fork that goes on as the parent changes
nothing here.  The interpreter's calls around it are not repeated: the import
lock is in `ImportLock`.

`GilContract` is what the rest of the VM relies on: one thread runs, and it
stops before another starts.  `Gil!ContractSpec` is that specification with
`running` mapped to the threads that have a guard and no GIL operation under way.

### SwitchInterval

The decision of `maybe_yield_gil`, over a GIL that is taken and given up in one
step (`Gil` is what justifies that).  `heldSince` and `seenSince` are the ages of the two
thread-local clocks, `armed` is the flag.  `Ask` chooses whether the path of the
entry calls `note_gil_acquired`; the C API's entries and a new worker's do not.
The history variables `holding` and `waited` measure the real durations, which
the properties compare with what the clocks say.  Past the interval a clock's
reading does not matter, so it stays there.

### GilCells

`EXTENDS Gil` and adds the cells.  All steps of `Gil` are taken over, with the
conditions the cells add: a thread that spins in a cell or in the revocation
takes no step of its own, a scope ends only when the borrows taken inside it are
dropped (they are Rust values of inner frames), `HandOff` refuses while
`CellGuardsLive`.  Blocking calls do not refuse.  `Register` of `Gil` becomes
`RegisterKnown` or `RevokeOnAcquire`, after which `Drained` ends the spin of
`revoke_bias`.  A borrow and its drop are one action, since they run under the
GIL; the retreat that the bias's asymmetric barrier allows for a borrow that
races with a revocation outside the GIL is left out, so `CellExclusion` says
nothing of a `CELLS_SHARED` that is read before the flip and used after it
(`mark_cells_shared` is called with the GIL, by the thread that spawns).
`TakeLock`, `AwaitLock`, `GrantLock`, `FreeLock` put a `threading.Lock` in the program; `AwaitLock` is
`allow_threads_then` around the acquire.

### ThreadLock

A step is one section under the lock's own mutex, which `cv.wait` gives up at
once.  `Release` leaves the mutex before `Notify`.  `Take` is the end of every
successful acquire.  The main thread waits in slices between which it serves
signals (`Fail` may go back to `enter`).

### SimpleQueue

`at` is the place in `put`, in `get` or in the native `simplequeue_pop`; each
bytecode-separated step of `_queue.py` is an action, and each native function
one or two.  `Interrupt` leaves `get` with an exception at any of the places
where a signal handler or an asynchronous exception can be served.  `broken` is a
history variable: an exception left a get that may have had the gate.

### ImportLock

`owner` and `level` are the state, `mutex` the thread inside its parking_lot
mutex without the GIL.  A section under the GIL that locks the mutex and does not
block is one step with the guard that the mutex is free; the second section of
`import_lock_acquire` is `LockMutex`, then `Grant` or `Park`, because another
thread can run, and fork, in between.  The GIL is what `Gil` proves it to be: one
thread, given up and taken.  `goal` tells a fork's acquisition from one of the
thread's own code, `nest` counts the levels the code took (a history variable).
`ForkChild` goes on as the child: the other threads are gone, and a mutex one of
them was inside is `Lost`.  `GilCells` and `Gil` have no import lock, and
`GilCells` takes no fork.

### EvalBreaker

`hot` is `HOT` as a set of bits, and `snap` what a loop knows of it: `stale` when
`LOOP_GEN` has moved since, `quiet` or `busy` after it has read.  `NextInstruction`
and `ReadHot` are the prologue of the dispatch loop; `TakeAsync`, `LowerSignals →
SwapAny → TakeTripped → RunHandler → EndSignals` and `TakeCalls → RunCall →
EndCalls` are its three arms in the code's order.  `stack` holds the drains under
way, since a handler or a call is Python code whose loop has the same arms;
`Instruction` is what that code does: add a call, set or clear an exception, fill
a free moment (`CallBack` is the retry of a blocking call), return, raise.
`Trampoline` is the OS handler, one store at a time, with no GIL.  `EndWorker` and
`ForgetIdent` are a worker's end as the exception map sees it.  VM threads hand
the GIL over at any step that has no store of the other's in it; `Gil` is what
justifies that.  `EndCalls` puts the untouched rest of a drain that raised into
the queue of any thread, as the code does.

### ThreadLife

`pc[u]` is where a thread is.  A worker: `boot`, `enter`, `run`; then `Leave` (it
drops the GIL), `SetDone`, `MarkFinished`, `ReleaseJoinLock`, `OsThreadEnds`.
`StartThread`, then `Register`, are a start, `StartFails` one the OS refuses.  A
join is `Join`, `TryLock`, `Grab` or `SliceEnds` outside the GIL, `FreeJoinLock`;
its passes during finalization are `late` and `pass`.  The main thread's end is
`Shutdown` (its own handle is marked done), `Scan`, `Await`, `OsJoin`, `PassDone`,
then `Finalize` and `ExitMain`.  The GIL and the lock inside a join lock are one
holder each.  `ForkChild` goes on as the child: the other threads are `vanished`,
their handles done, their join locks held for ever.  `owed` is a history variable
for what `_shutdown` promises: the non-daemon threads started by the script's main
thread before it ends, or by such a thread.

### Greenlet

`chain[t]` is `CHAIN`, who resumed whom, `parked` the bodies that hold a suspended
coroutine, `mail[t]` the directive in the hands of the routing loop.  One turn of
that loop is one of `Redirect` (the target is dead), `Deliver` (it is the one that
waits here), `Suspend` (it is active below), `Resume`, `Start`, `Stillborn` (an
exception for one that has not started) and `Panic` (an `expect` that fails).
Python code creates, reparents, switches, throws, dies and is collected.  `saved`
and `live` say whose execution state is where.  `call[b]` is the switch, throw or
`__del__` that b's stack is inside: `as` is the id its routing loop goes by
(`self_id`), `to` the greenlet it was called on, which that call keeps alive, `del`
whether it is a `__del__`, which removes `to` from the registry when it returns.

`Collect` is `green_del`, of any greenlet that no call under way refers to.  The
one that runs and those below it in the chain are among them: a parent is a
number and the body's own reference is weak, so nothing refers to a greenlet that
was resumed by a death or a redirect.  From its removal on `CurrentBody` is the
main greenlet, as in the code; once it switches under main's name the thread is in
`astray`, a history variable; `OwnState` ends there, since main's state is lost, and
the contract says nothing more of that thread.  `Remove` is `registry_remove` and the reaping at a thread's end.  It
does not drop a suspended body: `greenlet_main` takes an `Rc` of the body in its
first line (600) and has it until it returns, so the suspended stack itself keeps
the body it is suspended in, and `Drop` with its `force_reset` (192) does not run.
The coroutine stays in the body, unreachable by any switch (finding 7).

`GreenletContract` is the symmetric switch that Python code is promised;
`ContractSpec` maps it to the greenlet that runs and the directive under way,
whatever stacks lie between.  A thread that panicked or went astray has left the
contract: it neither runs nor has mail there.

### AsyncTask

One step of the model is one call of the code, since one thread runs the loop.
`status`, `callbacks`, `waiter`, `must`, `requests` are fields of `FutState`;
`ready` is the loop's `_ready`, of each handle the task and, for a wakeup, the
future; `running` the coroutines on the native stack, each eager one with the
task that was current before (`outer`).  `Create` and `EagerStart` are the two
ends of `task_init`, `Step` is a handle's `task_step` or wakeup up to the
coroutine, and `Await`, `YieldNow`, `Finish` are `task_step_handle_result` with
`leave_task` or the end of the eager start (`Pop`).  `Settle` completes a future
and schedules its callbacks.  `Request` is `task_cancel`, whose recursion along
`fut_waiter` is `Asked`, the tasks it goes through, and `LastAsked`, where it ends;
that there is an end is an invariant (`Acyclic`, proved), as a task that would
close a circle of awaits is left out: there the code recurses without end.
`owed` is a history variable: the tasks whose coroutine must still see a
`CancelledError`.

## Runs

| Run | Instance | Shows |
|---|---|---|
| `gil` | 2 threads, scopes 3 deep, fair | `TypeOK`, `StackBacksLock`, `WaitersCounted`, `ScopesRestore`, the refinement `ContractSpec`, `OperationsEnd` |
| `cells` | 2 threads, 1 cell, 2 guards a thread, 1 lock, scopes 3 deep | `CellTypeOK`, `CellExclusion`, `GuardsSeen`, `SpinsBehindBlocked` |
| `cells_drain` | the same | violated: `NoStuckDrain` (finding 1) |
| `switch` | 2 threads, interval 2, fair | `ClockTypeOK`, `ArmedCovers`, `NotedHoldsLast`, `WaiterServed` |
| `lock` | main thread and 2 others, fair | `WakeupOnTheWay`, `TimedEnds` |
| `queue` | 3 threads, 2 items, fair | `FlagMeansGate`, `NobodyStranded`, `ItemServed` |
| `import_lock` | main thread and 2 others, 2 levels each | `LevelsMatch`, `ChildSeesNoLoad`, `ParkedBehindOwner` |
| `pending` | main thread and a worker, 2 calls, 1 signal, queues of 1, drains 2 deep, fair | `GateCovers`, `SignalsOnTheWay`, `QuietSees`, `OneDrain`, `CallsKept`, `SignalServed` |
| `threads` | main thread and 2 others, forks, fair | `JoinTellsEnd`, `ShutdownWaits`, `WaitsEnd` |
| `greenlet` | 2 threads, 2 greenlets, fair | `OneStack`, `OwnState`, the refinement `ContractSpec`, `SwitchEnds` |
| `greenlet_threads` | the same | violated: `BoundStays` (finding 2) |
| `tasks` | 3 tasks, 1 future, 2 requests a task, fair | `TypeOK`, `OneWayOn`, `CurrentRuns`, `CancelOwed`, `CancelArrives` |

Five more configurations reproduce disagreements of the code with its docs that are
listed under the findings; each checks one property, which TLC finds violated
in less than half a minute: `MCGilCells_crosswait.cfg` (`NoCrossWait`),
`MCEvalBreaker_main.cfg` (`MainOnly`), `MCGreenlet_collect.cfg` (`NamesUs`),
`MCGreenlet_expects.cfg` (`NoPanic`), `MCGreenlet_reap.cfg` (`ReapedAbandoned`).

Where a run has no `TypeOK`, the module's type invariant is proved and left to
the proof.

Bounds.  `MaxFrames` bounds the nesting of scopes: three levels hold an entry
inside a blocking call inside an entry, the shape a ctypes callback produces, and
every step looks only at the innermost scope.  Two threads are enough for any
one hand-off; the safety properties of `Gil` are proved for any finite number.
`MaxGuards` 2 lets one thread borrow a cell twice (shared and shared, or
refused).  `MaxItems` 2 lets a burst of puts find two waiting gets.  An interval
of two ticks has a clock before it, in the middle and past it.  `MaxNest` 2 nests
a level inside a level around a fork; the third thread is a waiter beside the one
that forks and the one that holds.  In `pending`, queues of one entry are full with
one call, the second call finds them so; `MaxDepth` 2 puts a drain inside a drain,
which is where the latch and a cleared bit are met again, and the worker is the
thread that may take what is not the main thread's.  In `threads` the third thread
is one started by a thread that is being joined.  Two greenlets beside the main
ones make a resume chain of three, so that a suspend passes through a greenlet that
is neither end, and a redirect through one that is dead as well; two threads make
the resumes on a wrong thread, and the panics, part of what `OwnState`,
`ContractSpec` and `SwitchEnds` are checked against.  (One thread with three
greenlets gives no error either, in three minutes; the safety properties are proved
for any number.)  Three tasks make a chain of awaits with a middle,
and an eager start inside an eager start; two requests tell an `uncancel` that
withdraws the last from one that does not.  No counter is cut off by anything else:
`waiters`, `depth` and `count` are bounded by what the threads do.  Symmetry is
used only in the `GilCells` runs, which have no liveness properties.

Deadlock is checked in `gil`, `queue`, `pending` and `switch` (where time can always
pass).  It is not in `lock`, where every thread may wait for a lock that nobody
releases; in `cells`, where finding 1 is a deadlock; in `import_lock`, where a fork
child can be stuck (see below); and in `threads`, `greenlet` and `tasks`, where a
process ends, every greenlet may be gone, and all tasks may be done.

Fairness.  A thread in the middle of an operation goes on (weak fairness), since
the operating system schedules it.  A thread that runs Python comes to its
checkpoint, since the interpreter counts opcodes.  Time passes, and a timed wait
ends.  Nothing is assumed to make a thread end a scope, leave a blocking call,
release a Python lock or call `put`.  Strong fairness is assumed for taking the
GIL lock and `switch_mutex`: both are parking_lot locks, which hand the lock to
the oldest waiter at regular intervals, so a thread that keeps waiting is not
passed over for ever.  `ThreadLock` and `SimpleQueue` assume only weak fairness, so
their liveness properties say that somebody is served, not that everyone is.
`EvalBreaker` assumes strong fairness of the hand-offs to the main thread and of
its steps, which is `OperationsEnd` and `WaiterServed` of the GIL's modules, and
that an OS handler that began ends.  `ThreadLife` assumes the same of the GIL, and
weak fairness of what a thread does by itself (its end, a builtin, the shutdown's
scans), not that its code ever returns.  `Greenlet` has weak fairness of the
routing loop, a plain loop without a wait.  `AsyncTask` has it of `Step`, the
loop's turn, and of `EndStep`: a coroutine comes to its next await or its end.
Nobody is assumed to complete a future or to cancel.

## Findings

1. **The revocation of the bias can spin for ever with the GIL**
   (`sync.rs:669`, run `cells_drain`). The comment at `sync.rs:371` says the first
   thread cannot hold a borrow across a release of the GIL; a blocking call inside
   a borrow does just that. When the second thread of a program first registers in
   that window, it waits, with the GIL, for a guard whose owner needs the GIL.
2. **A greenlet can be resumed on a thread that is not its own**
   (`greenlet_native.rs:519`, run `greenlet_threads`).  The thread of the greenlet
   that a switch names is tested; when that one is dead, or dies, its message goes
   to the nearest alive parent, and nobody looks at that one's thread.  The comment
   at `greenlet_native.rs:161` says all switch paths reject a bound greenlet from
   any other thread, and the safety comment at 168 relies on it.

Each of the next five is shown by a configuration of its own:

3. **A lock awaited inside a borrow can deadlock with the cell** (`gil.rs:834`,
   `sync.rs:871`, `MCGilCells_crosswait.cfg`).  The comment at `sync.rs:859` calls
   contention under the GIL rare and short.  A thread that waits for a
   `threading.Lock` inside a borrow has given the GIL up; the lock's holder
   then spins for the cell with the GIL, and neither goes on.
4. **A main-only pending call can run on a worker** (`vm/lib.rs:6792`,
   `MCEvalBreaker_main.cfg`).  After a call raised, the rest of the drain goes back
   to the queue of any thread, whatever queue a call came from;
   `vm_singletons.rs:822` says main-only calls run exclusively on the main thread.
5. **A collected greenlet that runs is taken for the main greenlet**
   (`greenlet_native.rs:510`, `MCGreenlet_collect.cfg`).  A greenlet resumed by a
   death or a redirect has no reference but Python's.  When its code drops the last
   one, `green_del` removes it while it is current: `getcurrent()` is main, its next
   switch stashes its state over main's, and what it sends to main comes back to
   itself.  The module's doc at 31 says "a directive that names *us* is delivered".
6. **A greenlet that survives its collection runs into an `expect`**
   (`greenlet_native.rs:585`, `MCGreenlet_expects.cfg`).  A suspended greenlet that
   catches `GreenletExit` and switches on is removed when control is back in the
   `green_del` (932), though it may be below in the chain by then; a message for
   somebody further down finds the routing greenlet unregistered.
7. **A reaped greenlet's stack is not abandoned but kept**
   (`greenlet_native.rs:600`, `MCGreenlet_reap.cfg`).  The docs at 194 and 248 say
   that `Drop` abandons a suspended coroutine when its body is reaped; the
   coroutine's own stack holds a reference to that body, so `Drop` does not run, and
   stack and body stay for good.

Met while modelling, and described by the models, but without a run of its own:

- `gil.rs:243`: a hand-off can lose its wakeup, since `note_acquired` notifies
  without `switch_mutex`. The 5 ms timeout ends the park, and with it
  `OperationsEnd` holds.
- `lifecycle.rs:147`: the C API's entries inherit the clocks of an earlier hold,
  which can be handed off before the interval is over.
- `_queue.py:90`: an exception between the two bytecodes that take and flag the gate
  leaves it shut for the later `put`s (`broken` in `SimpleQueue`).
- `imp_mod.rs:120`: a fork child locks the import lock's mutex as it was copied; a
  sibling that waited for the import lock may have had it (`Lost` in `ImportLock`).
- `vm/lib.rs:6750`: a signal handler that raises leaves the other signals of the
  same `take_tripped` unserved (`EndSignals`).
- `thread_real.rs:1059`: a join's pass during finalization runs other code, and a
  fork in there may keep the join from returning (`Forked` in `WaitsEnd`).

## Proofs

The proofs hold for every set of threads (finite, for `Gil` and `GilCells`)
and all values of the bounds.

**GilProofs.** `TypeOK` and the safety invariants are not inductive: whether
`depth - 1` stays a natural number at `Unpublish` depends on where every thread
is.  `IInv` gives, for each place in the protocol, how many guards the thread has
(`Local`), whether it is inside the lock (`LockInv`) and whether it is the
published holder (`HolderInv`), that scopes are `WellNested` (a scope recorded one
guard exactly when it changed whether the thread has the GIL; without it the
`n` popped at the end of a scope is any number), and that `waiters` is the
cardinality of the waiting threads.  The lemmas `PushNested` and `PopNested` are
about sequences, `ScopesStep` says what each step does to the scopes, and
`TypeStep, LockInvStep, HolderStep, OthersStep, OwnStep, WaitStep` preserve one
part of `IInv` each, by cases on the actions; `ForkStep` shows that a fork
establishes all parts at once.  From it follow `TypeCorrect`,
`MutualExclusion`, `HolderTruthful`, `StackRestored`, `WaitersExact`, and
`ImplementsContract`: every step is a step or a stutter of `GilContract`.

The second part is about `GilCells`.  `CellsKeepGil`: every step of the composition
is a step or a stutter of `Gil`, so `IInv` and all that follows from it hold there
too.  `GuardsSeen` and `CellExclusion` rest on each other: a guard is in the wrong
counter only if the bias ended while it was live, and two guards meet on a cell only
if a lock-free one was missed.  `CellInv` takes them apart.  `Biased` says who may
have lock-free borrows and that whoever ends the bias has the GIL until the last of
them is gone; `Counted` that `live_guards` and `SOLE_GUARDS` together count a thread's
guards and that guards of both paths are never live at a time; `Exact`, cell by cell,
that all guards are of one thread (`HolderOf`), that the borrow word is their tally,
and that the lock word is held exactly while a locked guard is; `Levelled` that a
guard is of an open scope.  `AwayBlocked` and `Spinning` carry `SpinsBehindBlocked`:
a thread that has guards and not the GIL gave it up in a blocking call.  One lemma per
group of actions preserves one part each.  `CellTypeCorrect`, `CellsExclude`,
`GuardsNeverMissed`, `SpinsOnlyBehindBlocked`, for any number of threads, cells, locks
and guards, finding 1 included: a revocation that never ends still lets no two borrows
meet.

The third part is about `SwitchInterval`, whose constant `Threads` is the one of `Gil`
(both extend `OsThreads`, which only declares it).  `HoldNoted`
says that `GIL_HELD_SINCE` is the true age of a hold whose beginning was noted, and
`WaitSeen` that its `WAITER_SEEN_SINCE`, once started, is no older than the longest
wait, unless a waiter gave up during the hold; `ClockTypeOK`, which has the mutual exclusion, and
`ArmedCovers` are inductive beside them.  `ClocksTyped`, `FlagCovers` and the action
property `BothClocksRanOut`, for any interval.  `ClocksKeepTurns`: the one-step GIL of
`SwitchInterval` implements `GilContract`, which `Gil` implements as well.

**ThreadLockProofs.** `WakeupOnTheWay` is nearly inductive.  It needs that a
thread about to notify has no deadline (else a timeout could take the wakeup
away before it is sent).  `TypeCorrect`, `NoLostRelease`.

**SimpleQueueProofs.** `NobodyStranded` needs `FlagPending` (a held gate without
the flag has a get about to raise it) and `OpenerThere` (a held gate beside an
item has a thread that will look at it), both unless `broken`; these need that the
gets at "flag" are at most one (`FlagComes`).  `TypeCorrect`, `ReleaseLegal`,
`GateKeptForFlag`, `NoGetStranded`.

**ImportLockProofs.** `LevelsMatch` (a thread's levels are the lock's when it owns
it, and none otherwise) is inductive only with the places of a fork: a thread
inside `os.fork` keeps the GIL (`ForkHoldsGil`), so nobody starts a thread beside
a child that is not reinitialised (`ChildAlone`), and whoever forks owns the lock
(`ForkOwns`), so nobody else's level is lost with it.  `TypeCorrect`,
`StaysReleasable`, `ForkBetweenLoads`, `NoLostRelease`.

**EvalBreakerProofs.** `GateCovers` (the bit of a kind is up while its work is
queued, or the thread that lowered it is about to look) and `SignalsOnTheWay` (a
slot that is set is about to be read, flagged, or about to be flagged, by the
handler's place) are inductive together with `Placed`, which says where drains can
begin; `QuietSees` follows with them (a quiet snapshot is of the present `HOT`, or
a handler is between its two last stores).  `OneDrain` has an invariant of its own:
the latch is up exactly while one level of one stack is a drain of calls.
`CallsKept` counts the places a call is at, and a count is not inductive: it has to
know that a call taken from one place was at no other.  `Kept` says that the two
queues and the rest of every drain (`Rests`) list no call twice (`Distinct`) and have
none in common (`Apart`), and that together they list exactly the calls added and not
started.  Lemmas about appending, joining and cutting such lists (`AppendOne`,
`Joined`, `Headless`) and about drains that start, go on and end (`PushRests`,
`PopRests`, `ReplaceRests`) give one small lemma per kind of step (`TakeKept`,
`RunKept`, `EndKept`, `AddKept`); `KeptIsKept` turns places into counts.  `NoCallLost`.

**ThreadLifeProofs.** Two invariants.  `JInv`: who holds a join lock at each place
(`Held`) and what each of a worker's last steps has published (`Ended`), from which
`JoinTellsEnd` follows although join, the end and a fork interleave freely.
`SInv`: everybody who is owed is in the registry or is about to be put there by
somebody who is owed as well (`Known`), and a pass that has joined nobody so far
has a thread still before it, or all behind it (`PassMisses`); so a pass that joins
nobody shows that all have ended, `ShutdownWaits`.

**GreenletProofs.** `IInv` has the stacks (`Rooted`, `Apart`, `Placed`,
`OnlyParked`) and the states.  A switch under way has taken the state from its
thread (`Emptied`); every started stack but those that run is in the midst of a
call, which goes by the stack's own name, or by the main greenlet's if a collected
greenlet switched there (`Called`); CURRENT is the stack that runs, or the main
greenlet in the latter case (`Steered`).  That a suspended stack's call goes by its own
name is what shows that a suspend puts the right stack away, and that who is
resumed installs its own state.  `StacksInPlace` and `OwnStateBack` follow, for any number of
threads and through the violations of `BoundStays`, `NoPanic` and
`ReapedAbandoned`: a greenlet on the wrong thread still has one stack and its own
state.  `OwnState` ends with the first switch of a collected greenlet, which
stashes its state over main's (finding 5); `OneStack` does not.  The refinement of
`GreenletContract` needs more (`Ties`): a switch names a greenlet that was made, as
every parent was (`Known`), a main greenlet is bound to
its own thread and registered while that has mail (`Binds`), and one thread at a
time is inside a switch (`Single`).  `SymmetricSwitch` is the refinement for any
number of threads and without hypotheses; the contract itself lets a greenlet end
that runs, and a thread leave it.  So what a switch on a thread does is
promised until that thread panics or a collected greenlet switches on it.

**AsyncTaskProofs.** `OneWayOn` is not inductive: that a task in a callback list has
no handle rests on what it awaits.  `Way` adds it: a callback is in the list of the
future that `fut_waiter` names, which is pending; a wakeup's future is the one that
`fut_waiter` names, which is done; a running task awaits nothing.  `Ways` has a
parameter for one task that is on its way from one place to the next, so that each
of the small lemmas (`PopWays`, `RunWays`, `QueueWays`, `TakeWays`, `AwaitWays`,
`SettleWays`, `HatchWays`) moves one task once, and an action is two or three of
them.  `Nested` (each eager start stands on its creator) carries `CurrentRuns`.
`Acyclic` says that no tasks await each other in a circle, whence a cancellation
has an end, `LastAsked`; `CancelOwed` needs it.  `TypeCorrect`, `OneWay`,
`CurrentTruthful`, `CancelNotForgotten`.

Assumptions: `None` is not a thread, greenlet, task or future; threads and
greenlets, tasks and futures are different things; the main thread is a thread; the
set of threads is finite (`Gil`); the bounds are natural numbers.  TLC evaluates
them in every run.

Every safety invariant and every action property that a passing run checks is
proved.  The inductive invariants `CellInv`, `Kept`, `Ties` and
`ClockInv` were checked with TLC on small instances before they were proved.

Only model-checked: everything under fairness (`OperationsEnd`, `WaiterServed`,
`TimedEnds`, `ItemServed`, `SignalServed`, `WaitsEnd`, `SwitchEnds`,
`CancelArrives`), which the proof system does not reach, as it does not `ENABLED`.
Induction over data and recursive operators would be out of reach as well, but no
module here needs them.

## Plan

Done: `OsThreads`, `Gil`, `GilContract`, `GilCells`, `SwitchInterval`, `ThreadLock`,
`SimpleQueue`, `ImportLock`, `EvalBreaker`, `ThreadLife`, `Greenlet`,
`GreenletContract`, `AsyncTask`, and the proofs above.

Left, in this order:

1. `RefcountBias`: plain and atomic increments around the revocation of
   `GilCells`; then free-threading start-up and `reenable_gil_for_extension`.
2. `RLock` in the family of `ThreadLock`; channels and queues of subinterpreters.
3. The collector over small graphs, with weak references: when a weakref dies,
   finalizers, resurrection.

Theorems to come: the same for each of these, and the safety halves of the liveness
properties, which say what a waiting thread waits for.

## Not modelled, and why

- What Python code computes: the interpreter loop, the JIT tiers, the object
  model.  A model would be a transliteration; the modules above take it as "the
  next operation on the GIL, a cell, a lock or a queue".
- Lexer, parser, compiler: pure functions, graded against CPython's suite.
- The C API's object layouts; its thread-state calls are actions of `Gil`.
- Native modules that wrap system calls: they block through
  `allow_threads_then`, which `Gil` has.
- Memory ordering below sequential consistency, and the retreat of a racing
  biased borrow: `GilCells` borrows under the GIL.
- `GilGuard::allow_threads`, `try_acquire` and the `RealSemaphore`,
  `RealCondition` and `RealBarrier` of `sync.rs`, which nothing calls.
- Command line, conformance runner, benchmarks and packaging.
- Of the safe points: the gates for finalizers, collections, C objects, resource
  warnings and identify probes, exceptions of trace functions, the wakeup
  descriptor of signals.
- Of the ends of threads: what code a join's pass runs during finalization, but for
  a fork; a failed spawn's ident; `start_new_thread` without a handle; the ident
  map's lock.  A non-daemon thread started by a daemon or by an `atexit` callback is
  not owed a wait, as `join_non_daemon` has ended or may not see it.
- Of greenlets: contextvars and handled exceptions apart from the rest of the
  execution state; a switch refused because there is no run; the 10,000-step bound
  of the walks along parents; a `__del__` called by hand.  `green_throw` tests the
  thread and switches in one step; the exception's constructor, Python code that may
  run in between (889), is left out.
- Of asyncio: the registries behind `all_tasks`, contexts, `awaited_by`, log flags;
  loops on other threads and what their `call_soon` refuses; a closed loop;
  `Handle.cancel`; subclasses that override methods; a pending task that is
  collected.  A self-await, a future of another loop and a future that was yielded
  without `await` are all `YieldNow`: the coroutine gets an exception in its next
  step.  `KeyboardInterrupt` and `SystemExit` end the task as any exception does;
  that they also stop the loop is left out.
