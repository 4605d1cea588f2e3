------------------------------- MODULE AsyncTask -------------------------------
(***************************************************************************)
(* asyncio_mod.rs: futures and tasks on the ready queue of one event loop. *)
(* A task's coroutine runs in steps.  A step ends when the coroutine       *)
(* returns, raises, or yields: the future it awaits, or nothing.  Its next *)
(* step is started by a handle in the ready queue, that of a step or of    *)
(* the wakeup that the awaited future's completion put there.              *)
(*                                                                         *)
(* cancel() is a request.  It goes down the chain of awaited tasks to a    *)
(* future that can be cancelled, or else stays with the last of these      *)
(* tasks as must_cancel.                                                   *)
(*                                                                         *)
(* One thread runs it all, so a step of the model is one call of the code. *)
(* The code that is not a task's (I/O, timers, other callbacks) acts       *)
(* between two handles.                                                    *)
(***************************************************************************)
EXTENDS Naturals, Sequences

CONSTANTS Tasks, Futures, \* what can be awaited: tasks, and plain futures
          MaxCancels,     \* bound on the cancel requests a task has not undone
          None

ASSUME AsyncAssumption ==
  Tasks \cap Futures = {} /\ None \notin Tasks \cup Futures /\ MaxCancels \in Nat

Awaitables == Tasks \cup Futures

VARIABLES
  status,    \* FutState.status; "fresh" before a task is made
  callbacks, \* FutState.callbacks: the tasks whose __wakeup is in them
  waiter,    \* FutState.fut_waiter
  must,      \* FutState.must_cancel
  requests,  \* num_cancels_requested
  ready,     \* the loop's _ready: of each handle the task, and the future of a wakeup
  running,   \* the tasks whose coroutines run, an eagerly started one on its creator
  current,   \* THREAD_TASK.task
  owed       \* history: the tasks whose coroutine is owed a CancelledError

vars == <<status, callbacks, waiter, must, requests, ready, running, current, owed>>

StepOf(t) == [task |-> t, of |-> None]
Wakeup(t, o) == [task |-> t, of |-> o]
Idle == running = <<>>
Top == running[Len(running)]

Init ==
  /\ status = [o \in Awaitables |-> IF o \in Futures THEN "pending" ELSE "fresh"]
  /\ callbacks = [o \in Awaitables |-> <<>>]
  /\ waiter = [t \in Tasks |-> None]
  /\ must = [t \in Tasks |-> FALSE]
  /\ requests = [t \in Tasks |-> 0]
  /\ ready = <<>>
  /\ running = <<>>
  /\ current = None
  /\ owed = {}

--------------------------------------------------------------------------------
(* Futures.                                                                *)

(* schedule_callbacks of o, whose callbacks are `calls`.                   *)
Schedule(o, calls) ==
  /\ ready' = ready \o [i \in DOMAIN calls[o] |-> Wakeup(calls[o][i], o)]
  /\ callbacks' = [calls EXCEPT ![o] = <<>>]

(* Faulty variant: a cancellation tells nobody.                            *)
SettleQuietly(o, outcome, calls) ==
  /\ status' = [status EXCEPT ![o] = outcome]
  /\ IF outcome = "cancelled"
     THEN callbacks' = calls /\ UNCHANGED ready
     ELSE Schedule(o, calls)

(* future_set_result, future_set_exception and future_cancel.              *)
Settle(o, outcome, calls) ==
  /\ status' = [status EXCEPT ![o] = outcome]
  /\ Schedule(o, calls)

Complete(f, outcome) ==
  /\ status[f] = "pending"
  /\ Settle(f, outcome, callbacks)
  /\ UNCHANGED <<waiter, must, requests, running, current, owed>>

--------------------------------------------------------------------------------
(* cancel().                                                               *)

AwaitsTask(t) == waiter[t] \in Tasks /\ status[waiter[t]] = "pending"

(* The tasks the call goes through: each hands it to the task it awaits.   *)
Asked(t) == {u \in Tasks : \A S \in SUBSET Tasks :
  t \in S /\ (\A x \in S : AwaitsTask(x) => waiter[x] \in S) => u \in S}
LastAsked(t) == CHOOSE u \in Asked(t) : ~AwaitsTask(u)

(* task_cancel of a pending task, given the callbacks and must_cancel of   *)
(* the moment.  The last task's future is cancelled, if it is pending.     *)
Request(t, calls, kept) ==
  LET last == LastAsked(t)
      f == waiter[last]
  IN /\ requests' = [u \in Tasks |-> IF u \in Asked(t) THEN requests[u] + 1 ELSE requests[u]]
     /\ IF f # None /\ status[f] = "pending"
        THEN must' = kept /\ Settle(f, "cancelled", calls)
        ELSE must' = [kept EXCEPT ![last] = TRUE] /\ callbacks' = calls /\ UNCHANGED <<status, ready>>

CanAsk(t) == status[t] = "pending" /\ \A u \in Asked(t) : requests[u] < MaxCancels

(* Faulty variant: that the awaited future is done already is overlooked.  *)
CancelTrusting(t) ==
  /\ CanAsk(t)
  /\ IF waiter[LastAsked(t)] = None
     THEN Request(t, callbacks, must)
     ELSE /\ requests' = [u \in Tasks |-> IF u \in Asked(t) THEN requests[u] + 1 ELSE requests[u]]
          /\ IF status[waiter[LastAsked(t)]] = "pending"
             THEN Settle(waiter[LastAsked(t)], "cancelled", callbacks)
             ELSE UNCHANGED <<status, callbacks, ready>>
          /\ UNCHANGED must
  /\ owed' = owed \cup {LastAsked(t)}
  /\ UNCHANGED <<waiter, running, current>>

Cancel(t) ==
  /\ CanAsk(t)
  /\ Request(t, callbacks, must)
  /\ owed' = owed \cup {LastAsked(t)}
  /\ UNCHANGED <<waiter, running, current>>

(* Faulty variant: the count is not looked at.                             *)
UncancelAnyway(t) ==
  /\ status[t] # "fresh"
  /\ requests' = [requests EXCEPT ![t] = @ - 1]
  /\ must' = [must EXCEPT ![t] = @ /\ requests[t] > 1]
  /\ owed' = IF must[t] /\ requests[t] = 1 THEN owed \ {t} ELSE owed
  /\ UNCHANGED <<status, callbacks, waiter, ready, running, current>>

(* task_uncancel: without a request left, must_cancel is withdrawn.        *)
Uncancel(t) ==
  /\ requests[t] > 0
  /\ requests' = [requests EXCEPT ![t] = @ - 1]
  /\ must' = [must EXCEPT ![t] = @ /\ requests[t] > 1]
  /\ owed' = IF must[t] /\ requests[t] = 1 THEN owed \ {t} ELSE owed
  /\ UNCHANGED <<status, callbacks, waiter, ready, running, current>>

--------------------------------------------------------------------------------
(* Tasks begin.                                                            *)

Create(t) ==
  /\ status[t] = "fresh"
  /\ status' = [status EXCEPT ![t] = "pending"]
  /\ ready' = Append(ready, StepOf(t))
  /\ UNCHANGED <<callbacks, waiter, must, requests, running, current, owed>>

(* Faulty variant: the first step is scheduled, too.                       *)
EagerStartQueued(t) ==
  /\ status[t] = "fresh"
  /\ status' = [status EXCEPT ![t] = "pending"]
  /\ ready' = Append(ready, StepOf(t))
  /\ running' = Append(running, [task |-> t, eager |-> TRUE, outer |-> current])
  /\ current' = t
  /\ UNCHANGED <<callbacks, waiter, must, requests, owed>>

(* task_eager_start, up to the coroutine's code.                           *)
EagerStart(t) ==
  /\ status[t] = "fresh"
  /\ status' = [status EXCEPT ![t] = "pending"]
  /\ running' = Append(running, [task |-> t, eager |-> TRUE, outer |-> current])
  /\ current' = t
  /\ UNCHANGED <<callbacks, waiter, must, requests, ready, owed>>

(* The loop runs a handle: task_step, or __wakeup and then task_step.  The *)
(* coroutine gets a CancelledError if the future was cancelled or a        *)
(* request is with the task, and else the result, an exception or nothing. *)
(* The code raises for a task that is done, or if another one is current:  *)
(* by OneWayOn and CurrentRuns neither happens.                            *)
Step ==
  /\ Idle /\ current = None /\ ready # <<>> /\ status[Head(ready).task] = "pending"
  /\ LET t == Head(ready).task
         f == Head(ready).of
     IN /\ owed' = IF must[t] \/ (f # None /\ status[f] = "cancelled") THEN owed \ {t} ELSE owed
        /\ must' = [must EXCEPT ![t] = FALSE]
        /\ waiter' = [waiter EXCEPT ![t] = None]
        /\ running' = <<[task |-> t, eager |-> FALSE, outer |-> None]>>
        /\ current' = IF current = None THEN t ELSE current
  /\ ready' = Tail(ready)
  /\ UNCHANGED <<status, callbacks, requests>>

--------------------------------------------------------------------------------
(* A step ends: task_step_handle_result, and then leave_task, or the end   *)
(* of task_eager_start.                                                    *)

(* Faulty variant: an eager start leaves no task current.                  *)
PopToNone ==
  /\ running' = SubSeq(running, 1, Len(running) - 1)
  /\ current' = IF Top.eager \/ current = Top.task THEN None ELSE current

Pop ==
  /\ running' = SubSeq(running, 1, Len(running) - 1)
  /\ current' = CASE Top.eager -> Top.outer
                  [] ~Top.eager /\ current = Top.task -> None
                  [] OTHER -> current

(* The coroutine awaits a pending future, or a task that does not wait for *)
(* this one.                                                               *)
Await(o) ==
  /\ ~Idle /\ status[o] = "pending" /\ o # Top.task
  /\ o \in Tasks => Top.task \notin Asked(o)
  /\ LET t == Top.task
         calls == [callbacks EXCEPT ![o] = Append(@, t)]
         kept == [must EXCEPT ![t] = FALSE]
     IN /\ waiter' = [waiter EXCEPT ![t] = o]
        /\ IF ~must[t]
           THEN callbacks' = calls /\ UNCHANGED <<status, ready, must, requests, owed>>
           ELSE IF o \in Futures
           THEN /\ Settle(o, "cancelled", calls)
                /\ must' = kept
                /\ UNCHANGED <<requests, owed>>
           ELSE /\ CanAsk(o)
                /\ Request(o, calls, kept)
                /\ owed' = (owed \ {t}) \cup {LastAsked(o)}
  /\ Pop

(* A bare yield; or something yielded that cannot be awaited, which the    *)
(* coroutine is told by an exception in its next step.                     *)
YieldNow ==
  /\ ~Idle
  /\ ready' = Append(ready, StepOf(Top.task))
  /\ Pop
  /\ UNCHANGED <<status, callbacks, waiter, must, requests, owed>>

(* It returned: with a request left, the task is cancelled all the same.   *)
(* It raised: CancelledError cancels the task, anything else is its result.*)
Finish(raised) ==
  /\ ~Idle
  /\ LET t == Top.task
         cancelled == raised = "CancelledError" \/ (raised = None /\ must[t])
     IN /\ Settle(t, IF cancelled THEN "cancelled" ELSE "finished", callbacks)
        /\ must' = [must EXCEPT ![t] = @ /\ raised # None]
        /\ owed' = owed \ {t}
  /\ Pop
  /\ UNCHANGED <<waiter, requests>>

EndStep ==
  \/ \E o \in Awaitables : Await(o)
  \/ YieldNow
  \/ \E raised \in {None, "CancelledError", "Exception"} : Finish(raised)

--------------------------------------------------------------------------------
Next ==
  \/ \E f \in Futures, outcome \in {"finished", "cancelled"} : Complete(f, outcome)
  \/ \E t \in Tasks : Cancel(t) \/ Uncancel(t) \/ Create(t) \/ EagerStart(t)
  \/ Step \/ EndStep

Spec == Init /\ [][Next]_vars

(* The loop runs its handles, and coroutines come to an await in the end.  *)
FairSpec == Spec /\ WF_vars(Step) /\ WF_vars(EndStep)

--------------------------------------------------------------------------------
(* Properties.                                                             *)

Handles == [task : Tasks, of : Awaitables \cup {None}]
Levels == [task : Tasks, eager : BOOLEAN, outer : Tasks \cup {None}]

TypeOK ==
  /\ status \in [Awaitables -> {"fresh", "pending", "finished", "cancelled"}]
  /\ callbacks \in [Awaitables -> Seq(Tasks)]
  /\ waiter \in [Tasks -> Awaitables \cup {None}]
  /\ must \in [Tasks -> BOOLEAN]
  /\ requests \in [Tasks -> 0 .. MaxCancels]
  /\ ready \in Seq(Handles)
  /\ running \in Seq(Levels)
  /\ current \in Tasks \cup {None}
  /\ owed \subseteq Tasks

(* The ways a task can come to its next step.                              *)
Runs(t) == \E i \in 1..Len(running) : running[i].task = t
Queued(t) == \E i \in 1..Len(ready) : ready[i].task = t
AwaitsIn(t, o) == \E i \in 1..Len(callbacks[o]) : callbacks[o][i] = t
Awaits(t) == \E o \in Awaitables : AwaitsIn(t, o)

Once(levels) == \A i, j \in 1..Len(levels) : levels[i].task = levels[j].task => i = j

(* A task that is not done has exactly one way on: it runs, or has one     *)
(* handle, or one callback in one future.  With none it is lost, with two  *)
(* its coroutine is resumed at the wrong await, or after its end.          *)
OneWayOn ==
  /\ \A t \in Tasks :
       /\ status[t] = "pending" <=> Runs(t) \/ Queued(t) \/ Awaits(t)
       /\ ~(Runs(t) /\ Queued(t)) /\ ~(Runs(t) /\ Awaits(t)) /\ ~(Queued(t) /\ Awaits(t))
       /\ \A o, p \in Awaitables : AwaitsIn(t, o) /\ AwaitsIn(t, p) => o = p
  /\ Once(running) /\ Once(ready)
  /\ \A o \in Awaitables : \A i, j \in 1..Len(callbacks[o]) :
       callbacks[o][i] = callbacks[o][j] => i = j

(* current_task() is the task whose coroutine runs, through eager starts   *)
(* inside eager starts; between two handles there is none.                 *)
CurrentRuns == current = IF Idle THEN None ELSE Top.task

(* A request is never forgotten: the CancelledError that the coroutine is  *)
(* owed is announced by must_cancel or by the cancelled future it awaits.  *)
CancelOwed == \A t \in owed :
  \/ must[t]
  \/ waiter[t] # None /\ status[waiter[t]] = "cancelled"

(* And it arrives, or is handed on to a task that this one awaits, unless  *)
(* it is withdrawn or the task ends first.                                 *)
CancelArrives == \A t \in Tasks : t \in owed ~> t \notin owed
================================================================================
