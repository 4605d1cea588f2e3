------------------------------ MODULE EvalBreaker ------------------------------
(***************************************************************************)
(* The work that waits for the interpreter's next safe point: tripped      *)
(* signals (signal_mod.rs), pending calls (vm_singletons.rs) and           *)
(* asynchronous exceptions (gil.rs).  Each keeps a queue or flag of its    *)
(* own and advertises it by a bit of the word HOT; every change of HOT     *)
(* moves LOOP_GEN (hot_gates.rs).  A dispatch loop (lib.rs) reads HOT only *)
(* when LOOP_GEN moved, and skips all checks while its last reading was    *)
(* zero.                                                                   *)
(*                                                                         *)
(* VM threads step under the GIL, which is one thread at a time; the       *)
(* handler of an OS signal runs at any moment on any thread.  A thread's   *)
(* stack holds the drains under way: each calls Python code, whose own     *)
(* loop has safe points too.                                               *)
(***************************************************************************)
EXTENDS Naturals, Sequences, FiniteSets

CONSTANTS Threads,   \* threads of the VM
          Main,      \* the thread that runs signal handlers and main-only calls
          Signals,   \* signal numbers
          Calls,     \* Python callables that can be added as pending calls
          MaxMain,   \* MAX_PENDING_PY_CALLS_MAIN
          MaxAny,    \* MAX_PENDING_PY_CALLS_ANY
          MaxDepth   \* bound on drains inside drains
ASSUME MainAssumption == Main \in Threads
ASSUME SignalAssumption == Signals \subseteq Nat
ASSUME BoundAssumption == MaxMain \in Nat /\ MaxAny \in Nat /\ MaxDepth \in Nat \ {0}

VARIABLES
  gil,      \* the thread that has the GIL
  hot,      \* HOT, as the set of its bits
  snap,     \* each loop's snapshot: stale (LOOP_GEN moved), read, quiet, busy
  tripped,  \* TRIPPED
  any,      \* ANY_TRIPPED
  tramp,    \* where the OS handler of each signal is
  mainQ,    \* PENDING_PY_CALLS_MAIN
  anyQ,     \* PENDING_PY_CALLS_ANY
  busy,     \* PENDING_PY_CALLS_BUSY
  added,    \* history: how a call that has not run yet was added
  excs,     \* the threads with an entry in async_exc_map
  pc,       \* where each thread is
  mask,     \* the value of HOT this iteration of its loop read
  stack     \* its drains under way, innermost first

signalVars == <<tripped, any, tramp>>
callVars == <<mainQ, anyQ, busy, added>>
threadVars == <<pc, mask, stack>>
vars == <<gil, hot, snap, signalVars, callVars, excs, threadVars>>

Kinds == {"async", "signals", "calls"}
Places == {"next", "hot", "arms", "swap", "slots", "between", "raise", "run", "leaving", "dead"}

Init ==
  /\ gil = Main
  /\ hot = {} /\ snap = [t \in Threads |-> "stale"]
  /\ tripped = {} /\ any = FALSE /\ tramp = [s \in Signals |-> "idle"]
  /\ mainQ = <<>> /\ anyQ = <<>> /\ busy = FALSE
  /\ added = [c \in Calls |-> "no"]
  /\ excs = {}
  /\ pc = [t \in Threads |-> "next"]
  /\ mask = [t \in Threads |-> {}]
  /\ stack = [t \in Threads |-> <<>>]

Alive(t) == pc[t] \notin {"leaving", "dead"}
At(t, place) == gil = t /\ pc[t] = place
Goto(t, place) == pc' = [pc EXCEPT ![t] = place]
NoMask(t) == mask' = [mask EXCEPT ![t] = {}]

--------------------------------------------------------------------------------
(* hot_gates.rs.  Under the GIL nobody reads between the two halves.       *)

Bump == snap' = [t \in Threads |-> "stale"]
Lower(bit) == hot' = hot \ {bit} /\ Bump
RaiseIf(bit, condition) ==
  /\ hot' = IF condition THEN hot \cup {bit} ELSE hot \ {bit}
  /\ Bump
Restart(t) == snap' = [snap EXCEPT ![t] = "stale"]

--------------------------------------------------------------------------------
(* handler_trampoline, and trip_signal: the slot, the summary flag, the    *)
(* bit, the generation.                                                    *)

From(s, here, there) == tramp[s] = here /\ tramp' = [tramp EXCEPT ![s] = there]

(* Faulty variant: the generation moves before the bit is raised.          *)
TrampolineGenFirst(s) ==
  /\ \/ From(s, "idle", "any") /\ tripped' = tripped \cup {s} /\ UNCHANGED <<any, hot, snap>>
     \/ From(s, "any", "bit") /\ any' = TRUE /\ UNCHANGED <<tripped, hot, snap>>
     \/ From(s, "bit", "gen") /\ Bump /\ UNCHANGED <<tripped, any, hot>>
     \/ From(s, "gen", "idle") /\ hot' = hot \cup {"signals"} /\ UNCHANGED <<tripped, any, snap>>
  /\ UNCHANGED <<gil, callVars, excs, threadVars>>

Trampoline(s) ==
  /\ \/ From(s, "idle", "any") /\ tripped' = tripped \cup {s} /\ UNCHANGED <<any, hot, snap>>
     \/ From(s, "any", "bit") /\ any' = TRUE /\ UNCHANGED <<tripped, hot, snap>>
     \/ From(s, "bit", "gen") /\ hot' = hot \cup {"signals"} /\ UNCHANGED <<tripped, any, snap>>
     \/ From(s, "gen", "idle") /\ Bump /\ UNCHANGED <<tripped, any, hot>>
  /\ UNCHANGED <<gil, callVars, excs, threadVars>>

--------------------------------------------------------------------------------
(* run_activation: the head of one iteration.                              *)

(* A quiet loop runs the instruction without another look.                 *)
NextInstruction(t) ==
  /\ At(t, "next")
  /\ \/ /\ snap[t] = "stale"
        /\ snap' = [snap EXCEPT ![t] = "read"]
        /\ Goto(t, "hot") /\ mask' = mask
     \/ /\ snap[t] = "quiet" /\ snap' = snap
        /\ Goto(t, "run") /\ mask' = mask
     \/ /\ snap[t] = "busy" /\ snap' = snap
        /\ Goto(t, "arms") /\ mask' = [mask EXCEPT ![t] = hot]
  /\ UNCHANGED <<gil, hot, signalVars, callVars, excs, stack>>

(* The snapshot, and for the full prologue the one load of HOT.            *)
ReadHot(t) ==
  LET found == IF hot = {} THEN "quiet" ELSE "busy" IN
  /\ At(t, "hot")
  /\ snap' = [snap EXCEPT ![t] = IF @ = "read" THEN found ELSE @]
  /\ Goto(t, IF hot = {} THEN "run" ELSE "arms")
  /\ mask' = [mask EXCEPT ![t] = hot]
  /\ UNCHANGED <<gil, hot, signalVars, callVars, excs, stack>>

Push(t, job) == stack' = [stack EXCEPT ![t] = <<job>> \o @]
Replace(t, job) == stack' = [stack EXCEPT ![t] = <<job>> \o Tail(@)]
Pop(t) == stack' = [stack EXCEPT ![t] = Tail(@)]
Top(t) == Head(stack[t])
Has(t, what) == stack[t] # <<>> /\ Top(t).what = what

AsyncDue(t) == "async" \in mask[t] /\ t \in excs
SignalsDue(t) == "signals" \in mask[t] /\ any /\ t = Main
CallsDue(t) == "calls" \in mask[t] /\ (anyQ # <<>> \/ (t = Main /\ mainQ # <<>>))

(* An exception in the innermost loop of t, above the drains rest: caught  *)
(* in that loop, or it leaves the callback whose loop that is.  (One that  *)
(* ends the thread is an end of the thread, which any instruction may be.) *)
Throw(t, rest) ==
  \/ Goto(t, "next")
  \/ rest # <<>> /\ Goto(t, "raise")

(* take_async_exc: the exception takes the place of the instruction.       *)
TakeAsync(t) ==
  /\ At(t, "arms") /\ AsyncDue(t)
  /\ excs' = excs \ {t}
  /\ IF excs' = {} THEN Lower("async") ELSE UNCHANGED <<hot, snap>>
  /\ Throw(t, stack[t]) /\ NoMask(t)
  /\ UNCHANGED <<gil, signalVars, callVars, stack>>

(* Nothing to do, or only calls while another drain is at work on some.    *)
NothingDue(t) ==
  /\ At(t, "arms") /\ ~AsyncDue(t) /\ ~SignalsDue(t) /\ (CallsDue(t) => busy)
  /\ Goto(t, "run") /\ NoMask(t)
  /\ UNCHANGED <<gil, hot, snap, signalVars, callVars, excs, stack>>

--------------------------------------------------------------------------------
(* run_pending_signals: take_tripped, then the handlers in order.          *)

(* In the prologue, or between two slices of a blocking call.              *)
LowerSignals(t) ==
  /\ \/ At(t, "arms") /\ ~AsyncDue(t) /\ SignalsDue(t)
     \/ At(t, "run") /\ any /\ t = Main
  /\ Lower("signals")
  /\ Goto(t, "swap") /\ NoMask(t)
  /\ UNCHANGED <<gil, signalVars, callVars, excs, stack>>

SwapAny(t) ==
  /\ At(t, "swap")
  /\ any' = FALSE
  /\ Goto(t, IF any THEN "slots" ELSE "run")
  /\ UNCHANGED <<gil, hot, snap, tripped, tramp, callVars, excs, mask, stack>>

TakeTripped(t) ==
  /\ At(t, "slots")
  /\ tripped' = {}
  /\ Push(t, [what |-> "signals", left |-> tripped])
  /\ Goto(t, "between")
  /\ UNCHANGED <<gil, hot, snap, any, tramp, callVars, excs, mask>>

(* A Python callable runs in a loop of its own, whose first look is never  *)
(* skipped; a native one returns or raises at once.                        *)
CallBack(t) ==
  \/ Goto(t, "next") /\ Restart(t) /\ Len(stack[t]) < MaxDepth
  \/ pc' = pc /\ snap' = snap
  \/ Goto(t, "raise") /\ snap' = snap

Lowest(S) == CHOOSE s \in S : \A r \in S : s <= r

RunHandler(t) ==
  /\ At(t, "between") /\ Has(t, "signals") /\ Top(t).left # {}
  /\ Replace(t, [Top(t) EXCEPT !.left = @ \ {Lowest(@)}])
  /\ CallBack(t)
  /\ UNCHANGED <<gil, hot, signalVars, callVars, excs, mask>>

(* Faulty variant: the summary flag is cleared again after the handlers.   *)
EndSignalsClear(t) ==
  /\ Has(t, "signals")
  /\ \/ At(t, "between") /\ Top(t).left = {} /\ Goto(t, "run")
     \/ At(t, "raise") /\ Throw(t, Tail(stack[t]))
  /\ any' = FALSE
  /\ Pop(t) /\ Restart(t)
  /\ UNCHANGED <<gil, hot, tripped, tramp, callVars, excs, mask>>

(* A handler's exception leaves the rest of what was taken unserved.       *)
EndSignals(t) ==
  /\ Has(t, "signals")
  /\ \/ At(t, "between") /\ Top(t).left = {} /\ Goto(t, "run")
     \/ At(t, "raise") /\ Throw(t, Tail(stack[t]))
  /\ Pop(t) /\ Restart(t)
  /\ UNCHANGED <<gil, hot, signalVars, callVars, excs, mask>>

--------------------------------------------------------------------------------
(* run_pending_py_calls: take_pending_py_calls behind the busy latch.      *)

CallsTaken(t) == anyQ \o (IF t = Main THEN mainQ ELSE <<>>)

(* Faulty variant: no re-entrancy latch.                                   *)
TakeUnlatched(t) ==
  /\ At(t, "arms") /\ ~AsyncDue(t) /\ ~SignalsDue(t) /\ CallsDue(t)
  /\ busy' = TRUE
  /\ Push(t, [what |-> "calls", left |-> CallsTaken(t)])
  /\ anyQ' = <<>> /\ mainQ' = IF t = Main THEN <<>> ELSE mainQ
  /\ RaiseIf("calls", mainQ' # <<>>)
  /\ Goto(t, "between") /\ NoMask(t)
  /\ UNCHANGED <<gil, signalVars, added, excs>>

(* Faulty variant: what a worker leaves behind is not advertised.          *)
TakeNoRecheck(t) ==
  /\ At(t, "arms") /\ ~AsyncDue(t) /\ ~SignalsDue(t) /\ CallsDue(t) /\ ~busy
  /\ busy' = TRUE
  /\ Push(t, [what |-> "calls", left |-> CallsTaken(t)])
  /\ anyQ' = <<>> /\ mainQ' = IF t = Main THEN <<>> ELSE mainQ
  /\ Lower("calls")
  /\ Goto(t, "between") /\ NoMask(t)
  /\ UNCHANGED <<gil, signalVars, added, excs>>

TakeCalls(t) ==
  /\ At(t, "arms") /\ ~AsyncDue(t) /\ ~SignalsDue(t) /\ CallsDue(t) /\ ~busy
  /\ busy' = TRUE
  /\ Push(t, [what |-> "calls", left |-> CallsTaken(t)])
  /\ anyQ' = <<>> /\ mainQ' = IF t = Main THEN <<>> ELSE mainQ
  /\ RaiseIf("calls", mainQ' # <<>>)
  /\ Goto(t, "between") /\ NoMask(t)
  /\ UNCHANGED <<gil, signalVars, added, excs>>

(* A call that starts may be added again, by itself first of all.          *)
RunCall(t) ==
  /\ At(t, "between") /\ Has(t, "calls") /\ Top(t).left # <<>>
  /\ added' = [added EXCEPT ![Head(Top(t).left)] = "no"]
  /\ Replace(t, [Top(t) EXCEPT !.left = Tail(@)])
  /\ CallBack(t)
  /\ UNCHANGED <<gil, hot, signalVars, mainQ, anyQ, busy, excs, mask>>

(* Faulty variant: an exception drops the calls that have not run.         *)
EndCallsDrop(t) ==
  /\ Has(t, "calls")
  /\ \/ At(t, "between") /\ Top(t).left = <<>> /\ Goto(t, "run")
     \/ At(t, "raise") /\ Throw(t, Tail(stack[t]))
  /\ busy' = FALSE
  /\ IF anyQ # <<>> \/ mainQ # <<>> THEN hot' = hot \cup {"calls"} /\ Bump
     ELSE hot' = hot /\ Restart(t)
  /\ Pop(t)
  /\ UNCHANGED <<gil, signalVars, mainQ, anyQ, added, excs, mask>>

(* end_pending_py_calls.  After an exception the untouched tail goes back, *)
(* whatever queue it came from, to the queue of any thread.                *)
EndCalls(t) ==
  /\ Has(t, "calls")
  /\ \/ At(t, "between") /\ Top(t).left = <<>> /\ Goto(t, "run")
     \/ At(t, "raise") /\ Throw(t, Tail(stack[t]))
  /\ anyQ' = anyQ \o Top(t).left
  /\ busy' = FALSE
  /\ IF anyQ' # <<>> \/ mainQ # <<>> THEN hot' = hot \cup {"calls"} /\ Bump
     ELSE hot' = hot /\ Restart(t)
  /\ Pop(t)
  /\ UNCHANGED <<gil, signalVars, mainQ, added, excs, mask>>

--------------------------------------------------------------------------------
(* What an instruction does to the pending work.                           *)

Plain(t) ==
  /\ At(t, "run") /\ Goto(t, "next")
  /\ UNCHANGED <<gil, hot, snap, signalVars, callVars, excs, mask, stack>>

Raises(t) ==
  /\ At(t, "run") /\ Throw(t, stack[t])
  /\ UNCHANGED <<gil, hot, snap, signalVars, callVars, excs, mask, stack>>

Return(t) ==
  /\ At(t, "run") /\ stack[t] # <<>> /\ Goto(t, "between")
  /\ UNCHANGED <<gil, hot, snap, signalVars, callVars, excs, mask, stack>>

(* push_pending_py_call.                                                   *)
AddCall(t, c, mainOnly, force) ==
  /\ At(t, "run") /\ added[c] = "no"
  /\ force \/ (IF mainOnly THEN Len(mainQ) < MaxMain ELSE Len(anyQ) < MaxAny)
  /\ mainQ' = IF mainOnly THEN Append(mainQ, c) ELSE mainQ
  /\ anyQ' = IF mainOnly THEN anyQ ELSE Append(anyQ, c)
  /\ added' = [added EXCEPT ![c] = IF mainOnly THEN "main" ELSE "any"]
  /\ hot' = hot \cup {"calls"} /\ Bump
  /\ Goto(t, "next")
  /\ UNCHANGED <<gil, signalVars, busy, excs, mask, stack>>

(* PyThreadState_SetAsyncExc, with an exception or NULL.                   *)
SetAsync(t, u, exc) ==
  /\ At(t, "run") /\ pc[u] # "dead"
  /\ excs' = IF exc THEN excs \cup {u} ELSE excs \ {u}
  /\ RaiseIf("async", excs' # {})
  /\ Goto(t, "next")
  /\ UNCHANGED <<gil, signalVars, callVars, mask, stack>>

--------------------------------------------------------------------------------
(* The end of a worker, and the GIL.                                       *)

(* The target has ended; the GIL goes to another thread.                   *)
EndWorker(t, u) ==
  /\ At(t, "run") /\ t # Main /\ stack[t] = <<>>
  /\ u # t /\ Alive(u) /\ gil' = u
  /\ Goto(t, "leaving")
  /\ UNCHANGED <<hot, snap, signalVars, callVars, excs, mask, stack>>

(* clear_worker_thread_id: until here the thread counts as live.           *)
ForgetIdent(t) ==
  /\ pc[t] = "leaving" /\ Goto(t, "dead")
  /\ UNCHANGED <<gil, hot, snap, signalVars, callVars, excs, mask, stack>>

(* yield_checkpoint, at the head of an iteration.  A blocking call gives   *)
(* the GIL away as the instruction before one.                             *)
HandOff(t, u) ==
  /\ At(t, "next") /\ u # t /\ Alive(u)
  /\ gil' = u
  /\ UNCHANGED <<hot, snap, signalVars, callVars, excs, threadVars>>

Loop(t) == NextInstruction(t) \/ ReadHot(t) \/ TakeAsync(t) \/ NothingDue(t)
ServeSignals(t) == LowerSignals(t) \/ SwapAny(t) \/ TakeTripped(t) \/ RunHandler(t) \/ EndSignals(t)
ServeCalls(t) == TakeCalls(t) \/ RunCall(t) \/ EndCalls(t)
Instruction(t) ==
  \/ Plain(t) \/ Raises(t) \/ Return(t)
  \/ \E c \in Calls, mainOnly, force \in BOOLEAN : AddCall(t, c, mainOnly, force)
  \/ \E u \in Threads, exc \in BOOLEAN : SetAsync(t, u, exc)
Step(t) == Loop(t) \/ ServeSignals(t) \/ ServeCalls(t) \/ Instruction(t)

Next ==
  \/ \E t \in Threads : Step(t) \/ ForgetIdent(t)
  \/ \E t, u \in Threads : HandOff(t, u) \/ EndWorker(t, u)
  \/ \E s \in Signals : Trampoline(s)

Spec == Init /\ [][Next]_vars

--------------------------------------------------------------------------------
(* Properties.                                                             *)

Jobs == {x \in Threads \X (1..MaxDepth) : x[2] <= Len(stack[x[1]])}
Drains == {x \in Jobs : stack[x[1]][x[2]].what = "calls"}
Left(x) == stack[x[1]][x[2]].left

Job == [what : {"signals"}, left : SUBSET Signals] \cup [what : {"calls"}, left : Seq(Calls)]

(* Every variable has its type, drains nest no deeper than the bound, and  *)
(* the thread with the GIL is one that has not left.                       *)
TypeOK ==
  /\ gil \in Threads /\ Alive(gil)
  /\ hot \in SUBSET Kinds
  /\ snap \in [Threads -> {"stale", "read", "quiet", "busy"}]
  /\ tripped \in SUBSET Signals /\ any \in BOOLEAN
  /\ tramp \in [Signals -> {"idle", "any", "bit", "gen"}]
  /\ mainQ \in Seq(Calls) /\ anyQ \in Seq(Calls) /\ busy \in BOOLEAN
  /\ added \in [Calls -> {"no", "main", "any"}]
  /\ excs \in SUBSET Threads
  /\ pc \in [Threads -> Places]
  /\ mask \in [Threads -> SUBSET Kinds]
  /\ stack \in [Threads -> Seq(Job)] /\ \A t \in Threads : Len(stack[t]) <= MaxDepth

(* "A cleared bit while work is pending is never allowed" (hot_gates.rs):   *)
(* queued calls keep their bit raised, those a worker may not run included, *)
(* and the bit of the exceptions is exactly their map being not empty.     *)
GateCovers ==
  /\ anyQ # <<>> \/ mainQ # <<>> => "calls" \in hot
  /\ excs # {} <=> "async" \in hot

(* The same for signals, whose three words are written one by one while    *)
(* the main thread clears them one by one: a slot that is set is one that  *)
(* the drain under way will read, or both flags above it are set, or the   *)
(* OS handler that set it has yet to set them.                             *)
SignalsOnTheWay ==
  \A s \in tripped :
    \/ tramp[s] = "any" \/ pc[Main] = "slots"
    \/ any /\ (tramp[s] = "bit" \/ pc[Main] = "swap" \/ "signals" \in hot)

(* A loop that skips its checks misses nothing: while its snapshot says    *)
(* quiet and LOOP_GEN has not moved, HOT is zero, or the OS handler that   *)
(* raised the bit is about to move LOOP_GEN.                               *)
QuietSees ==
  \A t \in Threads : snap[t] = "quiet" => hot = {} \/ \E s \in Signals : tramp[s] = "gen"

(* run_pending_py_calls never nests, in one thread or in two, and the latch *)
(* that says so is given back on every way out.                            *)
OneDrain ==
  /\ \A x, y \in Drains : x = y
  /\ busy <=> Drains # {}

Times(c, q) == Cardinality({i \in DOMAIN q : q[i] = c})

(* A call that was added and has not started is in one place exactly: a    *)
(* queue, or the rest of the drain; an exception before it neither drops   *)
(* nor repeats it.                                                         *)
CallsKept ==
  \A c \in Calls :
    Times(c, mainQ) + Times(c, anyQ) + Cardinality({x \in Drains : Times(c, Left(x)) > 0})
      = IF added[c] = "no" THEN 0 ELSE 1

(* The doc of the queues: a call added as main-only runs "exclusively on   *)
(* the main thread", so no other thread's drain has one.  It does not hold *)
(* after a call raised.                                                    *)
MainOnly == \A c \in Calls, x \in Drains :
  added[c] = "main" /\ Times(c, Left(x)) > 0 => x[1] = Main

(* A signal that tripped is taken by the main thread, unless asynchronous  *)
(* exceptions for that thread keep coming, which go first.                 *)
SignalServed ==
  <>[](Main \notin excs) => \A s \in Signals : s \in tripped ~> s \notin tripped

(* The main thread gets the GIL and uses it; a handler that began ends.    *)
FairSpec ==
  /\ Spec
  /\ SF_vars(Step(Main)) /\ \A t \in Threads : WF_vars(Step(t)) /\ SF_vars(HandOff(t, Main))
  /\ \A s \in Signals : WF_vars(tramp[s] # "idle" /\ Trampoline(s))
================================================================================
