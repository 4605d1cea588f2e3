------------------------------ MODULE SimpleQueue -------------------------------
(***************************************************************************)
(* _queue.SimpleQueue: put and the last step of get are native             *)
(* (queue_native.rs), the rest of get is Python (python/_queue.py) and can *)
(* be preempted, or left with a signal handler's exception, between any    *)
(* two steps.  A get that finds the queue empty takes the gate, a plain    *)
(* _thread.lock, and then sets `_locked`; whoever adds or takes an item    *)
(* releases the gate if `_locked` says a get has it.                       *)
(*                                                                         *)
(* Items are only counted: the deque's own operations are atomic.  The     *)
(* gate is one of module ThreadLock's locks, taken in one step.  A put     *)
(* from a signal handler is the put of a thread that does nothing else.    *)
(***************************************************************************)
EXTENDS Naturals

CONSTANTS Threads,  \* the threads that use the queue
          MaxItems  \* bound on the items in it
ASSUME ItemsAssumption == MaxItems \in Nat

VARIABLES
  items,  \* len(_queue)
  gate,   \* _lock is held
  locked, \* _locked
  at,     \* where each thread is, in put, in get, or outside
  mode,   \* what its get was called with: "nowait", "timed" or "block"
  broken  \* history: an exception left a get that had taken the gate

vars == <<items, gate, locked, at, mode, broken>>

Places == {"out", "openPut", "test", "try", "wait", "flag", "pop", "openPop"}

Init ==
  /\ items = 0
  /\ gate = FALSE /\ locked = FALSE
  /\ at = [t \in Threads |-> "out"]
  /\ mode = [t \in Threads |-> "nowait"]
  /\ broken = FALSE

Goto(t, p) == at' = [at EXCEPT ![t] = p]

--------------------------------------------------------------------------------
(* simplequeue_put: append to the deque ...                                *)
Append(t) ==
  /\ at[t] = "out" /\ items < MaxItems
  /\ items' = items + 1
  /\ Goto(t, "openPut")
  /\ UNCHANGED <<gate, locked, mode, broken>>

(* Faulty variant: the gate is released and the flag stays up.             *)
OpenGateKeepsFlag(t) ==
  /\ at[t] \in {"openPut", "openPop"}
  /\ gate' = IF locked THEN FALSE ELSE gate
  /\ Goto(t, "out")
  /\ UNCHANGED <<items, locked, mode, broken>>

(* Faulty variant: a pop does not pass the gate on.                        *)
OpenGateOnPut(t) ==
  /\ at[t] \in {"openPut", "openPop"}
  /\ gate' = IF locked /\ at[t] = "openPut" THEN FALSE ELSE gate
  /\ locked' = IF at[t] = "openPut" THEN FALSE ELSE locked
  /\ Goto(t, "out")
  /\ UNCHANGED <<items, mode, broken>>

(* ... and, as after a pop, open_gate: test, clear and release in one.     *)
OpenGate(t) ==
  /\ at[t] \in {"openPut", "openPop"}
  /\ gate' = IF locked THEN FALSE ELSE gate
  /\ locked' = FALSE
  /\ Goto(t, "out")
  /\ UNCHANGED <<items, mode, broken>>

--------------------------------------------------------------------------------
(* get.                                                                    *)

Get(t) ==
  /\ at[t] = "out"
  /\ \E m \in {"nowait", "timed", "block"} : mode' = [mode EXCEPT ![t] = m]
  /\ Goto(t, "test")
  /\ UNCHANGED <<items, gate, locked, broken>>

(* while not self._queue: go for the gate, or raise Empty (a timed get     *)
(* when its time is up; that its first pass never does is left out, it is  *)
(* then like a nowait get).                                                *)
TestEmpty(t) ==
  /\ at[t] = "test" /\ items = 0
  /\ \/ mode[t] # "nowait" /\ Goto(t, "try")
     \/ mode[t] # "block" /\ Goto(t, "out")
  /\ UNCHANGED <<items, gate, locked, mode, broken>>

TestFull(t) ==
  /\ at[t] = "test" /\ items > 0
  /\ Goto(t, "pop")
  /\ UNCHANGED <<items, gate, locked, mode, broken>>

(* _lock.acquire(False) fails: the get will wait.                          *)
TryGate(t) ==
  /\ at[t] = "try" /\ gate
  /\ Goto(t, "wait")
  /\ UNCHANGED <<items, gate, locked, mode, broken>>

TakeGate(t) ==
  /\ at[t] \in {"try", "wait"} /\ ~gate
  /\ gate' = TRUE
  /\ Goto(t, "flag")
  /\ UNCHANGED <<items, locked, mode, broken>>

(* The timed acquire fails: raise Empty.                                   *)
WaitTimeout(t) ==
  /\ at[t] = "wait" /\ mode[t] = "timed"
  /\ Goto(t, "out")
  /\ UNCHANGED <<items, gate, locked, mode, broken>>

(* self._locked = True, and around the loop again.                         *)
SetFlag(t) ==
  /\ at[t] = "flag"
  /\ locked' = TRUE
  /\ Goto(t, "test")
  /\ UNCHANGED <<items, gate, mode, broken>>

(* simplequeue_pop: popleft, or IndexError when another get was faster.    *)
PopLeft(t) ==
  /\ at[t] = "pop" /\ items > 0
  /\ items' = items - 1
  /\ Goto(t, "openPop")
  /\ UNCHANGED <<gate, locked, mode, broken>>

PopFails(t) ==
  /\ at[t] = "pop" /\ items = 0
  /\ Goto(t, "test")
  /\ UNCHANGED <<items, gate, locked, mode, broken>>

(* An exception from outside leaves get: a signal handler raises, or an    *)
(* asynchronous exception is delivered, at a bytecode boundary or during   *)
(* the wait.  `broken` records that the get may have had the gate.         *)
Interrupt(t) ==
  /\ at[t] \in {"test", "try", "wait", "flag", "pop"}
  /\ broken' = (broken \/ at[t] \in {"test", "flag", "pop"})
  /\ Goto(t, "out")
  /\ UNCHANGED <<items, gate, locked, mode>>

--------------------------------------------------------------------------------
GetStep(t) ==
  \/ TestEmpty(t) \/ TestFull(t) \/ TryGate(t) \/ TakeGate(t) \/ WaitTimeout(t)
  \/ SetFlag(t) \/ PopLeft(t) \/ PopFails(t)

Next == \E t \in Threads :
  Append(t) \/ OpenGate(t) \/ Get(t) \/ GetStep(t) \/ Interrupt(t)

Spec == Init /\ [][Next]_vars

(* A put or a get under way goes on; nobody has to call either.            *)
FairSpec ==
  /\ Spec
  /\ \A t \in Threads :
       WF_vars(OpenGate(t) \/ TestEmpty(t) \/ TestFull(t) \/ TryGate(t) \/ TakeGate(t)
               \/ SetFlag(t) \/ PopLeft(t) \/ PopFails(t))

--------------------------------------------------------------------------------
(* Properties.                                                             *)

TypeOK ==
  /\ items \in 0 .. MaxItems
  /\ gate \in BOOLEAN /\ locked \in BOOLEAN /\ broken \in BOOLEAN
  /\ at \in [Threads -> Places]
  /\ mode \in [Threads -> {"nowait", "timed", "block"}]

(* open_gate's release never finds the gate open ("release unlocked lock"): *)
(* the flag is up only while a get has the gate, whoever opens it.         *)
FlagMeansGate == locked => gate

(* One get at a time is between taking the gate and raising the flag, and  *)
(* nobody opens the gate meanwhile.                                        *)
FlagComes ==
  /\ \A t \in Threads : at[t] = "flag" => gate /\ ~locked
  /\ \A t, u \in Threads : at[t] = "flag" /\ at[u] = "flag" => t = u

(* Waiting for the gate while there is an item, with the gate held and no  *)
(* thread in the middle of a step that will open it.                       *)
WillOpen(t) ==
  \/ at[t] \in {"openPut", "openPop", "flag"}
  \/ at[t] \in {"test", "pop"}
Stranded ==
  /\ items > 0 /\ gate
  /\ \E t \in Threads : at[t] = "wait"
  /\ \A t \in Threads : ~WillOpen(t)

(* A burst of puts releases the gate once; each woken get passes it on, so *)
(* no get sleeps beside an item (unless an exception broke the gate).      *)
NobodyStranded == Stranded => broken

(* Without a broken gate, a get that waits while there are items is served *)
(* or finds them gone.                                                     *)
ItemServed == \A t \in Threads :
  (at[t] = "wait" /\ items > 0) ~> (at[t] # "wait" \/ items = 0 \/ broken)
================================================================================
