----------------------------- MODULE SwitchInterval -----------------------------
(***************************************************************************)
(* When maybe_yield_gil (gil.rs) hands the GIL off: the two clocks of      *)
(* sys.setswitchinterval.  GIL_HELD_SINCE starts when a thread takes the   *)
(* GIL and WAITER_SEEN_SINCE at its first checkpoint that finds a waiter;  *)
(* both are thread-local.  WAITER_CLOCK_ARMED is one flag for all threads. *)
(*                                                                         *)
(* Taking and giving up the GIL are one step each: module Gil has the      *)
(* protocol, and proves that threads run one at a time.  Some entries      *)
(* restart the clocks (note_gil_acquired) and some, those of the C API and *)
(* of a new worker thread, do not.                                         *)
(***************************************************************************)
EXTENDS Integers, FiniteSets, OsThreads

CONSTANTS Interval,  \* the switch interval, in ticks
          Never      \* a clock that was never started, or is cleared

ASSUME IntervalAssumption == Interval \in Nat \ {0}
ASSUME NeverAssumption == Never \notin Nat

VARIABLES
  at,        \* where each thread is: outside, waiting for the GIL, running, parked
  notes,     \* the entry under way, or the hold, is of a path that notes it
  heldSince, \* ticks since GIL_HELD_SINCE
  seenSince, \* ticks since WAITER_SEEN_SINCE
  armed,     \* WAITER_CLOCK_ARMED
  \* History.
  holding,   \* ticks a running thread has really had the GIL
  waited,    \* ticks a waiting thread has waited for it
  gaveUp     \* a waiter gave up while the present holder ran

clocks == <<heldSince, seenSince, armed>>
history == <<holding, waited, gaveUp>>
clockVars == <<at, notes, clocks, history>>

Ticks == 0 .. Interval
Clock == Ticks \cup {Never}

ClockInit ==
  /\ at = [t \in Threads |-> "out"]
  /\ notes = [t \in Threads |-> TRUE]
  /\ heldSince = [t \in Threads |-> Never]
  /\ seenSince = [t \in Threads |-> Never]
  /\ armed = FALSE
  /\ holding = [t \in Threads |-> 0]
  /\ waited = [t \in Threads |-> 0]
  /\ gaveUp = FALSE

Awaiting == {t \in Threads : at[t] = "wait"}
Runs(t) == at[t] = "run"

--------------------------------------------------------------------------------
(* Taking and giving up the GIL.                                           *)

(* A thread asks for the GIL: by an entry that notes it (run_module,       *)
(* GilScope, the end of a blocking release) or by one that does not        *)
(* (PyGILState_Ensure, PyEval_RestoreThread, a worker's first acquire).    *)
Ask(t) ==
  /\ at[t] = "out"
  /\ at' = [at EXCEPT ![t] = "wait"]
  /\ \E n \in BOOLEAN : notes' = [notes EXCEPT ![t] = n]
  /\ waited' = [waited EXCEPT ![t] = 0]
  /\ UNCHANGED <<clocks, holding, gaveUp>>

(* Faulty variant: the lock is taken whoever is inside.                    *)
TakeAnyway(t) ==
  /\ at[t] = "wait"
  /\ at' = [at EXCEPT ![t] = "run"]
  /\ heldSince' = [heldSince EXCEPT ![t] = IF notes[t] THEN 0 ELSE @]
  /\ seenSince' = [seenSince EXCEPT ![t] = IF notes[t] THEN Never ELSE @]
  /\ holding' = [holding EXCEPT ![t] = 0]
  /\ waited' = [waited EXCEPT ![t] = 0] /\ gaveUp' = FALSE
  /\ UNCHANGED <<notes, armed>>

(* Faulty variant: note_gil_acquired leaves WAITER_SEEN_SINCE alone.       *)
TakeKeepsSeen(t) ==
  /\ at[t] = "wait" /\ \A u \in Threads : ~Runs(u)
  /\ at' = [at EXCEPT ![t] = "run"]
  /\ heldSince' = [heldSince EXCEPT ![t] = IF notes[t] THEN 0 ELSE @]
  /\ holding' = [holding EXCEPT ![t] = 0]
  /\ waited' = [waited EXCEPT ![t] = 0] /\ gaveUp' = FALSE
  /\ UNCHANGED <<notes, seenSince, armed>>

(* The lock is taken, and note_gil_acquired runs if the path calls it.     *)
Take(t) ==
  /\ at[t] = "wait" /\ \A u \in Threads : ~Runs(u)
  /\ at' = [at EXCEPT ![t] = "run"]
  /\ heldSince' = [heldSince EXCEPT ![t] = IF notes[t] THEN 0 ELSE @]
  /\ seenSince' = [seenSince EXCEPT ![t] = IF notes[t] THEN Never ELSE @]
  /\ holding' = [holding EXCEPT ![t] = 0]
  /\ waited' = [waited EXCEPT ![t] = 0] /\ gaveUp' = FALSE
  /\ UNCHANGED <<notes, armed>>

(* acquire_within: a waiter may give up.                                   *)
GiveUp(t) ==
  /\ at[t] = "wait"
  /\ at' = [at EXCEPT ![t] = "out"]
  /\ waited' = [waited EXCEPT ![t] = 0] /\ gaveUp' = TRUE
  /\ UNCHANGED <<notes, clocks, holding>>

(* A scope ends or a blocking call begins: the clocks are left as they are. *)
Release(t) ==
  /\ Runs(t)
  /\ at' = [at EXCEPT ![t] = "out"]
  /\ holding' = [holding EXCEPT ![t] = 0]
  /\ UNCHANGED <<notes, clocks, waited, gaveUp>>

--------------------------------------------------------------------------------
(* maybe_yield_gil at a checkpoint, once the early returns for free        *)
(* threading, no-yield sections and live cell guards have not applied.     *)

(* Faulty variant: the flag goes down and the clock keeps running.         *)
CheckIdleKeepsSeen(t) ==
  /\ Runs(t) /\ Awaiting = {} /\ armed
  /\ armed' = FALSE
  /\ UNCHANGED <<at, notes, heldSince, seenSince, history>>

(* Nobody waits: the clock of *this* thread is cleared, if one is armed.   *)
CheckIdle(t) ==
  /\ Runs(t) /\ Awaiting = {} /\ armed
  /\ armed' = FALSE
  /\ seenSince' = [seenSince EXCEPT ![t] = Never]
  /\ UNCHANGED <<at, notes, heldSince, history>>

(* switch_interval_elapsed: a clock that never started counts as run out.  *)
HeldElapsed(t) == heldSince[t] \in {Never, Interval}

(* Faulty variant: every checkpoint restarts the waiter's clock.           *)
NoticeAgain(t) ==
  /\ Runs(t) /\ Awaiting # {} /\ HeldElapsed(t)
  /\ seenSince[t] # Interval
  /\ seenSince' = [seenSince EXCEPT ![t] = 0]
  /\ armed' = TRUE
  /\ UNCHANGED <<at, notes, heldSince, history>>

(* waiter_interval_elapsed, the first time: start the clock, keep the GIL. *)
Notice(t) ==
  /\ Runs(t) /\ Awaiting # {} /\ HeldElapsed(t)
  /\ seenSince[t] = Never
  /\ seenSince' = [seenSince EXCEPT ![t] = 0]
  /\ armed' = TRUE
  /\ UNCHANGED <<at, notes, heldSince, history>>

(* Both clocks have run out: give the GIL up and park.                     *)
HandOver(t) ==
  /\ Runs(t) /\ Awaiting # {} /\ HeldElapsed(t)
  /\ seenSince[t] = Interval
  /\ at' = [at EXCEPT ![t] = "parked"]
  /\ holding' = [holding EXCEPT ![t] = 0]
  /\ UNCHANGED <<notes, clocks, waited, gaveUp>>

(* The park ends, by a notification or by its timeout; the thread asks for *)
(* the GIL again and notes that it has it.                                 *)
Unpark(t) ==
  /\ at[t] = "parked"
  /\ at' = [at EXCEPT ![t] = "wait"]
  /\ notes' = [notes EXCEPT ![t] = TRUE]
  /\ waited' = [waited EXCEPT ![t] = 0]
  /\ UNCHANGED <<clocks, holding, gaveUp>>

--------------------------------------------------------------------------------
(* Time passes; past the interval a clock's reading does not matter.       *)
Older(x) == IF x = Never \/ x = Interval THEN x ELSE x + 1

Tick ==
  /\ heldSince' = [t \in Threads |-> Older(heldSince[t])]
  /\ seenSince' = [t \in Threads |-> Older(seenSince[t])]
  /\ holding' = [t \in Threads |-> IF Runs(t) THEN Older(holding[t]) ELSE 0]
  /\ waited' = [t \in Threads |-> IF at[t] = "wait" THEN Older(waited[t]) ELSE 0]
  /\ UNCHANGED <<at, notes, armed, gaveUp>>

ClockNext ==
  \/ \E t \in Threads :
       \/ Ask(t) \/ Take(t) \/ GiveUp(t) \/ Release(t)
       \/ CheckIdle(t) \/ Notice(t) \/ HandOver(t) \/ Unpark(t)
  \/ Tick

ClockSpec == ClockInit /\ [][ClockNext]_clockVars

(* Time passes, a running thread reaches its checkpoints, a park is timed, *)
(* and parking_lot's eventual fairness gives a waiter the lock in the end. *)
ClockFairSpec ==
  /\ ClockSpec
  /\ WF_clockVars(Tick)
  /\ \A t \in Threads :
       /\ WF_clockVars(Notice(t) \/ HandOver(t)) /\ WF_clockVars(Unpark(t)) /\ SF_clockVars(Take(t))

--------------------------------------------------------------------------------
(* Properties.                                                             *)

(* The types, and that threads run one at a time, as Gil promises.         *)
ClockTypeOK ==
  /\ \A t, u \in Threads : Runs(t) /\ Runs(u) => t = u
  /\ at \in [Threads -> {"out", "wait", "run", "parked"}]
  /\ notes \in [Threads -> BOOLEAN]
  /\ heldSince \in [Threads -> Clock] /\ seenSince \in [Threads -> Clock]
  /\ armed \in BOOLEAN
  /\ holding \in [Threads -> Ticks] /\ waited \in [Threads -> Ticks]
  /\ gaveUp \in BOOLEAN

(* maybe_yield_gil: "Both clocks must have run out: the holder has held    *)
(* for the interval *and* the waiter has waited for it".  So it is for a   *)
(* hold whose beginning was noted, unless a waiter gave up during it.      *)
BothWaited(t) ==
  /\ holding[t] = Interval
  /\ gaveUp \/ \E u \in Awaiting : waited[u] = Interval

HandsOff(t) == Runs(t) /\ at'[t] = "parked"

NotedHoldsLast ==
  [][\A t \in Threads : HandsOff(t) /\ notes[t] => BothWaited(t)]_clockVars

(* The clock that says "some clock may be running": with it down, the      *)
(* holder's fast path would leave its own clock running for a waiter that  *)
(* comes later.                                                            *)
ArmedCovers == \A t \in Threads : Runs(t) /\ notes[t] /\ seenSince[t] # Never => armed

(* A holder that only computes cannot keep a waiter out.                   *)
WaiterServed == \A t \in Threads : at[t] = "wait" ~> at[t] # "wait"
================================================================================
