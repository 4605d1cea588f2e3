--------------------------- MODULE SimpleQueueProofs ---------------------------
(***************************************************************************)
(* Proofs about SimpleQueue, for any set of threads and any number of      *)
(* items.  Gate and flag are set in two steps of get and cleared in one of *)
(* open_gate; in between, the get at "flag" is the only one there.  Unless *)
(* an exception took a get away, a held gate without the flag has such a   *)
(* get, and a held gate beside an item has a thread that will open it.     *)
(***************************************************************************)
EXTENDS SimpleQueue, TLAPS

FlagPending ==
  ~broken /\ gate /\ ~locked => \E t \in Threads : at[t] = "flag"

OpenerThere ==
  ~broken /\ gate /\ items > 0 => \E t \in Threads : WillOpen(t)

GateInv == FlagMeansGate /\ FlagComes
IInv == TypeOK /\ GateInv /\ FlagPending /\ OpenerThere

ThreadNext(t) ==
  Append(t) \/ OpenGate(t) \/ Get(t) \/ GetStep(t) \/ Interrupt(t)

LEMMA InitInv == Init => IInv
<1>1. Init => TypeOK
  <2>1. Init => items \in 0 .. MaxItems
    BY ItemsAssumption DEF Init
  <2>2. Init => at \in [Threads -> Places]
    BY DEF Init, Places
  <2>3. Init => mode \in [Threads -> {"nowait", "timed", "block"}]
    BY DEF Init
  <2> QED BY <2>1, <2>2, <2>3 DEF Init, TypeOK
<1>2. Init => GateInv /\ FlagPending
  BY DEF Init, GateInv, FlagMeansGate, FlagComes, FlagPending
<1>3. Init => OpenerThere
  BY DEF Init, OpenerThere
<1> QED BY <1>1, <1>2, <1>3 DEF IInv

(* No step takes an item that is not there or adds one beyond the bound.   *)
LEMMA StepType == ASSUME IInv, NEW t \in Threads, ThreadNext(t)
                  PROVE  TypeOK'
<1> USE ItemsAssumption DEF IInv, TypeOK, Places, Goto
<1>1. CASE Append(t)      BY <1>1 DEF Append
<1>2. CASE OpenGate(t)    BY <1>2 DEF OpenGate
<1>3. CASE Get(t)         BY <1>3 DEF Get
<1>4. CASE TestEmpty(t)   BY <1>4 DEF TestEmpty
<1>5. CASE TestFull(t)    BY <1>5 DEF TestFull
<1>6. CASE TryGate(t)     BY <1>6 DEF TryGate
<1>7. CASE TakeGate(t)    BY <1>7 DEF TakeGate
<1>8. CASE WaitTimeout(t) BY <1>8 DEF WaitTimeout
<1>9. CASE SetFlag(t)     BY <1>9 DEF SetFlag
<1>10. CASE PopLeft(t)    BY <1>10 DEF PopLeft
<1>11. CASE PopFails(t)   BY <1>11 DEF PopFails
<1>12. CASE Interrupt(t)  BY <1>12 DEF Interrupt
<1> QED BY <1>1, <1>2, <1>3, <1>4, <1>5, <1>6, <1>7, <1>8, <1>9, <1>10, <1>11, <1>12
        DEF ThreadNext, GetStep

(* The gate is taken only when it is open, so by one get at a time; while  *)
(* that get is at "flag" the flag is down and open_gate leaves the gate.   *)
LEMMA StepGate == ASSUME IInv, NEW t \in Threads, ThreadNext(t)
                  PROVE  GateInv'
<1> USE DEF IInv, TypeOK, GateInv, FlagMeansGate, FlagComes, Places, Goto
<1>1. CASE Append(t)      BY <1>1 DEF Append
<1>2. CASE OpenGate(t)    BY <1>2 DEF OpenGate
<1>3. CASE Get(t)         BY <1>3 DEF Get
<1>4. CASE TestEmpty(t)   BY <1>4 DEF TestEmpty
<1>5. CASE TestFull(t)    BY <1>5 DEF TestFull
<1>6. CASE TryGate(t)     BY <1>6 DEF TryGate
<1>7. CASE TakeGate(t)    BY <1>7 DEF TakeGate
<1>8. CASE WaitTimeout(t) BY <1>8 DEF WaitTimeout
<1>9. CASE SetFlag(t)     BY <1>9 DEF SetFlag
<1>10. CASE PopLeft(t)    BY <1>10 DEF PopLeft
<1>11. CASE PopFails(t)   BY <1>11 DEF PopFails
<1>12. CASE Interrupt(t)  BY <1>12 DEF Interrupt
<1> QED BY <1>1, <1>2, <1>3, <1>4, <1>5, <1>6, <1>7, <1>8, <1>9, <1>10, <1>11, <1>12
        DEF ThreadNext, GetStep

(* A get leaves "flag" by raising the flag, or by an exception.            *)
LEMMA StepPending == ASSUME IInv, NEW t \in Threads, ThreadNext(t)
                     PROVE  FlagPending'
<1> USE DEF IInv, TypeOK, GateInv, FlagMeansGate, FlagPending, Places, Goto
<1>1. CASE Append(t)      BY <1>1 DEF Append
<1>2. CASE OpenGate(t)    BY <1>2 DEF OpenGate
<1>3. CASE Get(t)         BY <1>3 DEF Get
<1>4. CASE TestEmpty(t)   BY <1>4 DEF TestEmpty
<1>5. CASE TestFull(t)    BY <1>5 DEF TestFull
<1>6. CASE TryGate(t)     BY <1>6 DEF TryGate
<1>7. CASE TakeGate(t)    BY <1>7 DEF TakeGate
<1>8. CASE WaitTimeout(t) BY <1>8 DEF WaitTimeout
<1>9. CASE SetFlag(t)     BY <1>9 DEF SetFlag
<1>10. CASE PopLeft(t)    BY <1>10 DEF PopLeft
<1>11. CASE PopFails(t)   BY <1>11 DEF PopFails
<1>12. CASE Interrupt(t)  BY <1>12 DEF Interrupt
<1> QED BY <1>1, <1>2, <1>3, <1>4, <1>5, <1>6, <1>7, <1>8, <1>9, <1>10, <1>11, <1>12
        DEF ThreadNext, GetStep

(* Who adds an item will open the gate; who looks at the gate as its       *)
(* opener finds the flag up, or leaves that to the get at "flag"; who      *)
(* gives up beside a held gate found no item.                              *)
LEMMA StepOpener == ASSUME IInv, NEW t \in Threads, ThreadNext(t)
                    PROVE  OpenerThere'
<1> USE DEF IInv, TypeOK, OpenerThere, WillOpen, Places, Goto
<1>1. CASE Append(t)      BY <1>1 DEF Append
<1>2. CASE OpenGate(t)
  <2>1. CASE locked       BY <1>2, <2>1 DEF OpenGate
  <2>2. CASE ~locked      BY <1>2, <2>2 DEF OpenGate, FlagPending
  <2> QED BY <2>1, <2>2
<1>3. CASE Get(t)         BY <1>3 DEF Get
<1>4. CASE TestEmpty(t)   BY <1>4 DEF TestEmpty
<1>5. CASE TestFull(t)    BY <1>5 DEF TestFull
<1>6. CASE TryGate(t)     BY <1>6 DEF TryGate
<1>7. CASE TakeGate(t)    BY <1>7 DEF TakeGate
<1>8. CASE WaitTimeout(t) BY <1>8 DEF WaitTimeout
<1>9. CASE SetFlag(t)     BY <1>9 DEF SetFlag
<1>10. CASE PopLeft(t)    BY <1>10 DEF PopLeft
<1>11. CASE PopFails(t)   BY <1>11 DEF PopFails
<1>12. CASE Interrupt(t)  BY <1>12 DEF Interrupt
<1> QED BY <1>1, <1>2, <1>3, <1>4, <1>5, <1>6, <1>7, <1>8, <1>9, <1>10, <1>11, <1>12
        DEF ThreadNext, GetStep

LEMMA NextInv == IInv /\ [Next]_vars => IInv'
<1> SUFFICES ASSUME IInv, [Next]_vars PROVE IInv'
  OBVIOUS
<1>1. CASE Next
  <2>1. PICK t \in Threads : ThreadNext(t)
    BY <1>1 DEF Next, ThreadNext
  <2> QED BY <2>1, StepType, StepGate, StepPending, StepOpener DEF IInv
<1>2. CASE UNCHANGED vars
  BY <1>2 DEF vars, IInv, TypeOK, GateInv, FlagMeansGate, FlagComes, FlagPending,
     OpenerThere, WillOpen
<1> QED BY <1>1, <1>2

(* The inductive invariant holds in every reachable state.                 *)
THEOREM Invariance == Spec => []IInv
<1>1. Init => IInv
  BY InitInv
<1>2. IInv /\ [Next]_vars => IInv'
  BY NextInv
<1> QED BY <1>1, <1>2, PTL DEF Spec

(* put and simplequeue_pop count right: no pop takes an item that is gone.  *)
THEOREM TypeCorrect == Spec => []TypeOK
<1>1. IInv => TypeOK
  BY DEF IInv
<1> QED BY <1>1, Invariance, PTL

(* open_gate never releases an open gate (its `release` would raise        *)
(* "release unlocked lock"), whoever puts, pops or is interrupted.         *)
THEOREM ReleaseLegal == Spec => []FlagMeansGate
<1>1. IInv => FlagMeansGate
  BY DEF IInv, GateInv
<1> QED BY <1>1, Invariance, PTL

(* Between get's acquire of the gate and its `_locked = True` the gate     *)
(* stays that get's: no put or pop opens it and no other get is there.     *)
THEOREM GateKeptForFlag == Spec => []FlagComes
<1>1. IInv => FlagComes
  BY DEF IInv, GateInv
<1> QED BY <1>1, Invariance, PTL

(* No get waits beside an item with nobody about to open the gate, however *)
(* many puts one release of the gate stands for, unless an exception left  *)
(* a get that had taken it.                                                *)
THEOREM NoGetStranded == Spec => []NobodyStranded
<1>1. IInv => NobodyStranded
  <2> SUFFICES ASSUME IInv, Stranded, ~broken PROVE FALSE
    BY DEF NobodyStranded
  <2> QED BY DEF IInv, OpenerThere, Stranded
<1> QED BY <1>1, Invariance, PTL
================================================================================
