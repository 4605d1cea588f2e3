--------------------------- MODULE EvalBreakerProofs ---------------------------
(***************************************************************************)
(* Proofs about EvalBreaker: pending work keeps its bit raised, a loop     *)
(* that skips its checks misses nothing, and a pending call is in one      *)
(* place until it starts, for any threads, signals, calls and depth of     *)
(* nested drains.                                                          *)
(***************************************************************************)
EXTENDS EvalBreaker, FiniteSetTheorems, TLAPS

Looping == {"next", "hot", "arms", "swap", "slots", "run"}

(* A loop that can begin a drain is above fewer drains than the bound, and *)
(* only the main thread takes signals.                                     *)
Placed ==
  \A t \in Threads :
    /\ pc[t] \in Looping => Len(stack[t]) < MaxDepth
    /\ pc[t] \in {"swap", "slots"} => t = Main

IInv == TypeOK /\ Placed /\ GateCovers /\ SignalsOnTheWay /\ QuietSees

LEMMA InitInv == Init => IInv
<1> SUFFICES ASSUME Init PROVE IInv OBVIOUS
<1>1. TypeOK /\ Placed
  <2>1. stack \in [Threads -> Seq(Job)] /\ \A t \in Threads : Len(stack[t]) = 0
    BY DEF Init
  <2>2. mainQ \in Seq(Calls) /\ anyQ \in Seq(Calls)
    BY DEF Init
  <2>3. pc \in [Threads -> Places] /\ \A t \in Threads : pc[t] = "next"
    BY DEF Init, Places
  <2>6. \A t \in Threads : Len(stack[t]) <= MaxDepth
    BY <2>1, BoundAssumption
  <2>7. gil \in Threads /\ Alive(gil)
    BY <2>3, MainAssumption DEF Init, Alive
  <2>8. /\ snap \in [Threads -> {"stale", "read", "quiet", "busy"}]
        /\ tramp \in [Signals -> {"idle", "any", "bit", "gen"}]
        /\ added \in [Calls -> {"no", "main", "any"}]
        /\ mask \in [Threads -> SUBSET Kinds]
    BY DEF Init
  <2>9. hot \in SUBSET Kinds /\ tripped \in SUBSET Signals /\ any \in BOOLEAN /\ busy \in BOOLEAN
        /\ excs \in SUBSET Threads
    BY DEF Init
  <2>4. TypeOK
    BY <2>1, <2>2, <2>3, <2>6, <2>7, <2>8, <2>9 DEF TypeOK
  <2>5. Placed
    BY <2>1, <2>3, BoundAssumption DEF Placed
  <2> QED BY <2>4, <2>5
<1>2. GateCovers /\ SignalsOnTheWay /\ QuietSees
  BY DEF Init, GateCovers, SignalsOnTheWay, QuietSees
<1> QED BY <1>1, <1>2 DEF IInv

--------------------------------------------------------------------------------
(* Sequences of jobs.                                                      *)

LEMMA PushTyped ==
  ASSUME NEW S, NEW s \in Seq(S), NEW e \in S
  PROVE  /\ <<e>> \o s \in Seq(S) /\ Len(<<e>> \o s) = Len(s) + 1
OBVIOUS

LEMMA TailTyped ==
  ASSUME NEW S, NEW s \in Seq(S), s # <<>>
  PROVE  /\ Tail(s) \in Seq(S) /\ Len(Tail(s)) = Len(s) - 1
         /\ Head(s) \in S /\ Len(s) >= 1
OBVIOUS

LEMMA ReplaceTyped ==
  ASSUME NEW S, NEW s \in Seq(S), s # <<>>, NEW e \in S
  PROVE  /\ <<e>> \o Tail(s) \in Seq(S) /\ Len(<<e>> \o Tail(s)) = Len(s)
BY PushTyped, TailTyped

--------------------------------------------------------------------------------
(* Types, and the places of the threads.                                   *)

(* The running thread goes to a place where it is alive.                   *)
LEMMA GotoTyped ==
  ASSUME TypeOK, NEW t \in Threads, gil = t, gil' = gil, NEW p \in Places \ {"leaving", "dead"},
         Goto(t, p)
  PROVE  /\ pc' \in [Threads -> Places] /\ Alive(gil)' /\ pc'[t] = p
         /\ \A u \in Threads \ {t} : pc'[u] = pc[u]
BY DEF TypeOK, Goto, Alive

LEMMA LoopType ==
  ASSUME TypeOK, Placed, NEW t \in Threads, Loop(t)
  PROVE  TypeOK' /\ Placed'
<1>1. CASE NextInstruction(t)
  <2>1. gil = t /\ gil' = gil /\ pc[t] = "next"
    BY <1>1 DEF NextInstruction, At
  <2>2. PICK p \in {"hot", "run", "arms"} : Goto(t, p)
    BY <1>1 DEF NextInstruction
  <2>3. /\ pc' \in [Threads -> Places] /\ Alive(gil)' /\ pc'[t] = p
        /\ \A u \in Threads \ {t} : pc'[u] = pc[u]
    BY <2>1, <2>2, GotoTyped DEF Places
  <2>4. snap' \in [Threads -> {"stale", "read", "quiet", "busy"}] /\ mask' \in [Threads -> SUBSET Kinds]
    BY <1>1 DEF NextInstruction, TypeOK
  <2>5. TypeOK'
    BY <1>1, <2>3, <2>4 DEF NextInstruction, TypeOK, signalVars, callVars
  <2>6. Placed'
    BY <1>1, <2>1, <2>2, <2>3 DEF NextInstruction, Placed, Looping
  <2> QED BY <2>5, <2>6
<1>2. CASE ReadHot(t)
  <2>1. gil = t /\ gil' = gil /\ pc[t] = "hot"
    BY <1>2 DEF ReadHot, At
  <2>2. PICK p \in {"run", "arms"} : Goto(t, p)
    BY <1>2 DEF ReadHot
  <2>3. /\ pc' \in [Threads -> Places] /\ Alive(gil)' /\ pc'[t] = p
        /\ \A u \in Threads \ {t} : pc'[u] = pc[u]
    BY <2>1, <2>2, GotoTyped DEF Places
  <2>4. snap' \in [Threads -> {"stale", "read", "quiet", "busy"}] /\ mask' \in [Threads -> SUBSET Kinds]
    BY <1>2 DEF ReadHot, TypeOK
  <2>5. TypeOK'
    BY <1>2, <2>3, <2>4 DEF ReadHot, TypeOK, signalVars, callVars
  <2>6. Placed'
    BY <1>2, <2>1, <2>2, <2>3 DEF ReadHot, Placed, Looping
  <2> QED BY <2>5, <2>6
<1>3. CASE TakeAsync(t)
  <2>1. gil = t /\ gil' = gil /\ pc[t] = "arms" /\ stack' = stack
    BY <1>3 DEF TakeAsync, At
  <2>2. PICK p \in {"next", "raise"} : Goto(t, p)
    BY <1>3 DEF TakeAsync, Throw
  <2>3. /\ pc' \in [Threads -> Places] /\ Alive(gil)' /\ pc'[t] = p
        /\ \A u \in Threads \ {t} : pc'[u] = pc[u]
    BY <2>1, <2>2, GotoTyped DEF Places
  <2>4. hot' \in SUBSET Kinds /\ snap' \in [Threads -> {"stale", "read", "quiet", "busy"}]
    BY <1>3 DEF TakeAsync, Lower, Bump, TypeOK
  <2>5. excs' \in SUBSET Threads /\ mask' \in [Threads -> SUBSET Kinds]
    BY <1>3 DEF TakeAsync, NoMask, TypeOK
  <2>6. TypeOK'
    BY <1>3, <2>3, <2>4, <2>5 DEF TakeAsync, TypeOK, signalVars, callVars
  <2>7. Placed'
    BY <2>1, <2>2, <2>3 DEF Placed, Looping
  <2> QED BY <2>6, <2>7
<1>4. CASE NothingDue(t)
  BY <1>4 DEF NothingDue, NoMask, TypeOK, Placed, Looping, At, Goto, Alive, Places, signalVars, callVars
<1> QED BY <1>1, <1>2, <1>3, <1>4 DEF Loop

(* What the steps of a drain do to the stack and to the place of a thread. *)
LEMMA JobTyped ==
  ASSUME TypeOK, NEW t \in Threads, stack[t] # <<>>
  PROVE  /\ Top(t) \in Job
         /\ Top(t).what = "signals" => Top(t).left \in SUBSET Signals
         /\ Top(t).what = "calls" => Top(t).left \in Seq(Calls)
<1>1. Top(t) \in Job
  BY TailTyped DEF TypeOK, Top
<1> QED BY <1>1 DEF Job

LEMMA PushType ==
  ASSUME TypeOK, Placed, NEW t \in Threads, NEW job \in Job, pc[t] \in Looping, Push(t, job)
  PROVE  /\ stack' \in [Threads -> Seq(Job)] /\ \A u \in Threads : Len(stack'[u]) <= MaxDepth
         /\ \A u \in Threads \ {t} : Len(stack'[u]) = Len(stack[u])
<1>1. <<job>> \o stack[t] \in Seq(Job) /\ Len(<<job>> \o stack[t]) = Len(stack[t]) + 1
  BY PushTyped DEF TypeOK
<1>2. Len(stack[t]) < MaxDepth /\ Len(stack[t]) \in Nat
  BY DEF Placed, TypeOK
<1> QED BY <1>1, <1>2, BoundAssumption DEF Push, TypeOK

LEMMA ReplaceType ==
  ASSUME TypeOK, NEW t \in Threads, NEW job \in Job, stack[t] # <<>>, Replace(t, job)
  PROVE  /\ stack' \in [Threads -> Seq(Job)] /\ \A u \in Threads : Len(stack'[u]) <= MaxDepth
         /\ \A u \in Threads : Len(stack'[u]) = Len(stack[u])
<1>1. <<job>> \o Tail(stack[t]) \in Seq(Job) /\ Len(<<job>> \o Tail(stack[t])) = Len(stack[t])
  BY ReplaceTyped DEF TypeOK
<1> QED BY <1>1 DEF Replace, TypeOK

LEMMA PopType ==
  ASSUME TypeOK, NEW t \in Threads, stack[t] # <<>>, Pop(t)
  PROVE  /\ stack' \in [Threads -> Seq(Job)] /\ \A u \in Threads : Len(stack'[u]) <= MaxDepth
         /\ \A u \in Threads \ {t} : Len(stack'[u]) = Len(stack[u])
         /\ Len(stack'[t]) < MaxDepth
<1>1. Tail(stack[t]) \in Seq(Job) /\ Len(Tail(stack[t])) = Len(stack[t]) - 1 /\ Len(stack[t]) >= 1
  BY TailTyped DEF TypeOK
<1>2. Len(stack[t]) <= MaxDepth /\ Len(stack[t]) \in Nat
  BY DEF TypeOK
<1> QED BY <1>1, <1>2, BoundAssumption DEF Pop, TypeOK

LEMMA SignalType ==
  ASSUME TypeOK, Placed, NEW t \in Threads, ServeSignals(t)
  PROVE  TypeOK' /\ Placed'
<1>1. CASE LowerSignals(t)
  <2>1. /\ gil = t /\ gil' = gil /\ pc[t] \in {"arms", "run"} /\ t = Main
        /\ stack' = stack /\ Goto(t, "swap")
    BY <1>1 DEF LowerSignals, SignalsDue, At
  <2>2. /\ pc' \in [Threads -> Places] /\ Alive(gil)' /\ pc'[t] = "swap"
        /\ \A u \in Threads \ {t} : pc'[u] = pc[u]
    BY <2>1, GotoTyped DEF Places
  <2>3. /\ hot' \in SUBSET Kinds /\ snap' \in [Threads -> {"stale", "read", "quiet", "busy"}]
        /\ mask' \in [Threads -> SUBSET Kinds]
    BY <1>1 DEF LowerSignals, Lower, Bump, NoMask, TypeOK
  <2>4. TypeOK'
    BY <1>1, <2>2, <2>3 DEF LowerSignals, TypeOK, signalVars, callVars
  <2>5. Placed'
    BY <2>1, <2>2 DEF Placed, Looping
  <2> QED BY <2>4, <2>5
<1>2. CASE SwapAny(t)
  BY <1>2 DEF SwapAny, TypeOK, Placed, Looping, At, Goto, Alive, Places, signalVars, callVars
<1>3. CASE TakeTripped(t)
  <2>1. [what |-> "signals", left |-> tripped] \in Job
    BY DEF Job, TypeOK
  <2>2. /\ stack' \in [Threads -> Seq(Job)] /\ \A u \in Threads : Len(stack'[u]) <= MaxDepth
        /\ \A u \in Threads \ {t} : Len(stack'[u]) = Len(stack[u])
    BY <1>3, <2>1, PushType DEF TakeTripped, At, Looping
  <2>3. gil = t /\ gil' = gil /\ pc[t] = "slots" /\ Goto(t, "between")
    BY <1>3 DEF TakeTripped, At
  <2>4. /\ pc' \in [Threads -> Places] /\ Alive(gil)' /\ pc'[t] = "between"
        /\ \A u \in Threads \ {t} : pc'[u] = pc[u]
    BY <2>3, GotoTyped DEF Places
  <2>5. TypeOK'
    BY <1>3, <2>2, <2>4 DEF TakeTripped, TypeOK, callVars
  <2>6. Placed'
    BY <2>2, <2>4 DEF Placed, Looping
  <2> QED BY <2>5, <2>6
<1>4. CASE RunHandler(t)
  <2>1. [Top(t) EXCEPT !.left = @ \ {Lowest(@)}] \in Job
    BY <1>4, JobTyped DEF RunHandler, Has, Job
  <2>2. /\ stack' \in [Threads -> Seq(Job)] /\ \A u \in Threads : Len(stack'[u]) <= MaxDepth
        /\ \A u \in Threads : Len(stack'[u]) = Len(stack[u])
    BY <1>4, <2>1, ReplaceType DEF RunHandler, Has
  <2>3. gil = t /\ gil' = gil
    BY <1>4 DEF RunHandler, At
  <2>4. PICK p \in {"next", "between", "raise"} : Goto(t, p)
    <3>1. pc' = pc => Goto(t, "between")
      BY <1>4 DEF RunHandler, At, Goto, TypeOK
    <3> QED BY <1>4, <3>1 DEF RunHandler, CallBack
  <2>5. /\ pc' \in [Threads -> Places] /\ Alive(gil)' /\ pc'[t] = p
        /\ \A u \in Threads \ {t} : pc'[u] = pc[u]
    BY <2>3, <2>4, GotoTyped DEF Places
  <2>6. snap' \in [Threads -> {"stale", "read", "quiet", "busy"}]
    BY <1>4 DEF RunHandler, CallBack, Restart, TypeOK
  <2>7. TypeOK'
    BY <1>4, <2>2, <2>5, <2>6 DEF RunHandler, TypeOK, signalVars, callVars
  <2>8. Placed'
    <3>1. p = "next" => Len(stack[t]) < MaxDepth
      BY <1>4, <2>5 DEF RunHandler, At, CallBack, Goto, TypeOK
    <3> QED BY <2>2, <2>4, <2>5, <3>1 DEF Placed, Looping
  <2> QED BY <2>7, <2>8
<1>5. CASE EndSignals(t)
  <2>1. /\ stack' \in [Threads -> Seq(Job)] /\ \A u \in Threads : Len(stack'[u]) <= MaxDepth
        /\ \A u \in Threads \ {t} : Len(stack'[u]) = Len(stack[u])
        /\ Len(stack'[t]) < MaxDepth
    BY <1>5, PopType DEF EndSignals, Has
  <2>2. gil = t /\ gil' = gil
    BY <1>5 DEF EndSignals, At
  <2>3. PICK p \in {"run", "next", "raise"} : Goto(t, p)
    BY <1>5 DEF EndSignals, Throw
  <2>4. /\ pc' \in [Threads -> Places] /\ Alive(gil)' /\ pc'[t] = p
        /\ \A u \in Threads \ {t} : pc'[u] = pc[u]
    BY <2>2, <2>3, GotoTyped DEF Places
  <2>5. snap' \in [Threads -> {"stale", "read", "quiet", "busy"}]
    BY <1>5 DEF EndSignals, Restart, TypeOK
  <2>6. TypeOK'
    BY <1>5, <2>1, <2>4, <2>5 DEF EndSignals, TypeOK, signalVars, callVars
  <2>7. Placed'
    BY <2>1, <2>3, <2>4 DEF Placed, Looping
  <2> QED BY <2>6, <2>7
<1> QED BY <1>1, <1>2, <1>3, <1>4, <1>5 DEF ServeSignals

LEMMA CallType ==
  ASSUME TypeOK, Placed, NEW t \in Threads, ServeCalls(t)
  PROVE  TypeOK' /\ Placed'
<1>1. CASE TakeCalls(t)
  <2>1. [what |-> "calls", left |-> CallsTaken(t)] \in Job
    BY DEF Job, CallsTaken, TypeOK
  <2>2. /\ stack' \in [Threads -> Seq(Job)] /\ \A u \in Threads : Len(stack'[u]) <= MaxDepth
        /\ \A u \in Threads \ {t} : Len(stack'[u]) = Len(stack[u])
    BY <1>1, <2>1, PushType DEF TakeCalls, At, Looping
  <2>3. mainQ' \in Seq(Calls) /\ anyQ' \in Seq(Calls) /\ hot' \in SUBSET Kinds
    BY <1>1 DEF TakeCalls, RaiseIf, TypeOK, Kinds
  <2>4. gil = t /\ gil' = gil /\ Goto(t, "between")
    BY <1>1 DEF TakeCalls, At
  <2>5. /\ pc' \in [Threads -> Places] /\ Alive(gil)' /\ pc'[t] = "between"
        /\ \A u \in Threads \ {t} : pc'[u] = pc[u]
    BY <2>4, GotoTyped DEF Places
  <2>6. /\ snap' \in [Threads -> {"stale", "read", "quiet", "busy"}] /\ mask' \in [Threads -> SUBSET Kinds]
        /\ busy' \in BOOLEAN
    BY <1>1 DEF TakeCalls, RaiseIf, Bump, NoMask, TypeOK
  <2>7. TypeOK'
    BY <1>1, <2>2, <2>3, <2>5, <2>6 DEF TakeCalls, TypeOK, signalVars
  <2>8. Placed'
    BY <2>2, <2>5 DEF Placed, Looping
  <2> QED BY <2>7, <2>8
<1>2. CASE RunCall(t)
  <2>1. Top(t).left \in Seq(Calls) /\ Top(t).left # <<>>
    BY <1>2, JobTyped DEF RunCall, Has
  <2>2. Tail(Top(t).left) \in Seq(Calls) /\ Head(Top(t).left) \in Calls
    BY <2>1, TailTyped
  <2>3. [Top(t) EXCEPT !.left = Tail(@)] \in Job
    BY <1>2, <2>2, JobTyped DEF RunCall, Has, Job
  <2>4. /\ stack' \in [Threads -> Seq(Job)] /\ \A u \in Threads : Len(stack'[u]) <= MaxDepth
        /\ \A u \in Threads : Len(stack'[u]) = Len(stack[u])
    BY <1>2, <2>3, ReplaceType DEF RunCall, Has
  <2>5. gil = t /\ gil' = gil
    BY <1>2 DEF RunCall, At
  <2>6. PICK p \in {"next", "between", "raise"} : Goto(t, p)
    <3>1. pc' = pc => Goto(t, "between")
      BY <1>2 DEF RunCall, At, Goto, TypeOK
    <3> QED BY <1>2, <3>1 DEF RunCall, CallBack
  <2>7. /\ pc' \in [Threads -> Places] /\ Alive(gil)' /\ pc'[t] = p
        /\ \A u \in Threads \ {t} : pc'[u] = pc[u]
    BY <2>5, <2>6, GotoTyped DEF Places
  <2>8. /\ snap' \in [Threads -> {"stale", "read", "quiet", "busy"}]
        /\ added' \in [Calls -> {"no", "main", "any"}]
    BY <1>2, <2>2 DEF RunCall, CallBack, Restart, TypeOK
  <2>9. TypeOK'
    BY <1>2, <2>4, <2>7, <2>8 DEF RunCall, TypeOK, signalVars
  <2>10. Placed'
    <3>1. p = "next" => Len(stack[t]) < MaxDepth
      BY <1>2, <2>7 DEF RunCall, At, CallBack, Goto, TypeOK
    <3> QED BY <2>4, <2>6, <2>7, <3>1 DEF Placed, Looping
  <2> QED BY <2>9, <2>10
<1>3. CASE EndCalls(t)
  <2>1. /\ stack' \in [Threads -> Seq(Job)] /\ \A u \in Threads : Len(stack'[u]) <= MaxDepth
        /\ \A u \in Threads \ {t} : Len(stack'[u]) = Len(stack[u])
        /\ Len(stack'[t]) < MaxDepth
    BY <1>3, PopType DEF EndCalls, Has
  <2>2. Top(t).left \in Seq(Calls)
    BY <1>3, JobTyped DEF EndCalls, Has
  <2>3. anyQ' \in Seq(Calls)
    BY <1>3, <2>2 DEF EndCalls, TypeOK
  <2>5. hot' \in SUBSET Kinds
    BY <1>3 DEF EndCalls, Bump, Restart, TypeOK, Kinds
  <2>4. snap' \in [Threads -> {"stale", "read", "quiet", "busy"}]
    BY <1>3 DEF EndCalls, Bump, Restart, TypeOK
  <2>6. pc' \in [Threads -> Places] /\ Alive(gil)' /\ pc'[t] \in {"run", "next", "raise"}
        /\ \A u \in Threads \ {t} : pc'[u] = pc[u]
    <3>1. PICK p \in {"run", "next", "raise"} : Goto(t, p)
      BY <1>3 DEF EndCalls, Throw
    <3>2. gil = t /\ gil' = gil
      BY <1>3 DEF EndCalls, At
    <3> QED BY <3>1, <3>2, GotoTyped DEF Places
  <2>7. TypeOK'
    BY <1>3, <2>1, <2>3, <2>4, <2>5, <2>6 DEF EndCalls, TypeOK, signalVars
  <2>8. Placed'
    BY <2>1, <2>6 DEF Placed, Looping
  <2> QED BY <2>7, <2>8
<1> QED BY <1>1, <1>2, <1>3 DEF ServeCalls
LEMMA InstructionType ==
  ASSUME TypeOK, Placed, NEW t \in Threads, Instruction(t)
  PROVE  TypeOK' /\ Placed'
<1>1. CASE Plain(t)
  BY <1>1 DEF Plain, TypeOK, Placed, Looping, At, Goto, Alive, Places, signalVars, callVars
<1>2. CASE Raises(t)
  BY <1>2 DEF Raises, Throw, TypeOK, Placed, Looping, At, Goto, Alive, Places, signalVars, callVars
<1>3. CASE Return(t)
  BY <1>3 DEF Return, TypeOK, Placed, Looping, At, Goto, Alive, Places, signalVars, callVars
<1>4. ASSUME NEW c \in Calls, NEW mainOnly \in BOOLEAN, NEW force \in BOOLEAN,
             AddCall(t, c, mainOnly, force)
      PROVE  TypeOK' /\ Placed'
  <2>1. mainQ' \in Seq(Calls) /\ anyQ' \in Seq(Calls)
    BY <1>4 DEF AddCall, TypeOK
  <2> QED BY <1>4, <2>1 DEF AddCall, Bump, TypeOK, Placed, Looping, At, Goto, Alive, Places, Kinds,
             signalVars
<1>5. ASSUME NEW u \in Threads, NEW exc \in BOOLEAN, SetAsync(t, u, exc)
      PROVE  TypeOK' /\ Placed'
  BY <1>5 DEF SetAsync, RaiseIf, Bump, TypeOK, Placed, Looping, At, Goto, Alive, Places, Kinds,
     signalVars, callVars
<1> QED BY <1>1, <1>2, <1>3, <1>4, <1>5 DEF Instruction

LEMMA OtherType ==
  ASSUME TypeOK, Placed,
         \/ \E t \in Threads : ForgetIdent(t)
         \/ \E t, u \in Threads : HandOff(t, u) \/ EndWorker(t, u)
         \/ \E s \in Signals : Trampoline(s)
         \/ UNCHANGED vars
  PROVE  TypeOK' /\ Placed'
<1>1. ASSUME NEW t \in Threads, ForgetIdent(t) PROVE TypeOK' /\ Placed'
  BY <1>1 DEF ForgetIdent, TypeOK, Placed, Looping, Goto, Alive, Places, signalVars, callVars
<1>2. ASSUME NEW t \in Threads, NEW u \in Threads, HandOff(t, u) PROVE TypeOK' /\ Placed'
  BY <1>2 DEF HandOff, TypeOK, Placed, Looping, Alive, signalVars, callVars, threadVars
<1>3. ASSUME NEW t \in Threads, NEW u \in Threads, EndWorker(t, u) PROVE TypeOK' /\ Placed'
  BY <1>3 DEF EndWorker, TypeOK, Placed, Looping, At, Goto, Alive, Places, signalVars, callVars
<1>4. ASSUME NEW s \in Signals, Trampoline(s) PROVE TypeOK' /\ Placed'
  <2>1. /\ tramp' \in [Signals -> {"idle", "any", "bit", "gen"}]
        /\ tripped' \in SUBSET Signals /\ any' \in BOOLEAN /\ hot' \in SUBSET Kinds
        /\ snap' \in [Threads -> {"stale", "read", "quiet", "busy"}]
    BY <1>4 DEF Trampoline, From, Bump, TypeOK, Kinds
  <2> QED BY <1>4, <2>1 DEF Trampoline, TypeOK, Placed, Alive, callVars, threadVars
<1>5. CASE UNCHANGED vars
  BY <1>5 DEF vars, TypeOK, Placed, Alive, signalVars, callVars, threadVars
<1> QED BY <1>1, <1>2, <1>3, <1>4, <1>5

LEMMA TypeStep ==
  ASSUME TypeOK, Placed, [Next]_vars
  PROVE  TypeOK' /\ Placed'
BY LoopType, SignalType, CallType, InstructionType, OtherType DEF Next, Step

--------------------------------------------------------------------------------
(* The bits.  A step of thread t, and the shared words it leaves alone.    *)

LEMMA GateStep ==
  ASSUME TypeOK, GateCovers, [Next]_vars
  PROVE  GateCovers'
<1> USE DEF GateCovers
<1>1. ASSUME NEW t \in Threads, Loop(t) PROVE GateCovers'
  BY <1>1 DEF Loop, NextInstruction, ReadHot, TakeAsync, NothingDue, Lower, callVars
<1>2. ASSUME NEW t \in Threads, ServeSignals(t) PROVE GateCovers'
  BY <1>2 DEF ServeSignals, LowerSignals, SwapAny, TakeTripped, RunHandler, EndSignals, Lower, callVars
<1>3. ASSUME NEW t \in Threads, TakeCalls(t) PROVE GateCovers'
  BY <1>3 DEF TakeCalls, RaiseIf
<1>4. ASSUME NEW t \in Threads, RunCall(t) PROVE GateCovers'
  BY <1>4 DEF RunCall
<1>5. ASSUME NEW t \in Threads, EndCalls(t) PROVE GateCovers'
  BY <1>5 DEF EndCalls
<1>6. ASSUME NEW t \in Threads, Instruction(t) PROVE GateCovers'
  BY <1>6 DEF Instruction, Plain, Raises, Return, AddCall, SetAsync, RaiseIf, callVars
<1>7. ASSUME NEW t \in Threads, NEW u \in Threads, ForgetIdent(t) \/ HandOff(t, u) \/ EndWorker(t, u)
      PROVE GateCovers'
  BY <1>7 DEF ForgetIdent, HandOff, EndWorker, callVars
<1>8. ASSUME NEW s \in Signals, Trampoline(s) PROVE GateCovers'
  BY <1>8 DEF Trampoline, callVars
<1>9. CASE UNCHANGED vars
  BY <1>9 DEF vars, callVars
<1> QED BY <1>1, <1>2, <1>3, <1>4, <1>5, <1>6, <1>7, <1>8, <1>9 DEF Next, Step, ServeCalls
LEMMA SignalStep ==
  ASSUME TypeOK, Placed, SignalsOnTheWay, [Next]_vars
  PROVE  SignalsOnTheWay'
<1> USE DEF SignalsOnTheWay, At, Goto
<1>1. ASSUME NEW t \in Threads, Loop(t) PROVE SignalsOnTheWay'
  BY <1>1, MainAssumption DEF Loop, NextInstruction, ReadHot, TakeAsync, NothingDue, Throw, Lower, signalVars, TypeOK
<1>2. ASSUME NEW t \in Threads, LowerSignals(t) PROVE SignalsOnTheWay'
  BY <1>2, MainAssumption DEF LowerSignals, SignalsDue, signalVars, TypeOK
<1>3. ASSUME NEW t \in Threads, SwapAny(t) PROVE SignalsOnTheWay'
  BY <1>3, MainAssumption DEF SwapAny, Placed, TypeOK
<1>4. ASSUME NEW t \in Threads, TakeTripped(t) PROVE SignalsOnTheWay'
  BY <1>4 DEF TakeTripped
<1>5. ASSUME NEW t \in Threads, RunHandler(t) \/ EndSignals(t) PROVE SignalsOnTheWay'
  <2>1. pc'[Main] # pc[Main] => pc[Main] \notin {"swap", "slots"}
    BY <1>5, MainAssumption DEF RunHandler, EndSignals, CallBack, Throw, TypeOK
  <2> QED BY <1>5, <2>1 DEF RunHandler, EndSignals, signalVars
<1>6. ASSUME NEW t \in Threads, TakeCalls(t) PROVE SignalsOnTheWay'
  BY <1>6, MainAssumption DEF TakeCalls, RaiseIf, signalVars, TypeOK
<1>7. ASSUME NEW t \in Threads, RunCall(t) PROVE SignalsOnTheWay'
  BY <1>7, MainAssumption DEF RunCall, CallBack, signalVars, TypeOK
<1>8. ASSUME NEW t \in Threads, EndCalls(t) PROVE SignalsOnTheWay'
  BY <1>8, MainAssumption DEF EndCalls, Throw, signalVars, TypeOK
<1>9. ASSUME NEW t \in Threads, Instruction(t) PROVE SignalsOnTheWay'
  BY <1>9, MainAssumption DEF Instruction, Plain, Raises, Return, AddCall, SetAsync, RaiseIf, Throw,
     signalVars, TypeOK
<1>10. ASSUME NEW t \in Threads, NEW u \in Threads, ForgetIdent(t) \/ HandOff(t, u) \/ EndWorker(t, u)
       PROVE SignalsOnTheWay'
  BY <1>10, MainAssumption DEF ForgetIdent, HandOff, EndWorker, signalVars, threadVars, TypeOK
<1>11. ASSUME NEW s \in Signals, Trampoline(s) PROVE SignalsOnTheWay'
  BY <1>11 DEF Trampoline, From, threadVars, TypeOK
<1>12. CASE UNCHANGED vars
  BY <1>12 DEF vars, signalVars, threadVars
<1> QED BY <1>1, <1>2, <1>3, <1>4, <1>5, <1>6, <1>7, <1>8, <1>9, <1>10, <1>11, <1>12
        DEF Next, Step, ServeSignals, ServeCalls

LEMMA QuietStep ==
  ASSUME TypeOK, QuietSees, [Next]_vars
  PROVE  QuietSees'
<1> USE DEF QuietSees
<1>1. ASSUME NEW t \in Threads, Loop(t) PROVE QuietSees'
  BY <1>1 DEF Loop, NextInstruction, ReadHot, TakeAsync, NothingDue, Lower, Bump, signalVars, TypeOK
<1>2. ASSUME NEW t \in Threads, ServeSignals(t) PROVE QuietSees'
  BY <1>2 DEF ServeSignals, LowerSignals, SwapAny, TakeTripped, RunHandler, EndSignals, CallBack,
     Restart, Lower, Bump, signalVars, TypeOK
<1>3. ASSUME NEW t \in Threads, ServeCalls(t) PROVE QuietSees'
  BY <1>3 DEF ServeCalls, TakeCalls, RunCall, EndCalls, CallBack, Restart, RaiseIf, Bump,
     signalVars, TypeOK
<1>4. ASSUME NEW t \in Threads, Instruction(t) PROVE QuietSees'
  BY <1>4 DEF Instruction, Plain, Raises, Return, AddCall, SetAsync, RaiseIf, Bump, signalVars, TypeOK
<1>5. ASSUME NEW t \in Threads, NEW u \in Threads, ForgetIdent(t) \/ HandOff(t, u) \/ EndWorker(t, u)
      PROVE QuietSees'
  BY <1>5 DEF ForgetIdent, HandOff, EndWorker, signalVars
<1>6. ASSUME NEW s \in Signals, Trampoline(s) PROVE QuietSees'
  BY <1>6 DEF Trampoline, From, Bump, TypeOK
<1>7. CASE UNCHANGED vars
  BY <1>7 DEF vars, signalVars
<1> QED BY <1>1, <1>2, <1>3, <1>4, <1>5, <1>6, <1>7 DEF Next, Step

LEMMA StepInv == IInv /\ [Next]_vars => IInv'
BY TypeStep, GateStep, SignalStep, QuietStep DEF IInv

LEMMA Inductive == Spec => []IInv
<1>1. Init => IInv BY InitInv
<1>2. IInv /\ [Next]_vars => IInv' BY StepInv
<1> QED BY <1>1, <1>2, PTL DEF Spec

--------------------------------------------------------------------------------
(* The drain of the pending calls, by its place in the stacks.             *)

IsDrain(t, i) == i \in 1..Len(stack[t]) /\ stack[t][i].what = "calls"

OnlyDrain ==
  /\ \A t, u \in Threads : \A i, j \in Nat : IsDrain(t, i) /\ IsDrain(u, j) => t = u /\ i = j
  /\ busy <=> \E t \in Threads : \E i \in Nat : IsDrain(t, i)

LEMMA OnlyOne == TypeOK /\ OnlyDrain => OneDrain
<1> SUFFICES ASSUME TypeOK, OnlyDrain PROVE OneDrain OBVIOUS
<1>1. \A t \in Threads : Len(stack[t]) \in Nat /\ Len(stack[t]) <= MaxDepth
  BY DEF TypeOK
<1>2. \A x \in Drains : x = <<x[1], x[2]>> /\ x[1] \in Threads /\ x[2] \in Nat /\ IsDrain(x[1], x[2])
  BY <1>1, BoundAssumption DEF Drains, Jobs, IsDrain
<1>3. \A t \in Threads : \A i \in Nat : IsDrain(t, i) => <<t, i>> \in Drains
  BY <1>1, BoundAssumption DEF Drains, Jobs, IsDrain
<1>4. ASSUME NEW x \in Drains, NEW y \in Drains PROVE x = y
  <2>1. x[1] = y[1] /\ x[2] = y[2]
    BY <1>2 DEF OnlyDrain
  <2> QED BY <1>2, <2>1
<1>5. busy => Drains # {}
  BY <1>3 DEF OnlyDrain
<1>6. ASSUME NEW x \in Drains PROVE busy
  BY <1>2 DEF OnlyDrain
<1> QED BY <1>4, <1>5, <1>6 DEF OneDrain

LEMMA PushPlaces ==
  ASSUME TypeOK, NEW t \in Threads, NEW job, Push(t, job)
  PROVE  /\ \A u \in Threads \ {t} : \A i \in Nat : IsDrain(u, i)' <=> IsDrain(u, i)
         /\ \A i \in Nat : IsDrain(t, i)' <=> \/ i = 1 /\ job.what = "calls"
                                              \/ i > 1 /\ IsDrain(t, i - 1)
<1>1. \A u \in Threads \ {t} : stack'[u] = stack[u]
  BY DEF Push, TypeOK
<1>2. stack'[t] = <<job>> \o stack[t] /\ stack[t] \in Seq(Job)
  BY DEF Push, TypeOK
<1>3. /\ Len(stack'[t]) = Len(stack[t]) + 1 /\ stack'[t][1] = job /\ Len(stack[t]) \in Nat
      /\ \A i \in 2..(Len(stack[t]) + 1) : stack'[t][i] = stack[t][i - 1]
  BY <1>2
<1> QED BY <1>1, <1>3 DEF IsDrain

LEMMA PopPlaces ==
  ASSUME TypeOK, NEW t \in Threads, stack[t] # <<>>, Pop(t)
  PROVE  /\ \A u \in Threads \ {t} : \A i \in Nat : IsDrain(u, i)' <=> IsDrain(u, i)
         /\ \A i \in Nat : i >= 1 => (IsDrain(t, i)' <=> IsDrain(t, i + 1))
         /\ IsDrain(t, 1) <=> Top(t).what = "calls"
         /\ ~IsDrain(t, 0) /\ ~IsDrain(t, 0)'
<1>1. \A u \in Threads \ {t} : stack'[u] = stack[u]
  BY DEF Pop, TypeOK
<1>2. stack'[t] = Tail(stack[t]) /\ stack[t] \in Seq(Job)
  BY DEF Pop, TypeOK
<1>3. /\ Len(stack[t]) = Len(stack'[t]) + 1 /\ Len(stack'[t]) \in Nat
      /\ \A i \in 1..Len(stack'[t]) : stack'[t][i] = stack[t][i + 1]
      /\ Top(t) = stack[t][1]
  BY <1>2 DEF Top
<1> QED BY <1>1, <1>3 DEF IsDrain

LEMMA ReplacePlaces ==
  ASSUME TypeOK, NEW t \in Threads, NEW job, stack[t] # <<>>, Replace(t, job), job.what = Top(t).what
  PROVE  \A u \in Threads : \A i \in Nat : IsDrain(u, i)' <=> IsDrain(u, i)
<1>1. \A u \in Threads \ {t} : stack'[u] = stack[u]
  BY DEF Replace, TypeOK
<1>2. stack'[t] = <<job>> \o Tail(stack[t]) /\ stack[t] \in Seq(Job)
  BY DEF Replace, TypeOK
<1>3. /\ Len(stack'[t]) = Len(stack[t]) /\ stack'[t][1] = job /\ Top(t) = stack[t][1]
      /\ \A i \in 2..Len(stack[t]) : stack'[t][i] = stack[t][i]
      /\ Len(stack[t]) \in Nat
  BY <1>2 DEF Top
<1> QED BY <1>1, <1>3 DEF IsDrain

LEMMA DrainStep ==
  ASSUME TypeOK, OnlyDrain, [Next]_vars
  PROVE  OnlyDrain'
<1>1. CASE UNCHANGED <<stack, busy>>
  BY <1>1 DEF OnlyDrain, IsDrain
<1>2. ASSUME NEW t \in Threads, TakeTripped(t) PROVE OnlyDrain'
  <2>1. busy' = busy
    BY <1>2 DEF TakeTripped, callVars
  <2>2. /\ \A u \in Threads \ {t} : \A i \in Nat : IsDrain(u, i)' <=> IsDrain(u, i)
        /\ \A i \in Nat : IsDrain(t, i)' <=> i > 1 /\ IsDrain(t, i - 1)
    BY <1>2, PushPlaces DEF TakeTripped
  <2>3. \A i \in Nat : IsDrain(t, i) => IsDrain(t, i + 1)'
    BY <2>2 DEF IsDrain
  <2> QED BY <2>1, <2>2, <2>3 DEF OnlyDrain
<1>3. ASSUME NEW t \in Threads, TakeCalls(t) PROVE OnlyDrain'
  <2>1. busy' /\ \A u \in Threads : \A i \in Nat : ~IsDrain(u, i)
    BY <1>3 DEF TakeCalls, OnlyDrain
  <2>2. /\ \A u \in Threads \ {t} : \A i \in Nat : ~IsDrain(u, i)'
        /\ \A i \in Nat : IsDrain(t, i)' <=> i = 1
    BY <1>3, <2>1, PushPlaces DEF TakeCalls
  <2> QED BY <2>1, <2>2 DEF OnlyDrain
<1>4. ASSUME NEW t \in Threads, RunHandler(t) \/ RunCall(t) PROVE OnlyDrain'
  <2>1. busy' = busy
    BY <1>4 DEF RunHandler, RunCall, callVars
  <2>2. Top(t).what = [Top(t) EXCEPT !.left = @ \ {Lowest(@)}].what
        /\ Top(t).what = [Top(t) EXCEPT !.left = Tail(@)].what
    BY <1>4, JobTyped DEF RunHandler, RunCall, Has, Job
  <2>3. \A u \in Threads : \A i \in Nat : IsDrain(u, i)' <=> IsDrain(u, i)
    BY <1>4, <2>2, ReplacePlaces DEF RunHandler, RunCall, Has
  <2> QED BY <2>1, <2>3 DEF OnlyDrain
<1>5. ASSUME NEW t \in Threads, EndSignals(t) PROVE OnlyDrain'
  <2>1. busy' = busy /\ stack[t] # <<>> /\ Top(t).what = "signals" /\ Pop(t)
    BY <1>5 DEF EndSignals, Has, callVars
  <2>2. /\ \A u \in Threads \ {t} : \A i \in Nat : IsDrain(u, i)' <=> IsDrain(u, i)
        /\ \A i \in Nat : i >= 1 => (IsDrain(t, i)' <=> IsDrain(t, i + 1))
        /\ ~IsDrain(t, 0) /\ ~IsDrain(t, 0)' /\ ~IsDrain(t, 1)
    BY <2>1, PopPlaces
  <2>3. \A i \in Nat : IsDrain(t, i) => i - 1 \in Nat /\ IsDrain(t, i - 1)'
    BY <2>2
  <2>4. \A i \in Nat : IsDrain(t, i)' => i + 1 \in Nat /\ IsDrain(t, i + 1)
    BY <2>2
  <2>5. ASSUME NEW u \in Threads, NEW v \in Threads, NEW i \in Nat, NEW j \in Nat,
               IsDrain(u, i)', IsDrain(v, j)'
        PROVE  u = v /\ i = j
    <3>1. PICK k \in Nat : IsDrain(u, k) /\ (u = t => k = i + 1) /\ (u # t => k = i)
      BY <2>2, <2>4, <2>5
    <3>2. PICK l \in Nat : IsDrain(v, l) /\ (v = t => l = j + 1) /\ (v # t => l = j)
      BY <2>2, <2>4, <2>5
    <3>3. u = v /\ k = l
      BY <3>1, <3>2 DEF OnlyDrain
    <3> QED BY <3>1, <3>2, <3>3
  <2>6. (\E u \in Threads : \E i \in Nat : IsDrain(u, i))
          <=> (\E u \in Threads : \E i \in Nat : IsDrain(u, i)')
    BY <2>2, <2>3, <2>4
  <2>7. busy' <=> \E u \in Threads : \E i \in Nat : IsDrain(u, i)'
    BY <2>1, <2>6 DEF OnlyDrain
  <2> QED BY <2>5, <2>7 DEF OnlyDrain
<1>6. ASSUME NEW t \in Threads, EndCalls(t) PROVE OnlyDrain'
  <2>1. ~busy' /\ stack[t] # <<>> /\ Top(t).what = "calls" /\ Pop(t)
    BY <1>6 DEF EndCalls, Has
  <2>2. /\ \A u \in Threads \ {t} : \A i \in Nat : IsDrain(u, i)' <=> IsDrain(u, i)
        /\ \A i \in Nat : i >= 1 => (IsDrain(t, i)' <=> IsDrain(t, i + 1))
        /\ ~IsDrain(t, 0)' /\ IsDrain(t, 1)
    BY <2>1, PopPlaces
  <2>3. \A u \in Threads : \A i \in Nat : IsDrain(u, i) => u = t /\ i = 1
    BY <2>2 DEF OnlyDrain
  <2>4. \A i \in Nat : i >= 1 => ~IsDrain(t, i + 1)
    BY <2>3
  <2>5. \A u \in Threads : \A i \in Nat : ~IsDrain(u, i)'
    BY <2>2, <2>3, <2>4
  <2> QED BY <2>1, <2>5 DEF OnlyDrain
<1>7. ASSUME NEW t \in Threads,
             Loop(t) \/ LowerSignals(t) \/ SwapAny(t) \/ Instruction(t) \/ ForgetIdent(t)
      PROVE  UNCHANGED <<stack, busy>>
  BY <1>7 DEF Loop, NextInstruction, ReadHot, TakeAsync, NothingDue, LowerSignals, SwapAny, Instruction,
     Plain, Raises, Return, AddCall, SetAsync, ForgetIdent, callVars
<1>8. ASSUME NEW t \in Threads, NEW u \in Threads, HandOff(t, u) \/ EndWorker(t, u)
      PROVE  UNCHANGED <<stack, busy>>
  BY <1>8 DEF HandOff, EndWorker, callVars, threadVars
<1>9. ASSUME NEW s \in Signals, Trampoline(s) PROVE UNCHANGED <<stack, busy>>
  BY <1>9 DEF Trampoline, callVars, threadVars
<1>10. CASE UNCHANGED vars
  BY <1>1, <1>10 DEF vars, callVars, threadVars
<1> QED BY <1>1, <1>2, <1>3, <1>4, <1>5, <1>6, <1>7, <1>8, <1>9, <1>10
        DEF Next, Step, ServeSignals, ServeCalls

--------------------------------------------------------------------------------
(* What the drains under way have still to run.                            *)
Rests == {Left(x) : x \in Drains}

In(c, q) == \E i \in DOMAIN q : q[i] = c
Distinct(q) == \A i, j \in DOMAIN q : q[i] = q[j] => i = j
Apart(p, q) == \A c \in Calls : ~(In(c, p) /\ In(c, q))

(* The queues and the rest of the drain share no call and repeat none, and *)
(* hold the calls that were added and have not started.                    *)
Kept ==
  /\ Distinct(mainQ) /\ Distinct(anyQ) /\ Apart(anyQ, mainQ)
  /\ \A q \in Rests : Distinct(q) /\ Apart(anyQ, q) /\ Apart(mainQ, q)
  /\ \A c \in Calls :
       added[c] # "no" <=> In(c, mainQ) \/ In(c, anyQ) \/ \E q \in Rests : In(c, q)

--------------------------------------------------------------------------------
(* Calls in sequences.                                                     *)

LEMMA AppendOne ==
  ASSUME NEW S, NEW q \in Seq(S), NEW d \in S
  PROVE  /\ \A c : In(c, Append(q, d)) <=> In(c, q) \/ c = d
         /\ Distinct(q) /\ ~In(d, q) => Distinct(Append(q, d))
<1> DEFINE n == Len(q) + 1
<1>1. /\ DOMAIN Append(q, d) = 1..n /\ DOMAIN q = 1..n - 1 /\ n \in Nat \ {0}
      /\ Append(q, d)[n] = d /\ \A i \in 1..n - 1 : Append(q, d)[i] = q[i]
  OBVIOUS
<1> HIDE DEF n
<1>2. \A i \in 1..n : i = n \/ i \in 1..n - 1
  BY <1>1
<1>3. 1..n - 1 \subseteq 1..n /\ n \in 1..n
  BY <1>1
<1> DEFINE r == Append(q, d)
<1> HIDE DEF r
<1>4. /\ DOMAIN r = 1..n /\ r[n] = d /\ \A i \in 1..n - 1 : r[i] = q[i]
  BY <1>1 DEF r
<1>5. (\A c : In(c, r) <=> In(c, q) \/ c = d) /\ (Distinct(q) /\ ~In(d, q) => Distinct(r))
  BY <1>1, <1>2, <1>3, <1>4 DEF In, Distinct
<1> QED BY <1>5 DEF r

LEMMA Joined ==
  ASSUME NEW S, NEW p \in Seq(S), NEW q \in Seq(S)
  PROVE  /\ \A c : In(c, p \o q) <=> In(c, p) \/ In(c, q)
         /\ Distinct(p) /\ Distinct(q) /\ (\A c \in S : ~(In(c, p) /\ In(c, q))) => Distinct(p \o q)
<1> DEFINE m == Len(p)
<1> DEFINE n == Len(q)
<1> DEFINE r == p \o q
<1>1. /\ m \in Nat /\ n \in Nat /\ DOMAIN p = 1..m /\ DOMAIN q = 1..n /\ DOMAIN r = 1..m + n
      /\ \A i \in 1..m : r[i] = p[i] /\ p[i] \in S
      /\ \A i \in m + 1..m + n : r[i] = q[i - m]
  OBVIOUS
<1> HIDE DEF m, n, r
<1>2. \A i \in 1..m + n : i \in 1..m \/ (i \in m + 1..m + n /\ i - m \in 1..n)
  BY <1>1
<1>3. \A i \in 1..n : i + m \in m + 1..m + n /\ i + m \in 1..m + n /\ (i + m) - m = i
  BY <1>1
<1>4. \A i \in 1..m : i \in 1..m + n
  BY <1>1
<1>5. ASSUME NEW c
      PROVE  In(c, r) <=> In(c, p) \/ In(c, q)
  <2>1. In(c, r) => In(c, p) \/ In(c, q)
    BY <1>1, <1>2 DEF In
  <2>2. In(c, p) => In(c, r)
    BY <1>1, <1>4 DEF In
  <2>3. ASSUME NEW i \in 1..n, q[i] = c
        PROVE  In(c, r)
    <3>1. i + m \in DOMAIN r /\ r[i + m] = q[(i + m) - m]
      BY <1>1, <1>3
    <3> QED BY <1>3, <2>3, <3>1 DEF In
  <2> QED BY <1>1, <2>1, <2>2, <2>3 DEF In
<1>6. ASSUME Distinct(p), Distinct(q), \A c \in S : ~(In(c, p) /\ In(c, q)),
             NEW i \in 1..m + n, NEW j \in 1..m + n, r[i] = r[j]
      PROVE  i = j
  <2>1. CASE i \in 1..m /\ j \in 1..m
    BY <1>1, <1>6, <2>1 DEF Distinct
  <2>2. CASE i \in 1..m /\ j \notin 1..m
    BY <1>1, <1>2, <1>6, <2>2 DEF In
  <2>3. CASE i \notin 1..m /\ j \in 1..m
    BY <1>1, <1>2, <1>6, <2>3 DEF In
  <2>4. CASE i \notin 1..m /\ j \notin 1..m
    <3>1. q[i - m] = q[j - m] /\ i - m \in 1..n /\ j - m \in 1..n
      BY <1>1, <1>2, <1>6, <2>4
    <3>2. i - m = j - m
      BY <1>1, <1>6, <3>1 DEF Distinct
    <3> QED BY <1>1, <3>2
  <2> QED BY <2>1, <2>2, <2>3, <2>4
<1>7. Distinct(p) /\ Distinct(q) /\ (\A c \in S : ~(In(c, p) /\ In(c, q))) => Distinct(r)
  BY <1>1, <1>6 DEF Distinct
<1> QED BY <1>5, <1>7 DEF r

LEMMA Headless ==
  ASSUME NEW S, NEW q \in Seq(S), q # <<>>
  PROVE  /\ \A c : In(c, q) <=> In(c, Tail(q)) \/ c = Head(q)
         /\ Distinct(q) => Distinct(Tail(q)) /\ ~In(Head(q), Tail(q))
<1> DEFINE n == Len(q)
<1> DEFINE r == Tail(q)
<1>1. /\ n \in Nat \ {0} /\ DOMAIN q = 1..n /\ DOMAIN r = 1..n - 1 /\ Head(q) = q[1]
      /\ \A i \in 1..n - 1 : r[i] = q[i + 1]
  OBVIOUS
<1> HIDE DEF n, r
<1>2. \A i \in 1..n : i = 1 \/ (i - 1 \in 1..n - 1 /\ (i - 1) + 1 = i)
  BY <1>1
<1>3. \A i \in 1..n - 1 : i + 1 \in 1..n /\ i + 1 # 1
  BY <1>1
<1>4. 1 \in 1..n
  BY <1>1
<1>5. \A i, j \in 1..n - 1 : i + 1 = j + 1 => i = j
  BY <1>1
<1>6. ASSUME NEW c
      PROVE  In(c, q) <=> In(c, r) \/ c = Head(q)
  <2>1. In(c, r) \/ c = Head(q) => In(c, q)
    BY <1>1, <1>3, <1>4 DEF In
  <2>2. ASSUME NEW i \in 1..n, q[i] = c, i # 1
        PROVE  In(c, r)
    <3>1. i - 1 \in 1..n - 1 /\ r[i - 1] = q[(i - 1) + 1] /\ (i - 1) + 1 = i
      BY <1>1, <1>2, <2>2
    <3> QED BY <1>1, <2>2, <3>1 DEF In
  <2> QED BY <1>1, <2>1, <2>2 DEF In
<1>7. Distinct(q) => Distinct(r) /\ ~In(Head(q), r)
  <2>1. Distinct(q) => Distinct(r)
    BY <1>1, <1>3, <1>5, SMTT(30) DEF Distinct
  <2>2. Distinct(q) => ~In(Head(q), r)
    BY <1>1, <1>3, <1>4 DEF Distinct, In
  <2> QED BY <2>1, <2>2
<1> QED BY <1>6, <1>7 DEF r

LEMMA CountedOnce ==
  ASSUME NEW S, NEW q \in Seq(S), Distinct(q), NEW c
  PROVE  Times(c, q) = IF In(c, q) THEN 1 ELSE 0
<1>1. CASE ~In(c, q)
  <2>1. {i \in DOMAIN q : q[i] = c} = {}
    BY <1>1 DEF In
  <2> QED BY <1>1, <2>1, FS_EmptySet DEF Times
<1>2. CASE In(c, q)
  <2>1. PICK i \in DOMAIN q : {j \in DOMAIN q : q[j] = c} = {i}
    BY <1>2 DEF In, Distinct
  <2>2. Cardinality({i}) = 1
    BY FS_Singleton
  <2> QED BY <1>2, <2>1, <2>2 DEF Times
<1> QED BY <1>1, <1>2

--------------------------------------------------------------------------------
(* What the steps of a drain do to the rests.                              *)

LEMMA RestPlaces ==
  ASSUME TypeOK, TypeOK'
  PROVE  /\ \A q : q \in Rests <=> \E t \in Threads : \E i \in Nat : IsDrain(t, i) /\ stack[t][i].left = q
         /\ \A q : q \in Rests' <=> \E t \in Threads : \E i \in Nat : IsDrain(t, i)' /\ stack'[t][i].left = q
<1>1. \A t \in Threads : /\ Len(stack[t]) \in Nat /\ Len(stack[t]) <= MaxDepth
                         /\ Len(stack'[t]) \in Nat /\ Len(stack'[t]) <= MaxDepth
  BY DEF TypeOK
<1>2. \A t \in Threads : \A i \in Nat : IsDrain(t, i) => <<t, i>> \in Drains
  BY <1>1, BoundAssumption DEF Drains, Jobs, IsDrain
<1>3. \A x \in Drains : x[1] \in Threads /\ x[2] \in Nat /\ IsDrain(x[1], x[2])
  BY <1>1, BoundAssumption DEF Drains, Jobs, IsDrain
<1> DEFINE D == {x \in Threads \X (1..MaxDepth) :
                   x[2] <= Len(stack'[x[1]]) /\ stack'[x[1]][x[2]].what = "calls"}
<1>8. Drains' = D
  BY DEF Drains, Jobs
<1>9. \A t, i : IsDrain(t, i)' <=> i \in 1..Len(stack'[t]) /\ stack'[t][i].what = "calls"
  BY DEF IsDrain
<1>4. \A t \in Threads : \A i \in Nat : IsDrain(t, i)' => <<t, i>> \in Drains'
  BY <1>1, <1>8, <1>9, BoundAssumption
<1>5. \A x \in Drains' : x[1] \in Threads /\ x[2] \in Nat /\ IsDrain(x[1], x[2])'
  BY <1>1, <1>8, <1>9, BoundAssumption
<1>10. ASSUME NEW q
       PROVE  q \in Rests <=> \E t \in Threads : \E i \in Nat : IsDrain(t, i) /\ stack[t][i].left = q
  <2>1. q \in Rests <=> \E x \in Drains : q = stack[x[1]][x[2]].left
    BY DEF Rests, Left
  <2>2. ASSUME NEW t \in Threads, NEW i \in Nat, IsDrain(t, i), stack[t][i].left = q
        PROVE  q \in Rests
    <3>1. <<t, i>> \in Drains /\ <<t, i>>[1] = t /\ <<t, i>>[2] = i
      BY <1>2, <2>2
    <3> QED BY <2>1, <2>2, <3>1
  <2> HIDE DEF IsDrain
  <2> QED BY <1>3, <2>1, <2>2
<1>11. ASSUME NEW q
       PROVE  q \in Rests' <=> \E t \in Threads : \E i \in Nat : IsDrain(t, i)' /\ stack'[t][i].left = q
  <2>1. q \in Rests' <=> \E x \in D : q = stack'[x[1]][x[2]].left
    BY <1>8 DEF Rests, Left
  <2>2. ASSUME NEW t \in Threads, NEW i \in Nat, IsDrain(t, i)', stack'[t][i].left = q
        PROVE  q \in Rests'
    <3>1. <<t, i>> \in D /\ <<t, i>>[1] = t /\ <<t, i>>[2] = i
      BY <1>4, <1>8, <2>2
    <3> HIDE DEF D
    <3> QED BY <2>1, <2>2, <3>1
  <2>3. \A x : x \in D => x[1] \in Threads /\ x[2] \in Nat /\ IsDrain(x[1], x[2])'
    BY <1>5, <1>8
  <2> HIDE DEF D
  <2> QED BY <2>1, <2>2, <2>3
<1> QED BY <1>10, <1>11

LEMMA PushRests ==
  ASSUME TypeOK, TypeOK', NEW t \in Threads, NEW job, Push(t, job)
  PROVE  Rests' = Rests \cup IF job.what = "calls" THEN {job.left} ELSE {}
<1>1. /\ \A u \in Threads \ {t} : stack'[u] = stack[u]
      /\ stack'[t] = <<job>> \o stack[t] /\ stack[t] \in Seq(Job)
  BY DEF Push, TypeOK
<1>2. /\ stack'[t][1] = job /\ Len(stack[t]) \in Nat
      /\ \A i \in 2..(Len(stack[t]) + 1) : stack'[t][i] = stack[t][i - 1]
  BY <1>1
<1>3. /\ \A u \in Threads \ {t} : \A i \in Nat : IsDrain(u, i)' <=> IsDrain(u, i)
      /\ \A i \in Nat : IsDrain(t, i)' <=> \/ i = 1 /\ job.what = "calls"
                                           \/ i > 1 /\ IsDrain(t, i - 1)
  BY PushPlaces
<1>4. \A i \in Nat : IsDrain(t, i) => i \in 1..Len(stack[t])
  BY DEF IsDrain
<1>5. \A i \in Nat : IsDrain(t, i) => i + 1 \in Nat /\ IsDrain(t, i + 1)' /\ stack'[t][i + 1] = stack[t][i]
  BY <1>2, <1>3, <1>4
<1>6. \A i \in Nat : IsDrain(t, i)' => \/ job.what = "calls" /\ stack'[t][i] = job
                                       \/ i - 1 \in Nat /\ IsDrain(t, i - 1) /\ stack'[t][i] = stack[t][i - 1]
  BY <1>2, <1>3, <1>4
<1>7. job.what = "calls" => IsDrain(t, 1)' /\ stack'[t][1] = job
  BY <1>2, <1>3
<1>8. ASSUME NEW q \in Rests
      PROVE  q \in Rests'
  <2>1. PICK u \in Threads, i \in Nat : IsDrain(u, i) /\ stack[u][i].left = q
    BY <1>8, RestPlaces
  <2>2. \E j \in Nat : IsDrain(u, j)' /\ stack'[u][j].left = q
    BY <1>1, <1>3, <1>5, <2>1
  <2> QED BY <2>2, RestPlaces
<1>9. ASSUME NEW q \in Rests'
      PROVE  q \in Rests \/ (job.what = "calls" /\ q = job.left)
  <2>1. ASSUME NEW u \in Threads, NEW i \in Nat, IsDrain(u, i)', stack'[u][i].left = q
        PROVE  (job.what = "calls" /\ q = job.left) \/ \E j \in Nat : IsDrain(u, j) /\ stack[u][j].left = q
    <3>1. CASE u # t
      BY <1>1, <1>3, <2>1, <3>1
    <3>2. CASE u = t
      <4>1. IsDrain(t, i)' /\ stack'[t][i].left = q
        BY <2>1, <3>2 DEF IsDrain
      <4> QED BY <1>6, <3>2, <4>1
    <3> QED BY <3>1, <3>2
  <2>2. \E u \in Threads : \E i \in Nat : IsDrain(u, i)' /\ stack'[u][i].left = q
    BY <1>9, RestPlaces
  <2>3. (job.what = "calls" /\ q = job.left)
        \/ \E u \in Threads : \E j \in Nat : IsDrain(u, j) /\ stack[u][j].left = q
    BY <2>1, <2>2
  <2> QED BY <2>3, RestPlaces
<1>10. job.what = "calls" => job.left \in Rests'
  BY <1>7, RestPlaces
<1> QED BY <1>8, <1>9, <1>10

LEMMA PopRests ==
  ASSUME TypeOK, TypeOK', OnlyDrain, NEW t \in Threads, stack[t] # <<>>, Pop(t)
  PROVE  /\ Top(t).what = "signals" => Rests' = Rests
         /\ Top(t).what = "calls" => Rests = {Top(t).left} /\ Rests' = {}
<1>1. /\ \A u \in Threads \ {t} : stack'[u] = stack[u]
      /\ stack'[t] = Tail(stack[t]) /\ stack[t] \in Seq(Job)
  BY DEF Pop, TypeOK
<1>2. /\ \A i \in 1..Len(stack'[t]) : stack'[t][i] = stack[t][i + 1]
      /\ Top(t) = stack[t][1]
  BY <1>1 DEF Top
<1>3. /\ \A u \in Threads \ {t} : \A i \in Nat : IsDrain(u, i)' <=> IsDrain(u, i)
      /\ \A i \in Nat : i >= 1 => (IsDrain(t, i)' <=> IsDrain(t, i + 1))
      /\ IsDrain(t, 1) <=> Top(t).what = "calls"
      /\ ~IsDrain(t, 0) /\ ~IsDrain(t, 0)'
  BY PopPlaces
<1>4. \A i \in Nat : IsDrain(t, i)' => i \in 1..Len(stack'[t])
  BY DEF IsDrain
<1>5. \A i \in Nat : IsDrain(t, i)' => IsDrain(t, i + 1) /\ stack'[t][i] = stack[t][i + 1]
  BY <1>2, <1>3, <1>4
<1>6. CASE Top(t).what = "signals"
  <2>1. \A i \in Nat : IsDrain(t, i) => i - 1 \in Nat /\ IsDrain(t, i - 1)' /\ stack'[t][i - 1] = stack[t][i]
    <3>1. ASSUME NEW i \in Nat, IsDrain(t, i)
          PROVE  i - 1 \in Nat /\ IsDrain(t, i - 1)' /\ stack'[t][i - 1] = stack[t][i]
      <4>1. i # 0 /\ i # 1
        BY <1>3, <1>6, <3>1
      <4>2. i - 1 \in Nat /\ i - 1 >= 1 /\ (i - 1) + 1 = i
        BY <4>1
      <4>3. IsDrain(t, i - 1)' <=> IsDrain(t, (i - 1) + 1)
        BY <1>3, <4>2
      <4>4. IsDrain(t, i - 1)'
        BY <3>1, <4>2, <4>3
      <4>5. stack'[t][i - 1] = stack[t][(i - 1) + 1]
        BY <1>5, <4>2, <4>4
      <4> QED BY <4>2, <4>4, <4>5
    <3> QED BY <3>1
  <2>2. ASSUME NEW q \in Rests
        PROVE  q \in Rests'
    <3>1. PICK u \in Threads, i \in Nat : IsDrain(u, i) /\ stack[u][i].left = q
      BY <2>2, RestPlaces
    <3>2. \E j \in Nat : IsDrain(u, j)' /\ stack'[u][j].left = q
      BY <1>1, <1>3, <2>1, <3>1
    <3> QED BY <3>2, RestPlaces
  <2>3. ASSUME NEW q \in Rests'
        PROVE  q \in Rests
    <3>1. ASSUME NEW u \in Threads, NEW i \in Nat, IsDrain(u, i)', stack'[u][i].left = q
          PROVE  \E j \in Nat : IsDrain(u, j) /\ stack[u][j].left = q
      <4>1. CASE u # t
        BY <1>1, <1>3, <3>1, <4>1
      <4>2. CASE u = t
        <5>1. IsDrain(t, i)' /\ stack'[t][i].left = q
          BY <3>1, <4>2 DEF IsDrain
        <5>2. i + 1 \in Nat /\ IsDrain(t, i + 1) /\ stack[t][i + 1].left = q
          BY <1>5, <5>1
        <5> QED BY <4>2, <5>2
      <4> QED BY <4>1, <4>2
    <3>2. \E u \in Threads : \E i \in Nat : IsDrain(u, i)' /\ stack'[u][i].left = q
      BY <2>3, RestPlaces
    <3>3. \E u \in Threads : \E j \in Nat : IsDrain(u, j) /\ stack[u][j].left = q
      BY <3>1, <3>2
    <3> QED BY <3>3, RestPlaces
  <2> QED BY <1>6, <2>2, <2>3
<1>7. CASE Top(t).what = "calls"
  <2>1. \A u \in Threads : \A i \in Nat : IsDrain(u, i) <=> u = t /\ i = 1
    BY <1>3, <1>7 DEF OnlyDrain
  <2>2. Rests = {Top(t).left}
    BY <1>2, <2>1, RestPlaces
  <2>3. \A u \in Threads : \A i \in Nat : ~IsDrain(u, i)'
    BY <1>3, <1>5, <2>1
  <2> QED BY <1>7, <2>2, <2>3, RestPlaces
<1>8. Top(t).what \in {"signals", "calls"}
  BY JobTyped DEF Job
<1> QED BY <1>6, <1>7

LEMMA ReplaceRests ==
  ASSUME TypeOK, TypeOK', OnlyDrain, NEW t \in Threads, NEW job, stack[t] # <<>>,
         Replace(t, job), job.what = Top(t).what
  PROVE  /\ Top(t).what = "signals" => Rests' = Rests
         /\ Top(t).what = "calls" => Rests = {Top(t).left} /\ Rests' = {job.left}
<1>1. /\ \A u \in Threads \ {t} : stack'[u] = stack[u]
      /\ stack'[t] = <<job>> \o Tail(stack[t]) /\ stack[t] \in Seq(Job)
  BY DEF Replace, TypeOK
<1>2. /\ Len(stack'[t]) = Len(stack[t]) /\ stack'[t][1] = job /\ Top(t) = stack[t][1]
      /\ \A i \in 2..Len(stack[t]) : stack'[t][i] = stack[t][i]
      /\ Len(stack[t]) \in Nat \ {0}
  BY <1>1 DEF Top
<1>3. \A u \in Threads : \A i \in Nat : IsDrain(u, i)' <=> IsDrain(u, i)
  BY ReplacePlaces
<1>4. IsDrain(t, 1) <=> Top(t).what = "calls"
  BY <1>2 DEF IsDrain
<1>5. CASE Top(t).what = "signals"
  <2>1. \A u \in Threads : \A i \in Nat : IsDrain(u, i) => stack'[u][i] = stack[u][i]
    BY <1>1, <1>2, <1>4, <1>5 DEF IsDrain
  <2>2. \A q : q \in Rests' <=> q \in Rests
    BY <1>3, <2>1, RestPlaces
  <2> QED BY <1>5, <2>2
<1>6. CASE Top(t).what = "calls"
  <2>1. \A u \in Threads : \A i \in Nat : IsDrain(u, i) <=> u = t /\ i = 1
    BY <1>4, <1>6 DEF OnlyDrain
  <2>2. Rests = {Top(t).left}
    BY <1>2, <2>1, RestPlaces
  <2>3. Rests' = {job.left}
    BY <1>2, <1>3, <2>1, RestPlaces
  <2> QED BY <1>6, <2>2, <2>3
<1> QED BY <1>5, <1>6

--------------------------------------------------------------------------------
(* Steps that neither queue nor take a call.                               *)
LEMMA SameKept ==
  ASSUME Kept, Rests' = Rests, UNCHANGED <<mainQ, anyQ, added>>
  PROVE  Kept'
<1> HIDE DEF Rests, In, Distinct
<1> QED BY DEF Kept, Apart

LEMMA TakeKept ==
  ASSUME TypeOK, TypeOK', OnlyDrain, Kept, NEW t \in Threads, TakeCalls(t)
  PROVE  Kept'
<1> DEFINE mine == IF t = Main THEN mainQ ELSE <<>>
<1> DEFINE taken == CallsTaken(t)
<1>1. /\ ~busy /\ Push(t, [what |-> "calls", left |-> taken])
      /\ anyQ' = <<>> /\ mainQ' = IF t = Main THEN <<>> ELSE mainQ
      /\ added' = added
  BY DEF TakeCalls
<1>2. Rests = {}
  BY <1>1, RestPlaces DEF OnlyDrain
<1>3. Rests' = {taken}
  BY <1>1, <1>2, PushRests
<1>4. mine \in Seq(Calls) /\ anyQ \in Seq(Calls) /\ taken = anyQ \o mine
  BY DEF TypeOK, CallsTaken
<1>5. Distinct(<<>>) /\ \A c : ~In(c, <<>>)
  BY DEF Distinct, In
<1>6. Distinct(mine) /\ \A c \in Calls : ~(In(c, anyQ) /\ In(c, mine))
  BY <1>5 DEF Kept, Apart
<1>7. Distinct(taken) /\ \A c : In(c, taken) <=> In(c, anyQ) \/ In(c, mine)
  <2>1. Distinct(anyQ)
    BY DEF Kept
  <2> HIDE DEF taken, mine, Distinct, In
  <2> QED BY <1>4, <1>6, <2>1, Joined
<1>8. \A c : In(c, mainQ') <=> t # Main /\ In(c, mainQ)
  BY <1>1, <1>5
<1>9. \A c : In(c, mine) <=> t = Main /\ In(c, mainQ)
  BY <1>5
<1> HIDE DEF taken, mine
<1>10. Distinct(mainQ') /\ Distinct(anyQ') /\ \A c : ~In(c, anyQ')
  BY <1>1, <1>5 DEF Kept
<1>11. Distinct(taken) /\ \A c \in Calls : ~(In(c, mainQ') /\ In(c, taken))
  BY <1>7, <1>8, <1>9 DEF Kept, Apart
<1>12. \A c \in Calls : added'[c] # "no" <=> In(c, mainQ') \/ In(c, taken)
  BY <1>1, <1>2, <1>7, <1>8, <1>9 DEF Kept
<1> HIDE DEF Rests, In, Distinct
<1> QED BY <1>3, <1>10, <1>11, <1>12 DEF Kept, Apart

LEMMA RunKept ==
  ASSUME TypeOK, TypeOK', OnlyDrain, Kept, NEW t \in Threads, RunCall(t)
  PROVE  Kept'
<1> DEFINE left == Top(t).left
<1> DEFINE job == [Top(t) EXCEPT !.left = Tail(@)]
<1>1. /\ stack[t] # <<>> /\ Top(t).what = "calls" /\ left # <<>>
      /\ added' = [added EXCEPT ![Head(left)] = "no"] /\ Replace(t, job)
      /\ UNCHANGED <<mainQ, anyQ>>
  BY DEF RunCall, Has
<1>2. Top(t) \in Job /\ left \in Seq(Calls)
  BY <1>1, JobTyped
<1>3. job.what = "calls" /\ job.left = Tail(left)
  BY <1>1, <1>2 DEF Job
<1>4. Rests = {left} /\ Rests' = {Tail(left)}
  BY <1>1, <1>3, ReplaceRests
<1>5. /\ \A c : In(c, left) <=> In(c, Tail(left)) \/ c = Head(left)
      /\ Distinct(Tail(left)) /\ ~In(Head(left), Tail(left)) /\ Head(left) \in Calls
  <2>1. Distinct(left)
    BY <1>4 DEF Kept
  <2> QED BY <1>1, <1>2, <2>1, Headless, TailTyped
<1>6. \A c \in Calls : added'[c] # "no" <=> added[c] # "no" /\ c # Head(left)
  BY <1>1, <1>5 DEF TypeOK
<1> HIDE DEF left, Rests, In, Distinct
<1>7. \A c \in Calls : added[c] # "no" <=> In(c, mainQ) \/ In(c, anyQ) \/ In(c, left)
  BY <1>4 DEF Kept
<1>8. Apart(anyQ, left) /\ Apart(mainQ, left) /\ Apart(anyQ, mainQ) /\ Distinct(mainQ) /\ Distinct(anyQ)
  BY <1>4 DEF Kept
<1>9. \A c \in Calls :
        added'[c] # "no" <=> In(c, mainQ) \/ In(c, anyQ) \/ In(c, Tail(left))
  BY <1>5, <1>6, <1>7, <1>8 DEF Apart
<1>10. Apart(anyQ, Tail(left)) /\ Apart(mainQ, Tail(left))
  BY <1>5, <1>8 DEF Apart
<1>11. mainQ' = mainQ /\ anyQ' = anyQ
  BY <1>1
<1> QED BY <1>4, <1>5, <1>8, <1>9, <1>10, <1>11 DEF Kept, Apart

LEMMA EndKept ==
  ASSUME TypeOK, TypeOK', OnlyDrain, Kept, NEW t \in Threads, EndCalls(t)
  PROVE  Kept'
<1> DEFINE left == Top(t).left
<1>1. /\ stack[t] # <<>> /\ Top(t).what = "calls" /\ Pop(t)
      /\ anyQ' = anyQ \o left /\ mainQ' = mainQ /\ added' = added
  BY DEF EndCalls, Has
<1>2. left \in Seq(Calls) /\ anyQ \in Seq(Calls)
  BY <1>1, JobTyped DEF TypeOK
<1>3. Rests = {left} /\ Rests' = {}
  BY <1>1, PopRests
<1> HIDE DEF left
<1>4. /\ Distinct(left) /\ Apart(anyQ, left) /\ Apart(mainQ, left)
      /\ \A c \in Calls : added[c] # "no" <=> In(c, mainQ) \/ In(c, anyQ) \/ In(c, left)
  BY <1>3 DEF Kept
<1>5. Distinct(anyQ') /\ \A c : In(c, anyQ') <=> In(c, anyQ) \/ In(c, left)
  BY <1>1, <1>2, <1>4, Joined DEF Kept, Apart
<1> HIDE DEF Rests, In, Distinct
<1> QED BY <1>1, <1>3, <1>4, <1>5 DEF Kept, Apart

LEMMA AddKept ==
  ASSUME TypeOK, Kept, Rests' = Rests, NEW t \in Threads, NEW c \in Calls,
         NEW mainOnly \in BOOLEAN, NEW force \in BOOLEAN, AddCall(t, c, mainOnly, force)
  PROVE  Kept'
<1>1. /\ added[c] = "no"
      /\ mainQ' = IF mainOnly THEN Append(mainQ, c) ELSE mainQ
      /\ anyQ' = IF mainOnly THEN anyQ ELSE Append(anyQ, c)
      /\ added' = [added EXCEPT ![c] = IF mainOnly THEN "main" ELSE "any"]
  BY DEF AddCall
<1>2. ~In(c, mainQ) /\ ~In(c, anyQ) /\ \A q \in Rests : ~In(c, q)
  BY <1>1 DEF Kept
<1>3. \A d \in Calls : added'[d] # "no" <=> added[d] # "no" \/ d = c
  BY <1>1 DEF TypeOK
<1>4. CASE mainOnly
  <2>1. anyQ' = anyQ /\ Distinct(mainQ') /\ \A d : In(d, mainQ') <=> In(d, mainQ) \/ d = c
    BY <1>1, <1>2, <1>4, AppendOne DEF TypeOK, Kept
  <2> HIDE DEF Rests, In, Distinct
  <2> QED BY <1>2, <1>3, <2>1 DEF Kept, Apart
<1>5. CASE ~mainOnly
  <2>1. mainQ' = mainQ /\ Distinct(anyQ') /\ \A d : In(d, anyQ') <=> In(d, anyQ) \/ d = c
    BY <1>1, <1>2, <1>5, AppendOne DEF TypeOK, Kept
  <2> HIDE DEF Rests, In, Distinct
  <2> QED BY <1>2, <1>3, <2>1 DEF Kept, Apart
<1> QED BY <1>4, <1>5

LEMMA KeptStep ==
  ASSUME TypeOK, TypeOK', OnlyDrain, Kept, [Next]_vars
  PROVE  Kept'
<1>0. stack' = stack => Rests' = Rests
  BY DEF Rests, Drains, Jobs, Left
<1>1. CASE UNCHANGED <<stack, mainQ, anyQ, added>>
  BY <1>0, <1>1, SameKept
<1>2. ASSUME NEW t \in Threads, TakeTripped(t) PROVE Kept'
  <2> DEFINE job == [what |-> "signals", left |-> tripped]
  <2>2. Push(t, job) /\ job.what = "signals"
    BY <1>2 DEF TakeTripped
  <2> HIDE DEF job
  <2>1. Rests' = Rests
    BY <2>2, PushRests
  <2> QED BY <1>2, <2>1, SameKept DEF TakeTripped, callVars
<1>3. ASSUME NEW t \in Threads, RunHandler(t) PROVE Kept'
  <2>1. /\ stack[t] # <<>> /\ Top(t).what = "signals"
        /\ Replace(t, [Top(t) EXCEPT !.left = @ \ {Lowest(@)}])
        /\ UNCHANGED <<mainQ, anyQ, added>>
    BY <1>3 DEF RunHandler, Has, callVars
  <2>2. [Top(t) EXCEPT !.left = @ \ {Lowest(@)}].what = Top(t).what
    BY <2>1, JobTyped DEF Job
  <2>3. Rests' = Rests
    BY <2>1, <2>2, ReplaceRests
  <2> QED BY <2>1, <2>3, SameKept
<1>4. ASSUME NEW t \in Threads, EndSignals(t) PROVE Kept'
  <2>1. Rests' = Rests
    BY <1>4, PopRests DEF EndSignals, Has
  <2> QED BY <1>4, <2>1, SameKept DEF EndSignals, callVars
<1>5. ASSUME NEW t \in Threads, NEW c \in Calls, NEW mainOnly \in BOOLEAN, NEW force \in BOOLEAN,
             AddCall(t, c, mainOnly, force)
      PROVE  Kept'
  BY <1>0, <1>5, AddKept DEF AddCall
<1>6. ASSUME NEW t \in Threads,
             \/ Loop(t) \/ LowerSignals(t) \/ SwapAny(t) \/ ForgetIdent(t)
             \/ Plain(t) \/ Raises(t) \/ Return(t)
             \/ \E u \in Threads, exc \in BOOLEAN : SetAsync(t, u, exc)
      PROVE  UNCHANGED <<stack, mainQ, anyQ, added>>
  BY <1>6 DEF Loop, NextInstruction, ReadHot, TakeAsync, NothingDue, LowerSignals, SwapAny,
     Plain, Raises, Return, SetAsync, ForgetIdent, callVars
<1>7. ASSUME NEW t \in Threads, NEW u \in Threads, HandOff(t, u) \/ EndWorker(t, u)
      PROVE  UNCHANGED <<stack, mainQ, anyQ, added>>
  BY <1>7 DEF HandOff, EndWorker, callVars, threadVars
<1>8. ASSUME NEW s \in Signals, Trampoline(s) PROVE UNCHANGED <<stack, mainQ, anyQ, added>>
  BY <1>8 DEF Trampoline, callVars, threadVars
<1>9. CASE UNCHANGED vars
  BY <1>1, <1>9 DEF vars, callVars, threadVars
<1>10. ASSUME NEW t \in Threads, ServeCalls(t) PROVE Kept'
  BY <1>10, TakeKept, RunKept, EndKept DEF ServeCalls
<1>11. ASSUME NEW t \in Threads, Step(t) PROVE Kept'
  <2>1. CASE Loop(t)
    BY <1>1, <1>6, <2>1
  <2>2. CASE ServeSignals(t)
    BY <1>1, <1>2, <1>3, <1>4, <1>6, <2>2 DEF ServeSignals
  <2>3. CASE ServeCalls(t)
    BY <1>10, <2>3
  <2>4. CASE Instruction(t)
    BY <1>1, <1>5, <1>6, <2>4 DEF Instruction
  <2> QED BY <1>11, <2>1, <2>2, <2>3, <2>4 DEF Step
<1> QED BY <1>1, <1>6, <1>7, <1>8, <1>9, <1>11 DEF Next

LEMMA KeptIsKept ==
  ASSUME TypeOK, OneDrain, Kept
  PROVE  CallsKept
<1> SUFFICES ASSUME NEW c \in Calls
             PROVE  Times(c, mainQ) + Times(c, anyQ) + Cardinality({x \in Drains : Times(c, Left(x)) > 0})
                      = IF added[c] = "no" THEN 0 ELSE 1
  BY DEF CallsKept
<1>1. /\ Times(c, mainQ) = IF In(c, mainQ) THEN 1 ELSE 0
      /\ Times(c, anyQ) = IF In(c, anyQ) THEN 1 ELSE 0
  BY CountedOnce DEF Kept, TypeOK
<1>2. \A x \in Drains : Left(x) \in Seq(Calls) /\ Left(x) \in Rests
  <2>1. ASSUME NEW x \in Drains PROVE Left(x) \in Seq(Calls)
    <3>1. /\ x[1] \in Threads /\ x[2] \in 1..Len(stack[x[1]]) /\ stack[x[1]] \in Seq(Job)
          /\ stack[x[1]][x[2]].what = "calls"
      BY BoundAssumption DEF Drains, Jobs, TypeOK
    <3>2. stack[x[1]][x[2]] \in Job
      BY <3>1
    <3> QED BY <3>1, <3>2 DEF Left, Job
  <2> QED BY <2>1 DEF Rests
<1>3. \A x \in Drains : Times(c, Left(x)) = IF In(c, Left(x)) THEN 1 ELSE 0
  BY <1>2, CountedOnce DEF Kept
<1> DEFINE H == {x \in Drains : Times(c, Left(x)) > 0}
<1>4. CASE \E q \in Rests : In(c, q)
  <2>1. PICK x \in Drains : In(c, Left(x))
    BY <1>4 DEF Rests
  <2>2. H = {x}
    BY <1>3, <2>1 DEF OneDrain
  <2>3. Cardinality(H) = 1
    BY <2>2, FS_Singleton
  <2>4. ~In(c, mainQ) /\ ~In(c, anyQ) /\ added[c] # "no"
    BY <1>4 DEF Kept, Apart
  <2> QED BY <1>1, <2>3, <2>4
<1>5. CASE ~\E q \in Rests : In(c, q)
  <2>1. H = {}
    BY <1>2, <1>3, <1>5
  <2>2. Cardinality(H) = 0
    BY <2>1, FS_EmptySet
  <2>3. ~(In(c, mainQ) /\ In(c, anyQ)) /\ (added[c] # "no" <=> In(c, mainQ) \/ In(c, anyQ))
    BY <1>5 DEF Kept, Apart
  <2> QED BY <1>1, <2>2, <2>3
<1> QED BY <1>4, <1>5

--------------------------------------------------------------------------------
(* Drains nest no deeper than the bound, and the thread with the GIL is    *)
(* one that has not left.                                                  *)
THEOREM TypeCorrect == Spec => []TypeOK
BY Inductive, PTL DEF IInv

(* The rule of hot_gates.rs: no cleared bit while work is pending.         *)
THEOREM NoClearedBit == Spec => []GateCovers
BY Inductive, PTL DEF IInv

(* A tripped signal is never lost between the words that advertise it,     *)
(* wherever OS handlers fall into the drain.                               *)
THEOREM NoLostSignal == Spec => []SignalsOnTheWay
BY Inductive, PTL DEF IInv

(* A loop that skips its checks has nothing to find.                       *)
THEOREM QuietIsQuiet == Spec => []QuietSees
BY Inductive, PTL DEF IInv

(* One drain of the pending calls at a time, in all threads and all their  *)
(* nested callbacks, and the latch is set exactly while there is one.      *)
THEOREM NoNestedDrain == Spec => []OneDrain
<1>1. Init => OnlyDrain
  BY DEF Init, OnlyDrain, IsDrain
<1>2. IInv /\ OnlyDrain /\ [Next]_vars => OnlyDrain'
  BY DrainStep DEF IInv
<1>3. IInv /\ OnlyDrain => OneDrain
  BY OnlyOne DEF IInv
<1> QED BY <1>1, <1>2, <1>3, Inductive, PTL DEF Spec

(* A pending call is never dropped and never run twice for one addition,   *)
(* through end_pending_py_calls too, which after an exception puts the     *)
(* rest of the drain back: it is in one of the queues or in the drain.     *)
THEOREM NoCallLost == Spec => []CallsKept
<1>1. Init => OnlyDrain
  BY DEF Init, OnlyDrain, IsDrain
<1>2. Init => Kept
  BY DEF Init, Kept, Rests, Drains, Jobs, In, Distinct, Apart
<1>3. IInv /\ OnlyDrain /\ [Next]_vars => OnlyDrain'
  BY DrainStep DEF IInv
<1>4. IInv /\ IInv' /\ OnlyDrain /\ Kept /\ [Next]_vars => Kept'
  BY KeptStep DEF IInv
<1>5. IInv /\ OnlyDrain /\ Kept => CallsKept
  BY OnlyOne, KeptIsKept DEF IInv
<1> QED BY <1>1, <1>2, <1>3, <1>4, <1>5, Inductive, PTL DEF Spec
================================================================================
