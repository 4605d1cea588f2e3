------------------------------- MODULE GilProofs -------------------------------
(***************************************************************************)
(* Proofs about Gil and GilCells for any finite set of threads, any        *)
(* nesting of scopes and any number of cells, locks and guards.  IInv is   *)
(* the inductive invariant of the GIL: it says, for every place a thread   *)
(* can be at, how many guards it has, whether it is inside the lock and    *)
(* whether it is the recorded holder.  The second half is about the cells: *)
(* the composition leaves the GIL's promises alone, and CellInv is         *)
(* inductive beside IInv.  The last part is about the clocks of            *)
(* SwitchInterval.                                                         *)
(***************************************************************************)
EXTENDS GilCells, SwitchInterval, FiniteSetTheorems, SequenceTheorems, TLAPS

(* Of open scopes fs, whether the thread has the GIL after the first i.    *)
HeldAfter(fs, i) == i > 0 /\ fs[i].kind = "enter"

(* A scope recorded one guard exactly when it changed that.                *)
WellNested(fs) == \A i \in 1 .. Len(fs) :
  fs[i].n = IF (fs[i].kind = "enter" <=> HeldAfter(fs, i - 1)) THEN 0 ELSE 1

(* Where the thread is inside the lock, and where it is the holder.        *)
Inside(t) ==
  \/ pc[t] \in {"remove", "bump", "notify", "register", "publish", "unpublish", "unlock"}
  \/ pc[t] = "run" /\ guards[t] = 1
Published(t) == pc[t] = "unpublish" \/ (pc[t] = "run" /\ guards[t] = 1)

(* What an operation under way will leave on the stack.                    *)
Local(t) ==
  /\ pc[t] = "run" => guards[t] = Promised(t)
  /\ pc[t] # "run" => guards[t] = 0
  /\ pc[t] \in AcquireSteps \cup DropSteps \cup {"timeout"} => goal[t] # "none"
  /\ pc[t] \in AcquireSteps \cup DropSteps => todo[t] = 1 /\ taken[t] = 1
  /\ pc[t] \in ParkSteps => taken[t] = 1 /\ goal[t] = "yield" /\ Promised(t) = 1
  /\ pc[t] \in AcquireSteps => (goal[t] = "exit" <=> Promised(t) = 0)
  /\ pc[t] \in DropSteps => (goal[t] = "yield" <=> Promised(t) = 1)
  /\ pc[t] = "timeout" => goal[t] = "exit"
  /\ pc[t] \in {"timeout", "done"} => Promised(t) = 0
  /\ pc[t] # "run" /\ goal[t] = "exit" => Promised(t) = 0

LockInv ==
  /\ \A t \in Threads : Inside(t) => owner = t
  /\ owner # None => Inside(owner)
  /\ count = IF owner = None THEN 0 ELSE 1

HolderInv ==
  /\ \A t \in Threads : Published(t) => holder = t
  /\ holder # None => Published(holder)
  /\ depth = IF holder = None THEN 0 ELSE 1

Waiting == {t \in Threads : pc[t] \in {"lock", "remove", "timeout"}}

IInv ==
  /\ TypeOK
  /\ \A t \in Threads : WellNested(frames[t])
  /\ \A t \in Threads : Local(t)
  /\ LockInv
  /\ HolderInv
  /\ waiters = Cardinality(Waiting)

--------------------------------------------------------------------------------
(* Scopes as sequences.                                                    *)

(* Opening a scope that records what it changed keeps them well nested.    *)
LEMMA PushNested ==
  ASSUME NEW fs \in Seq(Frame), WellNested(fs), NEW f \in Frame,
         f.n = IF (f.kind = "enter" <=> Holds(fs)) THEN 0 ELSE 1
  PROVE  /\ Append(fs, f) \in Seq(Frame)
         /\ WellNested(Append(fs, f))
         /\ Holds(Append(fs, f)) <=> f.kind = "enter"
<1> DEFINE gs == Append(fs, f)
<1>1. /\ gs \in Seq(Frame) /\ Len(gs) = Len(fs) + 1 /\ gs[Len(fs) + 1] = f
      /\ Len(fs) \in Nat
      /\ \A i \in 1 .. Len(fs) : gs[i] = fs[i]
  OBVIOUS
<1>2. Holds(gs) <=> f.kind = "enter"
  BY <1>1 DEF Holds
<1>3. ASSUME NEW i \in 1 .. Len(gs)
      PROVE  gs[i].n = IF (gs[i].kind = "enter" <=> HeldAfter(gs, i - 1)) THEN 0 ELSE 1
  <2>1. CASE i = Len(gs)
    <3>1. HeldAfter(gs, i - 1) <=> Holds(fs)
      BY <1>1, <2>1 DEF HeldAfter, Holds
    <3> QED BY <1>1, <2>1, <3>1
  <2>2. CASE i # Len(gs)
    <3>1. i \in 1 .. Len(fs) /\ gs[i] = fs[i]
      BY <1>1, <2>2
    <3>2. HeldAfter(gs, i - 1) <=> HeldAfter(fs, i - 1)
      BY <1>1, <3>1 DEF HeldAfter
    <3> QED BY <3>1, <3>2 DEF WellNested
  <2> QED BY <2>1, <2>2
<1> QED BY <1>1, <1>2, <1>3 DEF WellNested

(* What is left of a sequence when its last element is cut off.            *)
LEMMA FrontFacts ==
  ASSUME NEW S, NEW s \in Seq(S), s # <<>>
  PROVE  LET front == SubSeq(s, 1, Len(s) - 1) IN
         /\ front \in Seq(S) /\ Len(front) = Len(s) - 1
         /\ \A i \in 1 .. Len(s) - 1 : front[i] = s[i]
<1>1. ASSUME NEW n \in 0 .. Len(s)
      PROVE  /\ SubSeq(s, 1, n) \in Seq(S) /\ Len(SubSeq(s, 1, n)) = n
             /\ \A i \in 1 .. n : SubSeq(s, 1, n)[i] = s[i]
  BY SMT
<1>2. Len(s) - 1 \in 0 .. Len(s)
  BY EmptySeq
<1> QED BY <1>1, <1>2, Zenon

(* Closing the innermost scope restores what it changed.                   *)
LEMMA PopNested ==
  ASSUME NEW fs \in Seq(Frame), fs # <<>>, WellNested(fs)
  PROVE  LET gs == SubSeq(fs, 1, Len(fs) - 1) IN
         /\ gs \in Seq(Frame)
         /\ WellNested(gs)
         /\ fs[Len(fs)] \in Frame
         /\ fs[Len(fs)].n = IF (fs[Len(fs)].kind = "enter" <=> Holds(gs)) THEN 0 ELSE 1
<1> DEFINE gs == SubSeq(fs, 1, Len(fs) - 1)
<1>1. Len(fs) \in Nat \ {0} /\ \A i \in 1 .. Len(fs) : fs[i] \in Frame
  BY EmptySeq, ElementOfSeq
<1>2. /\ gs \in Seq(Frame) /\ Len(gs) = Len(fs) - 1
      /\ \A i \in 1 .. Len(fs) - 1 : gs[i] = fs[i]
  BY FrontFacts
<1> HIDE DEF gs
<1>3. HeldAfter(fs, Len(fs) - 1) <=> Holds(gs)
  <2>1. CASE Len(fs) = 1
    <3>1. gs = <<>>
      BY <1>2, <2>1, EmptySeq
    <3> QED BY <2>1, <3>1 DEF HeldAfter, Holds
  <2>2. CASE Len(fs) # 1
    <3>1. gs # <<>> /\ gs[Len(gs)] = fs[Len(fs) - 1]
      BY <1>1, <1>2, <2>2, EmptySeq
    <3> QED BY <1>1, <2>2, <3>1, <1>2 DEF HeldAfter, Holds
  <2> QED BY <2>1, <2>2
<1>4. fs[Len(fs)].n = IF (fs[Len(fs)].kind = "enter" <=> Holds(gs)) THEN 0 ELSE 1
  BY <1>1, <1>3 DEF WellNested
<1>5. WellNested(gs)
  BY <1>1, <1>2 DEF WellNested, HeldAfter
<1> QED BY <1>1, <1>2, <1>4, <1>5 DEF gs

(* What the invariant says of one thread's guard stack and open scopes.    *)
LEMMA ThreadFacts ==
  ASSUME IInv, NEW t \in Threads
  PROVE  /\ guards[t] \in {0, 1}
         /\ pc[t] = "run" => (guards[t] = 1 <=> Holds(frames[t]))
         /\ frames[t] \in Seq(Frame) /\ WellNested(frames[t])
         /\ frames[t] = <<>> => ~Holds(frames[t])
<1>1. guards[t] = IF pc[t] = "run" THEN Promised(t) ELSE 0
  BY DEF IInv, Local
<1>2. Promised(t) \in {0, 1} /\ (Promised(t) = 1 <=> Holds(frames[t]))
  BY DEF Promised
<1>3. frames[t] \in Seq(Frame) /\ WellNested(frames[t])
  BY DEF IInv, TypeOK
<1>4. frames[t] = <<>> => ~Holds(frames[t])
  BY DEF Holds
<1> QED BY <1>1, <1>2, <1>3, <1>4

(* The innermost scope, and what is left of the others when it ends.       *)
LEMMA TopFacts ==
  ASSUME IInv, NEW t \in Threads, NEW k, TopIs(t, k)
  PROVE  LET rest == SubSeq(frames[t], 1, Len(frames[t]) - 1) IN
         /\ Top(t) \in Frame /\ Top(t).kind = k
         /\ Holds(frames[t]) <=> k = "enter"
         /\ Top(t).n = IF k = "enter" <=> Holds(rest) THEN 0 ELSE 1
         /\ rest \in Seq(Frame) /\ WellNested(rest)
  BY ThreadFacts, PopNested DEF TopIs, Top, Holds

--------------------------------------------------------------------------------
(* Steps on the open scopes.                                               *)

(* Only thread t's scopes change, and they stay well nested.               *)
ScopesMove(t) ==
  /\ frames' \in [Threads -> Seq(Frame)]
  /\ \A u \in Threads : WellNested(frames'[u])
  /\ \A u \in Threads \ {t} : frames'[u] = frames[u]

(* Opening a scope: nobody else's scopes change.                           *)
LEMMA PushStep ==
  ASSUME IInv, NEW t \in Threads, NEW k \in {"enter", "block", "save"}, NEW n,
         n = IF (k = "enter" <=> Holds(frames[t])) THEN 0 ELSE 1,
         PushFrame(t, k, n)
  PROVE  /\ ScopesMove(t)
         /\ Holds(frames'[t]) <=> k = "enter"
<1> DEFINE f == [kind |-> k, n |-> n]
<1>1. f \in Frame /\ f.kind = k /\ f.n = n
  BY DEF Frame
<1>2. frames \in [Threads -> Seq(Frame)] /\ \A u \in Threads : WellNested(frames[u])
  BY DEF IInv, TypeOK
<1>3. frames' = [frames EXCEPT ![t] = Append(frames[t], f)]
  BY <1>2 DEF PushFrame
<1> HIDE DEF f
<1>4. /\ Append(frames[t], f) \in Seq(Frame)
      /\ WellNested(Append(frames[t], f))
      /\ Holds(Append(frames[t], f)) <=> k = "enter"
  BY <1>1, <1>2, PushNested
<1> HIDE <1>1
<1> QED BY <1>2, <1>3, <1>4 DEF ScopesMove

(* Closing a scope: what it recorded is what its end changes.              *)
LEMMA PopStep ==
  ASSUME IInv, NEW t \in Threads, NEW k, TopIs(t, k), PopFrame(t)
  PROVE  /\ ScopesMove(t)
         /\ Holds(frames[t]) <=> k = "enter"
         /\ Top(t).n = IF (k = "enter" <=> Holds(frames'[t])) THEN 0 ELSE 1
<1> DEFINE rest == SubSeq(frames[t], 1, Len(frames[t]) - 1)
<1>1. frames \in [Threads -> Seq(Frame)] /\ \A u \in Threads : WellNested(frames[u])
  BY DEF IInv, TypeOK
<1>2. frames' = [frames EXCEPT ![t] = rest]
  BY <1>1 DEF PopFrame
<1>3. /\ Holds(frames[t]) <=> k = "enter"
      /\ Top(t).n = IF (k = "enter" <=> Holds(rest)) THEN 0 ELSE 1
      /\ rest \in Seq(Frame) /\ WellNested(rest)
  BY TopFacts
<1> HIDE DEF rest
<1> QED BY <1>1, <1>2, <1>3 DEF ScopesMove

(* What each step on the scopes does to its thread's claim on the GIL.     *)
LEMMA ScopesStep ==
  ASSUME IInv, NEW t \in Threads
  PROVE  /\ Enter(t) \/ EnterHeld(t) => ScopesMove(t) /\ Holds(frames'[t])
         /\ Exit(t) => ScopesMove(t) /\ Holds(frames[t]) /\ ~Holds(frames'[t])
         /\ ExitHeld(t) => ScopesMove(t) /\ Holds(frames[t]) /\ Holds(frames'[t])
         /\ Block(t) \/ Save(t) \/ BlockIdle(t) => ScopesMove(t) /\ ~Holds(frames'[t])
         /\ Resume(t) => ScopesMove(t) /\ ~Holds(frames[t]) /\ Holds(frames'[t]) /\ Top(t).n = 1
         /\ ResumeIdle(t) => ScopesMove(t) /\ ~Holds(frames[t]) /\ ~Holds(frames'[t])
<1>0. /\ guards[t] \in {0, 1}
      /\ pc[t] = "run" => (guards[t] = 1 <=> Holds(frames[t]))
  BY ThreadFacts
<1>1. Enter(t) => ScopesMove(t) /\ Holds(frames'[t])
  BY <1>0, PushStep DEF Enter, Idle
<1>2. EnterHeld(t) => ScopesMove(t) /\ Holds(frames'[t])
  BY <1>0, PushStep DEF EnterHeld, Idle
<1>3. Exit(t) => ScopesMove(t) /\ Holds(frames[t]) /\ ~Holds(frames'[t])
  BY <1>0, PopStep DEF Exit, Idle
<1>4. ExitHeld(t) => ScopesMove(t) /\ Holds(frames[t]) /\ Holds(frames'[t])
  BY <1>0, PopStep DEF ExitHeld, Idle
<1>5. Block(t) => ScopesMove(t) /\ ~Holds(frames'[t])
  BY <1>0, PushStep DEF Block, Idle
<1>6. Save(t) => ScopesMove(t) /\ ~Holds(frames'[t])
  BY <1>0, PushStep DEF Save, Idle
<1>7. BlockIdle(t) => ScopesMove(t) /\ ~Holds(frames'[t])
  BY <1>0, PushStep DEF BlockIdle, Idle
<1>8. Resume(t) => ScopesMove(t) /\ ~Holds(frames[t]) /\ Holds(frames'[t]) /\ Top(t).n = 1
  BY <1>0, PopStep DEF Resume, Idle
<1>9. ResumeIdle(t) => ScopesMove(t) /\ ~Holds(frames[t]) /\ ~Holds(frames'[t])
  BY <1>0, PopStep DEF ResumeIdle, Idle
<1> QED BY <1>1, <1>2, <1>3, <1>4, <1>5, <1>6, <1>7, <1>8, <1>9

--------------------------------------------------------------------------------
(* Every step keeps each part of the invariant.                             *)

(* What the invariant says at the places where a step counts down.         *)
LEMMA PlaceFacts ==
  ASSUME IInv, NEW t \in Threads
  PROVE  /\ guards[t] \in {0, 1}
         /\ pc[t] # "run" => guards[t] = 0
         /\ pc[t] = "unpublish" => holder = t /\ depth = 1
         /\ pc[t] = "unlock" => owner = t /\ count = 1
         /\ pc[t] \in AcquireSteps \cup DropSteps => todo[t] = 1 /\ taken[t] = 1
         /\ pc[t] \in {"remove", "timeout"} => waiters \in Nat \ {0}
<1>1. pc[t] \in {"remove", "timeout"} => waiters \in Nat \ {0}
  <2>1. IsFiniteSet(Waiting) /\ waiters = Cardinality(Waiting)
    BY ThreadsAssumption, FS_Subset DEF IInv, Waiting
  <2>2. t \in Waiting => Waiting # {}
    OBVIOUS
  <2> QED BY <2>1, <2>2, FS_CardinalityType, FS_EmptySet DEF Waiting
<1>2. pc[t] = "unpublish" => holder = t /\ depth = 1
  BY NoneAssumption DEF IInv, HolderInv, Published
<1>3. pc[t] = "unlock" => owner = t /\ count = 1
  BY NoneAssumption DEF IInv, LockInv, Inside
<1>4. pc[t] \in AcquireSteps \cup DropSteps => todo[t] = 1 /\ taken[t] = 1
  BY DEF IInv, Local
<1>5. pc[t] # "run" => guards[t] = 0
  BY DEF IInv, Local
<1> QED BY <1>1, <1>2, <1>3, <1>4, <1>5, ThreadFacts

(* Every step keeps the types.  Only counting down could leave them.       *)
LEMMA TypeStep ==
  ASSUME IInv, NEW t \in Threads, ThreadStep(t)
  PROVE  TypeOK'
<1>0. /\ TypeOK /\ guards[t] \in {0, 1}
      /\ pc[t] = "run" => (guards[t] = 1 <=> Holds(frames[t]))
      /\ pc[t] = "unpublish" => depth = 1
      /\ pc[t] = "unlock" => count = 1
      /\ pc[t] \in {"publish", "unlock"} => todo[t] = 1 /\ taken[t] = 1
      /\ pc[t] \in {"remove", "timeout"} => waiters \in Nat \ {0}
  BY PlaceFacts, ThreadFacts DEF IInv, AcquireSteps, DropSteps
<1> USE NoneAssumption DEF TypeOK, Steps, AcquireSteps, DropSteps, ParkSteps, Goals
<1>1. CASE AddWaiter(t)
  BY <1>0, <1>1, SMTT(30) DEF AddWaiter, Goto, lockVars
<1>2. CASE Lock(t)
  BY <1>0, <1>2 DEF Lock, Goto, lockVars
<1>3. CASE LockTimeout(t)
  BY <1>0, <1>3 DEF LockTimeout, Goto, lockVars
<1>4. CASE RemoveWaiter(t)
  BY <1>0, <1>4, SMTT(30) DEF RemoveWaiter, Goto, lockVars
<1>5. CASE Bump(t)
  BY <1>0, <1>5 DEF Bump, Goto, lockVars
<1>6. CASE Notify(t)
  BY <1>0, <1>6 DEF Notify, lockVars
<1>7. CASE Register(t)
  BY <1>0, <1>7 DEF Register, Goto, lockVars
<1>8. CASE Publish(t)
  BY <1>0, <1>8 DEF Publish, Goto
<1>9. CASE Unpublish(t)
  BY <1>0, <1>9 DEF Unpublish, Goto, lockVars
<1>10. CASE Unlock(t)
  BY <1>0, <1>10 DEF Unlock, Goto, AfterDrop, lockVars
<1>11. CASE Enter(t)
  BY <1>0, <1>11, ScopesStep DEF Enter, StartAcquire, Goto, Idle, lockVars,
      ScopesMove
<1>12. CASE EnterHeld(t)
  BY <1>0, <1>12, ScopesStep DEF EnterHeld, Idle, lockVars, ScopesMove
<1>13. CASE Exit(t)
  <2>1. guards[t] = 1
    BY <1>0, <1>13, ScopesStep DEF Exit, Idle
  <2>2. guards' \in [Threads -> Nat]
    BY <1>0, <1>13, <2>1 DEF Exit
  <2>3. frames' \in [Threads -> Seq(Frame)]
    BY <1>13, ScopesStep DEF ScopesMove
  <2> QED BY <1>0, <1>13, <2>2, <2>3 DEF Exit, StartDrop, Goto, lockVars
<1>14. CASE ExitHeld(t)
  BY <1>0, <1>14, ScopesStep DEF ExitHeld, Idle, lockVars, ScopesMove
<1>15. CASE Block(t)
  BY <1>0, <1>15, ScopesStep DEF Block, StartDrop, Goto, Idle, lockVars, ScopesMove
<1>16. CASE Save(t)
  <2>1. guards[t] = 1
    BY <1>0, <1>16, ScopesStep DEF Save, Idle
  <2>2. guards' \in [Threads -> Nat]
    BY <1>0, <1>16, <2>1 DEF Save
  <2>3. frames' \in [Threads -> Seq(Frame)]
    BY <1>16, ScopesStep DEF ScopesMove
  <2> QED BY <1>0, <1>16, <2>2, <2>3 DEF Save, StartDrop, Goto, lockVars
<1>17. CASE BlockIdle(t)
  BY <1>0, <1>17, ScopesStep DEF BlockIdle, Idle, lockVars, ScopesMove
<1>18. CASE Resume(t)
  <2>1. Top(t).n = 1 /\ frames' \in [Threads -> Seq(Frame)]
    BY <1>18, ScopesStep DEF ScopesMove
  <2>2. PICK k \in {"block", "save"} : StartAcquire(t, k, 1)
    BY <1>18, <2>1 DEF Resume
  <2> QED BY <1>0, <1>18, <2>1, <2>2 DEF Resume, StartAcquire, Goto, lockVars
<1>19. CASE ResumeIdle(t)
  <2>1. frames' \in [Threads -> Seq(Frame)]
    BY <1>19, ScopesStep DEF ScopesMove
  <2>2. guards' \in [Threads -> Nat]
    BY <1>0, <1>19 DEF ResumeIdle
  <2> QED BY <1>0, <1>19, <2>1, <2>2 DEF ResumeIdle, lockVars
<1>20. CASE Yield(t)
  BY <1>0, <1>20 DEF Yield, StartDrop, Goto, Idle, lockVars
<1>21. CASE TakeMutex(t)
  <2>1. CASE pc[t] = "late"
    <3>1. StartAcquire(t, "yield", taken[t]) /\ taken[t] \in Nat /\ mutex' = None
      BY <1>0, <1>21, <2>1 DEF TakeMutex
    <3> QED BY <1>0, <1>21, <3>1 DEF TakeMutex, Goto, StartAcquire, lockVars
  <2>2. CASE ~(pc[t] = "late")
    BY <1>0, <1>21, <2>2 DEF TakeMutex, Goto, lockVars
  <2> QED BY <2>1, <2>2
<1>22. CASE Check(t)
  BY <1>0, <1>22 DEF Check, Goto, lockVars
<1>23. CASE Wait(t)
  BY <1>0, <1>23 DEF Wait, Goto, lockVars
<1>24. CASE Proceed(t)
  BY <1>0, <1>24 DEF Proceed, StartAcquire, Goto, lockVars
<1>25. CASE WaitTimeout(t)
  BY <1>0, <1>25 DEF WaitTimeout, Goto, lockVars
<1>26. CASE ThreadExit(t)
  BY <1>0, <1>26 DEF ThreadExit, StartAcquire, Goto, Idle, lockVars
<1> QED BY <1>1, <1>2, <1>3, <1>4, <1>5, <1>6, <1>7, <1>8, <1>9, <1>10, <1>11,
    <1>12, <1>13, <1>14, <1>15, <1>16, <1>17, <1>18, <1>19, <1>20, <1>21, <1>22,
    <1>23, <1>24, <1>25, <1>26
  DEF ThreadStep, AcquireStep, DropStep, ScopeStep, BlockStep, YieldStep

(* A nested entry, its end, and a release without a guard touch nothing    *)
(* but the open scopes.                                                    *)
LEMMA StillStep ==
  ASSUME IInv, NEW t \in Threads,
         EnterHeld(t) \/ ExitHeld(t) \/ BlockIdle(t) \/ ResumeIdle(t)
  PROVE  /\ owner' = owner /\ count' = count /\ holder' = holder /\ depth' = depth
         /\ waiters' = waiters /\ pc' = pc /\ guards' = guards
         /\ goal' = goal /\ todo' = todo /\ taken' = taken
<1>1. CASE EnterHeld(t)
  BY <1>1 DEF EnterHeld, lockVars
<1>2. CASE ExitHeld(t)
  BY <1>2 DEF ExitHeld, lockVars
<1>3. CASE BlockIdle(t)
  BY <1>3 DEF BlockIdle, lockVars
<1>4. CASE ResumeIdle(t)
  <2>1. guards[t] = 0 /\ guards \in [Threads -> Nat]
    BY <1>4, ScopesStep, ThreadFacts DEF ResumeIdle, Idle, IInv, TypeOK
  <2>2. PICK n \in {0, guards[t]} : guards' = [guards EXCEPT ![t] = n]
    BY <1>4 DEF ResumeIdle
  <2>3. guards' = guards
    BY <2>1, <2>2
  <2> QED BY <1>4, <2>3 DEF ResumeIdle, lockVars
<1> QED BY <1>1, <1>2, <1>3, <1>4

(* Every step keeps the lock with the thread that is inside it.            *)
LEMMA LockInvStep ==
  ASSUME IInv, NEW t \in Threads, ThreadStep(t)
  PROVE  LockInv'
<1>0. /\ TypeOK /\ LockInv /\ guards[t] \in {0, 1}
      /\ pc[t] # "run" => guards[t] = 0
      /\ pc[t] = "run" => (guards[t] = 1 <=> Holds(frames[t]))
      /\ pc[t] = "publish" => todo[t] = 1 /\ taken[t] = 1 /\ goal[t] # "none"
      /\ pc[t] = "publish" => (goal[t] = "exit" <=> ~Holds(frames[t]))
      /\ pc[t] = "unlock" => todo[t] = 1
  BY PlaceFacts, ThreadFacts DEF IInv, AcquireSteps, DropSteps, Local, Promised
<1> USE NoneAssumption DEF TypeOK, LockInv, Inside
<1>1. CASE AddWaiter(t)
  BY <1>0, <1>1 DEF AddWaiter, Goto, lockVars
<1>2. CASE Lock(t)
  BY <1>0, <1>2, SMTT(30) DEF Lock, Goto, lockVars
<1>3. CASE LockTimeout(t)
  BY <1>0, <1>3 DEF LockTimeout, Goto, lockVars
<1>4. CASE RemoveWaiter(t)
  BY <1>0, <1>4 DEF RemoveWaiter, Goto, lockVars
<1>5. CASE Bump(t)
  BY <1>0, <1>5 DEF Bump, Goto, lockVars
<1>6. CASE Notify(t)
  BY <1>0, <1>6 DEF Notify, lockVars
<1>7. CASE Register(t)
  BY <1>0, <1>7 DEF Register, Goto, lockVars
<1>8. CASE Publish(t)
  BY <1>0, <1>8 DEF Publish, Goto
<1>9. CASE Unpublish(t)
  BY <1>0, <1>9 DEF Unpublish, Goto, lockVars
<1>10. CASE Unlock(t)
  BY <1>0, <1>10, SMTT(30) DEF Unlock, Goto, AfterDrop, lockVars
<1>11. CASE Enter(t)
  <2>1. StartAcquire(t, "enter", 1) /\ guards[t] = 0 /\ pc[t] = "run"
    BY <1>11 DEF Enter, Idle
  <2> QED BY <1>0, <1>11, <2>1 DEF Enter, StartAcquire, Goto, lockVars
<1>12. CASE EnterHeld(t)
  BY <1>0, <1>12, StillStep
<1>13. CASE Exit(t)
  <2>1. pc[t] = "run" /\ pc' = [pc EXCEPT ![t] = "unpublish"]
    BY <1>13 DEF Exit, StartDrop, Goto, Idle
  <2>2. Exit(t) => Holds(frames[t])
    BY ScopesStep
  <2>3. guards[t] = 1
    BY <1>0, <1>13, <2>1, <2>2
  <2>4. guards' = [guards EXCEPT ![t] = 0]
    BY <1>13, <2>3 DEF Exit
  <2> QED BY <1>0, <1>13, <2>1, <2>3, <2>4 DEF Exit, lockVars
<1>14. CASE ExitHeld(t)
  BY <1>0, <1>14, StillStep
<1>15. CASE Block(t)
  <2>1. pc[t] = "run" /\ pc' = [pc EXCEPT ![t] = "unpublish"]
    BY <1>15 DEF Block, StartDrop, Goto, Idle
  <2>2. guards[t] = 1 /\ guards' = [guards EXCEPT ![t] = 0]
    BY <1>0, <1>15 DEF Block
  <2> QED BY <1>0, <1>15, <2>1, <2>2 DEF Block, lockVars
<1>16. CASE Save(t)
  <2>1. pc[t] = "run" /\ pc' = [pc EXCEPT ![t] = "unpublish"]
    BY <1>16 DEF Save, StartDrop, Goto, Idle
  <2>2. guards[t] = 1 /\ \A u \in Threads \ {t} : guards'[u] = guards[u]
    BY <1>0, <1>16 DEF Save
  <2> QED BY <1>0, <1>16, <2>1, <2>2 DEF Save, lockVars
<1>17. CASE BlockIdle(t)
  BY <1>0, <1>17, StillStep
<1>18. CASE Resume(t)
  <2>1. pc[t] = "run" /\ guards[t] = 0
    BY <1>0, <1>18, ScopesStep DEF Resume, Idle
  <2>2. pc' = [pc EXCEPT ![t] = "add"]
    BY <1>18 DEF Resume, StartAcquire, Goto
  <2> QED BY <1>0, <1>18, <2>1, <2>2 DEF Resume, lockVars
<1>19. CASE ResumeIdle(t)
  BY <1>0, <1>19, StillStep
<1>20. CASE Yield(t)
  BY <1>0, <1>20 DEF Yield, StartDrop, Goto, Idle, lockVars
<1>21. CASE TakeMutex(t)
  BY <1>0, <1>21, SMTT(30) DEF TakeMutex, Goto, StartAcquire, lockVars
<1>22. CASE Check(t)
  BY <1>0, <1>22 DEF Check, Goto, lockVars
<1>23. CASE Wait(t)
  BY <1>0, <1>23 DEF Wait, Goto, lockVars
<1>24. CASE Proceed(t)
  BY <1>0, <1>24 DEF Proceed, StartAcquire, Goto, lockVars
<1>25. CASE WaitTimeout(t)
  BY <1>0, <1>25 DEF WaitTimeout, Goto, lockVars
<1>26. CASE ThreadExit(t)
  BY <1>0, <1>26 DEF ThreadExit, StartAcquire, Goto, Idle, lockVars
<1> QED BY <1>1, <1>2, <1>3, <1>4, <1>5, <1>6, <1>7, <1>8, <1>9, <1>10, <1>11,
    <1>12, <1>13, <1>14, <1>15, <1>16, <1>17, <1>18, <1>19, <1>20, <1>21, <1>22,
    <1>23, <1>24, <1>25, <1>26
  DEF ThreadStep, AcquireStep, DropStep, ScopeStep, BlockStep, YieldStep

(* Every step keeps `holder` naming the thread that holds.                 *)
LEMMA HolderStep ==
  ASSUME IInv, NEW t \in Threads, ThreadStep(t)
  PROVE  HolderInv'
<1>0. /\ TypeOK /\ HolderInv /\ guards[t] \in {0, 1}
      /\ pc[t] # "run" => guards[t] = 0
      /\ pc[t] = "run" => (guards[t] = 1 <=> Holds(frames[t]))
      /\ pc[t] = "publish" => todo[t] = 1 /\ taken[t] = 1 /\ goal[t] # "none"
      /\ pc[t] = "publish" => (goal[t] = "exit" <=> ~Holds(frames[t]))
      /\ pc[t] = "unlock" => todo[t] = 1
  BY PlaceFacts, ThreadFacts DEF IInv, AcquireSteps, DropSteps, Local, Promised
<1>a. /\ pc[t] = "publish" => owner = t
      /\ holder # None => owner = holder
  BY NoneAssumption DEF IInv, TypeOK, LockInv, HolderInv, Inside, Published
<1> USE NoneAssumption DEF TypeOK, HolderInv, Published
<1>1. CASE AddWaiter(t)
  BY <1>0, <1>1 DEF AddWaiter, Goto, lockVars
<1>2. CASE Lock(t)
  BY <1>0, <1>2 DEF Lock, Goto, lockVars
<1>3. CASE LockTimeout(t)
  BY <1>0, <1>3 DEF LockTimeout, Goto, lockVars
<1>4. CASE RemoveWaiter(t)
  BY <1>0, <1>4 DEF RemoveWaiter, Goto, lockVars
<1>5. CASE Bump(t)
  BY <1>0, <1>5 DEF Bump, Goto, lockVars
<1>6. CASE Notify(t)
  BY <1>0, <1>6 DEF Notify, lockVars
<1>7. CASE Register(t)
  BY <1>0, <1>7 DEF Register, Goto, lockVars
<1>8. CASE Publish(t)
  BY <1>0, <1>a, <1>8 DEF Publish, Goto
<1>9. CASE Unpublish(t)
  BY <1>0, <1>9, SMTT(30) DEF Unpublish, Goto, lockVars
<1>10. CASE Unlock(t)
  BY <1>0, <1>10 DEF Unlock, Goto, AfterDrop, lockVars
<1>11. CASE Enter(t)
  <2>1. StartAcquire(t, "enter", 1) /\ guards[t] = 0 /\ pc[t] = "run"
    BY <1>11 DEF Enter, Idle
  <2> QED BY <1>0, <1>11, <2>1 DEF Enter, StartAcquire, Goto, lockVars
<1>12. CASE EnterHeld(t)
  BY <1>0, <1>12, StillStep
<1>13. CASE Exit(t)
  <2>1. pc[t] = "run" /\ pc' = [pc EXCEPT ![t] = "unpublish"]
    BY <1>13 DEF Exit, StartDrop, Goto, Idle
  <2>2. Exit(t) => Holds(frames[t])
    BY ScopesStep
  <2>3. guards[t] = 1
    BY <1>0, <1>13, <2>1, <2>2
  <2>4. guards' = [guards EXCEPT ![t] = 0]
    BY <1>13, <2>3 DEF Exit
  <2> QED BY <1>0, <1>13, <2>1, <2>3, <2>4 DEF Exit, lockVars
<1>14. CASE ExitHeld(t)
  BY <1>0, <1>14, StillStep
<1>15. CASE Block(t)
  <2>1. pc[t] = "run" /\ pc' = [pc EXCEPT ![t] = "unpublish"]
    BY <1>15 DEF Block, StartDrop, Goto, Idle
  <2>2. guards[t] = 1 /\ guards' = [guards EXCEPT ![t] = 0]
    BY <1>0, <1>15 DEF Block
  <2> QED BY <1>0, <1>15, <2>1, <2>2 DEF Block, lockVars
<1>16. CASE Save(t)
  <2>1. pc[t] = "run" /\ pc' = [pc EXCEPT ![t] = "unpublish"]
    BY <1>16 DEF Save, StartDrop, Goto, Idle
  <2>2. guards[t] = 1 /\ \A u \in Threads \ {t} : guards'[u] = guards[u]
    BY <1>0, <1>16 DEF Save
  <2> QED BY <1>0, <1>16, <2>1, <2>2 DEF Save, lockVars
<1>17. CASE BlockIdle(t)
  BY <1>0, <1>17, StillStep
<1>18. CASE Resume(t)
  <2>1. pc[t] = "run" /\ guards[t] = 0
    BY <1>0, <1>18, ScopesStep DEF Resume, Idle
  <2>2. pc' = [pc EXCEPT ![t] = "add"]
    BY <1>18 DEF Resume, StartAcquire, Goto
  <2> QED BY <1>0, <1>18, <2>1, <2>2 DEF Resume, lockVars
<1>19. CASE ResumeIdle(t)
  BY <1>0, <1>19, StillStep
<1>20. CASE Yield(t)
  BY <1>0, <1>20 DEF Yield, StartDrop, Goto, Idle, lockVars
<1>21. CASE TakeMutex(t)
  BY <1>0, <1>21 DEF TakeMutex, Goto, StartAcquire, lockVars
<1>22. CASE Check(t)
  BY <1>0, <1>22 DEF Check, Goto, lockVars
<1>23. CASE Wait(t)
  BY <1>0, <1>23 DEF Wait, Goto, lockVars
<1>24. CASE Proceed(t)
  BY <1>0, <1>24 DEF Proceed, StartAcquire, Goto, lockVars
<1>25. CASE WaitTimeout(t)
  BY <1>0, <1>25 DEF WaitTimeout, Goto, lockVars
<1>26. CASE ThreadExit(t)
  <2>1. pc' = [pc EXCEPT ![t] = "add"] /\ pc[t] = "run"
    BY <1>26 DEF ThreadExit, StartAcquire, Goto, Idle
  <2>2. guards[t] = 0
    BY <1>0, <1>26, <2>1 DEF ThreadExit, Holds
  <2> QED BY <1>0, <1>26, <2>1, <2>2 DEF ThreadExit, lockVars
<1> QED BY <1>1, <1>2, <1>3, <1>4, <1>5, <1>6, <1>7, <1>8, <1>9, <1>10, <1>11,
    <1>12, <1>13, <1>14, <1>15, <1>16, <1>17, <1>18, <1>19, <1>20, <1>21, <1>22,
    <1>23, <1>24, <1>25, <1>26
  DEF ThreadStep, AcquireStep, DropStep, ScopeStep, BlockStep, YieldStep

(* A step of t leaves the others where they are, but for the notify_all    *)
(* that wakes the parked ones.                                             *)
LEMMA OthersStep ==
  ASSUME IInv, NEW t \in Threads, ThreadStep(t)
  PROVE  \A u \in Threads \ {t} :
           /\ goal'[u] = goal[u] /\ todo'[u] = todo[u] /\ taken'[u] = taken[u]
           /\ guards'[u] = guards[u] /\ frames'[u] = frames[u]
           /\ pc'[u] = pc[u] \/ (pc[u] = "parked" /\ pc'[u] = "woken")
<1>0. TypeOK
  BY DEF IInv
<1> USE DEF TypeOK
<1>1. CASE AddWaiter(t)
  BY <1>0, <1>1 DEF AddWaiter, Goto, lockVars
<1>2. CASE Lock(t)
  BY <1>0, <1>2 DEF Lock, Goto, lockVars
<1>3. CASE LockTimeout(t)
  BY <1>0, <1>3 DEF LockTimeout, Goto, lockVars
<1>4. CASE RemoveWaiter(t)
  BY <1>0, <1>4 DEF RemoveWaiter, Goto, lockVars
<1>5. CASE Bump(t)
  BY <1>0, <1>5 DEF Bump, Goto, lockVars
<1>6. CASE Notify(t)
  BY <1>0, <1>6 DEF Notify, lockVars
<1>7. CASE Register(t)
  BY <1>0, <1>7 DEF Register, Goto, lockVars
<1>8. CASE Publish(t)
  BY <1>0, <1>8 DEF Publish, Goto
<1>9. CASE Unpublish(t)
  BY <1>0, <1>9 DEF Unpublish, Goto, lockVars
<1>10. CASE Unlock(t)
  BY <1>0, <1>10 DEF Unlock, Goto, AfterDrop, lockVars
<1>11. CASE Enter(t)
  BY <1>0, <1>11, ScopesStep DEF Enter, StartAcquire, Goto, Idle, lockVars,
      ScopesMove
<1>12. CASE EnterHeld(t)
  BY <1>0, <1>12, ScopesStep DEF EnterHeld, Idle, lockVars, ScopesMove
<1>13. CASE Exit(t)
  BY <1>0, <1>13, ScopesStep DEF Exit, StartDrop, Goto, Idle, lockVars, ScopesMove
<1>14. CASE ExitHeld(t)
  BY <1>0, <1>14, ScopesStep DEF ExitHeld, Idle, lockVars, ScopesMove
<1>15. CASE Block(t)
  BY <1>0, <1>15, ScopesStep DEF Block, StartDrop, Goto, Idle, lockVars, ScopesMove
<1>16. CASE Save(t)
  BY <1>0, <1>16, ScopesStep DEF Save, StartDrop, Goto, Idle, lockVars, ScopesMove
<1>17. CASE BlockIdle(t)
  BY <1>0, <1>17, ScopesStep DEF BlockIdle, Idle, lockVars, ScopesMove
<1>18. CASE Resume(t)
  <2>1. \E k : StartAcquire(t, k, Top(t).n)
    BY <1>18 DEF Resume
  <2> QED BY <1>0, <1>18, <2>1, ScopesStep DEF Resume, StartAcquire, Goto,
      ScopesMove
<1>19. CASE ResumeIdle(t)
  BY <1>0, <1>19, ScopesStep DEF ResumeIdle, Idle, lockVars, ScopesMove
<1>20. CASE Yield(t)
  BY <1>0, <1>20 DEF Yield, StartDrop, Goto, Idle, lockVars
<1>21. CASE TakeMutex(t)
  BY <1>0, <1>21 DEF TakeMutex, Goto, StartAcquire, lockVars
<1>22. CASE Check(t)
  BY <1>0, <1>22 DEF Check, Goto, lockVars
<1>23. CASE Wait(t)
  BY <1>0, <1>23 DEF Wait, Goto, lockVars
<1>24. CASE Proceed(t)
  BY <1>0, <1>24 DEF Proceed, StartAcquire, Goto, lockVars
<1>25. CASE WaitTimeout(t)
  BY <1>0, <1>25 DEF WaitTimeout, Goto, lockVars
<1>26. CASE ThreadExit(t)
  BY <1>0, <1>26 DEF ThreadExit, StartAcquire, Goto, Idle, lockVars
<1> QED BY <1>1, <1>2, <1>3, <1>4, <1>5, <1>6, <1>7, <1>8, <1>9, <1>10, <1>11,
    <1>12, <1>13, <1>14, <1>15, <1>16, <1>17, <1>18, <1>19, <1>20, <1>21, <1>22,
    <1>23, <1>24, <1>25, <1>26
  DEF ThreadStep, AcquireStep, DropStep, ScopeStep, BlockStep, YieldStep

(* The stepping thread ends up where its operation says.                   *)
LEMMA OwnStep ==
  ASSUME IInv, NEW t \in Threads, ThreadStep(t)
  PROVE  Local(t)'
<1>0. /\ TypeOK /\ Local(t) /\ guards[t] \in {0, 1}
      /\ pc[t] = "run" => (guards[t] = 1 <=> Holds(frames[t]))
      /\ pc[t] # "run" => guards[t] = 0
      /\ pc[t] \in AcquireSteps \cup DropSteps => todo[t] = 1 /\ taken[t] = 1
  BY PlaceFacts, ThreadFacts DEF IInv, AcquireSteps, DropSteps
<1> USE DEF TypeOK, Local, Promised, AcquireSteps, DropSteps, ParkSteps, Steps
<1>1. CASE AddWaiter(t)
  BY <1>0, <1>1 DEF AddWaiter, Goto, lockVars
<1>2. CASE Lock(t)
  BY <1>0, <1>2 DEF Lock, Goto, lockVars
<1>3. CASE LockTimeout(t)
  BY <1>0, <1>3 DEF LockTimeout, Goto, lockVars
<1>4. CASE RemoveWaiter(t)
  BY <1>0, <1>4 DEF RemoveWaiter, Goto, lockVars
<1>5. CASE Bump(t)
  BY <1>0, <1>5 DEF Bump, Goto, lockVars
<1>6. CASE Notify(t)
  BY <1>0, <1>6 DEF Notify, lockVars
<1>7. CASE Register(t)
  BY <1>0, <1>7 DEF Register, Goto, lockVars
<1>8. CASE Publish(t)
  BY <1>0, <1>8 DEF Publish, Goto
<1>9. CASE Unpublish(t)
  BY <1>0, <1>9 DEF Unpublish, Goto, lockVars
<1>10. CASE Unlock(t)
  BY <1>0, <1>10 DEF Unlock, Goto, AfterDrop, lockVars
<1>11. CASE Enter(t)
  <2>1. pc[t] = "run" /\ guards[t] = 0
    BY <1>0, <1>11 DEF Enter, Idle
  <2>2. /\ pc'[t] = "add" /\ goal'[t] = "enter" /\ todo'[t] = 1 /\ taken'[t] = 1
        /\ guards'[t] = 0
    BY <1>0, <1>11, <2>1 DEF Enter, StartAcquire, Goto
  <2>3. Holds(frames'[t])
    BY <1>0, <1>11, <2>1, ScopesStep DEF Enter
  <2> QED BY <2>2, <2>3
<1>12. CASE EnterHeld(t)
  BY <1>0, <1>12, ScopesStep DEF EnterHeld, Idle, lockVars, ScopesMove
<1>13. CASE Exit(t)
  <2>1. pc[t] = "run" /\ guards[t] = 1
    BY <1>0, <1>13, ScopesStep DEF Exit, Idle
  <2>2. /\ pc'[t] = "unpublish" /\ goal'[t] = "enter" /\ todo'[t] = 1 /\ taken'[t] = 1
        /\ guards'[t] = 0
    BY <1>0, <1>13, <2>1 DEF Exit, StartDrop, Goto
  <2>3. ~Holds(frames'[t])
    BY <1>0, <1>13, <2>1, ScopesStep DEF Exit
  <2> QED BY <2>2, <2>3
<1>14. CASE ExitHeld(t)
  BY <1>0, <1>14, ScopesStep DEF ExitHeld, Idle, lockVars, ScopesMove
<1>15. CASE Block(t)
  <2>1. pc[t] = "run" /\ guards[t] = 1
    BY <1>0, <1>15 DEF Block, Idle
  <2>2. /\ pc'[t] = "unpublish" /\ goal'[t] = "block" /\ todo'[t] = 1 /\ taken'[t] = 1
        /\ guards'[t] = 0
    BY <1>0, <1>15, <2>1 DEF Block, StartDrop, Goto
  <2>3. ~Holds(frames'[t])
    BY <1>0, <1>15, <2>1, ScopesStep DEF Block
  <2> QED BY <2>2, <2>3
<1>16. CASE Save(t)
  <2>1. pc[t] = "run" /\ guards[t] = 1
    BY <1>0, <1>16 DEF Save, Idle
  <2>2. /\ pc'[t] = "unpublish" /\ goal'[t] = "save" /\ todo'[t] = 1 /\ taken'[t] = 1
        /\ guards'[t] = 0
    BY <1>0, <1>16, <2>1 DEF Save, StartDrop, Goto
  <2>3. ~Holds(frames'[t])
    BY <1>0, <1>16, <2>1, ScopesStep DEF Save
  <2> QED BY <2>2, <2>3
<1>17. CASE BlockIdle(t)
  BY <1>0, <1>17, ScopesStep DEF BlockIdle, Idle, lockVars, ScopesMove
<1>18. CASE Resume(t)
  <2>1. /\ pc[t] = "run" /\ guards[t] = 0 /\ Top(t).n = 1
        /\ Holds(frames'[t])
    BY <1>0, <1>18, ScopesStep DEF Resume, Idle
  <2>2. PICK k \in {"block", "save"} : StartAcquire(t, k, 1)
    BY <1>18, <2>1 DEF Resume
  <2>3. /\ pc'[t] = "add" /\ goal'[t] = k /\ todo'[t] = 1 /\ taken'[t] = 1
        /\ guards'[t] = 0
    BY <1>0, <1>18, <2>1, <2>2 DEF Resume, StartAcquire, Goto
  <2> QED BY <2>1, <2>3
<1>19. CASE ResumeIdle(t)
  BY <1>0, <1>19, ScopesStep DEF ResumeIdle, Idle, lockVars, ScopesMove
<1>20. CASE Yield(t)
  BY <1>0, <1>20 DEF Yield, StartDrop, Goto, Idle, lockVars
<1>21. CASE TakeMutex(t)
  BY <1>0, <1>21 DEF TakeMutex, Goto, StartAcquire, lockVars
<1>22. CASE Check(t)
  BY <1>0, <1>22 DEF Check, Goto, lockVars
<1>23. CASE Wait(t)
  BY <1>0, <1>23 DEF Wait, Goto, lockVars
<1>24. CASE Proceed(t)
  BY <1>0, <1>24 DEF Proceed, StartAcquire, Goto, lockVars
<1>25. CASE WaitTimeout(t)
  BY <1>0, <1>25 DEF WaitTimeout, Goto, lockVars
<1>26. CASE ThreadExit(t)
  <2>1. pc[t] = "run" /\ guards[t] = 0 /\ ~Holds(frames[t])
    BY <1>0, <1>26, ThreadFacts DEF ThreadExit, Idle
  <2>2. /\ pc'[t] = "add" /\ goal'[t] = "exit" /\ todo'[t] = 1 /\ taken'[t] = 1
        /\ guards'[t] = 0
    BY <1>0, <1>26, <2>1 DEF ThreadExit, StartAcquire, Goto
  <2>3. ~Holds(frames'[t])
    BY <1>0, <1>26, <2>1 DEF ThreadExit
  <2> QED BY <2>2, <2>3
<1> QED BY <1>1, <1>2, <1>3, <1>4, <1>5, <1>6, <1>7, <1>8, <1>9, <1>10, <1>11,
    <1>12, <1>13, <1>14, <1>15, <1>16, <1>17, <1>18, <1>19, <1>20, <1>21, <1>22,
    <1>23, <1>24, <1>25, <1>26
  DEF ThreadStep, AcquireStep, DropStep, ScopeStep, BlockStep, YieldStep

(* ... and so does every other thread, which hardly moved.                 *)
LEMMA LocalStep ==
  ASSUME IInv, NEW t \in Threads, ThreadStep(t)
  PROVE  \A u \in Threads : Local(u)'
<1>1. ASSUME NEW u \in Threads \ {t}
      PROVE  Local(u)'
  <2>1. Local(u)
    BY DEF IInv
  <2>2. /\ goal'[u] = goal[u] /\ todo'[u] = todo[u] /\ taken'[u] = taken[u]
        /\ guards'[u] = guards[u] /\ frames'[u] = frames[u]
        /\ pc'[u] = pc[u] \/ (pc[u] = "parked" /\ pc'[u] = "woken")
    BY OthersStep
  <2> QED BY <2>1, <2>2 DEF Local, Promised, AcquireSteps, DropSteps, ParkSteps
<1> QED BY <1>1, OwnStep

(* Every step keeps the waiters counted.                                   *)
LEMMA WaitStep ==
  ASSUME IInv, NEW t \in Threads, ThreadStep(t)
  PROVE  waiters' = Cardinality(Waiting')
<1>0. TypeOK /\ IsFiniteSet(Waiting) /\ waiters = Cardinality(Waiting)
  BY ThreadsAssumption, FS_Subset DEF IInv, Waiting
<1> USE DEF TypeOK, Waiting
<1>1. CASE AddWaiter(t)
  <2>1. Waiting' = Waiting \cup {t} /\ t \notin Waiting
    BY <1>0, <1>1 DEF AddWaiter, Goto
  <2>2. Cardinality(Waiting \cup {t}) = Cardinality(Waiting) + 1
    BY <1>0, <2>1, FS_AddElement DEF Waiting
  <2> QED BY <1>0, <1>1, <2>1, <2>2 DEF AddWaiter
<1>2. CASE Lock(t)
  BY <1>0, <1>2 DEF Lock, Goto, lockVars
<1>3. CASE LockTimeout(t)
  BY <1>0, <1>3 DEF LockTimeout, Goto, lockVars
<1>4. CASE RemoveWaiter(t)
  <2>1. Waiting' = Waiting \ {t} /\ t \in Waiting
    BY <1>0, <1>4 DEF RemoveWaiter, Goto
  <2>2. Cardinality(Waiting \ {t}) = Cardinality(Waiting) - 1
    BY <1>0, <2>1, FS_RemoveElement
  <2> QED BY <1>0, <1>4, <2>1, <2>2 DEF RemoveWaiter
<1>5. CASE Bump(t)
  BY <1>0, <1>5 DEF Bump, Goto, lockVars
<1>6. CASE Notify(t)
  BY <1>0, <1>6 DEF Notify, lockVars
<1>7. CASE Register(t)
  BY <1>0, <1>7 DEF Register, Goto, lockVars
<1>8. CASE Publish(t)
  BY <1>0, <1>8 DEF Publish, Goto
<1>9. CASE Unpublish(t)
  BY <1>0, <1>9 DEF Unpublish, Goto, lockVars
<1>10. CASE Unlock(t)
  BY <1>0, <1>10 DEF Unlock, Goto, AfterDrop, lockVars
<1>11. CASE Enter(t)
  BY <1>0, <1>11, ScopesStep DEF Enter, StartAcquire, Goto, Idle, lockVars,
      ScopesMove
<1>12. CASE EnterHeld(t)
  BY <1>0, <1>12, ScopesStep DEF EnterHeld, Idle, lockVars, ScopesMove
<1>13. CASE Exit(t)
  BY <1>0, <1>13, ScopesStep DEF Exit, StartDrop, Goto, Idle, lockVars, ScopesMove
<1>14. CASE ExitHeld(t)
  BY <1>0, <1>14, ScopesStep DEF ExitHeld, Idle, lockVars, ScopesMove
<1>15. CASE Block(t)
  BY <1>0, <1>15, ScopesStep DEF Block, StartDrop, Goto, Idle, lockVars, ScopesMove
<1>16. CASE Save(t)
  BY <1>0, <1>16, ScopesStep DEF Save, StartDrop, Goto, Idle, lockVars, ScopesMove
<1>17. CASE BlockIdle(t)
  BY <1>0, <1>17, ScopesStep DEF BlockIdle, Idle, lockVars, ScopesMove
<1>18. CASE Resume(t)
  BY <1>0, <1>18, ScopesStep DEF Resume, StartAcquire, Goto, Idle, lockVars,
      ScopesMove
<1>19. CASE ResumeIdle(t)
  BY <1>0, <1>19, ScopesStep DEF ResumeIdle, Idle, lockVars, ScopesMove
<1>20. CASE Yield(t)
  BY <1>0, <1>20 DEF Yield, StartDrop, Goto, Idle, lockVars
<1>21. CASE TakeMutex(t)
  BY <1>0, <1>21 DEF TakeMutex, Goto, StartAcquire, lockVars
<1>22. CASE Check(t)
  BY <1>0, <1>22 DEF Check, Goto, lockVars
<1>23. CASE Wait(t)
  BY <1>0, <1>23 DEF Wait, Goto, lockVars
<1>24. CASE Proceed(t)
  BY <1>0, <1>24 DEF Proceed, StartAcquire, Goto, lockVars
<1>25. CASE WaitTimeout(t)
  BY <1>0, <1>25 DEF WaitTimeout, Goto, lockVars
<1>26. CASE ThreadExit(t)
  BY <1>0, <1>26 DEF ThreadExit, StartAcquire, Goto, Idle, lockVars
<1> QED BY <1>1, <1>2, <1>3, <1>4, <1>5, <1>6, <1>7, <1>8, <1>9, <1>10, <1>11,
    <1>12, <1>13, <1>14, <1>15, <1>16, <1>17, <1>18, <1>19, <1>20, <1>21, <1>22,
    <1>23, <1>24, <1>25, <1>26
  DEF ThreadStep, AcquireStep, DropStep, ScopeStep, BlockStep, YieldStep

(* The child of a fork has one thread, with the GIL and its scopes, and    *)
(* every other identity is fresh.                                          *)
LEMMA ForkStep ==
  ASSUME IInv, NEW t \in Threads, Fork(t)
  PROVE  IInv'
<1>1. /\ TypeOK /\ WellNested(frames[t]) /\ Local(t)
      /\ pc[t] = "run" /\ guards[t] = 1
  BY ThreadFacts DEF IInv, Fork, Idle
<1>2. /\ owner' = t /\ count' = 1 /\ holder' = t /\ depth' = 1 /\ waiters' = 0
      /\ moved' = Threads /\ mutex' = None
      /\ pc' = [u \in Threads |-> "run"]
      /\ guards' = [u \in Threads |-> IF u = t THEN 1 ELSE 0]
      /\ frames' = [u \in Threads |-> IF u = t THEN frames[t] ELSE <<>>]
  BY <1>1 DEF Fork, Alone
<1>3. /\ goal' \in [Threads -> Goals]
      /\ todo' \in [Threads -> Nat] /\ taken' \in [Threads -> Nat]
  <2>1. goal[t] \in Goals /\ todo[t] \in Nat /\ taken[t] \in Nat
    BY <1>1 DEF TypeOK
  <2>2. "none" \in Goals
    BY DEF Goals
  <2> QED BY <2>1, <2>2 DEF Fork, Alone
<1>4. /\ frames' \in [Threads -> Seq(Frame)]
      /\ \A u \in Threads : WellNested(frames'[u])
  <2>1. frames[t] \in Seq(Frame) /\ <<>> \in Seq(Frame)
    BY <1>1, EmptySeq DEF TypeOK
  <2>2. WellNested(<<>>)
    BY DEF WellNested
  <2> QED BY <1>1, <1>2, <2>1, <2>2
<1>5. TypeOK'
  <2>1. pc' \in [Threads -> Steps]
    BY <1>2 DEF Steps
  <2>2. guards' \in [Threads -> Nat]
    BY <1>2
  <2> QED BY <1>2, <1>3, <1>4, <2>1, <2>2 DEF TypeOK
<1>6. \A u \in Threads : Local(u)'
  <2>1. Promised(t) = 1
    BY <1>1 DEF Local
  <2>2. Promised(t)' = 1
    BY <1>2, <2>1 DEF Promised, Holds
  <2>3. \A u \in Threads \ {t} : Promised(u)' = 0
    BY <1>2 DEF Promised, Holds
  <2> QED BY <1>2, <2>2, <2>3 DEF Local, AcquireSteps, DropSteps, ParkSteps
<1>7. LockInv' /\ HolderInv'
  BY <1>2, NoneAssumption DEF LockInv, HolderInv, Inside, Published
<1>8. waiters' = Cardinality(Waiting')
  <2>1. Waiting' = {}
    BY <1>2 DEF Waiting
  <2> QED BY <1>2, <2>1, FS_EmptySet
<1> QED BY <1>4, <1>5, <1>6, <1>7, <1>8 DEF IInv

--------------------------------------------------------------------------------
(* The invariant holds of every behaviour.                                 *)

LEMMA InitInv == Init => IInv
<1> SUFFICES ASSUME Init PROVE IInv
  OBVIOUS
<1>1. TypeOK
  BY EmptySeq DEF Init, TypeOK, Steps, Goals
<1>2. \A t \in Threads : WellNested(frames[t]) /\ ~Holds(frames[t])
  BY EmptySeq DEF Init, WellNested, Holds
<1>3. \A t \in Threads : Local(t)
  BY <1>2 DEF Init, Local, Promised, AcquireSteps, DropSteps, ParkSteps
<1>4. LockInv /\ HolderInv
  BY DEF Init, LockInv, HolderInv, Inside, Published
<1>5. Waiting = {}
  BY DEF Init, Waiting
<1> QED BY <1>1, <1>2, <1>3, <1>4, <1>5, FS_EmptySet DEF IInv, Init

LEMMA NextInv == IInv /\ [Next]_vars => IInv'
<1> SUFFICES ASSUME IInv, [Next]_vars PROVE IInv'
  OBVIOUS
<1>1. CASE UNCHANGED vars
  BY <1>1 DEF IInv, TypeOK, Local, Promised, LockInv, HolderInv, Inside, Published,
              Waiting, vars, lockVars
<1>2. ASSUME NEW t \in Threads, ThreadStep(t)
      PROVE  IInv'
  <2>1. \A u \in Threads : WellNested(frames'[u])
    <3>1. (\A u \in Threads : WellNested(frames[u])) /\ TypeOK
      BY DEF IInv
    <3>2. CASE ScopeStep(t) \/ BlockStep(t)
      BY <3>2, ScopesStep DEF ScopeStep, BlockStep, ScopesMove
    <3>3. CASE AcquireStep(t) \/ DropStep(t) \/ YieldStep(t) \/ ThreadExit(t)
      BY <3>1, <3>3 DEF AcquireStep, DropStep, YieldStep, AddWaiter, Lock,
          LockTimeout,
         RemoveWaiter, Bump, Notify, Register, Publish, Unpublish, Unlock, Yield,
         TakeMutex, Check, Wait, Proceed, WaitTimeout, ThreadExit
    <3> QED BY <1>2, <3>2, <3>3 DEF ThreadStep
  <2>2. TypeOK' /\ LockInv' /\ HolderInv'
    BY <1>2, TypeStep, LockInvStep, HolderStep
  <2>3. \A u \in Threads : Local(u)'
    BY <1>2, LocalStep
  <2>4. waiters' = Cardinality(Waiting')
    BY <1>2, WaitStep
  <2> QED BY <2>1, <2>2, <2>3, <2>4 DEF IInv
<1> QED BY <1>1, <1>2, ForkStep DEF Next, AllDone

(* The inductive invariant of the GIL's handlers.                          *)
THEOREM Invariance == Spec => []IInv
  BY InitInv, NextInv, PTL DEF Spec

(* Every variable keeps its type, for any number of threads and scopes.    *)
THEOREM TypeCorrect == Spec => []TypeOK
<1>1. IInv => TypeOK
  BY DEF IInv
<1> QED BY <1>1, Invariance, PTL

(* A thread whose guard stack says it has the GIL is the one inside the    *)
(* lock and the recorded holder (current_thread_holds_gil is truthful), so *)
(* no two threads execute VM code at once.                                 *)
THEOREM MutualExclusion == Spec => []StackBacksLock
<1>1. IInv => StackBacksLock
  <2> SUFFICES ASSUME IInv, NEW t \in Threads, pc[t] \in {"run", "done"}
               PROVE  IF guards[t] > 0
                      THEN owner = t /\ holder = t /\ count = guards[t] /\ depth = guards[t]
                      ELSE owner # t /\ holder # t
    BY DEF StackBacksLock
  <2>1. guards[t] \in {0, 1} /\ (guards[t] = 1 => pc[t] = "run")
    BY ThreadFacts DEF IInv, Local
  <2>2. CASE guards[t] = 1
    BY <2>1, <2>2, NoneAssumption DEF IInv, LockInv, HolderInv, Inside, Published
  <2>3. CASE guards[t] = 0
    BY <2>1, <2>3, NoneAssumption DEF IInv, LockInv, HolderInv, Inside, Published
  <2> QED BY <2>1, <2>2, <2>3
<1> QED BY <1>1, Invariance, PTL

(* GilState.holder names the thread inside the lock or nobody.             *)
THEOREM HolderTruthful == Spec => []HolderInside
<1>1. IInv => HolderInside
  BY NoneAssumption DEF IInv, TypeOK, LockInv, HolderInv, Inside, Published,
      HolderInside
<1> QED BY <1>1, Invariance, PTL

(* Between operations a thread has exactly the guards its open scopes      *)
(* promise, whatever happened inside them.                                 *)
THEOREM StackRestored == Spec => []ScopesRestore
<1>1. IInv => ScopesRestore
  BY DEF IInv, Local, ScopesRestore
<1> QED BY <1>1, Invariance, PTL

(* breaker.waiters is the number of threads waiting for the GIL.           *)
THEOREM WaitersExact == Spec => []WaitersCounted
<1>1. IInv => WaitersCounted
  BY DEF IInv, Waiting, WaitersCounted
<1> QED BY <1>1, Invariance, PTL

--------------------------------------------------------------------------------
(* The GIL keeps what GilContract promises.                                *)

Run == {t \in Threads : Running(t)}

(* A step starts one thread when none runs, stops the one that runs, or    *)
(* leaves who runs as it was.                                              *)
LEMMA ContractStep ==
  ASSUME IInv, IInv', NEW t \in Threads, ThreadStep(t)
  PROVE  \/ Run = {} /\ Run' = {t}
         \/ Run = {t} /\ Run' = {}
         \/ Run' = Run
<1>1. \A u \in Threads \ {t} : Running(u)' <=> Running(u)
  BY OthersStep DEF Running, IInv, TypeOK
<1>2. CASE ~Running(t) /\ ~Running(t)'
  BY <1>1, <1>2 DEF Run
<1>3. CASE Running(t) /\ Running(t)'
  BY <1>1, <1>3 DEF Run
<1>4. CASE Running(t) /\ ~Running(t)'
  <2>1. Run \subseteq {t}
    BY <1>4, ThreadFacts DEF IInv, LockInv, Inside, Run, Running
  <2> QED BY <1>1, <1>4, <2>1 DEF Run
<1>5. CASE ~Running(t) /\ Running(t)'
  <2>1. owner' = t /\ guards'[t] = 1 /\ pc'[t] = "run"
    <3>1. guards'[t] \in {0, 1} /\ LockInv'
      BY <1>5 DEF IInv, Local, Promised, Running
    <3> QED BY <1>5, <3>1 DEF LockInv, Inside, Running
  <2>2. Run' \subseteq {t}
    BY <2>1 DEF IInv, LockInv, Inside, Run, Running, Local, Promised
  <2> QED BY <1>1, <1>5, <2>2 DEF Run
<1> QED BY <1>2, <1>3, <1>4, <1>5

(* The GIL implements the contract the rest of the VM relies on: threads   *)
(* execute VM code one at a time, through every acquire, release, blocking *)
(* call and hand-off.                                                      *)
THEOREM ImplementsContract == Spec => ContractSpec
<1>1. Init => Contract!Init
  BY DEF Init, Contract!Init, Running
<1>2. IInv /\ IInv' /\ [Next]_vars => [Contract!Next]_Run
  <2> SUFFICES ASSUME IInv, IInv', [Next]_vars
               PROVE  Contract!Next \/ Run' = Run
    OBVIOUS
  <2>1. CASE UNCHANGED vars
    BY <2>1 DEF Run, Running, vars
  <2>2. ASSUME NEW t \in Threads, ThreadStep(t)
        PROVE  Contract!Next \/ Run' = Run
    BY <2>2, ContractStep DEF Contract!Next, Contract!Start, Contract!Stop, Run
  <2>3. ASSUME NEW t \in Threads, Fork(t)
        PROVE  Run' = Run
    <3>1. pc[t] = "run" /\ guards[t] = 1
      BY <2>3, ThreadFacts DEF Fork, Idle
    <3>2. Run = {t}
      BY <3>1, ThreadFacts DEF IInv, LockInv, Inside, Run, Running
    <3>3. Run' = {t}
      BY <2>3, <3>1 DEF Fork, Alone, Run, Running
    <3> QED BY <3>2, <3>3
  <2> QED BY <2>1, <2>2, <2>3 DEF Next, AllDone
<1> QED BY <1>1, <1>2, Invariance, PTL DEF Spec, ContractSpec, Contract!Spec, Run

--------------------------------------------------------------------------------
(* The cells beside the GIL.  CellInv ties the two guard counters, the two *)
(* words of every cell and the state of the bias to the live guards.       *)

(* The thread all guards on a cell belong to, if there are any.            *)
HolderOf(c) == IF sole = 0 THEN cellOwner[c] ELSE first

(* Lock-free borrows are of the first thread, while it is the only one;    *)
(* whoever ends that has the GIL until the last of them is gone.           *)
Biased ==
  /\ first = None => sole = 0
  /\ ~shared => draining = None
  /\ shared /\ draining = None => sole = 0
  /\ draining # None => pc[draining] = "register" \/ Running(draining)
  /\ \A t \in Threads : ~shared \/ sole > 0 => live[t] = 0
  /\ \A t \in Threads : ~shared => want[t] = NoRequest
  /\ \A t \in Threads : ~shared /\ (pc[t] = "publish" \/ Running(t)) => first = t
  /\ \A c \in Cells : ~shared \/ sole > 0 => cellOwner[c] = None

(* Each guard is in the counter of the path it was taken on, and guards of *)
(* both paths are never live at a time.                                    *)
Counted ==
  /\ \A t \in Threads : Len(held[t]) = live[t] + IF t = first THEN sole ELSE 0
  /\ \A t \in Threads : \A i \in DOMAIN held[t] : held[t][i].locked <=> sole = 0

(* The borrow word of a cell says which guards thread t has on it.         *)
Tally(t, c) ==
  \/ borrow[c] = -1 /\ \E i \in GuardsOn(t, c) : GuardsOn(t, c) = {i} /\ held[t][i].mut
  \/ borrow[c] = Cardinality(GuardsOn(t, c)) /\ \A i \in GuardsOn(t, c) : ~held[t][i].mut

(* All guards on a cell are of one thread, which owns its lock word unless *)
(* they were taken lock-free.                                              *)
Exact(c) ==
  /\ \A t \in Threads : IF t = HolderOf(c) THEN Tally(t, c) ELSE GuardsOn(t, c) = {}
  /\ HolderOf(c) = None => borrow[c] = 0
  /\ sole = 0 /\ cellOwner[c] # None => borrow[c] # 0

(* A borrow is made in an open scope.                                      *)
Levelled == \A t \in Threads : \A i \in DOMAIN held[t] :
  held[t][i].level \in 1..Len(frames[t])

(* A thread that has guards and not the GIL gave it up in a blocking call. *)
BlockedScope(t) == \E i \in DOMAIN frames[t] : frames[t][i].kind \in {"block", "save"}
Excused(t) == BlockedScope(t) \/ (pc[t] \in AcquireSteps /\ goal[t] \in {"block", "save"})
AwayBlocked == \A t \in Threads : held[t] # <<>> /\ ~Running(t) => Excused(t)

(* A thread that spins has the GIL, and spins on another thread's cell.    *)
Spinning == \A t \in Threads : want[t] # NoRequest =>
  /\ Running(t)
  /\ cellOwner[want[t].cell] \notin {None, t}

CellInv ==
  /\ CellTypeOK
  /\ Biased /\ Counted /\ (\A c \in Cells : Exact(c))
  /\ Levelled /\ AwayBlocked /\ Spinning
--------------------------------------------------------------------------------
(* The cells leave the GIL as it is: every step of the composition is one  *)
(* of Gil's, or leaves Gil's variables alone.                              *)

LEMMA CellStepGil ==
  ASSUME NEW t \in Threads
  PROVE  /\ GilStep(t) => ThreadStep(t) /\ UNCHANGED cellVars
         /\ CellStep(t) => Register(t) \/ UNCHANGED vars
         /\ LockStep(t) => Block(t) \/ UNCHANGED vars
<1>1. GilStep(t) => ThreadStep(t) /\ UNCHANGED cellVars
  BY DEF GilStep, HandOff, ThreadStep, AcquireStep, DropStep, ScopeStep, BlockStep, YieldStep
<1>2. CellStep(t) => Register(t) \/ UNCHANGED vars
  BY DEF CellStep, RegisterKnown, RevokeOnAcquire, MarkShared, Revoke, Drained,
         BorrowBiased, BorrowLocked, Contend, DropGuard
<1>3. LockStep(t) => Block(t) \/ UNCHANGED vars
  BY DEF LockStep, TakeLock, AwaitLock, GrantLock, FreeLock
<1> QED
  BY <1>1, <1>2, <1>3

LEMMA CellNextGil == [CellNext]_allVars => [Next]_vars
<1> SUFFICES ASSUME [CellNext]_allVars
             PROVE  Next \/ UNCHANGED vars
  OBVIOUS
<1>1. CASE UNCHANGED allVars
  BY <1>1 DEF allVars
<1>2. ASSUME NEW t \in Threads, GilStep(t) \/ CellStep(t) \/ LockStep(t)
      PROVE  Next \/ UNCHANGED vars
  BY <1>2, CellStepGil DEF Next, ThreadStep, AcquireStep, BlockStep
<1>3. CASE AllDone
  BY <1>3 DEF Next
<1> QED
  BY <1>1, <1>2, <1>3 DEF CellNext

(* So what is proved of Gil holds with the cells beside it.                *)
THEOREM CellsKeepGil == CellSpec => Spec
<1>1. CellInit => Init
  BY DEF CellInit
<1> QED
  BY <1>1, CellNextGil, PTL DEF CellSpec, Spec

--------------------------------------------------------------------------------
(* What a thread that may touch objects knows.                             *)

LEMMA TouchFacts ==
  ASSUME IInv, CellInv, NEW t \in Threads, CanTouch(t)
  PROVE  /\ pc[t] = "run" /\ guards[t] = 1 /\ owner = t
         /\ Len(frames[t]) \in Nat \ {0}
         /\ draining = None
         /\ IF shared THEN sole = 0 ELSE first = t
         /\ \A u \in Threads : want[u] = NoRequest
         /\ \A u \in Threads : Running(u) => u = t
<1>1. pc[t] = "run" /\ guards[t] = 1
  BY ThreadFacts DEF CanTouch, Running
<1>2. \A u \in Threads : Running(u) \/ pc[u] = "register" => owner = u
  BY ThreadFacts DEF IInv, LockInv, Inside, Running
<1>3. owner = t /\ \A u \in Threads : Running(u) => u = t
  BY <1>2 DEF CanTouch
<1>4. Len(frames[t]) \in Nat \ {0}
  <2>1. frames[t] # <<>> /\ frames[t] \in Seq(Frame)
    BY <1>1, ThreadFacts
  <2> QED
    BY <2>1, EmptySeq
<1>5. draining = None
  <2>1. draining \in Threads \cup {None} /\ draining # t
    BY DEF CanTouch, Free, CellInv, CellTypeOK
  <2>2. draining # None => owner = draining
    BY <1>2, <2>1 DEF CellInv, Biased
  <2> QED
    BY <1>3, <2>1, <2>2
<1>6. \A u \in Threads : want[u] = NoRequest
  BY <1>3 DEF CanTouch, Free, CellInv, Spinning
<1>7. IF shared THEN sole = 0 ELSE first = t
  BY <1>5 DEF CellInv, CellTypeOK, Biased, CanTouch
<1> QED
  BY <1>1, <1>3, <1>4, <1>5, <1>6, <1>7

--------------------------------------------------------------------------------
(* The steps of Gil, as far as the cells depend on them.                   *)

(* A thread gets to run VM code by way of the registration only.           *)
LEMMA PlaceStep ==
  ASSUME IInv, NEW t \in Threads, ThreadStep(t)
  PROVE  /\ pc'[t] = "publish" => pc[t] = "register"
         /\ pc[t] = "register" => pc'[t] = "publish"
         /\ Running(t)' => Running(t) \/ pc[t] = "publish"
<1>0. TypeOK /\ (pc[t] # "run" => guards[t] = 0)
  BY PlaceFacts DEF IInv
<1> USE DEF TypeOK, Running
<1>1. CASE AddWaiter(t)
  BY <1>0, <1>1 DEF AddWaiter, Goto, StartAcquire, StartDrop, AfterDrop, Idle
<1>2. CASE Lock(t)
  BY <1>0, <1>2 DEF Lock, Goto, StartAcquire, StartDrop, AfterDrop, Idle
<1>3. CASE LockTimeout(t)
  BY <1>0, <1>3 DEF LockTimeout, Goto, StartAcquire, StartDrop, AfterDrop, Idle
<1>4. CASE RemoveWaiter(t)
  BY <1>0, <1>4 DEF RemoveWaiter, Goto, StartAcquire, StartDrop, AfterDrop, Idle
<1>5. CASE Bump(t)
  BY <1>0, <1>5 DEF Bump, Goto, StartAcquire, StartDrop, AfterDrop, Idle
<1>6. CASE Notify(t)
  BY <1>0, <1>6 DEF Notify, Goto, StartAcquire, StartDrop, AfterDrop, Idle
<1>7. CASE Register(t)
  BY <1>0, <1>7 DEF Register, Goto, StartAcquire, StartDrop, AfterDrop, Idle
<1>8. CASE Publish(t)
  BY <1>0, <1>8 DEF Publish, Goto, StartAcquire, StartDrop, AfterDrop, Idle
<1>9. CASE Unpublish(t)
  BY <1>0, <1>9 DEF Unpublish, Goto, StartAcquire, StartDrop, AfterDrop, Idle
<1>10. CASE Unlock(t)
  BY <1>0, <1>10 DEF Unlock, Goto, StartAcquire, StartDrop, AfterDrop, Idle
<1>11. CASE Enter(t)
  BY <1>0, <1>11 DEF Enter, Goto, StartAcquire, StartDrop, AfterDrop, Idle
<1>12. CASE EnterHeld(t)
  BY <1>0, <1>12, StillStep DEF EnterHeld, Idle
<1>13. CASE Exit(t)
  BY <1>0, <1>13 DEF Exit, Goto, StartAcquire, StartDrop, AfterDrop, Idle
<1>14. CASE ExitHeld(t)
  BY <1>0, <1>14, StillStep DEF ExitHeld, Idle
<1>15. CASE Block(t)
  BY <1>0, <1>15 DEF Block, Goto, StartAcquire, StartDrop, AfterDrop, Idle
<1>16. CASE Save(t)
  BY <1>0, <1>16 DEF Save, Goto, StartAcquire, StartDrop, AfterDrop, Idle
<1>17. CASE BlockIdle(t)
  BY <1>0, <1>17, StillStep DEF BlockIdle, Idle
<1>18. CASE Resume(t)
  BY <1>0, <1>18 DEF Resume, Goto, StartAcquire, StartDrop, AfterDrop, Idle
<1>19. CASE ResumeIdle(t)
  BY <1>0, <1>19, StillStep DEF ResumeIdle, Idle
<1>20. CASE Yield(t)
  BY <1>0, <1>20 DEF Yield, Goto, StartAcquire, StartDrop, AfterDrop, Idle
<1>21. CASE TakeMutex(t)
  BY <1>0, <1>21 DEF TakeMutex, Goto, StartAcquire, StartDrop, AfterDrop, Idle
<1>22. CASE Check(t)
  BY <1>0, <1>22 DEF Check, Goto, StartAcquire, StartDrop, AfterDrop, Idle
<1>23. CASE Wait(t)
  BY <1>0, <1>23 DEF Wait, Goto, StartAcquire, StartDrop, AfterDrop, Idle
<1>24. CASE Proceed(t)
  BY <1>0, <1>24 DEF Proceed, Goto, StartAcquire, StartDrop, AfterDrop, Idle
<1>25. CASE WaitTimeout(t)
  BY <1>0, <1>25 DEF WaitTimeout, Goto, StartAcquire, StartDrop, AfterDrop, Idle
<1>26. CASE ThreadExit(t)
  BY <1>0, <1>26 DEF ThreadExit, Goto, StartAcquire, StartDrop, AfterDrop, Idle
<1> QED
  BY <1>1, <1>2, <1>3, <1>4, <1>5, <1>6, <1>7, <1>8, <1>9, <1>10, <1>11, <1>12, <1>13,
     <1>14, <1>15, <1>16, <1>17, <1>18, <1>19, <1>20, <1>21, <1>22, <1>23, <1>24, <1>25,
     <1>26
  DEF ThreadStep, AcquireStep, DropStep, ScopeStep, BlockStep, YieldStep
(* What a step of Gil does to its thread's open scopes, when the cells let *)
(* it: a scope that contains a borrow does not end.                        *)
LEMMA ScopeMoves ==
  ASSUME IInv, NEW t \in Threads, GilStep(t)
  PROVE  \/ frames'[t] = frames[t]
         \/ \E f \in Frame : frames'[t] = Append(frames[t], f)
         \/ /\ ScopeClear(t) /\ frames[t] # <<>>
            /\ frames'[t] = SubSeq(frames[t], 1, Len(frames[t]) - 1)
<1>0. frames \in [Threads -> Seq(Frame)] /\ guards[t] \in {0, 1}
  BY ThreadFacts DEF IInv, TypeOK
<1>1. CASE ScopeClear(t) /\ (Exit(t) \/ ExitHeld(t) \/ Resume(t) \/ ResumeIdle(t))
  BY <1>0, <1>1 DEF Exit, ExitHeld, Resume, ResumeIdle, PopFrame, TopIs
<1>2. CASE Enter(t) \/ EnterHeld(t) \/ Block(t) \/ Save(t) \/ BlockIdle(t)
  <2>1. PICK k \in {"enter", "block", "save"}, n \in {0, 1} : PushFrame(t, k, n)
    BY <1>0, <1>2 DEF Enter, EnterHeld, Block, Save, BlockIdle
  <2>2. [kind |-> k, n |-> n] \in Frame
    BY DEF Frame
  <2> QED
    BY <1>0, <2>1, <2>2 DEF PushFrame
<1>3. CASE UNCHANGED frames
  BY <1>3
<1> QED
  BY <1>1, <1>2, <1>3 DEF GilStep, AddWaiter, Lock, LockTimeout, RemoveWaiter, Bump, Notify,
     Publish, DropStep, Unpublish, Unlock, TakeMutex, Check, Wait, Proceed, WaitTimeout,
     HandOff, Yield, ThreadExit

(* No borrow is left above the open scopes.                                *)
LEMMA LevelStep ==
  ASSUME IInv, CellInv, NEW t \in Threads, GilStep(t)
  PROVE  Levelled'
<1>1. /\ frames[t] \in Seq(Frame) /\ held \in [Threads -> Seq(Guard)] /\ held' = held
      /\ Levelled
  BY CellStepGil DEF IInv, TypeOK, CellInv, CellTypeOK, cellVars
<1>2. ASSUME NEW i \in DOMAIN held[t]
      PROVE  held[t][i].level \in 1..Len(frames'[t])
  <2>1. held[t][i].level \in 1..Len(frames[t])
    BY <1>1, <1>2 DEF Levelled
  <2>2. CASE \E f \in Frame : frames'[t] = Append(frames[t], f)
    BY <1>1, <2>1, <2>2
  <2>3. CASE /\ ScopeClear(t) /\ frames[t] # <<>>
             /\ frames'[t] = SubSeq(frames[t], 1, Len(frames[t]) - 1)
    <3>1. Len(frames'[t]) = Len(frames[t]) - 1
      BY <1>1, <2>3, FrontFacts
    <3>2. held[t][i].level < Len(frames[t]) /\ Len(frames[t]) \in Nat
      BY <1>1, <2>3 DEF ScopeClear
    <3> QED
      BY <2>1, <3>1, <3>2
  <2> QED
    BY <2>1, <2>2, <2>3, ScopeMoves
<1>3. \A u \in Threads \ {t} : frames'[u] = frames[u]
  BY CellStepGil, OthersStep
<1> QED
  BY <1>1, <1>2, <1>3 DEF Levelled

(* Below an entry that took the GIL, and below a release that found it     *)
(* released already, there is no scope or a blocking call.                 *)
LEMMA BelowBlocked ==
  ASSUME IInv, NEW t \in Threads, Len(frames[t]) > 1,
         \/ TopIs(t, "enter") /\ Top(t).n = 1
         \/ \E k \in {"block", "save"} : TopIs(t, k) /\ Top(t).n = 0
  PROVE  \E i \in 1..Len(frames[t]) - 1 : frames[t][i].kind \in {"block", "save"}
<1>1. frames[t] \in Seq(Frame) /\ WellNested(frames[t]) /\ Len(frames[t]) \in Nat
  BY ThreadFacts
<1>2. Len(frames[t]) \in 1..Len(frames[t]) /\ Len(frames[t]) - 1 \in 1..Len(frames[t]) - 1
  BY <1>1
<1>3. ~HeldAfter(frames[t], Len(frames[t]) - 1)
  <2>1. Top(t).n = IF (Top(t).kind = "enter" <=> HeldAfter(frames[t], Len(frames[t]) - 1))
                   THEN 0 ELSE 1
    BY <1>1, <1>2 DEF WellNested, Top
  <2>2. CASE TopIs(t, "enter") /\ Top(t).n = 1
    BY <2>1, <2>2 DEF TopIs
  <2>3. CASE \E k \in {"block", "save"} : TopIs(t, k) /\ Top(t).n = 0
    BY <2>1, <2>3 DEF TopIs
  <2> QED
    BY <2>2, <2>3
<1>4. frames[t][Len(frames[t]) - 1] \in Frame
  BY <1>1, <1>2, ElementOfSeq
<1> QED
  BY <1>1, <1>2, <1>3, <1>4, SMTT(30) DEF HeldAfter, Frame

(* A thread that keeps its guards over a step of Gil still runs, or is     *)
(* excused by a blocking call.                                             *)
LEMMA AwayStep ==
  ASSUME IInv, IInv', CellInv, NEW t \in Threads, held[t] # <<>>,
         GilStep(t) \/ Register(t) \/ Block(t)
  PROVE  Running(t)' \/ Excused(t)'
<1>0. /\ TypeOK /\ Local(t) /\ guards[t] \in {0, 1} /\ frames[t] \in Seq(Frame)
      /\ pc[t] = "run" => (guards[t] = 1 <=> Holds(frames[t]))
      /\ pc[t] # "run" => guards[t] = 0
      /\ pc[t] = "publish" => todo[t] = 1
      /\ Running(t) \/ Excused(t)
      /\ held[t] \in Seq(Guard)
  BY PlaceFacts, ThreadFacts
     DEF IInv, CellInv, CellTypeOK, AwayBlocked, AcquireSteps, DropSteps
<1>1. CASE /\ ~Running(t) /\ frames' = frames
           /\ pc[t] \in AcquireSteps => pc'[t] \in AcquireSteps /\ goal' = goal
  BY <1>0, <1>1 DEF Excused, BlockedScope
<1>2. CASE AddWaiter(t) \/ Lock(t) \/ Bump(t) \/ Notify(t) \/ Register(t)
  <2>1. ~Running(t) /\ frames' = frames /\ goal' = goal /\ pc'[t] \in AcquireSteps
    BY <1>0, <1>2 DEF TypeOK, AddWaiter, Lock, Bump, Notify, Register, Goto, Running, AcquireSteps
  <2> QED
    BY <1>1, <2>1
<1>3. CASE LockTimeout(t) \/ RemoveWaiter(t)
  <2>1. /\ ~Running(t) /\ frames' = frames /\ goal' = goal
        /\ pc[t] = "remove" => pc'[t] = "bump"
        /\ pc[t] = "lock" => goal[t] = "exit"
        /\ pc[t] \in {"remove", "timeout", "lock"}
    BY <1>0, <1>3 DEF TypeOK, LockTimeout, RemoveWaiter, Goto, Running
  <2> QED
    BY <1>0, <2>1 DEF Excused, BlockedScope, AcquireSteps
<1>4. CASE Publish(t)
  <2>1. /\ ~Running(t) /\ frames' = frames /\ goal' = goal
        /\ pc'[t] = IF goal[t] = "exit" THEN "unpublish" ELSE "run"
    BY <1>0, <1>4 DEF TypeOK, Publish, Goto, Running
  <2>2. CASE goal[t] = "exit"
    BY <1>0, <2>1, <2>2 DEF Excused, BlockedScope
  <2>3. CASE goal[t] # "exit"
    <3>1. Promised(t) = 1 /\ pc[t] = "publish"
      BY <1>0, <1>4, <2>3 DEF Local, Promised, AcquireSteps, Publish
    <3>2. Promised(t)' = 1 /\ Local(t)'
      BY <2>1, <3>1 DEF Promised, IInv
    <3> QED
      BY <2>1, <2>3, <3>2 DEF Local, Running
  <2> QED
    BY <2>2, <2>3
<1>5. CASE DropStep(t) \/ TakeMutex(t) \/ Check(t) \/ Wait(t) \/ Proceed(t) \/ WaitTimeout(t)
  <2>1. ~Running(t) /\ frames' = frames /\ pc[t] \notin AcquireSteps
    BY <1>5 DEF DropStep, Unpublish, Unlock, TakeMutex, Check, Wait, Proceed, WaitTimeout,
       Running, AcquireSteps
  <2> QED
    BY <1>1, <2>1
<1>6. CASE Enter(t)
  <2>1. ~Running(t) /\ pc[t] \notin AcquireSteps
    BY <1>6 DEF Enter, Idle, Running, AcquireSteps
  <2>2. PICK i \in DOMAIN frames[t] : frames[t][i].kind \in {"block", "save"}
    BY <1>0, <2>1 DEF Excused, BlockedScope
  <2>3. PICK f : frames'[t] = Append(frames[t], f)
    BY <1>0, <1>6 DEF TypeOK, Enter, PushFrame
  <2>4. i \in DOMAIN frames'[t] /\ frames'[t][i] = frames[t][i]
    BY <1>0, <2>2, <2>3
  <2> QED
    BY <2>2, <2>4 DEF Excused, BlockedScope
<1>7. CASE EnterHeld(t) \/ ExitHeld(t)
  <2>1. Running(t)
    BY <1>0, <1>7, ScopesStep, ThreadFacts DEF EnterHeld, ExitHeld, Idle, Running
  <2>2. pc' = pc /\ guards' = guards
    BY <1>7, StillStep
  <2> QED
    BY <2>1, <2>2 DEF Running
<1>8. CASE Block(t) \/ Save(t) \/ BlockIdle(t)
  <2>1. PICK k \in {"block", "save"}, n \in Nat :
          frames'[t] = Append(frames[t], [kind |-> k, n |-> n])
    BY <1>0, <1>8 DEF TypeOK, Block, Save, BlockIdle, PushFrame
  <2>2. Len(frames[t]) + 1 \in DOMAIN frames'[t] /\ frames'[t][Len(frames[t]) + 1].kind = k
    BY <1>0, <2>1
  <2> QED
    BY <2>2 DEF Excused, BlockedScope
<1>9. CASE Resume(t)
  <2>1. PICK k \in {"block", "save"} : StartAcquire(t, k, Top(t).n)
    BY <1>9 DEF Resume
  <2> QED
    BY <1>0, <2>1 DEF TypeOK, StartAcquire, Goto, Excused, AcquireSteps
<1>10. CASE ScopeClear(t) /\ (Exit(t) \/ ResumeIdle(t))
  <2>1. frames[t] # <<>> /\ frames'[t] = SubSeq(frames[t], 1, Len(frames[t]) - 1)
    BY <1>0, <1>10 DEF TypeOK, Exit, ResumeIdle, PopFrame, TopIs
  <2>2. Len(frames[t]) > 1
    <3>1. 1 \in DOMAIN held[t]
      BY <1>0, EmptySeq
    <3>2. held[t][1].level \in 1..Len(frames[t]) /\ held[t][1].level < Len(frames[t])
      BY <1>10, <3>1 DEF ScopeClear, CellInv, Levelled
    <3> QED
      BY <1>0, <3>2
  <2>3. PICK i \in 1..Len(frames[t]) - 1 : frames[t][i].kind \in {"block", "save"}
    BY <1>10, <2>2, BelowBlocked DEF Exit, ResumeIdle
  <2>4. i \in DOMAIN frames'[t] /\ frames'[t][i] = frames[t][i]
    BY <1>0, <2>1, <2>3, FrontFacts
  <2> QED
    BY <2>3, <2>4 DEF Excused, BlockedScope
<1>11. CASE HandOff(t)
  <2>1. Len(held[t]) = live[t] + IF t = first THEN sole ELSE 0
    BY DEF CellInv, Counted
  <2>2. live[t] = 0 /\ (t = first => sole = 0)
    BY <1>11 DEF HandOff, CellGuardsLive, CellInv, CellTypeOK
  <2> QED
    BY <1>0, <2>1, <2>2, EmptySeq
<1>12. CASE ThreadExit(t)
  <2>1. 1 \in DOMAIN held[t]
    BY <1>0, EmptySeq
  <2>2. held[t][1].level \in 1..0
    BY <1>12, <2>1 DEF ThreadExit, CellInv, Levelled
  <2> QED
    BY <2>2
<1> QED
  BY <1>2, <1>3, <1>4, <1>5, <1>6, <1>7, <1>8, <1>9, <1>10, <1>11, <1>12 DEF GilStep

(* The others hardly move.                                                 *)
LEMMA OthersStay ==
  ASSUME IInv, NEW t \in Threads, ThreadStep(t), NEW u \in Threads \ {t}
  PROVE  /\ Running(u)' <=> Running(u)
         /\ \A s \in {"publish", "register"} : pc'[u] = s <=> pc[u] = s
         /\ Excused(u) => Excused(u)'
<1>1. /\ goal'[u] = goal[u] /\ guards'[u] = guards[u] /\ frames'[u] = frames[u]
      /\ pc'[u] = pc[u] \/ (pc[u] = "parked" /\ pc'[u] = "woken")
  BY OthersStep
<1> QED
  BY <1>1 DEF Running, Excused, BlockedScope, AcquireSteps

LEMMA AwayKept ==
  ASSUME IInv, IInv', CellInv, NEW t \in Threads, held' = held,
         GilStep(t) \/ Register(t) \/ Block(t)
  PROVE  AwayBlocked'
<1>1. ThreadStep(t)
  BY CellStepGil DEF ThreadStep, AcquireStep, BlockStep
<1>2. \A u \in Threads \ {t} : held[u] # <<>> /\ ~Running(u)' => Excused(u)'
  BY <1>1, OthersStay DEF CellInv, AwayBlocked
<1>3. held[t] # <<>> /\ ~Running(t)' => Excused(t)'
  BY AwayStep
<1> QED
  BY <1>2, <1>3 DEF AwayBlocked

(* A thread that is stuck in a borrow or in a revocation takes no step.    *)
LEMMA StuckStays ==
  ASSUME IInv, NEW t \in Threads, GilStep(t)
  PROVE  pc[t] # "register" /\ (Running(t) => Free(t))
<1>1. CASE AddWaiter(t) \/ Lock(t) \/ LockTimeout(t) \/ RemoveWaiter(t) \/ Bump(t)
           \/ Notify(t) \/ Publish(t) \/ DropStep(t)
  BY <1>1 DEF AddWaiter, Lock, LockTimeout, RemoveWaiter, Bump, Notify, Publish, DropStep,
     Unpublish, Unlock, Running
<1>2. CASE TakeMutex(t) \/ Check(t) \/ Wait(t) \/ Proceed(t) \/ WaitTimeout(t)
  BY <1>2 DEF TakeMutex, Check, Wait, Proceed, WaitTimeout, Running
<1>3. CASE Free(t) /\ pc[t] = "run"
  BY <1>3
<1> QED
  BY <1>1, <1>2, <1>3 DEF GilStep, Enter, EnterHeld, Exit, ExitHeld, Block, Save, BlockIdle,
     Resume, ResumeIdle, HandOff, Yield, ThreadExit, Idle

(* Exact is about the guards and the lock words only.                      *)
LEMMA SameExact ==
  ASSUME CellInv, UNCHANGED <<cellOwner, borrow, held, sole>>,
         NEW c \in Cells, HolderOf(c)' = HolderOf(c)
  PROVE  Exact(c)'
<1>1. Exact(c) /\ \A t : GuardsOn(t, c)' = GuardsOn(t, c)
  BY DEF CellInv, GuardsOn
<1> HIDE DEF GuardsOn, HolderOf
<1> QED
  BY <1>1 DEF Exact, Tally

(* Nothing about the borrows themselves depends on Gil's variables.        *)
LEMMA GilKeeps ==
  ASSUME IInv, IInv', CellInv, NEW t \in Threads, GilStep(t)
  PROVE  CellInv'
<1>1. ThreadStep(t) /\ cellVars' = cellVars
  BY CellStepGil
<1>2. CellTypeOK' /\ Counted' /\ \A c \in Cells : Exact(c)'
  <2>1. CellTypeOK'
    BY <1>1 DEF IInv, CellInv, CellTypeOK, cellVars
  <2>2. Counted'
    BY <1>1 DEF CellInv, Counted, cellVars
  <2>3. \A c \in Cells : Exact(c)'
    <3>1. \A c \in Cells : HolderOf(c)' = HolderOf(c)
      BY <1>1 DEF HolderOf, cellVars
    <3> QED
      BY <1>1, <3>1, SameExact DEF cellVars
  <2> QED
    BY <2>1, <2>2, <2>3
<1>3. Biased'
  <2>1. Biased /\ pc[t] # "register" /\ (Running(t) => Free(t))
        /\ draining \in Threads \cup {None}
    BY StuckStays DEF CellInv, CellTypeOK
  <2>2. draining # None => pc'[draining] = "register" \/ Running(draining)'
    <3>1. ASSUME draining # None
          PROVE  pc'[draining] = "register" \/ Running(draining)'
      <4>1. PICK d \in Threads : d = draining
        BY <2>1, <3>1
      <4>2. d # t /\ (pc[d] = "register" \/ Running(d))
        BY <2>1, <3>1, <4>1 DEF Biased, Free, Running
      <4>3. pc'[d] = "register" \/ Running(d)'
        BY <1>1, <4>2, OthersStay
      <4> QED
        BY <1>1, <4>1, <4>3 DEF cellVars, Running
    <3> QED
      BY <3>1
  <2>3. \A u \in Threads : pc'[u] = "publish" \/ Running(u)' => pc[u] = "publish" \/ Running(u)
    BY <1>1, <2>1, OthersStay, PlaceStep
  <2> QED
    BY <1>1, <2>1, <2>2, <2>3 DEF Biased, cellVars
<1>4. Spinning'
  <2>1. ASSUME NEW u \in Threads, want[u] # NoRequest
        PROVE  Running(u)'
    <3>1. Running(u)
      BY <2>1 DEF CellInv, Spinning
    <3>2. u # t
      BY <2>1, <3>1, StuckStays DEF Free
    <3> QED
      BY <1>1, <3>1, <3>2, OthersStay
  <2> QED
    BY <1>1, <2>1 DEF CellInv, Spinning, cellVars
<1> QED
  BY <1>1, <1>2, <1>3, <1>4, LevelStep, AwayKept DEF CellInv, cellVars

--------------------------------------------------------------------------------
(* Registration and the revocation of the bias.                            *)

(* A step that leaves the guards, the lock words and the counters alone.   *)
LEMMA SameGuards ==
  ASSUME CellInv, IInv', UNCHANGED <<cellOwner, borrow, held, live, lockHolder, frames>>,
         sole' = sole, first' = first \/ first = None, first' \in Threads \cup {None},
         shared' \in BOOLEAN, draining' \in Threads \cup {None},
         want' \in [Threads -> Request \cup {NoRequest}],
         awaits' \in [Threads -> Locks \cup {None}]
  PROVE  CellTypeOK' /\ Counted' /\ (\A c \in Cells : Exact(c)') /\ Levelled'
<1>1. CellTypeOK'
  BY DEF IInv, CellInv, CellTypeOK
<1>2. first = None => sole = 0
  BY DEF CellInv, Biased
<1>3. Counted'
  <2>1. ASSUME NEW t \in Threads
        PROVE  Len(held'[t]) = live'[t] + IF t = first' THEN sole' ELSE 0
    <3>1. Len(held[t]) = live[t] + IF t = first THEN sole ELSE 0
      BY DEF CellInv, Counted
    <3>2. (IF t = first THEN sole ELSE 0) = IF t = first' THEN sole' ELSE 0
      BY <1>2, NoneAssumption DEF CellInv, CellTypeOK
    <3> QED
      BY <3>1, <3>2
  <2> QED
    BY <2>1 DEF CellInv, Counted
<1>4. \A c \in Cells : HolderOf(c)' = HolderOf(c)
  BY <1>2 DEF HolderOf
<1>5. \A c \in Cells : Exact(c)'
  BY <1>4, SameExact
<1>6. Levelled'
  BY DEF CellInv, Levelled
<1> QED
  BY <1>1, <1>3, <1>5, <1>6

LEMMA RegisterKeeps ==
  ASSUME IInv, IInv', CellInv, NEW t \in Threads, RegisterKnown(t)
  PROVE  CellInv'
<1>1. /\ Register(t) /\ ThreadStep(t) /\ pc[t] = "register" /\ frames' = frames
      /\ UNCHANGED <<shared, sole, draining, cellOwner, borrow, held, live, want,
                     lockHolder, awaits>>
      /\ first' = IF shared \/ first # None THEN first ELSE t
      /\ draining # t /\ (shared \/ first \in {None, t})
  BY DEF RegisterKnown, Register, ThreadStep, AcquireStep
<1>2. CellTypeOK' /\ Counted' /\ (\A c \in Cells : Exact(c)') /\ Levelled'
  BY <1>1, SameGuards DEF CellInv, CellTypeOK
<1>3. ~Running(t) /\ pc'[t] = "publish" /\ ~Running(t)'
  BY <1>1, PlaceStep DEF Running
<1>4. Biased'
  <2>1. Biased /\ draining \in Threads \cup {None} /\ sole \in Nat
    BY DEF CellInv, CellTypeOK
  <2>2. draining # None => pc'[draining] = "register" \/ Running(draining)'
    BY <1>1, <2>1, OthersStay DEF Biased
  <2>3. \A u \in Threads : ~shared /\ (pc'[u] = "publish" \/ Running(u)') => first' = u
    <3>1. ASSUME NEW u \in Threads \ {t}, ~shared, pc'[u] = "publish" \/ Running(u)'
          PROVE  first' = u
      <4>1. first = u
        BY <1>1, <2>1, <3>1, OthersStay DEF Biased
      <4> QED
        BY <1>1, <4>1, NoneAssumption
    <3>2. ~shared => first' = t
      BY <1>1
    <3> QED
      BY <3>1, <3>2
  <2> QED
    BY <1>1, <2>1, <2>2, <2>3 DEF Biased
<1>5. Spinning'
  BY <1>1, <1>3, OthersStay DEF CellInv, Spinning
<1> QED
  BY <1>1, <1>2, <1>4, <1>5, AwayKept DEF CellInv

LEMMA RevokeKeeps ==
  ASSUME IInv, IInv', CellInv, NEW t \in Threads, RevokeOnAcquire(t) \/ MarkShared(t)
  PROVE  CellInv'
<1>1. /\ ~shared /\ shared' = TRUE /\ draining' = t
      /\ UNCHANGED <<vars, first, sole, cellOwner, borrow, held, live, want, lockHolder, awaits>>
      /\ pc[t] = "register" \/ Running(t)
  BY DEF RevokeOnAcquire, MarkShared, Revoke, CanTouch
<1>2. UNCHANGED <<pc, goal, guards, frames>>
  BY <1>1 DEF vars
<1>3. CellTypeOK' /\ Counted' /\ (\A c \in Cells : Exact(c)') /\ Levelled'
  BY <1>1, <1>2, SameGuards DEF CellInv, CellTypeOK
<1>4. Biased'
  BY <1>1, <1>2, NoneAssumption DEF CellInv, Biased, Running
<1>5. AwayBlocked' /\ Spinning'
  BY <1>1, <1>2 DEF CellInv, AwayBlocked, Excused, BlockedScope, Running, Spinning
<1> QED
  BY <1>3, <1>4, <1>5 DEF CellInv

LEMMA DrainedKeeps ==
  ASSUME IInv, IInv', CellInv, NEW t \in Threads, Drained(t)
  PROVE  CellInv'
<1>1. /\ draining = t /\ sole = 0 /\ draining' = None
      /\ UNCHANGED <<shared, first, sole, cellOwner, borrow, held, live, want, lockHolder, awaits>>
      /\ IF pc[t] = "register" THEN Register(t) ELSE UNCHANGED vars
  BY DEF Drained
<1>2. UNCHANGED frames /\ shared
  BY <1>1, NoneAssumption DEF Register, vars, CellInv, CellTypeOK, Biased
<1>3. CellTypeOK' /\ Counted' /\ (\A c \in Cells : Exact(c)') /\ Levelled'
  BY <1>1, <1>2, SameGuards DEF CellInv, CellTypeOK
<1>4. Biased'
  BY <1>1, <1>2 DEF CellInv, Biased
<1>5. CASE pc[t] = "register"
  <2>1. Register(t) /\ ThreadStep(t) /\ ~Running(t)
    BY <1>1, <1>5 DEF ThreadStep, AcquireStep, Running
  <2>2. Spinning'
    BY <1>1, <2>1, OthersStay DEF CellInv, Spinning
  <2> QED
    BY <1>1, <1>3, <1>4, <2>1, <2>2, AwayKept DEF CellInv
<1>6. CASE UNCHANGED vars
  <2>1. AwayBlocked' /\ Spinning'
    BY <1>1, <1>6 DEF CellInv, AwayBlocked, Excused, BlockedScope, Running, Spinning, vars
  <2> QED
    BY <1>3, <1>4, <2>1 DEF CellInv
<1> QED
  BY <1>1, <1>5, <1>6

--------------------------------------------------------------------------------
(* Spinning, and the locks of the Python program.                          *)

LEMMA ContendKeeps ==
  ASSUME IInv, CellInv, NEW t \in Threads, NEW c \in Cells, NEW m \in BOOLEAN, Contend(t, c, m)
  PROVE  CellInv'
<1>1. /\ CanTouch(t) /\ shared /\ cellOwner[c] \notin {None, t}
      /\ want' = [want EXCEPT ![t] = [cell |-> c, mut |-> m]]
      /\ UNCHANGED <<vars, shared, first, sole, draining, cellOwner, borrow, held, live,
                     lockHolder, awaits>>
  BY DEF Contend
<1>2. UNCHANGED <<pc, goal, guards, frames>> /\ want \in [Threads -> Request \cup {NoRequest}]
      /\ [cell |-> c, mut |-> m] \in Request
  BY <1>1 DEF vars, CellInv, CellTypeOK, Request
<1>3. IInv'
  BY <1>1, NextInv
<1>4. CellTypeOK' /\ Counted' /\ (\A d \in Cells : Exact(d)') /\ Levelled'
  BY <1>1, <1>2, <1>3, SameGuards DEF CellInv, CellTypeOK
<1>5. Biased' /\ AwayBlocked'
  BY <1>1, <1>2 DEF CellInv, Biased, AwayBlocked, Excused, BlockedScope, Running
<1>6. Spinning'
  <2>1. \A u \in Threads \ {t} : want'[u] = want[u]
    BY <1>1, <1>2
  <2>2. want'[t].cell = c
    BY <1>1, <1>2
  <2>3. Running(t) /\ \A u \in Threads : Running(u)' <=> Running(u)
    BY <1>1, <1>2 DEF CanTouch, Running
  <2> QED
    BY <1>1, <2>1, <2>2, <2>3 DEF CellInv, Spinning
<1> QED
  BY <1>4, <1>5, <1>6 DEF CellInv

LEMMA LockKeeps ==
  ASSUME IInv, IInv', CellInv, NEW t \in Threads, LockStep(t)
  PROVE  CellInv'
<1>1. PICK l \in Locks : TakeLock(t, l) \/ AwaitLock(t, l) \/ GrantLock(t, l) \/ FreeLock(t, l)
  BY DEF LockStep
<1>2. /\ UNCHANGED <<shared, first, sole, draining, cellOwner, borrow, held, live, want>>
      /\ lockHolder' \in [Locks -> Threads \cup {None}]
      /\ awaits' \in [Threads -> Locks \cup {None}]
  BY <1>1 DEF TakeLock, AwaitLock, GrantLock, FreeLock, CellInv, CellTypeOK
<1>3. CellTypeOK' /\ Counted' /\ \A c \in Cells : Exact(c)'
  <2>1. CellTypeOK'
    BY <1>2 DEF IInv, CellInv, CellTypeOK
  <2>2. Counted'
    BY <1>2 DEF CellInv, Counted
  <2>3. \A c \in Cells : HolderOf(c)' = HolderOf(c)
    BY <1>2 DEF HolderOf
  <2> QED
    BY <1>2, <2>1, <2>2, <2>3, SameExact
<1>4. CASE UNCHANGED vars
  <2>1. Biased' /\ AwayBlocked'
    BY <1>2, <1>4 DEF vars, CellInv, Biased, AwayBlocked, Excused, BlockedScope, Running
  <2>2. Levelled' /\ Spinning'
    BY <1>2, <1>4 DEF vars, CellInv, Levelled, Spinning, Running
  <2> QED
    BY <1>3, <2>1, <2>2 DEF CellInv
<1>5. CASE AwaitLock(t, l)
  <2>1. CanTouch(t) /\ Block(t) /\ ThreadStep(t)
    BY <1>5 DEF AwaitLock, ThreadStep, BlockStep
  <2>2. /\ pc[t] = "run" /\ draining = None
        /\ \A u \in Threads : want[u] = NoRequest
    BY <2>1, TouchFacts
  <2>3. \A u \in Threads : pc'[u] = "publish" \/ Running(u)' => pc[u] = "publish" \/ Running(u)
    BY <2>1, <2>2, OthersStay, PlaceStep
  <2>4. Biased' /\ Spinning'
    BY <1>2, <2>2, <2>3 DEF CellInv, Biased, Spinning
  <2>5. Levelled'
    <3>1. frames[t] \in Seq(Frame) /\ frames \in [Threads -> Seq(Frame)]
      BY ThreadFacts DEF IInv, TypeOK
    <3>2. PICK f : frames' = [frames EXCEPT ![t] = Append(frames[t], f)]
      BY <2>1, <3>1 DEF Block, PushFrame
    <3>3. ASSUME NEW u \in Threads
          PROVE  1..Len(frames[u]) \subseteq 1..Len(frames'[u])
      BY <3>1, <3>2
    <3> QED
      BY <1>2, <3>3 DEF CellInv, Levelled
  <2> QED
    BY <1>2, <1>3, <2>1, <2>4, <2>5, AwayKept DEF CellInv
<1> QED
  BY <1>1, <1>4, <1>5 DEF TakeLock, GrantLock, FreeLock

--------------------------------------------------------------------------------
(* Borrowing.                                                              *)

LEMMA OneMore ==
  ASSUME held \in [Threads -> Seq(Guard)], NEW t \in Threads, NEW g \in Guard,
         held' = [held EXCEPT ![t] = Append(@, g)]
  PROVE  LET n == Len(held[t]) + 1 IN
         /\ held' \in [Threads -> Seq(Guard)]
         /\ n \in Nat \ {0} /\ Len(held'[t]) = n /\ DOMAIN held'[t] = 1..n
         /\ DOMAIN held[t] = 1..n - 1
         /\ held'[t][n] = g /\ \A i \in 1..n - 1 : held'[t][i] = held[t][i]
         /\ \A u \in Threads \ {t} : held'[u] = held[u]
<1>1. held[t] \in Seq(Guard) /\ Append(held[t], g) \in Seq(Guard)
  OBVIOUS
<1>2. held'[t] = Append(held[t], g) /\ held' \in [Threads -> Seq(Guard)]
      /\ \A u \in Threads \ {t} : held'[u] = held[u]
  BY <1>1
<1> QED
  BY <1>1, <1>2

LEMMA OneMoreOn ==
  ASSUME held \in [Threads -> Seq(Guard)], NEW t \in Threads, NEW g \in Guard,
         held' = [held EXCEPT ![t] = Append(@, g)]
  PROVE  LET n == Len(held[t]) + 1 IN
         /\ \A c : GuardsOn(t, c)' = IF c = g.cell THEN GuardsOn(t, c) \cup {n} ELSE GuardsOn(t, c)
         /\ \A c : n \notin GuardsOn(t, c) /\ IsFiniteSet(GuardsOn(t, c))
         /\ \A c, u : u \in Threads \ {t} => GuardsOn(u, c)' = GuardsOn(u, c)
<1> DEFINE n == Len(held[t]) + 1
<1>1. /\ n \in Nat \ {0} /\ DOMAIN held'[t] = 1..n /\ DOMAIN held[t] = 1..n - 1
      /\ held'[t][n] = g /\ \A i \in 1..n - 1 : held'[t][i] = held[t][i]
      /\ \A u \in Threads \ {t} : held'[u] = held[u]
  BY OneMore
<1> HIDE DEF n
<1>2. 1..n = (1..n - 1) \cup {n} /\ n \notin 1..n - 1
  BY <1>1
<1>3. \A c : n \notin GuardsOn(t, c) /\ GuardsOn(t, c) \subseteq 1..n - 1
  BY <1>1, <1>2 DEF GuardsOn
<1>4. IsFiniteSet(1..n - 1)
  BY <1>1, FS_Interval
<1>5. \A c : IsFiniteSet(GuardsOn(t, c))
  BY <1>3, <1>4, FS_Subset
<1>6. \A c : GuardsOn(t, c)' = IF c = g.cell THEN GuardsOn(t, c) \cup {n} ELSE GuardsOn(t, c)
  BY <1>1, <1>2 DEF GuardsOn
<1>7. \A c, u : u \in Threads \ {t} => GuardsOn(u, c)' = GuardsOn(u, c)
  BY <1>1 DEF GuardsOn
<1> QED
  BY <1>3, <1>5, <1>6, <1>7 DEF n

(* A cell nobody else has a guard on.                                      *)
LEMMA MineTally ==
  ASSUME IInv, CellInv, NEW t \in Threads, NEW c \in Cells, HolderOf(c) \in {None, t}
  PROVE  Tally(t, c) /\ \A u \in Threads \ {t} : GuardsOn(u, c) = {}
<1>1. Exact(c)
  BY DEF CellInv
<1>2. HolderOf(c) = None => GuardsOn(t, c) = {} /\ borrow[c] = 0
  BY <1>1, NoneAssumption DEF Exact
<1>3. Tally(t, c)
  BY <1>1, <1>2, FS_EmptySet, NoneAssumption DEF Exact, Tally
<1> QED
  BY <1>1, <1>3, NoneAssumption DEF Exact

(* Claim keeps the tally of the cell borrowed and of the others.           *)
LEMMA ClaimTally ==
  ASSUME IInv, CellInv, NEW t \in Threads, NEW c \in Cells, NEW m \in BOOLEAN, NEW k \in BOOLEAN,
         Claimable(c, m), Claim(t, c, m, k), NEW d \in Cells, Tally(t, d)
  PROVE  Tally(t, d)'
<1> DEFINE g == [cell |-> c, mut |-> m, locked |-> k, level |-> Len(frames[t])]
<1> DEFINE n == Len(held[t]) + 1
<1>1. /\ held \in [Threads -> Seq(Guard)] /\ held' = [held EXCEPT ![t] = Append(@, g)]
      /\ borrow' = [borrow EXCEPT ![c] = IF m THEN -1 ELSE @ + 1]
      /\ borrow \in [Cells -> Nat \cup {-1}]
  BY DEF CellInv, CellTypeOK, Claim
<1>2. g \in Guard /\ g.cell = c /\ g.mut = m
  BY ThreadFacts DEF Guard
<1> HIDE DEF g
<1>3. /\ GuardsOn(t, d)' = IF d = g.cell THEN GuardsOn(t, d) \cup {n} ELSE GuardsOn(t, d)
      /\ n \notin GuardsOn(t, d) /\ IsFiniteSet(GuardsOn(t, d))
  BY <1>1, <1>2, OneMoreOn
<1>4. /\ held'[t][n] = g /\ \A i \in GuardsOn(t, d) : held'[t][i] = held[t][i]
  BY <1>1, <1>2, OneMore DEF GuardsOn
<1> HIDE DEF n
<1>5. CASE d # c
  <2>1. GuardsOn(t, d)' = GuardsOn(t, d) /\ borrow'[d] = borrow[d]
    BY <1>1, <1>2, <1>3, <1>5
  <2> HIDE DEF GuardsOn
  <2> QED
    BY <1>4, <2>1 DEF Tally
<1>6. CASE d = c /\ m
  <2>1. borrow[d] = 0 /\ borrow'[d] = -1
    BY <1>1, <1>6 DEF Claimable
  <2>2. GuardsOn(t, d) = {}
    BY <1>3, <2>1, FS_EmptySet DEF Tally
  <2>3. GuardsOn(t, d)' = {n}
    BY <1>2, <1>3, <1>6, <2>2
  <2> QED
    BY <1>2, <1>4, <1>6, <2>1, <2>3 DEF Tally
<1>7. CASE d = c /\ ~m
  <2>1. /\ borrow[d] = Cardinality(GuardsOn(t, d)) /\ borrow'[d] = borrow[d] + 1
        /\ \A i \in GuardsOn(t, d) : ~held[t][i].mut
    BY <1>1, <1>7 DEF Claimable, Tally
  <2>2. Cardinality(GuardsOn(t, d) \cup {n}) = Cardinality(GuardsOn(t, d)) + 1
    BY <1>3, FS_AddElement
  <2>3. GuardsOn(t, d)' = GuardsOn(t, d) \cup {n}
    BY <1>2, <1>3, <1>7
  <2> HIDE DEF GuardsOn
  <2> QED
    BY <1>2, <1>4, <1>7, <2>1, <2>2, <2>3 DEF Tally
<1> QED
  BY <1>5, <1>6, <1>7

(* What both borrow paths do.                                              *)
LEMMA BorrowFacts ==
  ASSUME IInv, CellInv, NEW t \in Threads, NEW c \in Cells, NEW m \in BOOLEAN, NEW k \in BOOLEAN,
         CanTouch(t), Claimable(c, m), Claim(t, c, m, k), UNCHANGED vars
  PROVE  /\ held' \in [Threads -> Seq(Guard)] /\ borrow' \in [Cells -> Nat \cup {-1}]
         /\ Len(held'[t]) = Len(held[t]) + 1
         /\ \A u \in Threads \ {t} : held'[u] = held[u]
         /\ \A d \in Cells \ {c} : borrow'[d] = borrow[d]
         /\ borrow'[c] # 0
         /\ \A d \in Cells, u \in Threads \ {t} : GuardsOn(u, d)' = GuardsOn(u, d)
         /\ \A i \in DOMAIN held'[t] :
              \/ i \in DOMAIN held[t] /\ held'[t][i] = held[t][i]
              \/ IF k THEN held'[t][i].locked ELSE ~held'[t][i].locked
         /\ Levelled' /\ AwayBlocked'
<1> DEFINE g == [cell |-> c, mut |-> m, locked |-> k, level |-> Len(frames[t])]
<1>1. /\ held \in [Threads -> Seq(Guard)] /\ held' = [held EXCEPT ![t] = Append(@, g)]
      /\ borrow' = [borrow EXCEPT ![c] = IF m THEN -1 ELSE @ + 1]
      /\ borrow \in [Cells -> Nat \cup {-1}]
  BY DEF CellInv, CellTypeOK, Claim
<1>2. g \in Guard /\ g.level = Len(frames[t]) /\ g.locked = k
  BY ThreadFacts DEF Guard
<1> HIDE DEF g
<1>3. /\ held' \in [Threads -> Seq(Guard)] /\ Len(held[t]) + 1 \in Nat \ {0}
      /\ Len(held'[t]) = Len(held[t]) + 1 /\ DOMAIN held'[t] = 1..Len(held[t]) + 1
      /\ DOMAIN held[t] = 1..(Len(held[t]) + 1) - 1
      /\ held'[t][Len(held[t]) + 1] = g
      /\ \A i \in 1..(Len(held[t]) + 1) - 1 : held'[t][i] = held[t][i]
      /\ \A u \in Threads \ {t} : held'[u] = held[u]
  BY <1>1, <1>2, OneMore, SMTT(30)
<1>4. \A i \in DOMAIN held'[t] :
        (i \in DOMAIN held[t] /\ held'[t][i] = held[t][i]) \/ held'[t][i] = g
  BY <1>3
<1>10. IF k THEN g.locked ELSE ~g.locked
  BY <1>2
<1>5. /\ borrow' \in [Cells -> Nat \cup {-1}] /\ borrow'[c] # 0
      /\ \A d \in Cells \ {c} : borrow'[d] = borrow[d]
  BY <1>1 DEF Claimable
<1>6. UNCHANGED <<pc, goal, guards, frames>>
  BY DEF vars
<1>7. Levelled'
  <2>1. g.level \in 1..Len(frames[t])
    BY <1>2, TouchFacts
  <2> QED
    BY <1>3, <1>4, <1>6, <2>1 DEF CellInv, Levelled
<1>8. AwayBlocked'
  BY <1>3, <1>6 DEF CanTouch, CellInv, AwayBlocked, Excused, BlockedScope, Running
<1>9. \A d \in Cells, u \in Threads \ {t} : GuardsOn(u, d)' = GuardsOn(u, d)
  BY <1>1, <1>2, OneMoreOn
<1> QED
  BY <1>3, <1>4, <1>5, <1>7, <1>8, <1>9, <1>10

LEMMA BiasedKeeps ==
  ASSUME IInv, IInv', CellInv, NEW t \in Threads, NEW c \in Cells, NEW m \in BOOLEAN,
         BorrowBiased(t, c, m)
  PROVE  CellInv'
<1>1. /\ CanTouch(t) /\ ~shared /\ Claimable(c, m) /\ Claim(t, c, m, FALSE)
      /\ sole' = sole + 1
      /\ UNCHANGED <<vars, shared, first, draining, cellOwner, live, want, lockHolder, awaits>>
  BY DEF BorrowBiased
<1>2. /\ first = t /\ draining = None /\ sole \in Nat
      /\ \A u \in Threads : live[u] = 0 /\ want[u] = NoRequest
      /\ \A d \in Cells : cellOwner[d] = None
  BY <1>1, TouchFacts DEF CellInv, CellTypeOK, Biased
<1>3. /\ held' \in [Threads -> Seq(Guard)] /\ borrow' \in [Cells -> Nat \cup {-1}]
      /\ Len(held'[t]) = Len(held[t]) + 1
      /\ \A u \in Threads \ {t} : held'[u] = held[u]
      /\ \A d \in Cells, u \in Threads \ {t} : GuardsOn(u, d)' = GuardsOn(u, d)
      /\ \A i \in DOMAIN held'[t] : (i \in DOMAIN held[t] /\ held'[t][i] = held[t][i])
                                    \/ ~held'[t][i].locked
      /\ Levelled' /\ AwayBlocked'
  <2>1. PICK k \in BOOLEAN : ~k /\ Claim(t, c, m, k)
    BY <1>1
  <2>2. CanTouch(t) /\ Claimable(c, m) /\ UNCHANGED vars
    BY <1>1
  <2>3. \A i \in DOMAIN held'[t] : (i \in DOMAIN held[t] /\ held'[t][i] = held[t][i])
                                     \/ IF k THEN held'[t][i].locked ELSE ~held'[t][i].locked
    BY <2>1, <2>2, BorrowFacts
  <2>4. \A i \in DOMAIN held'[t] : (i \in DOMAIN held[t] /\ held'[t][i] = held[t][i])
                                     \/ ~held'[t][i].locked
    BY <2>1, <2>3
  <2> QED
    BY <2>1, <2>2, <2>4, BorrowFacts
<1>4. CellTypeOK'
  BY <1>1, <1>2, <1>3 DEF IInv, CellInv, CellTypeOK
<1>5. Counted'
  <2>1. \A u \in Threads : Len(held[u]) = live[u] + IF u = first THEN sole ELSE 0
    BY DEF CellInv, Counted
  <2>2. \A u \in Threads \ {t} : held[u] = <<>>
    BY <1>2, <2>1, EmptySeq DEF CellInv, CellTypeOK
  <2>3. \A u \in Threads : Len(held'[u]) = live'[u] + IF u = first' THEN sole' ELSE 0
    BY <1>1, <1>2, <1>3, <2>1
  <2>4. \A i \in DOMAIN held[t] : ~held[t][i].locked
    <3>1. ASSUME NEW i \in DOMAIN held[t], sole = 0
          PROVE  FALSE
      <4>1. Len(held[t]) = 0
        BY <1>2, <2>1, <3>1
      <4>2. held[t] = <<>>
        BY <4>1, EmptySeq DEF CellInv, CellTypeOK
      <4> QED
        BY <3>1, <4>2
    <3> QED
      BY <3>1 DEF CellInv, Counted
  <2>5. \A u \in Threads : \A i \in DOMAIN held'[u] : ~held'[u][i].locked
    BY <1>3, <2>2, <2>4
  <2> QED
    BY <1>1, <1>2, <2>3, <2>5 DEF Counted
<1>6. ASSUME NEW d \in Cells
      PROVE  Exact(d)'
  <2>1. HolderOf(d) \in {None, t} /\ HolderOf(d)' = t
    BY <1>1, <1>2 DEF HolderOf
  <2>2. Tally(t, d) /\ \A u \in Threads \ {t} : GuardsOn(u, d) = {}
    BY <2>1, MineTally
  <2>3. Tally(t, d)' /\ \A u \in Threads \ {t} : GuardsOn(u, d)' = {}
    BY <1>1, <1>3, <2>2, ClaimTally
  <2> QED
    BY <1>1, <1>2, <2>1, <2>3, NoneAssumption DEF Exact
<1>7. Biased' /\ Spinning'
  BY <1>1, <1>2, NoneAssumption DEF CellInv, Biased, Spinning, Running, vars
<1> QED
  BY <1>3, <1>4, <1>5, <1>6, <1>7 DEF CellInv

LEMMA LockedKeeps ==
  ASSUME IInv, IInv', CellInv, NEW t \in Threads, NEW c \in Cells, NEW m \in BOOLEAN,
         BorrowLocked(t, c, m)
  PROVE  CellInv'
<1>1. /\ CanTouch(t) /\ shared /\ Claimable(c, m) /\ Claim(t, c, m, TRUE)
      /\ cellOwner[c] \in {None, t} /\ cellOwner' = [cellOwner EXCEPT ![c] = t]
      /\ live' = [live EXCEPT ![t] = @ + 1]
      /\ UNCHANGED <<vars, shared, first, sole, draining, want, lockHolder, awaits>>
  BY DEF BorrowLocked
<1>2. /\ sole = 0 /\ draining = None
      /\ \A u \in Threads : want[u] = NoRequest
      /\ live \in [Threads -> Nat] /\ cellOwner \in [Cells -> Threads \cup {None}]
  BY <1>1, TouchFacts DEF CellInv, CellTypeOK
<1>3. /\ held' \in [Threads -> Seq(Guard)] /\ borrow' \in [Cells -> Nat \cup {-1}]
      /\ Len(held'[t]) = Len(held[t]) + 1
      /\ \A u \in Threads \ {t} : held'[u] = held[u]
      /\ \A d \in Cells \ {c} : borrow'[d] = borrow[d]
      /\ borrow'[c] # 0
      /\ \A d \in Cells, u \in Threads \ {t} : GuardsOn(u, d)' = GuardsOn(u, d)
      /\ \A i \in DOMAIN held'[t] : (i \in DOMAIN held[t] /\ held'[t][i] = held[t][i])
                                    \/ held'[t][i].locked
      /\ Levelled' /\ AwayBlocked'
  <2>1. ASSUME NEW k \in BOOLEAN, Claim(t, c, m, k)
        PROVE  /\ held' \in [Threads -> Seq(Guard)] /\ borrow' \in [Cells -> Nat \cup {-1}]
               /\ Len(held'[t]) = Len(held[t]) + 1
               /\ \A u \in Threads \ {t} : held'[u] = held[u]
               /\ \A d \in Cells \ {c} : borrow'[d] = borrow[d]
               /\ borrow'[c] # 0
               /\ \A d \in Cells, u \in Threads \ {t} : GuardsOn(u, d)' = GuardsOn(u, d)
               /\ \A i \in DOMAIN held'[t] : (i \in DOMAIN held[t] /\ held'[t][i] = held[t][i])
                                             \/ IF k THEN held'[t][i].locked ELSE ~held'[t][i].locked
               /\ Levelled' /\ AwayBlocked'
    <3>1. CanTouch(t) /\ Claimable(c, m) /\ UNCHANGED vars
      BY <1>1
    <3> QED
      BY <2>1, <3>1, BorrowFacts
  <2>2. PICK k \in BOOLEAN : k = TRUE /\ Claim(t, c, m, k)
    BY <1>1
  <2> HIDE DEF GuardsOn, Levelled, AwayBlocked, Claim
  <2> QED
    BY <2>1, <2>2
<1>4. CellTypeOK'
  BY <1>1, <1>2, <1>3 DEF IInv, CellInv, CellTypeOK
<1>5. Counted'
  <2>1. /\ \A u \in Threads : Len(held[u]) = live[u]
        /\ \A u \in Threads : \A i \in DOMAIN held[u] : held[u][i].locked
    BY <1>2 DEF CellInv, Counted
  <2>2. \A u \in Threads : Len(held'[u]) = live'[u]
    BY <1>1, <1>2, <1>3, <2>1
  <2>3. \A u \in Threads : \A i \in DOMAIN held'[u] : held'[u][i].locked
    BY <1>3, <2>1
  <2> QED
    BY <1>1, <1>2, <2>2, <2>3 DEF Counted
<1>6. Exact(c)'
  <2>1. HolderOf(c) \in {None, t} /\ HolderOf(c)' = t
    BY <1>1, <1>2 DEF HolderOf
  <2>2. Tally(t, c) /\ \A u \in Threads \ {t} : GuardsOn(u, c) = {}
    BY <2>1, MineTally
  <2>3. Tally(t, c)' /\ \A u \in Threads \ {t} : GuardsOn(u, c)' = {}
    BY <1>1, <1>3, <2>2, ClaimTally
  <2> QED
    BY <1>3, <2>1, <2>3, NoneAssumption DEF Exact
<1>7. ASSUME NEW d \in Cells \ {c}
      PROVE  Exact(d)'
  <2>1. HolderOf(d)' = HolderOf(d) /\ cellOwner'[d] = cellOwner[d] /\ Exact(d)
        /\ HolderOf(d) \in Threads \cup {None}
    BY <1>1, <1>2 DEF HolderOf, CellInv
  <2>3. GuardsOn(t, d)' = GuardsOn(t, d) /\ \A i \in GuardsOn(t, d) : held'[t][i] = held[t][i]
    <3> DEFINE g == [cell |-> c, mut |-> m, locked |-> TRUE, level |-> Len(frames[t])]
    <3>1. g \in Guard /\ g.cell = c
      BY ThreadFacts DEF Guard
    <3> HIDE DEF g
    <3>2. held \in [Threads -> Seq(Guard)] /\ held' = [held EXCEPT ![t] = Append(@, g)]
      BY <1>1 DEF CellInv, CellTypeOK, Claim, g
    <3>3. GuardsOn(t, d)' = GuardsOn(t, d)
      BY <3>1, <3>2, OneMoreOn
    <3> QED
      BY <3>1, <3>2, <3>3, OneMore DEF GuardsOn
  <2>4. ASSUME NEW u \in Threads
        PROVE  /\ GuardsOn(u, d)' = GuardsOn(u, d)
               /\ \A i \in GuardsOn(u, d) : held'[u][i] = held[u][i]
    BY <1>3, <2>3
  <2>5. ASSUME NEW u \in Threads, Tally(u, d)
        PROVE  Tally(u, d)'
    <3> HIDE DEF GuardsOn
    <3> QED
      BY <1>3, <2>4, <2>5, ZenonT(60) DEF Tally
  <2> QED
    BY <1>1, <1>2, <1>3, <2>1, <2>4, <2>5 DEF Exact
<1>8. Biased' /\ Spinning'
  BY <1>1, <1>2 DEF CellInv, Biased, Spinning, Running, vars
<1> QED
  BY <1>3, <1>4, <1>5, <1>6, <1>7, <1>8 DEF CellInv

--------------------------------------------------------------------------------
(* Dropping a guard.                                                       *)

LEMMA OneLess ==
  ASSUME held \in [Threads -> Seq(Guard)], NEW t \in Threads, held[t] # <<>>,
         held' = [held EXCEPT ![t] = SubSeq(@, 1, Len(@) - 1)]
  PROVE  LET n == Len(held[t]) IN
         /\ held' \in [Threads -> Seq(Guard)]
         /\ n \in Nat \ {0} /\ Len(held'[t]) = n - 1 /\ DOMAIN held'[t] = 1..n - 1
         /\ DOMAIN held[t] = 1..n /\ Newest(t) = held[t][n] /\ Newest(t) \in Guard
         /\ \A i \in 1..n - 1 : held'[t][i] = held[t][i]
         /\ \A u \in Threads \ {t} : held'[u] = held[u]
<1> DEFINE n == Len(held[t])
<1> DEFINE front == SubSeq(held[t], 1, n - 1)
<1>1. held[t] \in Seq(Guard) /\ n \in Nat \ {0} /\ DOMAIN held[t] = 1..n
  BY EmptySeq
<1>2. Newest(t) = held[t][n] /\ held[t][n] \in Guard
  BY <1>1, ElementOfSeq DEF Newest
<1>3. front \in Seq(Guard) /\ Len(front) = n - 1 /\ \A i \in 1..n - 1 : front[i] = held[t][i]
  BY <1>1, FrontFacts
<1>4. held'[t] = front /\ \A u \in Threads \ {t} : held'[u] = held[u]
  OBVIOUS
<1>5. held' \in [Threads -> Seq(Guard)]
  BY <1>3
<1> HIDE DEF front, n
<1>6. DOMAIN held'[t] = 1..n - 1
  BY <1>1, <1>3, <1>4
<1> QED
  BY <1>1, <1>2, <1>3, <1>4, <1>5, <1>6 DEF n

LEMMA OneLessOn ==
  ASSUME held \in [Threads -> Seq(Guard)], NEW t \in Threads, held[t] # <<>>,
         held' = [held EXCEPT ![t] = SubSeq(@, 1, Len(@) - 1)]
  PROVE  LET n == Len(held[t]) IN
         /\ \A c : GuardsOn(t, c)' = GuardsOn(t, c) \ {n}
         /\ \A c : IsFiniteSet(GuardsOn(t, c)) /\ (n \in GuardsOn(t, c) <=> Newest(t).cell = c)
         /\ \A c, u : u \in Threads \ {t} => GuardsOn(u, c)' = GuardsOn(u, c)
         /\ \A c : \A i \in GuardsOn(t, c) \ {n} : held'[t][i] = held[t][i]
<1> DEFINE n == Len(held[t])
<1>1. /\ n \in Nat \ {0} /\ DOMAIN held'[t] = 1..n - 1 /\ DOMAIN held[t] = 1..n
      /\ Newest(t) = held[t][n] /\ \A i \in 1..n - 1 : held'[t][i] = held[t][i]
      /\ \A u \in Threads \ {t} : held'[u] = held[u]
  BY OneLess
<1> HIDE DEF n
<1>2. 1..n - 1 = (1..n) \ {n} /\ n \in 1..n
  BY <1>1
<1>3. IsFiniteSet(1..n)
  BY <1>1, FS_Interval
<1>4. \A c : IsFiniteSet(GuardsOn(t, c))
  BY <1>1, <1>3, FS_Subset DEF GuardsOn
<1>5. \A c : GuardsOn(t, c)' = GuardsOn(t, c) \ {n}
  BY <1>1, <1>2 DEF GuardsOn
<1>6. \A c : n \in GuardsOn(t, c) <=> Newest(t).cell = c
  BY <1>1, <1>2 DEF GuardsOn
<1>7. \A c, u : u \in Threads \ {t} => GuardsOn(u, c)' = GuardsOn(u, c)
  BY <1>1 DEF GuardsOn
<1>8. \A c : \A i \in GuardsOn(t, c) \ {n} : held'[t][i] = held[t][i]
  BY <1>1, <1>2 DEF GuardsOn
<1> QED
  BY <1>4, <1>5, <1>6, <1>7, <1>8 DEF n

(* The last guard on a cell leaves its borrow word zero, no other does.    *)
LEMMA DropTally ==
  ASSUME IInv, CellInv, NEW t \in Threads, held[t] # <<>>,
         held' = [held EXCEPT ![t] = SubSeq(@, 1, Len(@) - 1)],
         NEW g \in Guard, g = Newest(t),
         borrow' = [borrow EXCEPT ![g.cell] = IF g.mut THEN 0 ELSE @ - 1],
         NEW d \in Cells, Tally(t, d)
  PROVE  /\ Tally(t, d)'
         /\ d = g.cell /\ LastOn(g) => borrow'[d] = 0 /\ GuardsOn(t, d)' = {}
         /\ d = g.cell /\ ~LastOn(g) => borrow'[d] \in Nat \ {0}
         /\ d # g.cell => borrow'[d] = borrow[d]
         /\ borrow'[d] \in Nat \cup {-1}
<1> DEFINE n == Len(held[t])
<1>1. held \in [Threads -> Seq(Guard)] /\ borrow \in [Cells -> Nat \cup {-1}] /\ g.cell \in Cells
  BY DEF CellInv, CellTypeOK, Guard
<1>2. /\ GuardsOn(t, d)' = GuardsOn(t, d) \ {n}
      /\ IsFiniteSet(GuardsOn(t, d)) /\ (n \in GuardsOn(t, d) <=> g.cell = d)
      /\ \A i \in GuardsOn(t, d) \ {n} : held'[t][i] = held[t][i]
  BY <1>1, OneLessOn
<1>3. held[t][n] = g
  BY DEF Newest
<1> HIDE DEF n
<1>4. CASE d # g.cell
  <2>1. GuardsOn(t, d)' = GuardsOn(t, d) /\ borrow'[d] = borrow[d]
    BY <1>1, <1>2, <1>4
  <2>2. \A i \in GuardsOn(t, d) : held'[t][i] = held[t][i]
    BY <1>2, <2>1
  <2> HIDE DEF GuardsOn
  <2> QED
    BY <1>1, <1>4, <2>1, <2>2 DEF Tally
<1>5. CASE d = g.cell /\ g.mut
  <2>1. GuardsOn(t, d) = {n}
    BY <1>2, <1>3, <1>5 DEF Tally
  <2>2. GuardsOn(t, d)' = {} /\ borrow'[d] = 0
    BY <1>1, <1>2, <1>5, <2>1
  <2>3. Tally(t, d)'
    BY <2>2, FS_EmptySet DEF Tally
  <2> QED
    BY <1>5, <2>2, <2>3 DEF LastOn
<1>6. CASE d = g.cell /\ ~g.mut
  <2>1. /\ borrow[d] = Cardinality(GuardsOn(t, d)) /\ n \in GuardsOn(t, d)
        /\ \A i \in GuardsOn(t, d) : ~held[t][i].mut
    BY <1>2, <1>3, <1>6 DEF Tally
  <2>2. /\ Cardinality(GuardsOn(t, d) \ {n}) = Cardinality(GuardsOn(t, d)) - 1
        /\ IsFiniteSet(GuardsOn(t, d) \ {n})
    BY <1>2, <2>1, FS_RemoveElement
  <2>3. borrow'[d] = borrow[d] - 1 /\ borrow'[d] = Cardinality(GuardsOn(t, d) \ {n})
    BY <1>1, <1>6, <2>1, <2>2
  <2>4. borrow'[d] \in Nat
    BY <2>2, <2>3, FS_CardinalityType
  <2>5. borrow'[d] = 0 => GuardsOn(t, d) \ {n} = {}
    BY <2>2, <2>3, FS_EmptySet
  <2>6. Tally(t, d)'
    <3> HIDE DEF GuardsOn
    <3> QED
      BY <1>2, <2>1, <2>3 DEF Tally
  <2>7. LastOn(g) <=> borrow'[d] = 0
    BY <1>1, <1>6, <2>3 DEF LastOn
  <2> QED
    BY <1>2, <1>6, <2>4, <2>5, <2>6, <2>7
<1> QED
  BY <1>4, <1>5, <1>6

LEMMA DropKeeps ==
  ASSUME IInv, IInv', CellInv, NEW t \in Threads, DropGuard(t)
  PROVE  CellInv'
<1>0. /\ held \in [Threads -> Seq(Guard)] /\ borrow \in [Cells -> Nat \cup {-1}]
      /\ live \in [Threads -> Nat] /\ sole \in Nat
      /\ cellOwner \in [Cells -> Threads \cup {None}]
  BY DEF CellInv, CellTypeOK
<1>1. /\ CanTouch(t) /\ held[t] # <<>>
      /\ held' = [held EXCEPT ![t] = SubSeq(@, 1, Len(@) - 1)]
      /\ UNCHANGED <<vars, shared, first, draining, want, lockHolder, awaits>>
  BY DEF DropGuard
<1>2. PICK g \in Guard :
        /\ g = Newest(t)
        /\ borrow' = [borrow EXCEPT ![g.cell] = IF g.mut THEN 0 ELSE @ - 1]
        /\ cellOwner' = IF g.locked /\ LastOn(g)
                        THEN [cellOwner EXCEPT ![g.cell] = None] ELSE cellOwner
        /\ IF g.locked
           THEN live' = [live EXCEPT ![t] = @ - 1] /\ sole' = sole
           ELSE sole' = sole - 1 /\ live' = live
  BY <1>0, <1>1, OneLess DEF DropGuard
<1>3. g.cell \in Cells /\ g.mut \in BOOLEAN /\ g.locked \in BOOLEAN
  BY DEF Guard
<1> DEFINE n == Len(held[t])
<1>4. /\ held' \in [Threads -> Seq(Guard)]
      /\ n \in Nat \ {0} /\ Len(held'[t]) = n - 1 /\ DOMAIN held'[t] = 1..n - 1
      /\ DOMAIN held[t] = 1..n /\ g = held[t][n]
      /\ \A i \in 1..n - 1 : held'[t][i] = held[t][i]
      /\ \A u \in Threads \ {t} : held'[u] = held[u]
  BY <1>0, <1>1, <1>2, OneLess
<1>5. \A u \in Threads : \A i \in DOMAIN held'[u] :
        i \in DOMAIN held[u] /\ held'[u][i] = held[u][i]
  BY <1>4
<1>6. /\ g.locked <=> sole = 0
      /\ \A u \in Threads : Len(held[u]) = live[u] + IF u = first THEN sole ELSE 0
  <2>1. n \in DOMAIN held[t]
    BY <1>4
  <2> QED
    BY <1>4, <2>1 DEF CellInv, Counted
<1>7. /\ \A u \in Threads : want[u] = NoRequest
      /\ draining = None /\ (IF shared THEN sole = 0 ELSE first = t)
      /\ ~shared => \A u \in Threads : live[u] = 0
      /\ ~shared => \A d \in Cells : cellOwner[d] = None
  BY <1>1, TouchFacts DEF CellInv, Biased
<1>8. g.locked => shared /\ live[t] = n
  BY <1>0, <1>4, <1>6, <1>7
<1>9. ~g.locked => ~shared /\ first = t /\ sole \in Nat \ {0} /\ sole = n
  BY <1>0, <1>4, <1>6, <1>7
<1> HIDE DEF n
<1>10. \A c, u : u \in Threads \ {t} => GuardsOn(u, c)' = GuardsOn(u, c)
  BY <1>0, <1>1, OneLessOn
<1>11. ASSUME NEW d \in Cells, HolderOf(d) = t
       PROVE  /\ Tally(t, d)'
              /\ d = g.cell /\ LastOn(g) => borrow'[d] = 0 /\ GuardsOn(t, d)' = {}
              /\ d = g.cell /\ ~LastOn(g) => borrow'[d] \in Nat \ {0}
  BY <1>1, <1>2, <1>11, MineTally, DropTally
<1>12. Levelled' /\ AwayBlocked'
  <2>1. UNCHANGED <<pc, goal, guards, frames>>
    BY <1>1 DEF vars
  <2>2. Levelled'
    BY <1>5, <2>1 DEF CellInv, Levelled
  <2> QED
    BY <1>1, <1>4, <2>1, <2>2
    DEF CanTouch, CellInv, AwayBlocked, Excused, BlockedScope, Running
<1>13. HolderOf(g.cell) = t
  <2>1. n \in GuardsOn(t, g.cell)
    BY <1>4 DEF GuardsOn
  <2> QED
    BY <1>3, <2>1 DEF CellInv, Exact
<1>14. CellTypeOK'
  <2>1. borrow'[g.cell] \in Nat \cup {-1}
    BY <1>3, <1>11, <1>13
  <2>2. borrow' \in [Cells -> Nat \cup {-1}]
    BY <1>0, <1>2, <2>1
  <2>3. live' \in [Threads -> Nat] /\ sole' \in Nat
    BY <1>0, <1>2, <1>4, <1>8, <1>9
  <2>4. cellOwner' \in [Cells -> Threads \cup {None}]
    BY <1>0, <1>2
  <2> QED
    BY <1>1, <1>4, <2>2, <2>3, <2>4 DEF IInv, CellInv, CellTypeOK
<1>15. \A u \in Threads : Len(held'[u]) = live'[u] + IF u = first' THEN sole' ELSE 0
  BY <1>0, <1>1, <1>2, <1>4, <1>6, <1>8, <1>9
<1>16. ~g.locked /\ sole' = 0 => \A u \in Threads : held'[u] = <<>>
  <2>1. ~g.locked /\ sole' = 0 => \A u \in Threads : Len(held'[u]) = 0
    BY <1>2, <1>7, <1>9, <1>15
  <2> QED
    BY <1>4, <2>1, EmptySeq
<1>17. Counted'
  <2>1. ASSUME NEW u \in Threads, NEW i \in DOMAIN held'[u]
        PROVE  held'[u][i].locked <=> sole' = 0
    <3>1. held'[u][i].locked <=> sole = 0
      BY <1>5, <2>1 DEF CellInv, Counted
    <3>2. held'[u] # <<>>
      BY <2>1
    <3> QED
      BY <1>2, <1>6, <1>9, <1>16, <3>1, <3>2
  <2> QED
    BY <1>15, <2>1 DEF Counted
<1>18. ASSUME NEW d \in Cells
       PROVE  Exact(d)'
  <2>1. CASE ~g.locked
    <3>1. HolderOf(d) = t /\ cellOwner'[d] = None
      BY <1>2, <1>7, <1>9, <2>1 DEF HolderOf
    <3>2. Tally(t, d)' /\ \A u \in Threads \ {t} : GuardsOn(u, d)' = {}
      BY <1>10, <1>11, <3>1, MineTally
    <3>3. CASE sole' # 0
      <4>1. HolderOf(d)' = t
        BY <1>1, <1>9, <2>1, <3>3 DEF HolderOf
      <4> QED
        BY <3>1, <3>2, <3>3, <4>1, NoneAssumption DEF Exact
    <3>4. CASE sole' = 0
      <4>1. HolderOf(d)' = None
        BY <3>1, <3>4 DEF HolderOf
      <4>2. GuardsOn(t, d)' = {}
        BY <1>16, <2>1, <3>4 DEF GuardsOn
      <4>3. borrow'[d] = 0
        BY <3>2, <4>2, FS_EmptySet DEF Tally
      <4> QED
        BY <3>1, <3>2, <4>1, <4>2, <4>3, NoneAssumption DEF Exact
    <3> QED
      BY <3>3, <3>4
  <2>2. CASE g.locked /\ d = g.cell
    <3>1. sole = 0 /\ sole' = 0 /\ cellOwner[d] = t
      BY <1>2, <1>6, <1>13, <2>2 DEF HolderOf
    <3>2. \A u \in Threads \ {t} : GuardsOn(u, d)' = {}
      BY <1>10, <1>13, <2>2, MineTally
    <3>3. CASE LastOn(g)
      <4>1. HolderOf(d)' = None /\ cellOwner'[d] = None
        BY <1>0, <1>2, <1>3, <2>2, <3>1, <3>3 DEF HolderOf
      <4>2. borrow'[d] = 0 /\ GuardsOn(t, d)' = {}
        BY <1>11, <1>13, <2>2, <3>3
      <4> QED
        BY <3>2, <4>1, <4>2, NoneAssumption DEF Exact
    <3>4. CASE ~LastOn(g)
      <4>1. HolderOf(d)' = t
        BY <1>2, <3>1, <3>4 DEF HolderOf
      <4>2. borrow'[d] # 0 /\ Tally(t, d)'
        BY <1>11, <1>13, <2>2, <3>4
      <4> QED
        BY <3>2, <4>1, <4>2, NoneAssumption DEF Exact
    <3> QED
      BY <3>3, <3>4
  <2>3. CASE g.locked /\ d # g.cell
    <3>1. /\ sole = 0 /\ sole' = 0 /\ cellOwner'[d] = cellOwner[d] /\ borrow'[d] = borrow[d]
          /\ HolderOf(d)' = HolderOf(d) /\ Exact(d) /\ HolderOf(d) \in Threads \cup {None}
      BY <1>0, <1>2, <1>6, <2>3 DEF HolderOf, CellInv
    <3>2. ASSUME NEW u \in Threads
          PROVE  /\ GuardsOn(u, d)' = GuardsOn(u, d)
                 /\ \A i \in GuardsOn(u, d) : held'[u][i] = held[u][i]
      <4>1. CASE u = t
        <5>1. /\ GuardsOn(t, d)' = GuardsOn(t, d) \ {n} /\ n \notin GuardsOn(t, d)
              /\ \A i \in GuardsOn(t, d) \ {n} : held'[t][i] = held[t][i]
          BY <1>0, <1>1, <1>2, <2>3, OneLessOn DEF n
        <5> HIDE DEF GuardsOn
        <5> QED
          BY <4>1, <5>1
      <4>2. CASE u # t
        BY <1>4, <1>10, <4>2
      <4> QED
        BY <4>1, <4>2
    <3>3. ASSUME NEW u \in Threads, Tally(u, d)
          PROVE  Tally(u, d)'
      <4> HIDE DEF GuardsOn
      <4> QED
        BY <3>1, <3>2, <3>3 DEF Tally
    <3> HIDE DEF GuardsOn, HolderOf, Tally
    <3> QED
      BY <3>1, <3>2, <3>3 DEF Exact
  <2> QED
    BY <2>1, <2>2, <2>3
<1>19. Biased'
  <2>1. UNCHANGED <<pc, guards>>
    BY <1>1 DEF vars
  <2>2. /\ shared => sole' = 0 /\ live' \in [Threads -> Nat]
        /\ ~shared => live' = live /\ cellOwner' = cellOwner /\ first = t
    BY <1>2, <1>7, <1>8, <1>9, <1>14 DEF CellTypeOK
  <2> QED
    BY <1>1, <1>7, <2>1, <2>2, NoneAssumption DEF CellInv, Biased, Running
<1>20. Spinning'
  BY <1>1, <1>7 DEF Spinning
<1> QED
  BY <1>12, <1>14, <1>17, <1>18, <1>19, <1>20 DEF CellInv

--------------------------------------------------------------------------------
LEMMA CellInitInv == CellInit => IInv /\ CellInv
<1> SUFFICES ASSUME CellInit PROVE IInv /\ CellInv
  OBVIOUS
<1>1. Init /\ IInv
  BY InitInv DEF CellInit
<1>2. /\ \A t \in Threads : held[t] = <<>> /\ live[t] = 0 /\ want[t] = NoRequest
      /\ \A c \in Cells : cellOwner[c] = None /\ borrow[c] = 0
      /\ shared = FALSE /\ first = None /\ sole = 0 /\ draining = None
      /\ \A t \in Threads : ~Running(t) /\ pc[t] # "publish"
  BY <1>1 DEF CellInit, Init, Running
<1>3. CellTypeOK
  BY <1>1, EmptySeq DEF CellInit, CellTypeOK, IInv
<1>4. Counted
  <2>1. \A t \in Threads : Len(held[t]) = 0 /\ DOMAIN held[t] = {}
    BY <1>2
  <2> QED
    BY <1>2, <2>1 DEF Counted
<1>5. \A c \in Cells : Exact(c)
  BY <1>2, NoneAssumption DEF Exact, HolderOf, GuardsOn
<1> QED
  BY <1>1, <1>2, <1>3, <1>4, <1>5 DEF CellInv, Biased, Levelled, AwayBlocked, Spinning

LEMMA CellNextInv == IInv /\ CellInv /\ [CellNext]_allVars => IInv' /\ CellInv'
<1> SUFFICES ASSUME IInv, CellInv, [CellNext]_allVars PROVE IInv' /\ CellInv'
  OBVIOUS
<1>1. IInv'
  BY CellNextGil, NextInv
<1>2. CASE UNCHANGED allVars
  <2>1. UNCHANGED <<pc, goal, guards, frames, cellVars>>
    BY <1>2 DEF allVars, vars
  <2>2. CellTypeOK' /\ Counted' /\ \A c \in Cells : Exact(c)'
    <3>1. \A c \in Cells : HolderOf(c)' = HolderOf(c)
      BY <2>1 DEF HolderOf, cellVars
    <3> QED
      BY <1>1, <2>1, <3>1, SameExact DEF IInv, CellInv, CellTypeOK, Counted, cellVars
  <2> QED
    BY <1>1, <2>1, <2>2
    DEF CellInv, Biased, Levelled, AwayBlocked, Excused, BlockedScope, Spinning,
        Running, cellVars
<1>3. CASE \E t \in Threads : GilStep(t)
  BY <1>1, <1>3, GilKeeps
<1>4. CASE \E t \in Threads : LockStep(t)
  BY <1>1, <1>4, LockKeeps
<1>5. ASSUME NEW t \in Threads, CellStep(t)
      PROVE  CellInv'
  <2>1. CASE RegisterKnown(t)
    BY <1>1, <2>1, RegisterKeeps
  <2>2. CASE RevokeOnAcquire(t) \/ MarkShared(t)
    BY <1>1, <2>2, RevokeKeeps
  <2>3. CASE Drained(t)
    BY <1>1, <2>3, DrainedKeeps
  <2>4. ASSUME NEW c \in Cells, NEW m \in BOOLEAN,
               BorrowBiased(t, c, m) \/ BorrowLocked(t, c, m) \/ Contend(t, c, m)
        PROVE  CellInv'
    BY <1>1, <2>4, BiasedKeeps, LockedKeeps, ContendKeeps
  <2>5. CASE DropGuard(t)
    BY <1>1, <2>5, DropKeeps
  <2> QED
    BY <1>5, <2>1, <2>2, <2>3, <2>4, <2>5 DEF CellStep
<1>6. CASE AllDone /\ UNCHANGED cellVars
  <2>1. UNCHANGED allVars
    BY <1>6 DEF AllDone, allVars
  <2> QED
    BY <1>2, <2>1
<1> QED
  BY <1>1, <1>2, <1>3, <1>4, <1>5, <1>6 DEF CellNext

(* The composition never leaves CellInv, whatever the hand-offs, blocking  *)
(* calls and revocation of the bias between two borrows.                   *)
THEOREM CellInvariance == CellSpec => [](IInv /\ CellInv)
  BY CellInitInv, CellNextInv, PTL DEF CellSpec

(* The bias, the lock words, the borrow words and the guards keep their    *)
(* types; SOLE_GUARDS and live_guards never fall below zero, whichever     *)
(* path each guard was taken on.                                           *)
THEOREM CellTypeCorrect == CellSpec => []CellTypeOK
<1>1. CellInv => CellTypeOK
  BY DEF CellInv
<1> QED
  BY <1>1, CellInvariance, PTL

(* try_borrow and try_borrow_mut never hand out an aliased reference, on   *)
(* either path and across the revocation of the bias: the live guards on a *)
(* cell are of one thread, and a RefMut is the only one.                   *)
THEOREM CellsExclude == CellSpec => []CellExclusion
<1>1. CellInv => CellExclusion
  <2> SUFFICES ASSUME CellInv, NEW t \in Threads, NEW u \in Threads, NEW c \in Cells,
                      NEW i \in GuardsOn(t, c), NEW j \in GuardsOn(u, c)
               PROVE  t = u /\ (held[t][i].mut => i = j)
    BY DEF CellExclusion
  <2>1. t = u /\ Tally(t, c)
    BY DEF CellInv, Exact
  <2>2. held[t][i].mut => i = j
    BY <2>1 DEF Tally
  <2> QED
    BY <2>1, <2>2
<1> QED
  BY <1>1, CellInvariance, PTL

(* cell_guards_live, which maybe_yield_gil consults, is true exactly of a  *)
(* thread that has a guard: the flip of CELLS_SHARED strands none in the   *)
(* counter that is not looked at.                                          *)
THEOREM GuardsNeverMissed == CellSpec => []GuardsSeen
<1>1. CellInv => GuardsSeen
  <2> SUFFICES ASSUME CellInv, NEW t \in Threads
               PROVE  CellGuardsLive(t) <=> held[t] # <<>>
    BY DEF GuardsSeen
  <2>1. /\ Len(held[t]) = live[t] + IF t = first THEN sole ELSE 0
        /\ live[t] \in Nat /\ sole \in Nat /\ held[t] \in Seq(Guard)
    BY DEF CellInv, Counted, CellTypeOK
  <2>2. held[t] # <<>> <=> Len(held[t]) # 0
    BY <2>1, EmptySeq
  <2> QED
    BY <2>1, <2>2 DEF CellGuardsLive
<1> QED
  BY <1>1, CellInvariance, PTL

(* lock_contended is reached, under the GIL, only behind a thread that     *)
(* gave the GIL up in a blocking call inside its borrow: no hand-off of    *)
(* maybe_yield_gil leads there.                                            *)
THEOREM SpinsOnlyBehindBlocked == CellSpec => []SpinsBehindBlocked
<1>1. IInv /\ CellInv => SpinsBehindBlocked
  <2> SUFFICES ASSUME IInv, CellInv, NEW t \in Threads, want[t] # NoRequest
               PROVE  LET u == cellOwner[want[t].cell] IN u \notin {None, t} /\ InBlockingCall(u)
    BY DEF SpinsBehindBlocked
  <2> DEFINE c == want[t].cell
  <2> DEFINE u == cellOwner[c]
  <2>1. c \in Cells /\ Running(t) /\ u \notin {None, t} /\ u \in Threads
    BY DEF CellInv, CellTypeOK, Spinning, Request
  <2>2. sole = 0
    BY <2>1 DEF CellInv, CellTypeOK, Biased
  <2>3. Tally(u, c) /\ borrow[c] # 0
    BY <2>1, <2>2 DEF CellInv, Exact, HolderOf
  <2>4. GuardsOn(u, c) # {}
    BY <2>3, FS_EmptySet DEF Tally
  <2>5. held[u] # <<>>
    BY <2>4 DEF GuardsOn
  <2>6. ~Running(u)
    BY <2>1, ThreadFacts DEF IInv, LockInv, Inside, Running
  <2>7. Excused(u)
    BY <2>1, <2>5, <2>6 DEF CellInv, AwayBlocked
  <2> QED
    BY <2>1, <2>7 DEF Excused, BlockedScope, InBlockingCall, AcquireSteps
<1> QED
  BY <1>1, CellInvariance, PTL

--------------------------------------------------------------------------------
(* The clocks of the hand-off.                                             *)
Turns == INSTANCE GilContract WITH running <- {t \in Threads : Runs(t)}

USE IntervalAssumption, NeverAssumption

(* A noted hold's clock is right, and a clock that ran since a waiter was  *)
(* found is no older than somebody's wait, unless a waiter gave up.        *)
HoldNoted == \A t \in Threads : at[t] = "run" /\ notes[t] => heldSince[t] = holding[t]
WaitSeen == \A t \in Threads : at[t] = "run" /\ notes[t] /\ seenSince[t] # Never =>
  gaveUp \/ \E u \in Threads : at[u] = "wait" /\ waited[u] >= seenSince[t]
ClockInv == ClockTypeOK /\ ArmedCovers /\ HoldNoted /\ WaitSeen

LEMMA Ageing ==
  ASSUME NEW x \in Clock
  PROVE  /\ Older(x) \in Clock
         /\ Older(x) = Never <=> x = Never
         /\ x \in Ticks => Older(x) \in Ticks
         /\ \A y \in Ticks : x # Never /\ y >= x => Older(y) >= Older(x)
BY DEF Older, Clock, Ticks

LEMMA ClocksInitially == ClockInit => ClockInv
<1> SUFFICES ASSUME ClockInit PROVE ClockInv
  OBVIOUS
<1>1. 0 \in Ticks /\ Never \in Clock
  BY DEF Ticks, Clock
<1>2. ClockTypeOK
  BY <1>1 DEF ClockInit, ClockTypeOK, Runs
<1>3. ArmedCovers /\ HoldNoted /\ WaitSeen
  BY DEF ClockInit, ArmedCovers, HoldNoted, WaitSeen, Runs
<1> QED
  BY <1>2, <1>3 DEF ClockInv

(* Threads come, go and park; the clocks stay as they are.                 *)
LEMMA MoveClocks ==
  ASSUME ClockInv, NEW t \in Threads,
         Ask(t) \/ GiveUp(t) \/ Release(t) \/ Unpark(t)
  PROVE  ClockInv'
<1>1. 0 \in Ticks
  BY DEF Ticks
<1>2. UNCHANGED <<heldSince, seenSince, armed>>
  BY DEF Ask, GiveUp, Release, Unpark, clocks
<1>3. at'[t] # "run" /\ \A u \in Threads \ {t} : at'[u] = at[u] /\ notes'[u] = notes[u]
  BY DEF Ask, GiveUp, Release, Unpark, ClockInv, ClockTypeOK
<1>4. \A u \in Threads \ {t} : holding'[u] = holding[u] /\ waited'[u] = waited[u]
  BY DEF Ask, GiveUp, Release, Unpark, ClockInv, ClockTypeOK
<1>5. (gaveUp => gaveUp') /\ (at[t] = "wait" => gaveUp')
  BY DEF Ask, GiveUp, Release, Unpark, Runs
<1>6. ClockTypeOK'
  <2>1. CASE Ask(t)
    BY <1>1, <1>2, <2>1 DEF Ask, ClockInv, ClockTypeOK, Runs
  <2>2. CASE GiveUp(t)
    BY <1>1, <1>2, <2>2 DEF GiveUp, ClockInv, ClockTypeOK, Runs
  <2>3. CASE Release(t)
    BY <1>1, <1>2, <2>3 DEF Release, ClockInv, ClockTypeOK, Runs
  <2>4. CASE Unpark(t)
    BY <1>1, <1>2, <2>4 DEF Unpark, ClockInv, ClockTypeOK, Runs
  <2> QED
    BY <2>1, <2>2, <2>3, <2>4
<1>7. ArmedCovers' /\ HoldNoted'
  BY <1>2, <1>3, <1>4 DEF ClockInv, ArmedCovers, HoldNoted, Runs
<1>8. WaitSeen'
  BY <1>2, <1>3, <1>4, <1>5 DEF ClockInv, WaitSeen
<1> QED
  BY <1>6, <1>7, <1>8 DEF ClockInv

LEMMA TakeClocks ==
  ASSUME ClockInv, NEW t \in Threads, Take(t)
  PROVE  ClockInv'
<1>1. 0 \in Ticks /\ 0 \in Clock /\ Never \in Clock
  BY DEF Ticks, Clock
<1>2. at'[t] = "run" /\ \A u \in Threads \ {t} : at'[u] # "run"
  BY DEF Take, Runs, ClockInv, ClockTypeOK
<1>3. notes' = notes /\ (notes[t] => heldSince'[t] = 0 /\ seenSince'[t] = Never /\ holding'[t] = 0)
  BY DEF Take, ClockInv, ClockTypeOK
<1>4. ClockTypeOK'
  BY <1>1, <1>2 DEF Take, ClockInv, ClockTypeOK, Runs
<1>5. ArmedCovers' /\ HoldNoted' /\ WaitSeen'
  BY <1>2, <1>3 DEF ArmedCovers, HoldNoted, WaitSeen, Runs
<1> QED
  BY <1>4, <1>5 DEF ClockInv

(* A checkpoint: only the clock of the thread that runs is touched.        *)
LEMMA CheckClocks ==
  ASSUME ClockInv, NEW t \in Threads,
         CheckIdle(t) \/ Notice(t) \/ HandOver(t)
  PROVE  ClockInv'
<1>1. 0 \in Ticks /\ 0 \in Clock /\ Never \in Clock
  BY DEF Ticks, Clock
<1>2. at[t] = "run" /\ \A u \in Threads \ {t} : at[u] # "run"
  BY DEF CheckIdle, Notice, HandOver, Runs, ClockInv, ClockTypeOK
<1>3. CASE CheckIdle(t)
  <2>1. seenSince'[t] = Never /\ UNCHANGED <<at, notes, heldSince, holding, waited, gaveUp>>
    BY <1>3 DEF CheckIdle, history, ClockInv, ClockTypeOK
  <2>2. ClockTypeOK'
    BY <1>1, <1>3, <2>1 DEF CheckIdle, ClockInv, ClockTypeOK, Runs
  <2>3. ArmedCovers' /\ HoldNoted' /\ WaitSeen'
    BY <1>2, <2>1 DEF ClockInv, ArmedCovers, HoldNoted, WaitSeen, Runs
  <2> QED
    BY <2>2, <2>3 DEF ClockInv
<1>4. CASE Notice(t)
  <2>1. /\ seenSince'[t] = 0 /\ armed'
        /\ UNCHANGED <<at, notes, heldSince, holding, waited, gaveUp>>
    BY <1>4 DEF Notice, history, ClockInv, ClockTypeOK
  <2>2. \E u \in Threads : at[u] = "wait" /\ waited[u] >= 0
    BY <1>4 DEF Notice, Awaiting, ClockInv, ClockTypeOK, Ticks
  <2>3. ClockTypeOK'
    BY <1>1, <1>4, <2>1 DEF Notice, ClockInv, ClockTypeOK, Runs
  <2>4. ArmedCovers' /\ HoldNoted'
    BY <1>2, <2>1 DEF ClockInv, ArmedCovers, HoldNoted, Runs
  <2>5. WaitSeen'
    BY <1>2, <2>1, <2>2 DEF WaitSeen
  <2> QED
    BY <2>3, <2>4, <2>5 DEF ClockInv
<1>5. CASE HandOver(t)
  <2>1. /\ at'[t] = "parked" /\ \A u \in Threads \ {t} : at'[u] = at[u]
        /\ UNCHANGED <<notes, heldSince, seenSince, armed, waited, gaveUp>>
    BY <1>5 DEF HandOver, clocks, ClockInv, ClockTypeOK
  <2>2. ClockTypeOK'
    BY <1>1, <1>5, <2>1 DEF HandOver, ClockInv, ClockTypeOK, Runs
  <2>3. ArmedCovers' /\ HoldNoted' /\ WaitSeen'
    BY <1>2, <2>1 DEF ArmedCovers, HoldNoted, WaitSeen, Runs
  <2> QED
    BY <2>2, <2>3 DEF ClockInv
<1> QED
  BY <1>3, <1>4, <1>5

LEMMA TickClocks ==
  ASSUME ClockInv, Tick
  PROVE  ClockInv'
<1>1. /\ \A u \in Threads : heldSince[u] \in Clock /\ seenSince[u] \in Clock
      /\ \A u \in Threads : holding[u] \in Ticks /\ waited[u] \in Ticks
      /\ 0 \in Ticks /\ Ticks \subseteq Clock
  BY DEF ClockInv, ClockTypeOK, Ticks, Clock
<1>2. UNCHANGED <<at, notes, armed, gaveUp>>
  BY DEF Tick
<1>3. \A u \in Threads :
        /\ heldSince'[u] = Older(heldSince[u]) /\ seenSince'[u] = Older(seenSince[u])
        /\ at[u] = "run" => holding'[u] = Older(holding[u])
        /\ at[u] = "wait" => waited'[u] = Older(waited[u])
  BY DEF Tick, Runs
<1>4. ClockTypeOK'
  <2>1. \A u \in Threads :
          /\ Older(heldSince[u]) \in Clock /\ Older(seenSince[u]) \in Clock
          /\ Older(holding[u]) \in Ticks /\ Older(waited[u]) \in Ticks
    BY <1>1, Ageing
  <2>2. heldSince' \in [Threads -> Clock] /\ seenSince' \in [Threads -> Clock]
    BY <2>1 DEF Tick
  <2>3. holding' \in [Threads -> Ticks] /\ waited' \in [Threads -> Ticks]
    BY <1>1, <2>1 DEF Tick
  <2> QED
    BY <1>2, <2>2, <2>3 DEF ClockInv, ClockTypeOK, Runs
<1>5. \A u \in Threads : seenSince'[u] = Never <=> seenSince[u] = Never
  BY <1>1, <1>3, Ageing
<1>6. ArmedCovers' /\ HoldNoted'
  BY <1>2, <1>3, <1>5 DEF ClockInv, ArmedCovers, HoldNoted, Runs
<1>7. WaitSeen'
  <2> SUFFICES ASSUME NEW u \in Threads, at[u] = "run", notes[u], seenSince[u] # Never, ~gaveUp
               PROVE  \E v \in Threads : at[v] = "wait" /\ waited'[v] >= seenSince'[u]
    BY <1>2, <1>5 DEF WaitSeen
  <2>1. PICK v \in Threads : at[v] = "wait" /\ waited[v] >= seenSince[u]
    BY DEF ClockInv, WaitSeen
  <2>2. waited'[v] >= seenSince'[u]
    BY <1>1, <1>3, <2>1, Ageing
  <2> QED
    BY <2>1, <2>2
<1> QED
  BY <1>4, <1>6, <1>7 DEF ClockInv

LEMMA ClocksStep == ClockInv /\ [ClockNext]_clockVars => ClockInv'
<1>1. ASSUME ClockInv, UNCHANGED clockVars PROVE ClockInv'
  <2>1. UNCHANGED <<at, notes, heldSince, seenSince, armed, holding, waited, gaveUp>>
    BY <1>1 DEF clockVars, clocks, history
  <2> QED
    BY <1>1, <2>1 DEF ClockInv, ClockTypeOK, ArmedCovers, HoldNoted, WaitSeen, Runs
<1> QED
  BY <1>1, MoveClocks, TakeClocks, CheckClocks, TickClocks DEF ClockNext

(* The clocks of the hand-off keep their ranges, whatever the interval,    *)
(* and threads run one at a time.                                          *)
THEOREM ClocksTyped == ClockSpec => []ClockTypeOK
<1>1. ClockInv => ClockTypeOK
  BY DEF ClockInv
<1> QED
  BY <1>1, ClocksInitially, ClocksStep, PTL DEF ClockSpec

(* WAITER_CLOCK_ARMED is up while the clock of a noted hold runs: the fast *)
(* path of a checkpoint without waiters never leaves a clock running.      *)
THEOREM FlagCovers == ClockSpec => []ArmedCovers
<1>1. ClockInv => ArmedCovers
  BY DEF ClockInv
<1> QED
  BY <1>1, ClocksInitially, ClocksStep, PTL DEF ClockSpec

(* maybe_yield_gil hands a noted hold off only when it has lasted the      *)
(* interval and some waiter has waited for it, for every interval.         *)
THEOREM BothClocksRanOut == ClockSpec => NotedHoldsLast
<1>1. ASSUME ClockInv, [ClockNext]_clockVars, NEW t \in Threads,
             HandsOff(t), notes[t]
      PROVE  BothWaited(t)
  <2>1. HandOver(t)
    <3>1. at[t] = "run" /\ at'[t] = "parked"
      BY <1>1 DEF HandsOff, Runs
    <3>2. ClockNext
      BY <1>1, <3>1 DEF clockVars
    <3> QED
      BY <1>1, <3>1, <3>2 DEF ClockNext, Ask, Take, GiveUp, Release,
           CheckIdle, Notice, Unpark, Tick, ClockInv, ClockTypeOK,
           HandOver
  <2>2. at[t] = "run" /\ seenSince[t] = Interval /\ heldSince[t] \in {Never, Interval}
    BY <2>1 DEF HandOver, Runs, HeldElapsed
  <2>3. heldSince[t] = holding[t] /\ holding[t] # Never
    BY <1>1, <2>2 DEF ClockInv, HoldNoted, ClockTypeOK, Ticks
  <2>4. ~gaveUp => \E u \in Awaiting : waited[u] = Interval
    <3> SUFFICES ASSUME ~gaveUp PROVE \E u \in Awaiting : waited[u] = Interval
      OBVIOUS
    <3>1. PICK u \in Threads : at[u] = "wait" /\ waited[u] >= Interval
      BY <1>1, <2>2 DEF ClockInv, WaitSeen
    <3>2. waited[u] = Interval
      BY <1>1, <3>1 DEF ClockInv, ClockTypeOK, Ticks
    <3> QED
      BY <3>1, <3>2 DEF Awaiting
  <2> QED
    BY <2>2, <2>3, <2>4 DEF BothWaited
<1>2. ClockInv /\ [ClockNext]_clockVars
        => [\A t \in Threads : HandsOff(t) /\ notes[t] => BothWaited(t)]_clockVars
  BY <1>1
<1> QED
  BY <1>2, ClocksInitially, ClocksStep, PTL DEF ClockSpec, NotedHoldsLast

(* The GIL of SwitchInterval, taken and given up in one step, is the one   *)
(* that GilState promises: the steps of its clocks add nothing to it.      *)
THEOREM ClocksKeepTurns == ClockSpec => Turns!Spec
<1> DEFINE on == {t \in Threads : Runs(t)}
<1>1. ClockInit => Turns!Init
  BY DEF ClockInit, Runs, Turns!Init
<1>2. ASSUME ClockInv, [ClockNext]_clockVars PROVE [Turns!Next]_on
  <2>1. CASE at' = at
    BY <2>1 DEF Runs
  <2>2. CASE at' # at
    <3>1. PICK t \in Threads :
            \/ Ask(t) \/ Take(t) \/ GiveUp(t) \/ Release(t)
            \/ HandOver(t) \/ Unpark(t)
      BY <1>2, <2>2 DEF ClockNext, clockVars, CheckIdle, Notice, Tick
    <3>2. CASE Take(t)
      <4>1. on = {} /\ on' = {t}
        BY <1>2, <3>2 DEF Take, Runs, ClockInv, ClockTypeOK
      <4> QED
        BY <4>1 DEF Turns!Next, Turns!Start
    <3>3. CASE Release(t) \/ HandOver(t)
      <4>1. on = {t} /\ on' = {}
        BY <1>2, <3>3 DEF Release, HandOver, Runs, ClockInv, ClockTypeOK
      <4> QED
        BY <4>1 DEF Turns!Next, Turns!Stop
    <3>4. CASE Ask(t) \/ GiveUp(t) \/ Unpark(t)
      <4>1. on' = on
        BY <1>2, <3>4 DEF Ask, GiveUp, Unpark, Runs, ClockInv,
             ClockTypeOK
      <4> QED
        BY <4>1
    <3> QED
      BY <3>1, <3>2, <3>3, <3>4
  <2> QED
    BY <2>1, <2>2
<1> QED
  BY <1>1, <1>2, ClocksInitially, ClocksStep, PTL DEF ClockSpec, Turns!Spec

================================================================================
