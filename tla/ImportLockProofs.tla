---------------------------- MODULE ImportLockProofs ---------------------------
(***************************************************************************)
(* The import lock stays releasable through every nesting of imports,      *)
(* waits and forks, for any set of threads and any nesting bound.          *)
(***************************************************************************)
EXTENDS ImportLock, TLAPS

(* A thread inside os.fork has the GIL from the lock to the child's        *)
(* reinitialisation, and a child starts with no other thread.              *)
ForkHoldsGil == \A t \in Threads : at[t] \in {"fork", "child"} => gil = t
ChildAlone == \A t \in Threads :
  at[t] = "child" => \A u \in Threads \ {t} : at[u] = "gone"

(* A thread that waits for its code's next level has room for it.          *)
WaitHasRoom == \A t \in Threads :
  (at[t] \in Waits /\ goal[t] = "own") => nest[t] < MaxNest

IInv ==
  /\ TypeOK /\ LevelsMatch /\ ParkedBehindOwner
  /\ ChildSeesNoLoad /\ ForkHoldsGil /\ ChildAlone /\ WaitHasRoom

(* Who has levels to give back is the owner, and nobody else has any.      *)
LEMMA LevelsAreOwners ==
  ASSUME IInv, NEW t \in Threads, Levels(t) > 0
  PROVE  owner = t /\ level = Levels(t) /\ \A u \in Threads \ {t} : Levels(u) = 0
BY DEF IInv, LevelsMatch

(* At a fork nobody else has a level.                                      *)
LEMMA ForkOwns ==
  ASSUME IInv, NEW t \in Threads, at[t] \in {"fork", "child"}
  PROVE  /\ owner = t /\ level = nest[t] + 1
         /\ \A u \in Threads \ {t} : nest[u] = 0 /\ ~Forking(u)
<1>1. Levels(t) = nest[t] + 1 /\ nest[t] \in Nat
  BY DEF Levels, Forking, IInv, TypeOK
<1>2. owner = t /\ level = nest[t] + 1 /\ \A u \in Threads \ {t} : Levels(u) = 0
  BY <1>1, LevelsAreOwners
<1>3. ASSUME NEW u \in Threads \ {t} PROVE nest[u] = 0 /\ ~Forking(u)
  <2>1. nest[u] \in Nat /\ Levels(u) = 0
    BY <1>2 DEF IInv, TypeOK
  <2> QED BY <2>1 DEF Levels
<1> QED BY <1>2, <1>3

LEMMA InitInv == Init => IInv
<1> SUFFICES ASSUME Init PROVE IInv
  OBVIOUS
<1> USE MainAssumption, NoneAssumption, NestAssumption DEF Init
<1>0. \A t \in Threads : at[t] \in {"py", "gone"} /\ nest[t] = 0
  OBVIOUS
<1>1. TypeOK
  <2>1. at \in [Threads -> Places]
    BY DEF Places
  <2>2. goal \in [Threads -> {"own", "fork"}] /\ nest \in [Threads -> 0 .. MaxNest]
    OBVIOUS
  <2>3. owner \in Threads \cup {None} /\ level \in Nat /\ (owner = None <=> level = 0)
    OBVIOUS
  <2>4. mutex \in Threads \cup {None, Lost} /\ gil \in Threads \cup {None} /\ partial \in BOOLEAN
    OBVIOUS
  <2> QED BY <2>1, <2>2, <2>3, <2>4, Zenon DEF TypeOK
<1>2. LevelsMatch
  <2>1. ASSUME NEW t \in Threads PROVE ~Forking(t) /\ nest[t] = 0 /\ owner # t
    BY <1>0 DEF Forking
  <2>2. ASSUME NEW t \in Threads PROVE Levels(t) = 0
    BY <2>1 DEF Levels
  <2>3. ASSUME NEW t \in Threads PROVE (IF owner = t THEN level ELSE 0) = 0
    BY <2>1
  <2> QED BY <2>2, <2>3 DEF LevelsMatch
<1>3. ParkedBehindOwner /\ ChildSeesNoLoad /\ ForkHoldsGil /\ ChildAlone /\ WaitHasRoom
  BY <1>0 DEF ParkedBehindOwner, ChildSeesNoLoad, ForkHoldsGil, ChildAlone, WaitHasRoom, Waits
<1> QED BY <1>1, <1>2, <1>3 DEF IInv

Step(t) ==
  \/ DropGil(t) \/ TakeGil(t) \/ \E u \in Threads : Start(t, u)
  \/ \E g \in {"own", "fork"} : Acquire(t, g)
  \/ WaitStep(t)
  \/ Release(t) \/ ForkParent(t) \/ ForkChild(t) \/ Reinit(t)

(* Every step keeps the types.  Release and the parent's release need      *)
(* that the owner has a level to give.                                     *)
LEMMA StepType ==
  ASSUME IInv, NEW t \in Threads, Step(t) PROVE TypeOK'
<1> USE NoneAssumption, NestAssumption DEF IInv, TypeOK, WaitHasRoom, Places, Waits, Goto
<1>1. CASE DropGil(t) \/ TakeGil(t) \/ \E u \in Threads : Start(t, u)
  BY <1>1 DEF DropGil, TakeGil, Start, Runs
<1>2. ASSUME NEW g \in {"own", "fork"}, Acquire(t, g) PROVE TypeOK'
  <2>1. CASE Mine(t)
    BY <1>2, <2>1 DEF Acquire, Gain
  <2>2. CASE ~Mine(t)
    BY <1>2, <2>2 DEF Acquire
  <2> QED BY <2>1, <2>2
<1>3. CASE LockMutex(t) \/ Park(t)
  BY <1>3 DEF LockMutex, Park
<1>4. CASE Grant(t)
  BY <1>4 DEF Grant, Gain
<1>5. CASE Release(t) \/ ForkParent(t)
  BY <1>5 DEF Release, ForkParent, GiveLevel, Wake
<1>6. CASE ForkChild(t)
  BY <1>6 DEF ForkChild
<1>7. CASE Reinit(t)
  BY <1>7 DEF Reinit
<1> QED BY <1>1, <1>2, <1>3, <1>4, <1>5, <1>6, <1>7 DEF Step, WaitStep

(* The fork's places, and that no thread parks beside a free lock.         *)
LEMMA StepPlaces ==
  ASSUME IInv, NEW t \in Threads, Step(t)
  PROVE  ParkedBehindOwner' /\ ChildSeesNoLoad' /\ ForkHoldsGil' /\ ChildAlone' /\ WaitHasRoom'
<1> USE NoneAssumption
    DEF IInv, TypeOK, Goto, Waits, ParkedBehindOwner, ChildSeesNoLoad, ForkHoldsGil, ChildAlone,
        WaitHasRoom
<1>1. CASE DropGil(t) \/ TakeGil(t)
  BY <1>1 DEF DropGil, TakeGil, Runs
<1>2. ASSUME NEW u \in Threads, Start(t, u)
      PROVE  ParkedBehindOwner' /\ ChildSeesNoLoad' /\ ForkHoldsGil' /\ ChildAlone' /\ WaitHasRoom'
  BY <1>2 DEF Start, Runs
<1>3. ASSUME NEW g \in {"own", "fork"}, Acquire(t, g)
      PROVE  ParkedBehindOwner' /\ ChildSeesNoLoad' /\ ForkHoldsGil' /\ ChildAlone' /\ WaitHasRoom'
  <2>1. CASE Mine(t)
    BY <1>3, <2>1 DEF Acquire, Gain, Runs, Mine
  <2>2. CASE ~Mine(t)
    BY <1>3, <2>2 DEF Acquire, Runs, Mine
  <2> QED BY <2>1, <2>2
<1>4. CASE LockMutex(t) \/ Park(t)
  BY <1>4 DEF LockMutex, Park, Mine
<1>5. CASE Grant(t)
  BY <1>5 DEF Grant, Gain, Mine
<1>6. CASE Release(t) \/ ForkParent(t)
  BY <1>6 DEF Release, ForkParent, GiveLevel, Wake, Runs
<1>7. CASE ForkChild(t)
  BY <1>7, ForkOwns DEF ForkChild
<1>8. CASE Reinit(t)
  BY <1>8 DEF Reinit
<1> QED BY <1>1, <1>2, <1>3, <1>4, <1>5, <1>6, <1>7, <1>8 DEF Step, WaitStep

(* A step of t moves only t's levels, except that a fork's child has none  *)
(* but its own.                                                            *)
LEMMA StepLevels ==
  ASSUME IInv, NEW t \in Threads, Step(t) PROVE LevelsMatch'
<1> USE NoneAssumption DEF IInv, TypeOK, Goto, LevelsMatch, Levels, Forking
<1>1. CASE DropGil(t) \/ TakeGil(t)
  BY <1>1 DEF DropGil, TakeGil, Runs
<1>2. ASSUME NEW u \in Threads, Start(t, u) PROVE LevelsMatch'
  BY <1>2 DEF Start, Runs
<1>3. ASSUME NEW g \in {"own", "fork"}, Acquire(t, g) PROVE LevelsMatch'
  <2>1. CASE Mine(t)
    BY <1>3, <2>1 DEF Acquire, Gain, Runs, Mine
  <2>2. CASE ~Mine(t)
    BY <1>3, <2>2 DEF Acquire, Runs
  <2> QED BY <2>1, <2>2
<1>4. CASE LockMutex(t) \/ Park(t)
  BY <1>4 DEF LockMutex, Park
<1>5. CASE Grant(t)
  BY <1>5 DEF Grant, Gain, Mine
<1>6. CASE Release(t)
  BY <1>6 DEF Release, GiveLevel, Wake, Runs
<1>7. CASE ForkParent(t)
  BY <1>7 DEF ForkParent, GiveLevel, Wake
<1>8. CASE ForkChild(t)
  BY <1>8, ForkOwns DEF ForkChild
<1>9. CASE Reinit(t)
  BY <1>9, ForkOwns DEF Reinit
<1> QED BY <1>1, <1>2, <1>3, <1>4, <1>5, <1>6, <1>7, <1>8, <1>9 DEF Step, WaitStep

LEMMA NextInv == IInv /\ [Next]_vars => IInv'
<1> SUFFICES ASSUME IInv, [Next]_vars PROVE IInv'
  OBVIOUS
<1>1. CASE Next
  <2>1. PICK t \in Threads : Step(t)
    BY <1>1 DEF Next, Step
  <2> QED BY <2>1, StepType, StepPlaces, StepLevels DEF IInv
<1>2. CASE UNCHANGED vars
  BY <1>2 DEF vars, IInv, TypeOK, LevelsMatch, Levels, Forking, ParkedBehindOwner,
              ChildSeesNoLoad, ForkHoldsGil, ChildAlone, WaitHasRoom
<1> QED BY <1>1, <1>2

(* The inductive invariant holds in every reachable state.                 *)
THEOREM Invariance == Spec => []IInv
<1> QED BY InitInv, NextInv, PTL DEF Spec

(* owner and count of ImportLockState are set and cleared together, in     *)
(* acquire, release and the child's reinitialisation (type correctness).   *)
THEOREM TypeCorrect == Spec => []TypeOK
<1>1. IInv => TypeOK
  BY DEF IInv
<1> QED BY <1>1, Invariance, PTL

(* import_lock_release never fails the thread whose code took the level,   *)
(* before a fork or after it, in the parent or in the child.               *)
THEOREM StaysReleasable == Spec => []LevelsMatch
<1>1. IInv => LevelsMatch
  BY DEF IInv
<1> QED BY <1>1, Invariance, PTL

(* os.fork's import_lock_acquire keeps a child from a half-done load.      *)
THEOREM ForkBetweenLoads == Spec => []ChildSeesNoLoad
<1>1. IInv => ChildSeesNoLoad
  BY DEF IInv
<1> QED BY <1>1, Invariance, PTL

(* No notify_all of import_lock_release is lost on a parked thread.        *)
THEOREM NoLostRelease == Spec => []ParkedBehindOwner
<1>1. IInv => ParkedBehindOwner
  BY DEF IInv
<1> QED BY <1>1, Invariance, PTL
================================================================================
