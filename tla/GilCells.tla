-------------------------------- MODULE GilCells -------------------------------
(***************************************************************************)
(* The GIL composed with the borrow state of GilCell (sync.rs), the cell   *)
(* that wraps every mutable object.  While one thread has ever run VM code *)
(* its borrows skip the cell's lock word; the second thread to register    *)
(* revokes that bias and waits for the lock-free guards to drain.  From    *)
(* then on a borrow takes the lock word, spinning if another thread is in  *)
(* the cell.  A guard can be live while Python code runs (a dict key's     *)
(* __eq__ during a probe): the hand-off refuses then, a blocking release   *)
(* (a wait for a threading.Lock, say) does not.                            *)
(*                                                                         *)
(* Borrow and release run under the GIL, so each is one action.            *)
(***************************************************************************)
EXTENDS Gil

CONSTANTS Cells,      \* GilCells
          Locks,      \* threading.Lock objects of the Python program
          MaxGuards   \* bound on the live guards of one thread

VARIABLES
  shared,     \* CELLS_SHARED
  first,      \* FIRST, the first thread that registered
  sole,       \* SOLE_GUARDS
  draining,   \* the thread that revoked the bias and waits for SOLE_GUARDS = 0
  cellOwner,  \* GilCell.owner, the lock word
  borrow,     \* GilCell.borrow: readers, or -1 for a writer
  held,       \* each thread's live guards, newest last
  live,       \* CELL_TLS.live_guards
  want,       \* the borrow a thread spins for in lock_contended
  lockHolder, \* holder of each threading.Lock
  awaits      \* the threading.Lock a thread waits for outside the GIL

cellVars == <<shared, first, sole, draining, cellOwner, borrow, held, live, want,
              lockHolder, awaits>>
allVars == <<vars, cellVars>>

Request == [cell : Cells, mut : BOOLEAN]
NoRequest == [cell |-> None, mut |-> FALSE]

(* A live Ref or RefMut; `level` is the scope of the borrowing Rust frame. *)
Guard == [cell : Cells, mut : BOOLEAN, locked : BOOLEAN, level : Nat]

CellInit ==
  /\ Init
  /\ shared = FALSE /\ first = None /\ sole = 0 /\ draining = None
  /\ cellOwner = [c \in Cells |-> None]
  /\ borrow = [c \in Cells |-> 0]
  /\ held = [t \in Threads |-> <<>>]
  /\ live = [t \in Threads |-> 0]
  /\ want = [t \in Threads |-> NoRequest]
  /\ lockHolder = [l \in Locks |-> None]
  /\ awaits = [t \in Threads |-> None]

--------------------------------------------------------------------------------
(* The thread is not stuck inside a borrow or a revocation.                *)
Free(t) == want[t] = NoRequest /\ draining # t

(* It may touch objects: it runs VM code and is not stuck.                 *)
CanTouch(t) == Running(t) /\ Free(t)

Newest(t) == held[t][Len(held[t])]

(* The innermost open scope contains no borrow, so it can end.             *)
ScopeClear(t) == \A i \in DOMAIN held[t] : held[t][i].level < Len(frames[t])

--------------------------------------------------------------------------------
(* note_vm_thread on the acquire path, and revoke_bias.                    *)

(* The only thread so far, or the bias is gone already.                    *)
RegisterKnown(t) ==
  /\ draining # t
  /\ shared \/ first \in {None, t}
  /\ Register(t)
  /\ first' = IF shared \/ first # None THEN first ELSE t
  /\ UNCHANGED <<shared, sole, draining, cellOwner, borrow, held, live, want,
                 lockHolder, awaits>>

(* CELLS_SHARED.swap(true): the one thread that makes the transition.      *)
Revoke(t) ==
  /\ ~shared
  /\ shared' = TRUE
  /\ draining' = t
  /\ UNCHANGED <<vars, first, sole, cellOwner, borrow, held, live, want,
                 lockHolder, awaits>>

RevokeOnAcquire(t) ==
  /\ pc[t] = "register" /\ first \notin {None, t}
  /\ Revoke(t)

(* mark_cells_shared, as faulthandler.dump_traceback_later calls it.       *)
MarkShared(t) == CanTouch(t) /\ Revoke(t)

(* Faulty variant: the revoker does not wait for SOLE_GUARDS.              *)
DrainedAtOnce(t) ==
  /\ draining = t
  /\ draining' = None
  /\ IF pc[t] = "register" THEN Register(t) ELSE UNCHANGED vars
  /\ UNCHANGED <<shared, first, sole, cellOwner, borrow, held, live, want,
                 lockHolder, awaits>>

(* The transitioner's spin ends; a thread in acquire goes on there.        *)
Drained(t) ==
  /\ draining = t /\ sole = 0
  /\ draining' = None
  /\ IF pc[t] = "register" THEN Register(t) ELSE UNCHANGED vars
  /\ UNCHANGED <<shared, first, sole, cellOwner, borrow, held, live, want,
                 lockHolder, awaits>>

--------------------------------------------------------------------------------
(* try_borrow and try_borrow_mut.  A borrow that fails (BorrowError) puts  *)
(* everything back and is no step here.                                    *)

Claimable(c, m) == IF m THEN borrow[c] = 0 ELSE borrow[c] >= 0

Claim(t, c, m, locked) ==
  /\ borrow' = [borrow EXCEPT ![c] = IF m THEN -1 ELSE @ + 1]
  /\ held' = [held EXCEPT ![t] = Append(@,
       [cell |-> c, mut |-> m, locked |-> locked, level |-> Len(frames[t])])]

(* biased_here(): no lock word, a guard counted in SOLE_GUARDS.            *)
BorrowBiased(t, c, m) ==
  /\ CanTouch(t) /\ Len(held[t]) < MaxGuards
  /\ ~shared
  /\ Claimable(c, m)
  /\ Claim(t, c, m, FALSE)
  /\ sole' = sole + 1
  /\ UNCHANGED <<vars, shared, first, draining, cellOwner, live, want, lockHolder, awaits>>

(* try_borrow_locked: the lock word is free, or this thread's already.     *)
BorrowLocked(t, c, m) ==
  /\ CanTouch(t) /\ Len(held[t]) < MaxGuards
  /\ shared
  /\ cellOwner[c] \in {None, t}
  /\ Claimable(c, m)
  /\ Claim(t, c, m, TRUE)
  /\ cellOwner' = [cellOwner EXCEPT ![c] = t]
  /\ live' = [live EXCEPT ![t] = @ + 1]
  /\ UNCHANGED <<vars, shared, first, sole, draining, want, lockHolder, awaits>>

(* lock_contended: spin, with the GIL, until the owner leaves the cell.    *)
(* That is a step of the owner that needs the GIL, so the spin of a thread *)
(* that has it has no end: SpinsBehindBlocked checks it, and there is no   *)
(* action for the end.                                                     *)
Contend(t, c, m) ==
  /\ CanTouch(t) /\ Len(held[t]) < MaxGuards
  /\ shared
  /\ cellOwner[c] \notin {None, t}
  /\ want' = [want EXCEPT ![t] = [cell |-> c, mut |-> m]]
  /\ UNCHANGED <<vars, shared, first, sole, draining, cellOwner, borrow, held, live,
                 lockHolder, awaits>>

(* Drop of Ref and RefMut: the last guard on the cell frees the lock word. *)
LastOn(g) == g.mut \/ borrow[g.cell] = 1

(* Faulty variant: every guard is retired from SOLE_GUARDS.                *)
DropGuardUntagged(t) ==
  /\ CanTouch(t) /\ held[t] # <<>> /\ Newest(t).level = Len(frames[t])
  /\ LET g == Newest(t) IN
       /\ borrow' = [borrow EXCEPT ![g.cell] = IF g.mut THEN 0 ELSE @ - 1]
       /\ cellOwner' = IF g.locked /\ LastOn(g)
                       THEN [cellOwner EXCEPT ![g.cell] = None] ELSE cellOwner
  /\ sole' = sole - 1
  /\ held' = [held EXCEPT ![t] = SubSeq(@, 1, Len(@) - 1)]
  /\ UNCHANGED <<vars, shared, first, draining, live, want, lockHolder, awaits>>

DropGuard(t) ==
  /\ CanTouch(t) /\ held[t] # <<>> /\ Newest(t).level = Len(frames[t])
  /\ LET g == Newest(t) IN
       /\ borrow' = [borrow EXCEPT ![g.cell] = IF g.mut THEN 0 ELSE @ - 1]
       /\ cellOwner' = IF g.locked /\ LastOn(g)
                       THEN [cellOwner EXCEPT ![g.cell] = None] ELSE cellOwner
       /\ IF g.locked
          THEN live' = [live EXCEPT ![t] = @ - 1] /\ sole' = sole
          ELSE sole' = sole - 1 /\ live' = live
  /\ held' = [held EXCEPT ![t] = SubSeq(@, 1, Len(@) - 1)]
  /\ UNCHANGED <<vars, shared, first, draining, want, lockHolder, awaits>>

(* Faulty variant: the guards taken lock-free are forgotten.               *)
CellGuardsLocked(t) == live[t] > 0

(* cell_guards_live, which the hand-off checkpoint consults.               *)
CellGuardsLive(t) == (sole > 0 /\ first = t) \/ live[t] > 0

--------------------------------------------------------------------------------
(* threading.Lock.acquire and release from Python code.  A thread that     *)
(* waits for a lock it holds itself is a broken program: not modelled.     *)

TakeLock(t, l) ==
  /\ CanTouch(t) /\ lockHolder[l] = None
  /\ lockHolder' = [lockHolder EXCEPT ![l] = t]
  /\ UNCHANGED <<vars, shared, first, sole, draining, cellOwner, borrow, held, live,
                 want, awaits>>

(* The lock is taken: allow_threads_then(|| lock.acquire(me)).             *)
AwaitLock(t, l) ==
  /\ CanTouch(t) /\ lockHolder[l] \notin {None, t}
  /\ Block(t)
  /\ awaits' = [awaits EXCEPT ![t] = l]
  /\ UNCHANGED <<shared, first, sole, draining, cellOwner, borrow, held, live, want,
                 lockHolder>>

GrantLock(t, l) ==
  /\ pc[t] = "run" /\ awaits[t] = l /\ lockHolder[l] = None
  /\ lockHolder' = [lockHolder EXCEPT ![l] = t]
  /\ awaits' = [awaits EXCEPT ![t] = None]
  /\ UNCHANGED <<vars, shared, first, sole, draining, cellOwner, borrow, held, live, want>>

FreeLock(t, l) ==
  /\ CanTouch(t) /\ lockHolder[l] = t
  /\ lockHolder' = [lockHolder EXCEPT ![l] = None]
  /\ UNCHANGED <<vars, shared, first, sole, draining, cellOwner, borrow, held, live,
                 want, awaits>>

--------------------------------------------------------------------------------
(* The steps of Gil, under the conditions the cells add.                   *)

(* Faulty variant: the checkpoint does not look at the guards.             *)
HandOffAnyway(t) == Yield(t)

(* maybe_yield_gil returns early while a guard of the thread is live.      *)
HandOff(t) == Yield(t) /\ ~CellGuardsLive(t)

GilStep(t) ==
  /\ \/ AddWaiter(t) \/ Lock(t) \/ LockTimeout(t) \/ RemoveWaiter(t) \/ Bump(t)
     \/ Notify(t) \/ Publish(t) \/ DropStep(t)
     \/ TakeMutex(t) \/ Check(t) \/ Wait(t) \/ Proceed(t) \/ WaitTimeout(t)
     \/ /\ Free(t) /\ awaits[t] = None
        /\ \/ Enter(t) \/ EnterHeld(t) \/ Block(t) \/ Save(t) \/ BlockIdle(t)
           \/ HandOff(t) \/ ThreadExit(t)
           \/ ScopeClear(t) /\ (Exit(t) \/ ExitHeld(t) \/ Resume(t) \/ ResumeIdle(t))
  /\ UNCHANGED cellVars

CellStep(t) ==
  \/ RegisterKnown(t) \/ RevokeOnAcquire(t) \/ MarkShared(t) \/ Drained(t)
  \/ \E c \in Cells, m \in BOOLEAN :
       BorrowBiased(t, c, m) \/ BorrowLocked(t, c, m) \/ Contend(t, c, m)
  \/ DropGuard(t)

LockStep(t) == \E l \in Locks :
  TakeLock(t, l) \/ AwaitLock(t, l) \/ GrantLock(t, l) \/ FreeLock(t, l)

CellNext ==
  \/ \E t \in Threads : GilStep(t) \/ CellStep(t) \/ LockStep(t)
  \/ AllDone /\ UNCHANGED cellVars

CellSpec == CellInit /\ [][CellNext]_allVars

--------------------------------------------------------------------------------
(* Properties.                                                             *)

CellTypeOK ==
  /\ TypeOK
  /\ shared \in BOOLEAN /\ sole \in Nat
  /\ first \in Threads \cup {None} /\ draining \in Threads \cup {None}
  /\ cellOwner \in [Cells -> Threads \cup {None}]
  /\ borrow \in [Cells -> Nat \cup {-1}]
  /\ held \in [Threads -> Seq(Guard)]
  /\ live \in [Threads -> Nat]
  /\ want \in [Threads -> Request \cup {NoRequest}]
  /\ lockHolder \in [Locks -> Threads \cup {None}]
  /\ awaits \in [Threads -> Locks \cup {None}]

GuardsOn(t, c) == {i \in DOMAIN held[t] : held[t][i].cell = c}

(* A reference handed out by a cell is never aliased: the guards live on a *)
(* cell belong to one thread, and a writer is alone.  This is across both  *)
(* borrow paths, the revocation between them, hand-offs and blocking calls *)
(* made while a guard is live.                                             *)
CellExclusion ==
  \A t, u \in Threads, c \in Cells :
    \A i \in GuardsOn(t, c), j \in GuardsOn(u, c) :
      t = u /\ (held[t][i].mut => i = j)

Plain(t) == {i \in DOMAIN held[t] : ~held[t][i].locked}

(* The checkpoint refuses to hand the GIL off exactly while the thread has *)
(* a live guard, whichever of the two counters the guard is in: a flip of  *)
(* CELLS_SHARED while a guard is live would strand it in the wrong one.    *)
GuardsSeen == \A t \in Threads : CellGuardsLive(t) <=> held[t] # <<>>

(* revoke_bias_for_spawn's comment: the spawner that has a lock-free guard *)
(* "can't hand the GIL to the new thread until that guard is released", so *)
(* a new thread that drains with the GIL never waits for another's guard.  *)
NoStuckDrain ==
  \A t, u \in Threads : draining = t /\ owner = t /\ Plain(u) # {} => t = u

InBlockingCall(t) ==
  \/ \E i \in DOMAIN frames[t] : frames[t][i].kind \in {"block", "save"}
  \/ pc[t] # "run" /\ goal[t] \in {"block", "save"}

(* lock_contended's comment: under the GIL contention is "rare and short". *)
(* It is never due to a periodic hand-off, and only to an owner that gave  *)
(* up the GIL in a blocking call inside its borrow; then it is not short:  *)
(* the owner stays in the cell for as long as the spinner has the GIL.     *)
SpinsBehindBlocked == \A t \in Threads :
  want[t] # NoRequest =>
    LET u == cellOwner[want[t].cell] IN u \notin {None, t} /\ InBlockingCall(u)

(* The same comment: a contention that is short comes to an end.  Nobody   *)
(* spins for a cell whose owner waits for a threading.Lock of the spinner: *)
(* each would wait for the other, one of them with the GIL.  It does not   *)
(* hold: a wait for a lock gives the GIL up inside a borrow.               *)
NoCrossWait == \A t, u \in Threads :
  want[t] # NoRequest /\ cellOwner[want[t].cell] = u /\ awaits[u] # None
    => lockHolder[awaits[u]] # t
================================================================================
