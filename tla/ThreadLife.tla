------------------------------ MODULE ThreadLife ------------------------------
(***************************************************************************)
(* The life of a thread: start_joinable_thread and start_new_thread, what  *)
(* a worker does after its target returned, _ThreadHandle.join, the wait   *)
(* for the non-daemon threads at shutdown, finalization, and the handles   *)
(* in a fork child (thread_real.rs, thread_registry.rs).                   *)
(*                                                                         *)
(* Python code and the builtins up to their blocking parts run under the   *)
(* GIL.  The end of a worker, a wait for a join lock and the shutdown's    *)
(* scans run without it, beside everything else.  The GIL itself is module *)
(* Gil, the lock inside a join lock module ThreadLock: here each is a      *)
(* holder.                                                                 *)
(***************************************************************************)
EXTENDS Naturals

CONSTANTS Threads, Main, None
ASSUME MainAssumption == Main \in Threads /\ None \notin Threads

VARIABLES
  gil,      \* who has the GIL
  pc,       \* where each thread is
  phase,    \* of the main thread: script, waiting (_shutdown), atexit, final
  daemon,   \* the threads started as daemons
  entries,  \* the threads in ThreadRegistry.entries
  finished, \* the entries whose event is set
  taken,    \* the entries whose OS handle join_non_daemon has taken
  done,     \* the handles whose done flag is set
  lock,     \* who holds each handle's join_lock
  whom,     \* the thread that a start, a join or the shutdown is about
  todo,     \* the rest of the shutdown's pass
  joined,   \* joined_any: this pass joined somebody
  owed      \* history: what shutdown must wait for (see Owes)

flags == <<daemon, entries, finished, taken, done, owed>>
vars == <<gil, pc, phase, flags, lock, whom, todo, joined>>

Wanting == {"enter", "yielded", "got", "late"}                  \* ask for the GIL
Under == {"run", "register", "try", "free", "pass"}             \* have it
Ending == {"setdone", "finish", "unlock"}                       \* after the target
Scanning == {"scan", "await", "osjoin"}                         \* Main in _shutdown
Over == {"ending", "gone"}
Started == {"boot", "enter", "yielded", "got", "late", "wait"} \cup Under \cup Ending
Places == {"none", "failed", "vanished"} \cup Started \cup Scanning \cup Over

Finalizing == phase = "final"
At(t, place) == gil = t /\ pc[t] = place
Goto(t, place) == pc' = [pc EXCEPT ![t] = place]

(* The dispatch loop ends every spawned worker at its first check after    *)
(* FINALIZING is set; what still asks is_finalizing() refuses.             *)
RunsCode(t) == At(t, "run") /\ ~Finalizing

Init ==
  /\ gil = Main /\ phase = "script"
  /\ pc = [t \in Threads |-> IF t = Main THEN "run" ELSE "none"]
  /\ daemon = {} /\ entries = {} /\ finished = {} /\ taken = {} /\ done = {} /\ owed = {}
  /\ lock = [t \in Threads |-> IF t = Main THEN Main ELSE None]
  /\ whom = [t \in Threads |-> None]
  /\ todo = {} /\ joined = FALSE

--------------------------------------------------------------------------------
(* The GIL.                                                                *)

TakeGil(t) ==
  /\ gil = None /\ gil' = t
  /\ \/ pc[t] \in {"enter", "yielded"} /\ Goto(t, "run")
     \/ pc[t] = "got" /\ Goto(t, "free")
     \/ pc[t] = "late" /\ Goto(t, "pass")
  /\ UNCHANGED <<phase, flags, lock, whom, todo, joined>>

(* Python code reaches a checkpoint or a blocking call.  (A finalization   *)
(* pass of join gives the GIL up at its end, and at no other place here.)  *)
Yield(t) ==
  /\ At(t, "run") /\ gil' = None
  /\ Goto(t, "yielded")
  /\ UNCHANGED <<phase, flags, lock, whom, todo, joined>>

--------------------------------------------------------------------------------
(* spawn_python_worker.                                                    *)

(* Shutdown waits for the non-daemon threads that the script started, and  *)
(* those that such a thread started in its turn.                           *)
Owes(t) == (t = Main /\ phase = "script") \/ t \in owed

Spawn(t, u) ==
  /\ RunsCode(t) /\ pc[u] = "none"
  /\ lock' = [lock EXCEPT ![u] = u]
  /\ UNCHANGED <<gil, phase, entries, finished, taken, done, todo, joined>>

StartThread(t, u, isDaemon) ==
  /\ Spawn(t, u)
  /\ pc' = [pc EXCEPT ![t] = "register", ![u] = "boot"]
  /\ whom' = [whom EXCEPT ![t] = u]
  /\ daemon' = IF isDaemon THEN daemon \cup {u} ELSE daemon
  /\ owed' = IF ~isDaemon /\ Owes(t) THEN owed \cup {u} ELSE owed

(* No OS thread to be had: the handle keeps its ident and its held lock.   *)
StartFails(t, u) ==
  /\ Spawn(t, u)
  /\ Goto(u, "failed")
  /\ UNCHANGED <<whom, daemon, owed>>

(* The entry, then the slot the new thread waits for.                      *)
Register(t) ==
  /\ At(t, "register")
  /\ entries' = entries \cup {whom[t]}
  /\ Goto(t, "run") /\ whom' = [whom EXCEPT ![t] = None]
  /\ UNCHANGED <<gil, phase, daemon, finished, taken, done, owed, lock, todo, joined>>

Boot(t) ==
  /\ pc[t] = "boot" /\ t \in entries
  /\ Goto(t, "enter")
  /\ UNCHANGED <<gil, phase, flags, lock, whom, todo, joined>>

--------------------------------------------------------------------------------
(* The end of a worker.                                                    *)

(* The target returned, or SystemExit ended it; the cleanup that runs      *)
(* Python code is behind it and it drops the GIL.                          *)
Leave(t) ==
  /\ At(t, "run") /\ t # Main /\ gil' = None
  /\ Goto(t, "setdone")
  /\ UNCHANGED <<phase, flags, lock, whom, todo, joined>>

(* Faulty variant: "daemon or finalizing".                                 *)
SetDoneNever(t) ==
  /\ pc[t] = "setdone"
  /\ done' = IF t \in daemon \/ Finalizing THEN done ELSE done \cup {t}
  /\ Goto(t, "finish")
  /\ UNCHANGED <<gil, phase, daemon, entries, finished, taken, owed, lock, whom, todo, joined>>

(* A daemon that finalization forced out keeps its handle "running".       *)
SetDone(t) ==
  /\ pc[t] = "setdone"
  /\ done' = IF t \in daemon /\ Finalizing THEN done ELSE done \cup {t}
  /\ Goto(t, "finish")
  /\ UNCHANGED <<gil, phase, daemon, entries, finished, taken, owed, lock, whom, todo, joined>>

MarkFinished(t) ==
  /\ pc[t] = "finish"
  /\ finished' = finished \cup {t}
  /\ Goto(t, "unlock")
  /\ UNCHANGED <<gil, phase, daemon, entries, taken, done, owed, lock, whom, todo, joined>>

ReleaseJoinLock(t) ==
  /\ pc[t] = "unlock"
  /\ lock' = [lock EXCEPT ![t] = None]
  /\ Goto(t, "ending")
  /\ UNCHANGED <<gil, phase, flags, whom, todo, joined>>

OsThreadEnds(t) ==
  /\ pc[t] = "ending" /\ Goto(t, "gone")
  /\ UNCHANGED <<gil, phase, flags, lock, whom, todo, joined>>

--------------------------------------------------------------------------------
(* _ThreadHandle.join.  One with a timeout may return before the end.      *)

Join(t, u) ==
  /\ RunsCode(t) /\ u # t
  /\ pc[u] # "none" /\ u \notin done
  /\ Goto(t, "try") /\ whom' = [whom EXCEPT ![t] = u]
  /\ UNCHANGED <<gil, phase, flags, lock, todo, joined>>

JoinReturns(t) == Goto(t, "run") /\ whom' = [whom EXCEPT ![t] = None]

(* try_acquire; a worker's last steps may fall between the look at done    *)
(* and this one.                                                           *)
TryLock(t) ==
  /\ At(t, "try")
  /\ \/ /\ lock[whom[t]] = None /\ lock' = [lock EXCEPT ![whom[t]] = t]
        /\ Goto(t, "free") /\ UNCHANGED <<gil, whom>>
     \/ /\ lock[whom[t]] # None /\ gil' = None
        /\ Goto(t, "wait") /\ UNCHANGED <<lock, whom>>
     \/ /\ lock[whom[t]] # None
        /\ JoinReturns(t) /\ UNCHANGED <<gil, lock>>
  /\ UNCHANGED <<phase, flags, todo, joined>>

(* acquire_timeout: the lock, ...                                          *)
Grab(t) ==
  /\ pc[t] = "wait" /\ lock[whom[t]] = None
  /\ lock' = [lock EXCEPT ![whom[t]] = t]
  /\ Goto(t, "got")
  /\ UNCHANGED <<gil, phase, flags, whom, todo, joined>>

(* ... or the end of the grace period or of a slice.                       *)
SliceEnds(t) ==
  /\ pc[t] = "wait" /\ lock[whom[t]] # None
  /\ Goto(t, "late")
  /\ UNCHANGED <<gil, phase, flags, lock, whom, todo, joined>>

(* After a finalization pass: the next slice, or the deadline is over.     *)
PassEnds(t) ==
  /\ At(t, "pass")
  /\ \/ gil' = None /\ Goto(t, "wait") /\ whom' = whom
     \/ JoinReturns(t) /\ gil' = gil
  /\ UNCHANGED <<phase, flags, lock, todo, joined>>

FreeJoinLock(t) ==
  /\ At(t, "free")
  /\ lock' = [lock EXCEPT ![whom[t]] = None]
  /\ JoinReturns(t)
  /\ UNCHANGED <<gil, phase, flags, todo, joined>>

--------------------------------------------------------------------------------
(* Shutdown.  threading._shutdown marks the main thread's own handle done  *)
(* and calls _thread._shutdown, which waits without the GIL.               *)

(* Faulty variant: the main thread's handle stays as it is.                *)
ShutdownUndone ==
  /\ At(Main, "run") /\ phase = "script"
  /\ phase' = "waiting" /\ gil' = None
  /\ Goto(Main, "scan")
  /\ UNCHANGED <<flags, lock, whom, todo, joined>>

Shutdown ==
  /\ At(Main, "run") /\ phase = "script"
  /\ done' = done \cup {Main} /\ lock' = [lock EXCEPT ![Main] = None]
  /\ phase' = "waiting" /\ gil' = None
  /\ Goto(Main, "scan")
  /\ UNCHANGED <<daemon, entries, finished, taken, owed, whom, todo, joined>>

(* join_non_daemon: one pass over the entries of now.                      *)
Scan ==
  /\ pc[Main] = "scan"
  /\ todo' = entries \ daemon /\ joined' = FALSE
  /\ Goto(Main, "await")
  /\ UNCHANGED <<gil, phase, flags, lock, whom>>

(* Its event, then its OS handle unless that was taken.  (The order within *)
(* a pass is that of the idents; every one is waited for.)                 *)
Await(u) ==
  /\ pc[Main] = "await" /\ u \in todo \cap finished
  /\ \/ /\ u \in taken /\ todo' = todo \ {u}
        /\ UNCHANGED <<pc, whom, taken>>
     \/ /\ u \notin taken /\ taken' = taken \cup {u}
        /\ Goto(Main, "osjoin") /\ whom' = [whom EXCEPT ![Main] = u] /\ todo' = todo
  /\ UNCHANGED <<gil, phase, daemon, entries, finished, done, owed, lock, joined>>

OsJoin ==
  /\ pc[Main] = "osjoin" /\ pc[whom[Main]] = "gone"
  /\ joined' = TRUE /\ todo' = todo \ {whom[Main]}
  /\ Goto(Main, "await") /\ whom' = [whom EXCEPT ![Main] = None]
  /\ UNCHANGED <<gil, phase, flags, lock>>

(* Faulty variant: one pass, whatever it joined.                           *)
PassDoneOnce ==
  /\ pc[Main] = "await" /\ todo = {}
  /\ Goto(Main, "yielded") /\ phase' = "atexit"
  /\ UNCHANGED <<gil, flags, lock, whom, todo, joined>>

(* A pass that joined nobody is the last; then the atexit callbacks.       *)
PassDone ==
  /\ pc[Main] = "await" /\ todo = {}
  /\ IF joined THEN Goto(Main, "scan") /\ phase' = phase
     ELSE Goto(Main, "yielded") /\ phase' = "atexit"
  /\ UNCHANGED <<gil, flags, lock, whom, todo, joined>>

(* run_shutdown_finalizers: set_finalizing, ...                            *)
Finalize ==
  /\ At(Main, "run") /\ phase = "atexit" /\ phase' = "final"
  /\ UNCHANGED <<gil, pc, flags, lock, whom, todo, joined>>

(* ... and at its end the process goes.                                    *)
ExitMain ==
  /\ At(Main, "run") /\ Finalizing /\ gil' = None
  /\ Goto(Main, "gone")
  /\ UNCHANGED <<phase, flags, lock, whom, todo, joined>>

--------------------------------------------------------------------------------
(* os.fork in Python code, that of a join's finalization pass included, as *)
(* the child sees it: the others are gone, the registry is new, the        *)
(* handles with an ident are done, and the join locks are as they were.    *)

Alone(t) == pc' = [u \in Threads |->
  IF u = t \/ pc[u] \in {"none", "failed"} THEN pc[u]
  ELSE IF pc[u] \in Over THEN "gone" ELSE "vanished"]

Survivor(t) == RunsCode(t) \/ (At(t, "pass") /\ ~Finalizing)

(* Faulty variant: the handles are left alone.                             *)
ForkChildUndone(t) ==
  /\ Survivor(t) /\ Alone(t)
  /\ entries' = {} /\ owed' = {} /\ todo' = {}
  /\ UNCHANGED <<gil, phase, daemon, finished, taken, done, lock, whom, joined>>

ForkChild(t) ==
  /\ Survivor(t) /\ Alone(t)
  /\ done' = done \cup {u \in Threads \ {t} : pc[u] # "none"}
  /\ entries' = {} /\ owed' = {} /\ todo' = {}
  /\ UNCHANGED <<gil, phase, daemon, finished, taken, lock, whom, joined>>

--------------------------------------------------------------------------------
Ends(t) == SetDone(t) \/ MarkFinished(t) \/ ReleaseJoinLock(t) \/ OsThreadEnds(t)
Builtin(t) == Register(t) \/ TryLock(t) \/ PassEnds(t) \/ FreeJoinLock(t)
Waits == Scan \/ (\E u \in Threads : Await(u)) \/ OsJoin \/ PassDone

Next ==
  \/ \E t \in Threads :
       \/ TakeGil(t) \/ Yield(t) \/ Boot(t) \/ Leave(t) \/ Ends(t)
       \/ Builtin(t) \/ Grab(t) \/ SliceEnds(t) \/ ForkChild(t)
       \/ \E u \in Threads, flag \in BOOLEAN : StartThread(t, u, flag)
       \/ \E u \in Threads : StartFails(t, u) \/ Join(t, u)
  \/ Shutdown \/ Waits \/ Finalize \/ ExitMain

Spec == Init /\ [][Next]_vars

(* Modules Gil and SwitchInterval: a holder yields, a waiter gets the GIL. *)
(* Module ThreadLock: a free lock is taken by who waits for it.  What runs *)
(* without Python code goes on.  Nobody has to end, or to shut down.       *)
FairSpec ==
  /\ Spec
  /\ \A t \in Threads : SF_vars(TakeGil(t))
  /\ SF_vars(\E t \in Threads : Yield(t))
  /\ WF_vars(\E t \in Threads : Boot(t) \/ Ends(t))
  /\ WF_vars(\E t \in Threads : Builtin(t))
  /\ WF_vars(\E t \in Threads : Grab(t))
  /\ WF_vars(Waits)

--------------------------------------------------------------------------------
(* Properties.                                                             *)

Released(u) == u \in done \/ (u \in daemon /\ Finalizing)

(* The types, and that whoever is at a place of Python code has the GIL.   *)
TypeOK ==
  /\ gil \in Threads \cup {None}
  /\ pc \in [Threads -> Places]
  /\ \A t \in Threads : pc[t] \in Under <=> gil = t
  /\ phase \in {"script", "waiting", "atexit", "final"}
  /\ daemon \subseteq Threads /\ entries \subseteq Threads /\ finished \subseteq Threads
  /\ taken \subseteq Threads /\ done \subseteq Threads /\ owed \subseteq Threads
  /\ lock \in [Threads -> Threads \cup {None}]
  /\ whom \in [Threads -> Threads \cup {None}]
  /\ todo \subseteq Threads /\ joined \in BOOLEAN

(* A join that got the lock got it from a thread that is over: it has left *)
(* the GIL, its entry is finished, and the comment in the worker holds,    *)
(* "Mark the handle done *before* releasing the lock so a thread waking    *)
(* from `join()` immediately observes `is_done()`".  And in a fork child   *)
(* no join begins to wait for a thread that is not there.                  *)
JoinTellsEnd == \A t \in Threads :
  /\ pc[t] \in {"got", "free"} =>
       LET u == whom[t] IN Released(u) /\ (u # Main => pc[u] \in Over /\ u \in finished)
  /\ pc[t] = "try" => pc[whom[t]] # "vanished"

(* join_non_daemon: once finalization begins (and stops every spawned      *)
(* thread where it is), the threads that shutdown had to wait for have     *)
(* ended by themselves.  A non-daemon thread started by a daemon, or by an *)
(* atexit callback, is not among them.                                     *)
ShutdownWaits == phase \in {"atexit", "final"} => \A u \in owed : pc[u] = "gone"

JoinWaits(t) == pc[t] \in {"wait", "late", "pass"}
Forked == \E v \in Threads : pc[v] = "vanished"
AllGone == \A u \in entries \ daemon : pc[u] = "gone"

(* A join of a thread that is over returns, that of the main thread in     *)
(* shutdown too, and shutdown goes on when the non-daemon threads are      *)
(* over.  (After a fork from inside a join it may not return.)             *)
WaitsEnd ==
  /\ \A t, u \in Threads :
       JoinWaits(t) /\ whom[t] = u /\ (pc[u] \in Over \/ (u = Main /\ phase # "script"))
         ~> ~JoinWaits(t) \/ Forked
  /\ <>[]AllGone => (pc[Main] \in Scanning ~> pc[Main] \notin Scanning)
================================================================================
