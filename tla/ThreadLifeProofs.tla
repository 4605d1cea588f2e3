---------------------------- MODULE ThreadLifeProofs ----------------------------
(***************************************************************************)
(* Proofs about ThreadLife: a join that got the lock tells the truth, and  *)
(* shutdown has waited for everybody it owes, for any set of threads.      *)
(***************************************************************************)
EXTENDS ThreadLife, TLAPS

(* The main thread is never at a worker's place, nor a worker at its; it   *)
(* scans while it waits; who registers a thread, and a daemon, is started. *)
Placed ==
  /\ pc[Main] \notin {"none", "failed", "boot", "enter", "ending"} \cup Ending
  /\ \A t \in Threads \ {Main} : pc[t] \notin Scanning
  /\ \A t \in Threads : pc[t] = "register" => whom[t] \in Threads
  /\ pc[Main] \in Scanning => phase = "waiting"
  /\ \A t \in daemon : pc[t] # "none"

(* A join lock stays its own thread's until the release at the end (for    *)
(* ever if that thread failed to start or vanished in a fork); the main    *)
(* thread's, until shutdown.                                               *)
Held ==
  /\ \A u \in Threads \ {Main} : pc[u] \in Started \cup {"failed", "vanished"} => lock[u] = u
  /\ phase = "script" => lock[Main] = Main
  /\ phase # "script" => Main \in done

(* What a thread's last steps have done by when.                           *)
Ended ==
  /\ \A u \in Threads \ {Main} :
       /\ pc[u] \in {"finish", "unlock"} \cup Over => Released(u)
       /\ pc[u] \in {"unlock"} \cup Over => u \in finished
  /\ \A u \in Threads : pc[u] = "vanished" => u \in done

Joining == {"try", "wait", "late", "pass", "got", "free"}

(* A join is about a thread that was started at least.                     *)
JoinPlaces == \A t \in Threads :
  /\ pc[t] \in Joining => whom[t] \in Threads /\ pc[whom[t]] # "none"
  /\ pc[t] \in {"got", "free"} /\ whom[t] = Main => phase # "script"

JInv == TypeOK /\ Placed /\ Held /\ Ended /\ JoinPlaces /\ JoinTellsEnd

(* Whom shutdown owes a wait: a non-daemon that is in the registry before  *)
(* it runs, and until then its starter is about to put it there.           *)
Known == \A u \in owed :
  /\ u # Main /\ u \notin daemon /\ pc[u] # "none"
  /\ pc[u] # "boot" => u \in entries
  /\ u \notin entries =>
       \E p \in Threads : pc[p] = "register" /\ whom[p] = u /\ (p = Main \/ p \in owed)

(* A handle that was taken is of a thread that was joined.                 *)
TakenGone ==
  pc[Main] # "vanished" =>
    \A u \in taken : pc[u] = "gone" \/ (pc[Main] = "osjoin" /\ whom[Main] = u)

(* A pass that has joined nobody has all that is owed behind it, or a      *)
(* thread before it that it will join.                                     *)
PassMisses ==
  pc[Main] \in {"await", "osjoin"} /\ ~joined =>
    \/ \A u \in owed : pc[u] = "gone"
    \/ \E v \in todo \cap owed : v \notin taken \/ (pc[Main] = "osjoin" /\ whom[Main] = v)

SInv == Known /\ TakenGone /\ PassMisses /\ ShutdownWaits
LEMMA InitInv == Init => JInv /\ SInv
<1> SUFFICES ASSUME Init PROVE JInv /\ SInv OBVIOUS
<1> USE MainAssumption DEF Init
<1>1. TypeOK
  BY DEF TypeOK, Places, Started, Under, Ending, Over, Scanning
<1>2. Placed /\ Held /\ Ended
  BY DEF Placed, Held, Ended, Started, Under, Ending, Over, Scanning
<1>3. JoinPlaces /\ JoinTellsEnd
  BY DEF JoinPlaces, Joining, JoinTellsEnd
<1>4. SInv
  BY DEF SInv, Known, TakenGone, PassMisses, ShutdownWaits
<1> QED BY <1>1, <1>2, <1>3, <1>4 DEF JInv

(* Every step keeps the types.                                           *)
LEMMA TypeStep ==
  ASSUME TypeOK, Placed, [Next]_vars PROVE TypeOK'
<1> USE MainAssumption DEF TypeOK, Placed, flags, At, Goto, Finalizing, Places, Started, Under,
       Ending, Over, Scanning
<1>1. ASSUME NEW t \in Threads, TakeGil(t) \/ Yield(t) PROVE TypeOK'
  BY <1>1 DEF TakeGil, Yield
<1>2. ASSUME NEW t \in Threads, NEW u \in Threads, NEW d \in BOOLEAN, StartThread(t, u, d)
      PROVE  TypeOK'
  BY <1>2 DEF StartThread, Spawn, RunsCode, Owes
<1>3. ASSUME NEW t \in Threads, NEW u \in Threads, StartFails(t, u) PROVE TypeOK'
  BY <1>3 DEF StartFails, Spawn, RunsCode
<1>4. ASSUME NEW t \in Threads, Register(t) PROVE TypeOK'
  BY <1>4 DEF Register
<1>5. ASSUME NEW t \in Threads, Boot(t) \/ Leave(t) PROVE TypeOK'
  BY <1>5 DEF Boot, Leave
<1>6. ASSUME NEW t \in Threads, Ends(t) PROVE TypeOK'
  BY <1>6 DEF Ends, SetDone, MarkFinished, ReleaseJoinLock, OsThreadEnds
<1>7. ASSUME NEW t \in Threads, NEW u \in Threads, Join(t, u) PROVE TypeOK'
  BY <1>7 DEF Join, RunsCode
<1>8. ASSUME NEW t \in Threads, TryLock(t) PROVE TypeOK'
  BY <1>8 DEF TryLock, JoinReturns
<1>9. ASSUME NEW t \in Threads, Grab(t) \/ SliceEnds(t) PROVE TypeOK'
  BY <1>9 DEF Grab, SliceEnds
<1>10. ASSUME NEW t \in Threads, PassEnds(t) \/ FreeJoinLock(t) PROVE TypeOK'
  BY <1>10 DEF PassEnds, FreeJoinLock, JoinReturns
<1>11. CASE Shutdown
  BY <1>11 DEF Shutdown
<1>12. CASE Scan
  BY <1>12 DEF Scan
<1>13. ASSUME NEW u \in Threads, Await(u) PROVE TypeOK'
  BY <1>13 DEF Await
<1>14. CASE OsJoin
  BY <1>14 DEF OsJoin
<1>15. CASE PassDone
  BY <1>15 DEF PassDone
<1>16. CASE Finalize \/ ExitMain
  BY <1>16 DEF Finalize, ExitMain
<1>17. ASSUME NEW t \in Threads, ForkChild(t) PROVE TypeOK'
  BY <1>17 DEF ForkChild, Alone, Survivor, RunsCode
<1>18. CASE UNCHANGED vars
  BY <1>18 DEF vars
<1> QED BY <1>1, <1>2, <1>3, <1>4, <1>5, <1>6, <1>7, <1>8, <1>9, <1>10, <1>11, <1>12, <1>13,
       <1>14, <1>15, <1>16, <1>17, <1>18
     DEF Next, Builtin, Waits

(* Only the main thread shuts down, and only other threads are started.    *)
LEMMA PlaceStep ==
  ASSUME TypeOK, Placed, [Next]_vars PROVE Placed'
<1> USE MainAssumption DEF TypeOK, Placed, flags, At, Goto, Finalizing, Places, Started, Under,
       Ending, Over, Scanning
<1>1. ASSUME NEW t \in Threads, TakeGil(t) \/ Yield(t) PROVE Placed'
  BY <1>1 DEF TakeGil, Yield
<1>2. ASSUME NEW t \in Threads, NEW u \in Threads, NEW d \in BOOLEAN, StartThread(t, u, d)
      PROVE  Placed'
  BY <1>2 DEF StartThread, Spawn, RunsCode, Owes
<1>3. ASSUME NEW t \in Threads, NEW u \in Threads, StartFails(t, u) PROVE Placed'
  BY <1>3 DEF StartFails, Spawn, RunsCode
<1>4. ASSUME NEW t \in Threads, Register(t) PROVE Placed'
  BY <1>4 DEF Register
<1>5. ASSUME NEW t \in Threads, Boot(t) \/ Leave(t) PROVE Placed'
  BY <1>5 DEF Boot, Leave
<1>6. ASSUME NEW t \in Threads, Ends(t) PROVE Placed'
  BY <1>6 DEF Ends, SetDone, MarkFinished, ReleaseJoinLock, OsThreadEnds
<1>7. ASSUME NEW t \in Threads, NEW u \in Threads, Join(t, u) PROVE Placed'
  BY <1>7 DEF Join, RunsCode
<1>8. ASSUME NEW t \in Threads, TryLock(t) PROVE Placed'
  BY <1>8 DEF TryLock, JoinReturns
<1>9. ASSUME NEW t \in Threads, Grab(t) \/ SliceEnds(t) PROVE Placed'
  BY <1>9 DEF Grab, SliceEnds
<1>10. ASSUME NEW t \in Threads, PassEnds(t) \/ FreeJoinLock(t) PROVE Placed'
  BY <1>10 DEF PassEnds, FreeJoinLock, JoinReturns
<1>11. CASE Shutdown
  BY <1>11 DEF Shutdown
<1>12. CASE Scan
  BY <1>12 DEF Scan
<1>13. ASSUME NEW u \in Threads, Await(u) PROVE Placed'
  BY <1>13 DEF Await
<1>14. CASE OsJoin
  BY <1>14 DEF OsJoin
<1>15. CASE PassDone
  BY <1>15 DEF PassDone
<1>16. CASE Finalize \/ ExitMain
  BY <1>16 DEF Finalize, ExitMain
<1>17. ASSUME NEW t \in Threads, ForkChild(t) PROVE Placed'
  BY <1>17 DEF ForkChild, Alone, Survivor, RunsCode
<1>18. CASE UNCHANGED vars
  BY <1>18 DEF vars
<1> QED BY <1>1, <1>2, <1>3, <1>4, <1>5, <1>6, <1>7, <1>8, <1>9, <1>10, <1>11, <1>12, <1>13,
       <1>14, <1>15, <1>16, <1>17, <1>18
     DEF Next, Builtin, Waits

(* A release of a join lock is its thread's last, or by a join of a     *)
(* thread that is past it.                                               *)
LEMMA HeldStep ==
  ASSUME JInv, [Next]_vars PROVE Held'
<1> USE MainAssumption DEF JInv, TypeOK, Placed, Held, Ended, JoinPlaces, Joining,
       JoinTellsEnd, flags, At, Goto, Finalizing, Places, Started, Under, Ending, Over, Scanning
<1>1. ASSUME NEW t \in Threads, TakeGil(t) \/ Yield(t) PROVE Held'
  BY <1>1 DEF TakeGil, Yield
<1>2. ASSUME NEW t \in Threads, NEW u \in Threads, NEW d \in BOOLEAN, StartThread(t, u, d)
      PROVE  Held'
  BY <1>2 DEF StartThread, Spawn, RunsCode, Owes
<1>3. ASSUME NEW t \in Threads, NEW u \in Threads, StartFails(t, u) PROVE Held'
  BY <1>3 DEF StartFails, Spawn, RunsCode
<1>4. ASSUME NEW t \in Threads, Register(t) PROVE Held'
  BY <1>4 DEF Register
<1>5. ASSUME NEW t \in Threads, Boot(t) \/ Leave(t) PROVE Held'
  BY <1>5 DEF Boot, Leave
<1>6. ASSUME NEW t \in Threads, Ends(t) PROVE Held'
  BY <1>6 DEF Ends, SetDone, MarkFinished, ReleaseJoinLock, OsThreadEnds
<1>7. ASSUME NEW t \in Threads, NEW u \in Threads, Join(t, u) PROVE Held'
  BY <1>7 DEF Join, RunsCode
<1>8. ASSUME NEW t \in Threads, TryLock(t) PROVE Held'
  BY <1>8 DEF TryLock, JoinReturns
<1>9. ASSUME NEW t \in Threads, Grab(t) \/ SliceEnds(t) PROVE Held'
  BY <1>9 DEF Grab, SliceEnds
<1>10. ASSUME NEW t \in Threads, PassEnds(t) \/ FreeJoinLock(t) PROVE Held'
  BY <1>10 DEF PassEnds, FreeJoinLock, JoinReturns
<1>11. CASE Shutdown
  BY <1>11 DEF Shutdown
<1>12. CASE Scan
  BY <1>12 DEF Scan
<1>13. ASSUME NEW u \in Threads, Await(u) PROVE Held'
  BY <1>13 DEF Await
<1>14. CASE OsJoin
  BY <1>14 DEF OsJoin
<1>15. CASE PassDone
  <2>1. CASE joined
    BY <1>15, <2>1 DEF PassDone
  <2>2. CASE ~joined
    BY <1>15, <2>2 DEF PassDone
  <2> QED BY <2>1, <2>2
<1>16. CASE Finalize \/ ExitMain
  BY <1>16 DEF Finalize, ExitMain
<1>17. ASSUME NEW t \in Threads, ForkChild(t) PROVE Held'
  BY <1>17 DEF ForkChild, Alone, Survivor, RunsCode
<1>18. CASE UNCHANGED vars
  BY <1>18 DEF vars
<1> QED BY <1>1, <1>2, <1>3, <1>4, <1>5, <1>6, <1>7, <1>8, <1>9, <1>10, <1>11, <1>12, <1>13,
       <1>14, <1>15, <1>16, <1>17, <1>18
     DEF Next, Builtin, Waits

(* A worker passes its last steps in order, and no step takes back what    *)
(* they did: finalization ends only with the process.                      *)
LEMMA EndedStep ==
  ASSUME JInv, [Next]_vars PROVE Ended'
<1> USE MainAssumption DEF JInv, TypeOK, Placed, Ended, Released, Held, flags, At, Goto,
       Finalizing, Places, Started, Under, Ending, Over, Scanning
<1>1. ASSUME NEW t \in Threads, TakeGil(t) \/ Yield(t) PROVE Ended'
  BY <1>1 DEF TakeGil, Yield
<1>2. ASSUME NEW t \in Threads, NEW u \in Threads, NEW d \in BOOLEAN, StartThread(t, u, d)
      PROVE  Ended'
  BY <1>2 DEF StartThread, Spawn, RunsCode, Owes
<1>3. ASSUME NEW t \in Threads, NEW u \in Threads, StartFails(t, u) PROVE Ended'
  BY <1>3 DEF StartFails, Spawn, RunsCode
<1>4. ASSUME NEW t \in Threads, Register(t) PROVE Ended'
  BY <1>4 DEF Register
<1>5. ASSUME NEW t \in Threads, Boot(t) \/ Leave(t) PROVE Ended'
  BY <1>5 DEF Boot, Leave
<1>6. ASSUME NEW t \in Threads, Ends(t) PROVE Ended'
  BY <1>6 DEF Ends, SetDone, MarkFinished, ReleaseJoinLock, OsThreadEnds
<1>7. ASSUME NEW t \in Threads, NEW u \in Threads, Join(t, u) PROVE Ended'
  BY <1>7 DEF Join, RunsCode
<1>8. ASSUME NEW t \in Threads, TryLock(t) PROVE Ended'
  BY <1>8 DEF TryLock, JoinReturns
<1>9. ASSUME NEW t \in Threads, Grab(t) \/ SliceEnds(t) PROVE Ended'
  BY <1>9 DEF Grab, SliceEnds
<1>10. ASSUME NEW t \in Threads, PassEnds(t) \/ FreeJoinLock(t) PROVE Ended'
  BY <1>10 DEF PassEnds, FreeJoinLock, JoinReturns
<1>11. CASE Shutdown
  BY <1>11 DEF Shutdown
<1>12. CASE Scan
  BY <1>12 DEF Scan
<1>13. ASSUME NEW u \in Threads, Await(u) PROVE Ended'
  BY <1>13 DEF Await
<1>14. CASE OsJoin
  BY <1>14 DEF OsJoin
<1>15. CASE PassDone
  <2>1. CASE joined
    BY <1>15, <2>1 DEF PassDone
  <2>2. CASE ~joined
    BY <1>15, <2>2 DEF PassDone
  <2> QED BY <2>1, <2>2
<1>16. CASE Finalize \/ ExitMain
  BY <1>16 DEF Finalize, ExitMain
<1>17. ASSUME NEW t \in Threads, ForkChild(t) PROVE Ended'
  BY <1>17 DEF ForkChild, Alone, Survivor, RunsCode
<1>18. CASE UNCHANGED vars
  BY <1>18 DEF vars
<1> QED BY <1>1, <1>2, <1>3, <1>4, <1>5, <1>6, <1>7, <1>8, <1>9, <1>10, <1>11, <1>12, <1>13,
       <1>14, <1>15, <1>16, <1>17, <1>18
     DEF Next, Builtin, Waits

(* A join gets a lock only behind its thread's release, and looks at done  *)
(* before it waits.                                                        *)
LEMMA JoinStep ==
  ASSUME JInv, [Next]_vars PROVE JoinPlaces' /\ JoinTellsEnd'
<1> USE MainAssumption DEF JInv, TypeOK, Placed, Held, Ended, Released, JoinPlaces, Joining,
       JoinTellsEnd, flags, At, Goto, Finalizing, Places, Started, Under, Ending, Over, Scanning
<1>1. ASSUME NEW t \in Threads, TakeGil(t) \/ Yield(t) PROVE JoinPlaces' /\ JoinTellsEnd'
  BY <1>1 DEF TakeGil, Yield
<1>2. ASSUME NEW t \in Threads, NEW u \in Threads, NEW d \in BOOLEAN, StartThread(t, u, d)
      PROVE  JoinPlaces' /\ JoinTellsEnd'
  BY <1>2 DEF StartThread, Spawn, RunsCode, Owes
<1>3. ASSUME NEW t \in Threads, NEW u \in Threads, StartFails(t, u) PROVE JoinPlaces' /\ JoinTellsEnd'
  BY <1>3 DEF StartFails, Spawn, RunsCode
<1>4. ASSUME NEW t \in Threads, Register(t) PROVE JoinPlaces' /\ JoinTellsEnd'
  BY <1>4 DEF Register
<1>5. ASSUME NEW t \in Threads, Boot(t) \/ Leave(t) PROVE JoinPlaces' /\ JoinTellsEnd'
  BY <1>5 DEF Boot, Leave
<1>6. ASSUME NEW t \in Threads, Ends(t) PROVE JoinPlaces' /\ JoinTellsEnd'
  BY <1>6 DEF Ends, SetDone, MarkFinished, ReleaseJoinLock, OsThreadEnds
<1>7. ASSUME NEW t \in Threads, NEW u \in Threads, Join(t, u) PROVE JoinPlaces' /\ JoinTellsEnd'
  BY <1>7 DEF Join, RunsCode
<1>8. ASSUME NEW t \in Threads, TryLock(t) PROVE JoinPlaces' /\ JoinTellsEnd'
  BY <1>8 DEF TryLock, JoinReturns
<1>9. ASSUME NEW t \in Threads, Grab(t) \/ SliceEnds(t) PROVE JoinPlaces' /\ JoinTellsEnd'
  BY <1>9 DEF Grab, SliceEnds
<1>10. ASSUME NEW t \in Threads, PassEnds(t) \/ FreeJoinLock(t) PROVE JoinPlaces' /\ JoinTellsEnd'
  BY <1>10 DEF PassEnds, FreeJoinLock, JoinReturns
<1>11. CASE Shutdown
  BY <1>11 DEF Shutdown
<1>12. CASE Scan
  BY <1>12 DEF Scan
<1>13. ASSUME NEW u \in Threads, Await(u) PROVE JoinPlaces' /\ JoinTellsEnd'
  BY <1>13 DEF Await
<1>14. CASE OsJoin
  BY <1>14 DEF OsJoin
<1>15. CASE PassDone
  <2>1. CASE joined
    BY <1>15, <2>1 DEF PassDone
  <2>2. CASE ~joined
    BY <1>15, <2>2 DEF PassDone
  <2> QED BY <2>1, <2>2
<1>16. CASE Finalize \/ ExitMain
  BY <1>16 DEF Finalize, ExitMain
<1>17. ASSUME NEW t \in Threads, ForkChild(t) PROVE JoinPlaces' /\ JoinTellsEnd'
  BY <1>17 DEF ForkChild, Alone, Survivor, RunsCode
<1>18. CASE UNCHANGED vars
  BY <1>18 DEF vars
<1> QED BY <1>1, <1>2, <1>3, <1>4, <1>5, <1>6, <1>7, <1>8, <1>9, <1>10, <1>11, <1>12, <1>13,
       <1>14, <1>15, <1>16, <1>17, <1>18
     DEF Next, Builtin, Waits

(* Nobody runs before its starter registered it.                           *)
LEMMA KnownStep ==
  ASSUME TypeOK, Placed, SInv, [Next]_vars PROVE Known'
<1> USE MainAssumption DEF TypeOK, Placed, SInv, Known, flags, At, Goto, Finalizing, Places,
       Started, Under, Ending, Over, Scanning
<1>1. ASSUME NEW t \in Threads, TakeGil(t) \/ Yield(t) PROVE Known'
  BY <1>1 DEF TakeGil, Yield
<1>2. ASSUME NEW t \in Threads, NEW u \in Threads, NEW d \in BOOLEAN, StartThread(t, u, d)
      PROVE  Known'
  <2>1. /\ pc[t] = "run" /\ pc[u] = "none" /\ u # Main /\ t # u /\ u \notin owed
        /\ pc' = [pc EXCEPT ![t] = "register", ![u] = "boot"] /\ whom' = [whom EXCEPT ![t] = u]
        /\ entries' = entries
    BY <1>2 DEF StartThread, Spawn, RunsCode
  <2>2. ASSUME NEW v \in owed
        PROVE  /\ v # Main /\ v \notin daemon' /\ pc'[v] # "none"
               /\ pc'[v] # "boot" => v \in entries'
               /\ v \notin entries' =>
                    \E p \in Threads : pc'[p] = "register" /\ whom'[p] = v /\ (p = Main \/ p \in owed')
    <3>1. v # u /\ owed \subseteq owed' /\ daemon' \subseteq daemon \cup {u}
      BY <1>2, <2>1 DEF StartThread
    <3>2. v \notin entries =>
            \E p \in Threads \ {t, u} : pc[p] = "register" /\ whom[p] = v /\ (p = Main \/ p \in owed)
      BY <2>1
    <3> QED BY <2>1, <3>1, <3>2
  <2>3. ASSUME u \in owed'
        PROVE  u \notin daemon' /\ pc'[u] = "boot" /\ pc'[t] = "register" /\ whom'[t] = u
               /\ (t = Main \/ t \in owed')
    BY <1>2, <2>1, <2>3 DEF StartThread, Owes
  <2>4. owed' \subseteq owed \cup {u}
    BY <1>2 DEF StartThread
  <2> QED BY <2>1, <2>2, <2>3, <2>4
<1>3. ASSUME NEW t \in Threads, NEW u \in Threads, StartFails(t, u) PROVE Known'
  BY <1>3 DEF StartFails, Spawn, RunsCode
<1>4. ASSUME NEW t \in Threads, Register(t) PROVE Known'
  BY <1>4 DEF Register
<1>5. ASSUME NEW t \in Threads, Boot(t) \/ Leave(t) PROVE Known'
  BY <1>5 DEF Boot, Leave
<1>6. ASSUME NEW t \in Threads, Ends(t) PROVE Known'
  BY <1>6 DEF Ends, SetDone, MarkFinished, ReleaseJoinLock, OsThreadEnds
<1>7. ASSUME NEW t \in Threads, NEW u \in Threads, Join(t, u) PROVE Known'
  BY <1>7 DEF Join, RunsCode
<1>8. ASSUME NEW t \in Threads, TryLock(t) PROVE Known'
  BY <1>8 DEF TryLock, JoinReturns
<1>9. ASSUME NEW t \in Threads, Grab(t) \/ SliceEnds(t) PROVE Known'
  BY <1>9 DEF Grab, SliceEnds
<1>10. ASSUME NEW t \in Threads, PassEnds(t) \/ FreeJoinLock(t) PROVE Known'
  BY <1>10 DEF PassEnds, FreeJoinLock, JoinReturns
<1>11. CASE Shutdown
  BY <1>11 DEF Shutdown
<1>12. CASE Scan
  BY <1>12 DEF Scan
<1>13. ASSUME NEW u \in Threads, Await(u) PROVE Known'
  BY <1>13 DEF Await
<1>14. CASE OsJoin
  BY <1>14 DEF OsJoin
<1>15. CASE PassDone
  BY <1>15 DEF PassDone
<1>16. CASE Finalize \/ ExitMain
  BY <1>16 DEF Finalize, ExitMain
<1>17. ASSUME NEW t \in Threads, ForkChild(t) PROVE Known'
  BY <1>17 DEF ForkChild, Alone, Survivor, RunsCode
<1>18. CASE UNCHANGED vars
  BY <1>18 DEF vars
<1> QED BY <1>1, <1>2, <1>3, <1>4, <1>5, <1>6, <1>7, <1>8, <1>9, <1>10, <1>11, <1>12, <1>13,
       <1>14, <1>15, <1>16, <1>17, <1>18
     DEF Next, Builtin, Waits

(* A handle is taken once, and the main thread's next step is its join.    *)
LEMMA TakenStep ==
  ASSUME TypeOK, Placed, SInv, [Next]_vars PROVE TakenGone'
<1> USE MainAssumption DEF TypeOK, Placed, SInv, TakenGone, flags, At, Goto, Finalizing,
       Places, Started, Under, Ending, Over, Scanning
<1>1. ASSUME NEW t \in Threads, TakeGil(t) \/ Yield(t) PROVE TakenGone'
  BY <1>1 DEF TakeGil, Yield
<1>2. ASSUME NEW t \in Threads, NEW u \in Threads, NEW d \in BOOLEAN, StartThread(t, u, d)
      PROVE  TakenGone'
  BY <1>2 DEF StartThread, Spawn, RunsCode, Owes
<1>3. ASSUME NEW t \in Threads, NEW u \in Threads, StartFails(t, u) PROVE TakenGone'
  BY <1>3 DEF StartFails, Spawn, RunsCode
<1>4. ASSUME NEW t \in Threads, Register(t) PROVE TakenGone'
  BY <1>4 DEF Register
<1>5. ASSUME NEW t \in Threads, Boot(t) \/ Leave(t) PROVE TakenGone'
  BY <1>5 DEF Boot, Leave
<1>6. ASSUME NEW t \in Threads, Ends(t) PROVE TakenGone'
  BY <1>6 DEF Ends, SetDone, MarkFinished, ReleaseJoinLock, OsThreadEnds
<1>7. ASSUME NEW t \in Threads, NEW u \in Threads, Join(t, u) PROVE TakenGone'
  BY <1>7 DEF Join, RunsCode
<1>8. ASSUME NEW t \in Threads, TryLock(t) PROVE TakenGone'
  BY <1>8 DEF TryLock, JoinReturns
<1>9. ASSUME NEW t \in Threads, Grab(t) \/ SliceEnds(t) PROVE TakenGone'
  BY <1>9 DEF Grab, SliceEnds
<1>10. ASSUME NEW t \in Threads, PassEnds(t) \/ FreeJoinLock(t) PROVE TakenGone'
  BY <1>10 DEF PassEnds, FreeJoinLock, JoinReturns
<1>11. CASE Shutdown
  BY <1>11 DEF Shutdown
<1>12. CASE Scan
  BY <1>12 DEF Scan
<1>13. ASSUME NEW u \in Threads, Await(u) PROVE TakenGone'
  BY <1>13 DEF Await
<1>14. CASE OsJoin
  BY <1>14 DEF OsJoin
<1>15. CASE PassDone
  BY <1>15 DEF PassDone
<1>16. CASE Finalize \/ ExitMain
  BY <1>16 DEF Finalize, ExitMain
<1>17. ASSUME NEW t \in Threads, ForkChild(t) PROVE TakenGone'
  BY <1>17 DEF ForkChild, Alone, Survivor, RunsCode
<1>18. CASE UNCHANGED vars
  BY <1>18 DEF vars
<1> QED BY <1>1, <1>2, <1>3, <1>4, <1>5, <1>6, <1>7, <1>8, <1>9, <1>10, <1>11, <1>12, <1>13,
       <1>14, <1>15, <1>16, <1>17, <1>18
     DEF Next, Builtin, Waits

(* A thread started during a pass is started by one the pass still has to  *)
(* join: it runs, so its handle was not taken before.                      *)
LEMMA PassStep ==
  ASSUME TypeOK, Placed, SInv, [Next]_vars PROVE PassMisses'
<1> USE MainAssumption DEF TypeOK, Placed, SInv, Known, TakenGone, PassMisses, flags, At, Goto,
       Finalizing, Places, Started, Under, Ending, Over, Scanning
<1>1. ASSUME NEW t \in Threads, TakeGil(t) \/ Yield(t) PROVE PassMisses'
  BY <1>1 DEF TakeGil, Yield
<1>2. ASSUME NEW t \in Threads, NEW u \in Threads, NEW d \in BOOLEAN, StartThread(t, u, d)
      PROVE  PassMisses'
  BY <1>2 DEF StartThread, Spawn, RunsCode, Owes
<1>3. ASSUME NEW t \in Threads, NEW u \in Threads, StartFails(t, u) PROVE PassMisses'
  BY <1>3 DEF StartFails, Spawn, RunsCode
<1>4. ASSUME NEW t \in Threads, Register(t) PROVE PassMisses'
  BY <1>4 DEF Register
<1>5. ASSUME NEW t \in Threads, Boot(t) \/ Leave(t) PROVE PassMisses'
  BY <1>5 DEF Boot, Leave
<1>6. ASSUME NEW t \in Threads, Ends(t) PROVE PassMisses'
  BY <1>6 DEF Ends, SetDone, MarkFinished, ReleaseJoinLock, OsThreadEnds
<1>7. ASSUME NEW t \in Threads, NEW u \in Threads, Join(t, u) PROVE PassMisses'
  BY <1>7 DEF Join, RunsCode
<1>8. ASSUME NEW t \in Threads, TryLock(t) PROVE PassMisses'
  BY <1>8 DEF TryLock, JoinReturns
<1>9. ASSUME NEW t \in Threads, Grab(t) \/ SliceEnds(t) PROVE PassMisses'
  BY <1>9 DEF Grab, SliceEnds
<1>10. ASSUME NEW t \in Threads, PassEnds(t) \/ FreeJoinLock(t) PROVE PassMisses'
  BY <1>10 DEF PassEnds, FreeJoinLock, JoinReturns
<1>11. CASE Shutdown
  BY <1>11 DEF Shutdown
<1>12. CASE Scan
  BY <1>12 DEF Scan
<1>13. ASSUME NEW u \in Threads, Await(u) PROVE PassMisses'
  BY <1>13 DEF Await
<1>14. CASE OsJoin
  BY <1>14 DEF OsJoin
<1>15. CASE PassDone
  BY <1>15 DEF PassDone
<1>16. CASE Finalize \/ ExitMain
  BY <1>16 DEF Finalize, ExitMain
<1>17. ASSUME NEW t \in Threads, ForkChild(t) PROVE PassMisses'
  BY <1>17 DEF ForkChild, Alone, Survivor, RunsCode
<1>18. CASE UNCHANGED vars
  BY <1>18 DEF vars
<1> QED BY <1>1, <1>2, <1>3, <1>4, <1>5, <1>6, <1>7, <1>8, <1>9, <1>10, <1>11, <1>12, <1>13,
       <1>14, <1>15, <1>16, <1>17, <1>18
     DEF Next, Builtin, Waits

(* The last pass had nobody left to miss.                                  *)
LEMMA ShutdownStep ==
  ASSUME TypeOK, Placed, SInv, [Next]_vars PROVE ShutdownWaits'
<1> USE MainAssumption DEF TypeOK, Placed, SInv, Known, PassMisses, ShutdownWaits, flags, At,
       Goto, Finalizing, Places, Started, Under, Ending, Over, Scanning
<1>1. ASSUME NEW t \in Threads, TakeGil(t) \/ Yield(t) PROVE ShutdownWaits'
  BY <1>1 DEF TakeGil, Yield
<1>2. ASSUME NEW t \in Threads, NEW u \in Threads, NEW d \in BOOLEAN, StartThread(t, u, d)
      PROVE  ShutdownWaits'
  BY <1>2 DEF StartThread, Spawn, RunsCode, Owes
<1>3. ASSUME NEW t \in Threads, NEW u \in Threads, StartFails(t, u) PROVE ShutdownWaits'
  BY <1>3 DEF StartFails, Spawn, RunsCode
<1>4. ASSUME NEW t \in Threads, Register(t) PROVE ShutdownWaits'
  BY <1>4 DEF Register
<1>5. ASSUME NEW t \in Threads, Boot(t) \/ Leave(t) PROVE ShutdownWaits'
  BY <1>5 DEF Boot, Leave
<1>6. ASSUME NEW t \in Threads, Ends(t) PROVE ShutdownWaits'
  BY <1>6 DEF Ends, SetDone, MarkFinished, ReleaseJoinLock, OsThreadEnds
<1>7. ASSUME NEW t \in Threads, NEW u \in Threads, Join(t, u) PROVE ShutdownWaits'
  BY <1>7 DEF Join, RunsCode
<1>8. ASSUME NEW t \in Threads, TryLock(t) PROVE ShutdownWaits'
  BY <1>8 DEF TryLock, JoinReturns
<1>9. ASSUME NEW t \in Threads, Grab(t) \/ SliceEnds(t) PROVE ShutdownWaits'
  BY <1>9 DEF Grab, SliceEnds
<1>10. ASSUME NEW t \in Threads, PassEnds(t) \/ FreeJoinLock(t) PROVE ShutdownWaits'
  BY <1>10 DEF PassEnds, FreeJoinLock, JoinReturns
<1>11. CASE Shutdown
  BY <1>11 DEF Shutdown
<1>12. CASE Scan
  BY <1>12 DEF Scan
<1>13. ASSUME NEW u \in Threads, Await(u) PROVE ShutdownWaits'
  BY <1>13 DEF Await
<1>14. CASE OsJoin
  BY <1>14 DEF OsJoin
<1>15. CASE PassDone
  BY <1>15 DEF PassDone
<1>16. CASE Finalize \/ ExitMain
  BY <1>16 DEF Finalize, ExitMain
<1>17. ASSUME NEW t \in Threads, ForkChild(t) PROVE ShutdownWaits'
  BY <1>17 DEF ForkChild, Alone, Survivor, RunsCode
<1>18. CASE UNCHANGED vars
  BY <1>18 DEF vars
<1> QED BY <1>1, <1>2, <1>3, <1>4, <1>5, <1>6, <1>7, <1>8, <1>9, <1>10, <1>11, <1>12, <1>13,
       <1>14, <1>15, <1>16, <1>17, <1>18
     DEF Next, Builtin, Waits

--------------------------------------------------------------------------------
(* The theorems.                                                           *)

LEMMA Invariance == Spec => [](JInv /\ SInv)
<1>1. ASSUME JInv, SInv, [Next]_vars PROVE JInv' /\ SInv'
  <2>1. TypeOK /\ Placed
    BY <1>1 DEF JInv
  <2>2. JInv'
    BY <1>1, <2>1, TypeStep, PlaceStep, HeldStep, EndedStep, JoinStep DEF JInv
  <2>3. SInv'
    BY <1>1, <2>1, KnownStep, TakenStep, PassStep, ShutdownStep DEF SInv
  <2> QED BY <2>2, <2>3
<1> QED BY <1>1, InitInv, PTL DEF Spec

(* The types, and that Python code runs under the GIL.                     *)
THEOREM TypeCorrect == Spec => []TypeOK
<1>1. JInv => TypeOK
  BY DEF JInv
<1> QED BY <1>1, Invariance, PTL

(* A join that got its lock got it from a thread that is over, whose       *)
(* handle says so; in a fork child no join waits for a vanished thread.    *)
THEOREM JoinIsTruthful == Spec => []JoinTellsEnd
<1>1. JInv => JoinTellsEnd
  BY DEF JInv
<1> QED BY <1>1, Invariance, PTL

(* join_non_daemon ends only when every thread that was owed a wait has    *)
(* ended, however many threads start further threads during its passes.    *)
THEOREM NobodyLeftBehind == Spec => []ShutdownWaits
<1>1. SInv => ShutdownWaits
  BY DEF SInv
<1> QED BY <1>1, Invariance, PTL
================================================================================
