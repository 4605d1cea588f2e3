--------------------------- MODULE GreenletContract ----------------------------
(***************************************************************************)
(* What greenlets promise Python code: a symmetric switch.  Whoever leaves *)
(* a greenlet names another one, which goes on next, whatever native       *)
(* stacks lie between the two.  A message is given to somebody else only   *)
(* because the one it names has ended, and nobody ends on whom a message   *)
(* is under way.                                                           *)
(***************************************************************************)
CONSTANTS Threads, Bodies, None
VARIABLES
  running, \* the greenlet each thread executes, or None
  mail,    \* the switch under way in each thread, or None
  ended    \* the greenlets that are dead or collected

vars == <<running, mail, ended>>
Loads == {"value", "throw"}

Init ==
  /\ running = [t \in Threads |-> t]
  /\ mail = [t \in Threads |-> None]
  /\ ended = {}

(* Greenlets end.  One that runs may be collected, and runs on.            *)
End(gone) ==
  /\ \A t \in Threads : mail'[t] # None => mail'[t].to \notin gone
  /\ ended' = ended \cup gone

(* The greenlet that runs switches, throws, or dies.                       *)
Leave(t) ==
  /\ running[t] # None
  /\ \E b \in Bodies, l \in Loads : mail' = [mail EXCEPT ![t] = [to |-> b, load |-> l]]
  /\ running' = [running EXCEPT ![t] = None]
  /\ ended' \in {ended, ended \cup {running[t]}}

(* The greenlet named has ended: its message goes to another.              *)
Redirect(t) ==
  /\ mail[t] # None /\ mail[t].to \in ended
  /\ \E b \in Bodies : mail' = [mail EXCEPT ![t].to = b]
  /\ UNCHANGED <<running, ended>>

(* An exception thrown into a greenlet that has not started ends it.       *)
Reject(t) ==
  /\ mail[t] # None /\ mail[t].to \notin ended /\ mail[t].load = "throw"
  /\ \E b \in Bodies, l \in Loads : mail' = [mail EXCEPT ![t] = [to |-> b, load |-> l]]
  /\ ended' = ended \cup {mail[t].to}
  /\ UNCHANGED running

(* The greenlet named goes on; it runs on no other thread.                 *)
Arrive(t) ==
  /\ mail[t] # None /\ mail[t].to \notin ended
  /\ \A u \in Threads : running[u] # mail[t].to
  /\ running' = [running EXCEPT ![t] = mail[t].to]
  /\ mail' = [mail EXCEPT ![t] = None]
  /\ \E gone \in SUBSET Bodies : End(gone)

(* Greenlets are collected.                                                *)
Collect ==
  /\ UNCHANGED <<running, mail>>
  /\ \E gone \in SUBSET Bodies : End(gone)

(* A thread ends, or leaves the contract, perhaps in mid-switch.           *)
Exit(t) ==
  /\ running[t] # None \/ mail[t] # None
  /\ running' = [running EXCEPT ![t] = None]
  /\ mail' = [mail EXCEPT ![t] = None]
  /\ \E gone \in SUBSET Bodies : End(gone)

Next == Collect \/ \E t \in Threads : Exit(t) \/ Leave(t) \/ Redirect(t) \/ Reject(t) \/ Arrive(t)

Spec == Init /\ [][Next]_vars
================================================================================
