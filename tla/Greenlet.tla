-------------------------------- MODULE Greenlet --------------------------------
(***************************************************************************)
(* greenlet_native.rs: greenlets on native stacks of their own.  A switch  *)
(* is symmetric, from any greenlet to any other; a coroutine is not: it    *)
(* can be resumed only while it is suspended, and it gives control back    *)
(* only to whoever resumed it.  The routing loop bridges the two.  A       *)
(* greenlet that is active below in the resume chain is reached by         *)
(* suspending, level by level; any other one by resuming it.               *)
(*                                                                         *)
(* A thread's main greenlet is named by the thread.  A step is one turn of *)
(* the routing loop, or one operation of the Python code that runs.  The   *)
(* GIL is not given up inside a switch.  Which greenlets Python code can   *)
(* still name is left open: an instance lives at least as long as a switch *)
(* or a throw that was called on it.                                       *)
(***************************************************************************)
EXTENDS Naturals, Sequences

CONSTANTS Threads,   \* OS threads, and their main greenlets
          Greenlets, \* the other greenlets
          None       \* no thread, no greenlet, no switch

Bodies == Threads \cup Greenlets
Loads == {"value", "throw"}
Directives == [to : Bodies, load : Loads]
Calls == [as : Bodies, to : Bodies, del : BOOLEAN]

ASSUME GreenletAssumption ==
  /\ Threads \cap Greenlets = {}
  /\ None \notin Bodies \cup Directives \cup Calls

VARIABLES
  status,     \* GreenletBody.status; "fresh" before the greenlet is made
  registered, \* REGISTRY
  parent,     \* GreenletBody.parent
  bound,      \* GreenletBody.bound_thread
  parked,     \* the bodies whose coroutine field holds a suspended coroutine
  chain,      \* CHAIN, per thread: who resumed whom, the main greenlet first
  mail,       \* per thread: the directive its routing loops have in hand
  current,    \* CURRENT, per thread
  live,       \* per thread: whose execution state (handles, depth) it has
  saved,      \* per body: whose execution state is stashed in it
  call,       \* per body: the switch, throw or __del__ its stack is in: the
              \* greenlet that left, the one it was called on, a __del__ or not
  crashed,    \* the threads that ran into one of the expects
  astray      \* history: the threads where a collected greenlet has switched

vars == <<status, registered, parent, bound, parked, chain, mail, current, live,
          saved, call, crashed, astray>>

Top(t) == chain[t][Len(chain[t])]
InChain(t, b) == \E i \in 1..Len(chain[t]) : chain[t][i] = b
Running(t) == mail[t] = None /\ t \notin crashed /\ t \in registered

(* Python code of the thread runs, and has the GIL.                        *)
Turn(t) == Running(t) /\ \A u \in Threads : mail[u] = None \/ u \in crashed

Init ==
  /\ status = [b \in Bodies |-> IF b \in Threads THEN "active" ELSE "fresh"]
  /\ registered = Threads
  /\ parent = [b \in Bodies |-> None]
  /\ bound = [b \in Bodies |-> IF b \in Threads THEN b ELSE None]
  /\ parked = {}
  /\ chain = [t \in Threads |-> <<t>>]
  /\ mail = [t \in Threads |-> None]
  /\ current = [t \in Threads |-> t]
  /\ live = [t \in Threads |-> t]
  /\ saved = [b \in Bodies |-> IF b \in Threads THEN None ELSE b]
  /\ call = [b \in Bodies |-> None]
  /\ crashed = {}
  /\ astray = {}

--------------------------------------------------------------------------------
(* The swap set.                                                           *)

(* save_thread_state of b, which leaves; the thread has no state then.     *)
Save(t, b) ==
  /\ saved' = [saved EXCEPT ![b] = live[t]]
  /\ live' = [live EXCEPT ![t] = None]

(* install_thread_state of b, which goes on.                               *)
Install(t, b) ==
  /\ live' = [live EXCEPT ![t] = saved[b]]
  /\ saved' = [saved EXCEPT ![b] = None]
  /\ current' = [current EXCEPT ![t] = b]

Post(t, b, l) == mail' = [mail EXCEPT ![t] = [to |-> b, load |-> l]]

(* current_body: the main greenlet, for one that was collected.            *)
CurrentBody(t) == IF current[t] \in registered THEN current[t] ELSE t

(* initiate, up to its routing loop: from here on the stack goes by the    *)
(* name of the current body.                                               *)
Leave(t, b, l, del) ==
  /\ Save(t, CurrentBody(t))
  /\ Post(t, b, l)
  /\ call' = [call EXCEPT ![Top(t)] = [as |-> CurrentBody(t), to |-> b, del |-> del]]
  /\ astray' = IF current[t] \in registered THEN astray ELSE astray \cup {t}

(* registry_remove.  The body is dropped with its last reference, and Drop *)
(* abandons a stack that is suspended in it.  greenlet_main, from its      *)
(* first line to its last, holds the body: a stack that is suspended keeps *)
(* the body it is suspended in.                                            *)
Remove(gone) ==
  /\ registered' = registered \ gone
  /\ parked' = {b \in parked : b \in registered' \/ status[b] = "active"}

(* check_thread_affinity.                                                  *)
Affine(t, b) == bound[b] \in {None, t}

--------------------------------------------------------------------------------
(* What Python code does.                                                  *)

(* green_init, with any parent; without one, CURRENT, registered or not.   *)
Create(t, g) ==
  /\ Turn(t) /\ status[g] = "fresh"
  /\ status' = [status EXCEPT ![g] = "unstarted"]
  /\ \E p \in registered \cup {current[t]} : parent' = [parent EXCEPT ![g] = p]
  /\ registered' = registered \cup {g}
  /\ UNCHANGED <<bound, parked, chain, mail, current, live, saved, call,
                 crashed, astray>>

(* The walk up from p comes to g: every set that has p and the parent of   *)
(* each registered greenlet in it has g.                                   *)
Reaches(p, g) == \A S \in SUBSET Bodies :
  p \in S /\ (\A x \in (S \cap registered) \ Threads : parent[x] \in S) => g \in S

(* Setting the parent, of a greenlet and to a greenlet that are known.     *)
SetParent(t, g) ==
  /\ Turn(t) /\ g \in registered
  /\ \E p \in registered :
       /\ status[p] # "dead" /\ ~Reaches(p, g)
       /\ parent' = [parent EXCEPT ![g] = p]
  /\ UNCHANGED <<status, registered, bound, parked, chain, mail, current, live,
                 saved, call, crashed, astray>>

(* green_switch, and green_throw into a greenlet that has started.         *)
Switch(t, b) ==
  /\ Turn(t) /\ b \in registered /\ Affine(t, b)
  /\ \E l \in Loads :
       /\ ~(l = "throw" /\ status[b] = "unstarted")
       /\ Leave(t, b, l, FALSE)
  /\ UNCHANGED <<status, registered, parent, bound, parked, chain, current,
                 crashed>>

(* green_throw into a greenlet that has not started: it dies in place.     *)
ThrowUnstarted(t, g) ==
  /\ Turn(t) /\ g \in registered /\ Affine(t, g) /\ status[g] = "unstarted"
  /\ status' = [status EXCEPT ![g] = "dead"]
  /\ UNCHANGED <<registered, parent, bound, parked, chain, mail, current, live,
                 saved, call, crashed, astray>>

(* Faulty variant: the execution state stays with the thread.              *)
DieUnsaved(t) ==
  /\ Turn(t) /\ Top(t) \notin Threads
  /\ status' = [status EXCEPT ![Top(t)] = "dead"]
  /\ \E l \in Loads : Post(t, parent[Top(t)], l)
  /\ chain' = [chain EXCEPT ![t] = SubSeq(chain[t], 1, Len(chain[t]) - 1)]
  /\ UNCHANGED <<registered, parent, bound, parked, current, live, saved, call,
                 crashed, astray>>

(* The end of greenlet_main: run returned or raised.                       *)
Die(t) ==
  /\ Turn(t) /\ Top(t) \notin Threads
  /\ status' = [status EXCEPT ![Top(t)] = "dead"]
  /\ Save(t, Top(t))
  /\ \E l \in Loads : Post(t, parent[Top(t)], l)
  /\ chain' = [chain EXCEPT ![t] = SubSeq(chain[t], 1, Len(chain[t]) - 1)]
  /\ UNCHANGED <<registered, parent, bound, parked, current, call, crashed,
                 astray>>

(* green_del at a safe point, of a greenlet that no switch under way was   *)
(* called on.  A suspended one gets GreenletExit, and comes out of the     *)
(* registry when control is back; any other, the one that runs and those   *)
(* below it in the chain included, comes out now and goes on.              *)
Collect(t, g) ==
  /\ Turn(t) /\ g \in registered /\ Affine(t, g)
  /\ \A b \in Bodies : call[b] # None => call[b].to # g
  /\ IF status[g] = "active" /\ g # CurrentBody(t) /\ ~InChain(t, g)
     THEN /\ parent' = [parent EXCEPT ![g] = CurrentBody(t)]
          /\ Leave(t, g, "throw", TRUE)
          /\ UNCHANGED <<registered, parked>>
     ELSE /\ Remove({g})
          /\ UNCHANGED <<parent, mail, live, saved, call, astray>>
  /\ UNCHANGED <<status, bound, chain, current, crashed>>

(* on_thread_teardown, in the main greenlet.                               *)
Teardown(t) ==
  /\ Turn(t) /\ Len(chain[t]) = 1
  /\ Remove({b \in Bodies : bound[b] = t})
  /\ UNCHANGED <<status, parent, bound, chain, mail, current, live, saved,
                 call, crashed, astray>>

--------------------------------------------------------------------------------
(* route, run by the top of the chain.                                     *)

Addressed(t) == mail[t].to
Alive(b) == b \in registered /\ status[b] # "dead"
Routing(t) == mail[t] # None /\ t \notin crashed

(* The self_id of the loop that has the directive.                         *)
Self(t) == call[Top(t)].as

(* Faulty variant: a target that is gone stays the target.                 *)
RedirectDead(t) ==
  /\ Routing(t)
  /\ Addressed(t) \in registered /\ status[Addressed(t)] = "dead"
  /\ mail' = [mail EXCEPT ![t].to = parent[Addressed(t)]]
  /\ UNCHANGED <<status, registered, parent, bound, parked, chain, current,
                 live, saved, call, crashed, astray>>

(* A turn of resolve_alive: a dead target hands off to its parent, one     *)
(* that is not in the registry to the main greenlet.                       *)
Redirect(t) ==
  /\ Routing(t) /\ ~Alive(Addressed(t))
  /\ mail' = [mail EXCEPT ![t].to =
       IF Addressed(t) \in registered THEN parent[Addressed(t)] ELSE t]
  /\ UNCHANGED <<status, registered, parent, bound, parked, chain, current,
                 live, saved, call, crashed, astray>>

(* The expects of route and resume_body.  Who hands a directive down is    *)
(* registered and has a yielder, which a main greenlet has not; whoever is *)
(* not in the chain has a coroutine.                                       *)
RouterGone(t) == Self(t) \notin registered \/ Self(t) \in Threads
NoCoroutine(t) == ~InChain(t, Addressed(t)) /\ Addressed(t) \notin parked

(* The directive names us: initiate returns, and so may a green_del.       *)
Deliver(t) ==
  /\ Routing(t) /\ Alive(Addressed(t)) /\ Addressed(t) = Self(t)
  /\ Install(t, Self(t))
  /\ mail' = [mail EXCEPT ![t] = None]
  /\ Remove(IF call[Top(t)].del THEN {call[Top(t)].to} ELSE {})
  /\ call' = [call EXCEPT ![Top(t)] = None]
  /\ UNCHANGED <<status, parent, bound, chain, crashed, astray>>

(* Faulty variant: the coroutine is not put back.                          *)
SuspendAway(t) ==
  /\ Routing(t) /\ Alive(Addressed(t))
  /\ Addressed(t) # Self(t) /\ InChain(t, Addressed(t)) /\ ~RouterGone(t)
  /\ chain' = [chain EXCEPT ![t] = SubSeq(chain[t], 1, Len(chain[t]) - 1)]
  /\ UNCHANGED <<status, registered, parent, bound, parked, mail, current,
                 live, saved, call, crashed, astray>>

(* Faulty variant: the resumer takes the directive for its own.            *)
SuspendToResumer(t) ==
  /\ Routing(t) /\ Alive(Addressed(t))
  /\ Addressed(t) # Self(t) /\ InChain(t, Addressed(t)) /\ ~RouterGone(t)
  /\ chain' = [chain EXCEPT ![t] = SubSeq(chain[t], 1, Len(chain[t]) - 1)]
  /\ parked' = parked \cup {Top(t)}
  /\ mail' = [mail EXCEPT ![t].to = chain[t][Len(chain[t]) - 1]]
  /\ UNCHANGED <<status, registered, parent, bound, current, live, saved, call,
                 crashed, astray>>

(* The target is active below us: suspend, and our resumer's loop has the  *)
(* directive.                                                              *)
Suspend(t) ==
  /\ Routing(t) /\ Alive(Addressed(t))
  /\ Addressed(t) # Self(t) /\ InChain(t, Addressed(t)) /\ ~RouterGone(t)
  /\ chain' = [chain EXCEPT ![t] = SubSeq(chain[t], 1, Len(chain[t]) - 1)]
  /\ parked' = parked \cup {Top(t)}
  /\ UNCHANGED <<status, registered, parent, bound, mail, current, live, saved,
                 call, crashed, astray>>

(* resume_body of a suspended target; its own loop has the directive then. *)
Resume(t) ==
  /\ Routing(t) /\ Alive(Addressed(t))
  /\ ~InChain(t, Addressed(t)) /\ Addressed(t) \in parked
  /\ parked' = parked \ {Addressed(t)}
  /\ chain' = [chain EXCEPT ![t] = Append(@, Addressed(t))]
  /\ UNCHANGED <<status, registered, parent, bound, mail, current, live, saved,
                 call, crashed, astray>>

(* resume_body of an unstarted target, and greenlet_main up to the call of *)
(* run.                                                                    *)
Start(t) ==
  /\ Routing(t) /\ Addressed(t) \in registered /\ status[Addressed(t)] = "unstarted"
  /\ mail[t].load = "value"
  /\ status' = [status EXCEPT ![Addressed(t)] = "active"]
  /\ bound' = [bound EXCEPT ![Addressed(t)] = t]
  /\ chain' = [chain EXCEPT ![t] = Append(@, Addressed(t))]
  /\ Install(t, Addressed(t))
  /\ mail' = [mail EXCEPT ![t] = None]
  /\ UNCHANGED <<registered, parent, parked, call, crashed, astray>>

(* The same with an exception: it dies without running, and the exception, *)
(* or GreenletExit as a value, travels on.                                 *)
Stillborn(t) ==
  /\ Routing(t) /\ Addressed(t) \in registered /\ status[Addressed(t)] = "unstarted"
  /\ mail[t].load = "throw"
  /\ status' = [status EXCEPT ![Addressed(t)] = "dead"]
  /\ bound' = [bound EXCEPT ![Addressed(t)] = t]
  /\ current' = [current EXCEPT ![t] = Addressed(t)]
  /\ \E l \in Loads : Post(t, parent[Addressed(t)], l)
  /\ UNCHANGED <<registered, parent, parked, chain, live, saved, call, crashed,
                 astray>>

(* A turn that runs into one of the expects.                               *)
Panic(t) ==
  /\ Routing(t) /\ Alive(Addressed(t)) /\ status[Addressed(t)] = "active"
  /\ Addressed(t) # Self(t)
  /\ (InChain(t, Addressed(t)) /\ RouterGone(t)) \/ NoCoroutine(t)
  /\ crashed' = crashed \cup {t}
  /\ UNCHANGED <<status, registered, parent, bound, parked, chain, mail,
                 current, live, saved, call, astray>>

--------------------------------------------------------------------------------
Route(t) ==
  Redirect(t) \/ Deliver(t) \/ Suspend(t) \/ Resume(t) \/ Start(t) \/ Stillborn(t) \/ Panic(t)

Python(t) ==
  \/ Die(t) \/ Teardown(t)
  \/ \E g \in Greenlets : Create(t, g) \/ SetParent(t, g) \/ ThrowUnstarted(t, g) \/ Collect(t, g)
  \/ \E b \in Bodies : Switch(t, b)

Next == \E t \in Threads : Route(t) \/ Python(t)
Spec == Init /\ [][Next]_vars

(* A routing loop that has begun goes on: it runs no Python code.          *)
FairSpec == Spec /\ \A t \in Threads : WF_vars(Route(t))

--------------------------------------------------------------------------------
(* Properties.                                                             *)

TypeOK ==
  /\ status \in [Bodies -> {"fresh", "unstarted", "active", "dead"}]
  /\ registered \subseteq Bodies
  /\ parent \in [Bodies -> Bodies \cup {None}]
  /\ bound \in [Bodies -> Threads \cup {None}]
  /\ parked \subseteq Greenlets
  /\ chain \in [Threads -> Seq(Bodies)]
  /\ mail \in [Threads -> Directives \cup {None}]
  /\ current \in [Threads -> Bodies]
  /\ live \in [Threads -> Bodies \cup {None}]
  /\ saved \in [Bodies -> Bodies \cup {None}]
  /\ call \in [Bodies -> Calls \cup {None}]
  /\ crashed \subseteq Threads
  /\ astray \subseteq Threads

(* A started greenlet has its native stack in exactly one place: suspended *)
(* in its body, or at one position of one chain, until it dies.  Nothing   *)
(* is resumed twice, and no switch takes a stack without putting it back,  *)
(* whatever the order of switches, deaths and collections, on whatever     *)
(* thread.  A stack whose body has left the registry counts as suspended:  *)
(* nobody can resume it, it is kept for good.                              *)
OneStack ==
  /\ \A t \in Threads : Len(chain[t]) > 0 /\ chain[t][1] = t
  /\ \A t, u \in Threads : \A i \in 1..Len(chain[t]), j \in 1..Len(chain[u]) :
       chain[t][i] = chain[u][j] => t = u /\ i = j
  /\ \A b \in Bodies :
       status[b] = "active" <=> (b \in parked \/ \E t \in Threads : InChain(t, b))
  /\ \A t \in Threads, b \in parked : ~InChain(t, b)

(* As long as no collected greenlet has switched: whoever runs is the top  *)
(* of the chain, is CURRENT, and has its own execution state; everybody    *)
(* else's is stashed in its body.                                          *)
OwnState == astray = {} =>
  /\ \A t \in Threads :
       IF mail[t] = None THEN current[t] = Top(t) /\ live[t] = Top(t) ELSE live[t] = None
  /\ \A b \in Bodies :
       saved[b] = IF \E t \in Threads : live[t] = b THEN None ELSE b

(* The routing is a symmetric switch: the greenlet a message names gets it *)
(* next, unchanged, unless it has ended.  A thread leaves the contract     *)
(* when it panics, or when a greenlet of its that was collected switches.  *)
Contract == INSTANCE GreenletContract WITH
  running <- [t \in Threads |-> IF Running(t) /\ t \notin astray THEN Top(t) ELSE None],
  mail <- [t \in Threads |-> IF t \in crashed \cup astray THEN None ELSE mail[t]],
  ended <- {b \in Bodies : status[b] # "fresh" /\ ~Alive(b)}
ContractSpec == Contract!Spec

(* A switch comes to its end: no two loops hand a directive to and fro.    *)
SwitchEnds == \A t \in Threads : mail[t] # None ~> (mail[t] = None \/ t \in crashed)

(* The doc of bound_thread: a greenlet runs, or waits in a chain, only on  *)
(* the thread it was started on.                                           *)
BoundStays == \A t \in Threads : \A i \in 1..Len(chain[t]) : bound[chain[t][i]] = t

(* What the code says of itself and does not keep, as BoundStays above.    *)
(* The README's findings tell how each comes to fail.                      *)

(* The module's doc: "a directive that names *us* is delivered".  Python   *)
(* code that goes on after a switch is the greenlet the switch named last. *)
NamesUs == [][\A t \in Threads :
  mail[t] # None /\ mail'[t] = None => chain'[t][Len(chain'[t])] = mail[t].to]_vars

(* The doc of on_thread_teardown: a suspended coroutine whose body is      *)
(* reaped is abandoned.                                                    *)
ReapedAbandoned == parked \subseteq registered

(* The expects of route and initiate: "routing greenlet is registered",    *)
(* "initiator stays registered".                                           *)
NoPanic == crashed = {}
================================================================================
