----------------------------- MODULE GreenletProofs -----------------------------
(***************************************************************************)
(* The native stacks and the execution states of Greenlet are in their     *)
(* places for any number of threads and greenlets, also where a death      *)
(* takes the routing to a greenlet of another thread, and where a greenlet *)
(* that runs is collected.  The threads where no collected greenlet has    *)
(* switched implement GreenletContract.                                    *)
(***************************************************************************)
EXTENDS Greenlet, TLAPS

(* Chains grow and shrink at the top, and nobody is in two places.         *)
Rooted == \A t \in Threads : Len(chain[t]) > 0 /\ chain[t][1] = t
Apart == \A t, u \in Threads : \A i \in 1..Len(chain[t]), j \in 1..Len(chain[u]) :
  chain[t][i] = chain[u][j] => t = u /\ i = j
Placed == \A b \in Bodies :
  status[b] = "active" <=> (b \in parked \/ \E t \in Threads : InChain(t, b))
OnlyParked == \A t \in Threads, b \in parked : ~InChain(t, b)

(* A greenlet that was made has a parent, the registry has only such.      *)
Made == \A b \in Bodies :
  /\ b \in Greenlets /\ status[b] # "fresh" => parent[b] \in Bodies
  /\ b \in registered => status[b] # "fresh"

(* A switch under way has taken the state from its thread.                 *)
Emptied == \A t \in Threads : mail[t] # None => live[t] = None

(* Every started stack but those that run is in the midst of a call.  The  *)
(* call goes by the stack's own name when the stack is suspended, and by   *)
(* no other than the main greenlet's when it is in a chain.                *)
Named(t, b) ==
  /\ call[b] = None <=> b = Top(t) /\ mail[t] = None
  /\ call[b] # None => call[b].as \in {b, t} /\ (t \notin astray => call[b].as = b)
Called ==
  /\ \A b \in Bodies : status[b] # "active" => call[b] = None
  /\ \A b \in Bodies : call[b] # None /\ call[b].del => call[b].to \in Greenlets
  /\ \A b \in parked : call[b] # None /\ call[b].as = b
  /\ \A t \in Threads, b \in Bodies : InChain(t, b) => Named(t, b)

(* CURRENT is the stack that runs, or the main greenlet for another's.     *)
Steered == \A t \in Threads : mail[t] = None =>
  current[t] \in {Top(t), t} /\ (t \notin astray => current[t] = Top(t))

(* Whose state a thread has, and who has a state stashed.                  *)
Stashed == \A b \in Bodies :
  saved[b] = IF \E t \in Threads : live[t] = b THEN None ELSE b
Owned == astray = {} =>
  (\A t \in Threads : mail[t] = None => live[t] = Top(t)) /\ Stashed

Shape == TypeOK /\ Rooted /\ Apart /\ Placed /\ OnlyParked /\ Made
IInv == Shape /\ Emptied /\ Called /\ Steered /\ Owned

LEMMA NoneOutside == None \notin Bodies /\ None \notin Directives /\ None \notin Calls
BY GreenletAssumption

(* The end of a nonempty chain.                                            *)
LEMMA Tops ==
  ASSUME IInv, NEW t \in Threads
  PROVE  /\ chain[t] \in Seq(Bodies) /\ Len(chain[t]) \in Nat \ {0}
         /\ Len(chain[t]) \in 1..Len(chain[t])
         /\ Top(t) \in Bodies /\ InChain(t, Top(t))
         /\ status[Top(t)] = "active" /\ Top(t) \notin parked
         /\ \A u \in Threads : Top(u) = Top(t) => u = t
         /\ Top(t) \in Threads <=> Len(chain[t]) = 1
<1>1. chain[t] \in Seq(Bodies) /\ Len(chain[t]) \in Nat \ {0}
  BY DEF IInv, Shape, TypeOK, Rooted
<1>2. Len(chain[t]) \in 1..Len(chain[t])
  BY <1>1
<1>3. Top(t) \in Bodies /\ InChain(t, Top(t))
  BY <1>1, <1>2 DEF Top, InChain
<1>4. status[Top(t)] = "active" /\ Top(t) \notin parked
  BY <1>3 DEF IInv, Shape, Placed, OnlyParked
<1>5. \A u \in Threads : Top(u) = Top(t) => u = t
  <2> TAKE u \in Threads
  <2>1. Len(chain[u]) \in 1..Len(chain[u])
    BY DEF IInv, Shape, TypeOK, Rooted
  <2> QED
    BY <1>2, <2>1 DEF Top, IInv, Shape, Apart
<1>6. Top(t) \in Threads <=> Len(chain[t]) = 1
  <2>1. Len(chain[t]) = 1 => Top(t) = t
    BY DEF Top, IInv, Shape, Rooted
  <2>2. ASSUME Top(t) \in Threads PROVE Len(chain[t]) = 1
    <3> DEFINE u == Top(t)
    <3>1. u \in Threads /\ chain[u][1] = u /\ 1 \in 1..Len(chain[u])
      BY <2>2 DEF IInv, Shape, Rooted, TypeOK
    <3>2. chain[t][Len(chain[t])] = chain[u][1]
      BY <3>1 DEF Top
    <3> QED
      BY <1>2, <3>1, <3>2 DEF IInv, Shape, Apart
  <2> QED
    BY <2>1, <2>2
<1> QED
  BY <1>1, <1>2, <1>3, <1>4, <1>5, <1>6

LEMMA Initially == Init => IInv
<1> SUFFICES ASSUME Init PROVE IInv
  OBVIOUS
<1> USE GreenletAssumption
<1>1. \A t \in Threads : chain[t] = <<t>> /\ Len(chain[t]) = 1 /\ chain[t][1] = t /\ Top(t) = t
  BY DEF Init, Top
<1>2. TypeOK
  BY <1>1 DEF Init, TypeOK, Bodies, Loads
<1>3. Rooted /\ Apart
  <2>1. \A i, j \in 1..1 : i = j
    OBVIOUS
  <2> QED
    BY <1>1, <2>1 DEF Rooted, Apart
<1>4. ASSUME NEW t \in Threads, NEW b PROVE InChain(t, b) <=> b = t
  <2>1. Len(chain[t]) = 1 /\ chain[t][1] = t
    BY <1>1
  <2>2. \A i \in 1..1 : i = 1
    OBVIOUS
  <2> QED
    BY <2>1, <2>2 DEF InChain
<1>5. Placed /\ OnlyParked
  BY <1>4 DEF Init, Placed, OnlyParked, Bodies
<1>6. Made /\ Emptied
  BY DEF Init, Made, Emptied, Bodies
<1>7. Called
  <2>1. \A t \in Threads, b \in Bodies : InChain(t, b) => Named(t, b)
    BY <1>1, <1>4 DEF Init, Named
  <2> QED
    BY <2>1 DEF Init, Called
<1>8. Steered
  BY <1>1 DEF Init, Steered
<1>9. Owned
  BY <1>1 DEF Init, Owned, Stashed, Bodies
<1> QED
  BY <1>2, <1>3, <1>5, <1>6, <1>7, <1>8, <1>9 DEF IInv, Shape

--------------------------------------------------------------------------------
(* The chain loses its top.                                                *)
LEMMA Popped ==
  ASSUME IInv, NEW t \in Threads, Len(chain[t]) > 1,
         chain' = [chain EXCEPT ![t] = SubSeq(chain[t], 1, Len(chain[t]) - 1)]
  PROVE  /\ chain' \in [Threads -> Seq(Bodies)] /\ Rooted' /\ Apart'
         /\ \A u \in Threads, b \in Bodies :
              InChain(u, b)' <=> InChain(u, b) /\ ~(u = t /\ b = Top(t))
         /\ \A u \in Threads \ {t} : chain'[u] = chain[u]
<1> DEFINE s == chain[t]
<1> DEFINE r == SubSeq(s, 1, Len(s) - 1)
<1>1. s \in Seq(Bodies) /\ Len(s) \in Nat /\ Len(s) > 1
  BY Tops
<1>2. r \in Seq(Bodies) /\ Len(r) = Len(s) - 1 /\ \A i \in 1..Len(s) - 1 : r[i] = s[i]
  BY <1>1
<1>3. chain \in [Threads -> Seq(Bodies)]
  BY DEF IInv, Shape, TypeOK
<1>4. chain'[t] = r /\ \A u \in Threads \ {t} : chain'[u] = chain[u]
  BY <1>3
<1> HIDE DEF r, s
<1>5. chain' \in [Threads -> Seq(Bodies)]
  BY <1>2, <1>3 DEF r, s
<1>6. Rooted'
  <2>1. 1 \in 1..Len(s) - 1
    BY <1>1
  <2> QED
    BY <1>1, <1>2, <1>4, <2>1 DEF Rooted, IInv, Shape, s
<1>7. ASSUME NEW u \in Threads, NEW i \in 1..Len(chain'[u])
      PROVE  i \in 1..Len(chain[u]) /\ chain'[u][i] = chain[u][i]
  BY <1>1, <1>2, <1>4 DEF s
<1>8. Apart'
  BY <1>7 DEF Apart, IInv, Shape
<1>9. ASSUME NEW u \in Threads, NEW b \in Bodies
      PROVE  InChain(u, b)' <=> InChain(u, b) /\ ~(u = t /\ b = Top(t))
  <2>1. CASE u # t
    BY <1>4, <2>1 DEF InChain
  <2>2. CASE u = t
    <3>1. InChain(t, b)' <=> \E i \in 1..Len(s) - 1 : s[i] = b
      BY <1>2, <1>4 DEF InChain
    <3>2. \A i \in 1..Len(s) : s[i] = s[Len(s)] => i = Len(s)
      BY <1>1 DEF IInv, Shape, Apart, s
    <3>3. Len(s) \in 1..Len(s) /\ \A i \in 1..Len(s) : i # Len(s) <=> i \in 1..Len(s) - 1
      BY <1>1
    <3>4. (\E i \in 1..Len(s) - 1 : s[i] = b) <=> (\E i \in 1..Len(s) : s[i] = b) /\ b # s[Len(s)]
      BY <1>1, <3>2, <3>3
    <3> QED
      BY <2>2, <3>1, <3>4 DEF InChain, Top, s
  <2> QED
    BY <2>1, <2>2
<1> QED
  BY <1>4, <1>5, <1>6, <1>8, <1>9

(* The chain gets a new top, which was in no chain.                        *)
LEMMA Pushed ==
  ASSUME IInv, NEW t \in Threads, NEW b \in Bodies, \A u \in Threads : ~InChain(u, b),
         chain' = [chain EXCEPT ![t] = Append(@, b)]
  PROVE  /\ chain' \in [Threads -> Seq(Bodies)] /\ Rooted' /\ Apart'
         /\ \A u \in Threads, c \in Bodies :
              InChain(u, c)' <=> InChain(u, c) \/ (u = t /\ c = b)
         /\ \A u \in Threads \ {t} : chain'[u] = chain[u]
         /\ Top(t)' = b
<1> DEFINE s == chain[t]
<1> DEFINE r == Append(s, b)
<1>1. s \in Seq(Bodies) /\ Len(s) \in Nat /\ Len(s) > 0
  BY Tops
<1>2. /\ r \in Seq(Bodies) /\ Len(r) = Len(s) + 1
      /\ r[Len(s) + 1] = b /\ \A i \in 1..Len(s) : r[i] = s[i]
  BY <1>1
<1>3. chain \in [Threads -> Seq(Bodies)]
  BY DEF IInv, Shape, TypeOK
<1>4. chain'[t] = r /\ \A u \in Threads \ {t} : chain'[u] = chain[u]
  BY <1>3
<1> HIDE DEF r, s
<1>5. chain' \in [Threads -> Seq(Bodies)]
  BY <1>2, <1>3 DEF r, s
<1>6. Rooted'
  <2>1. 1 \in 1..Len(s)
    BY <1>1
  <2> QED
    BY <1>1, <1>2, <1>4, <2>1 DEF Rooted, IInv, Shape, s
<1>7. ASSUME NEW u \in Threads, NEW i \in 1..Len(chain'[u])
      PROVE  \/ i \in 1..Len(chain[u]) /\ chain'[u][i] = chain[u][i]
             \/ u = t /\ i = Len(s) + 1 /\ chain'[u][i] = b
  BY <1>1, <1>2, <1>4 DEF s
<1>8. Apart'
  <2> SUFFICES ASSUME NEW u \in Threads, NEW v \in Threads,
                      NEW i \in 1..Len(chain'[u]), NEW j \in 1..Len(chain'[v]),
                      chain'[u][i] = chain'[v][j]
               PROVE  u = v /\ i = j
    BY DEF Apart
  <2>1. \A w \in Threads : \A k \in 1..Len(chain[w]) : chain[w][k] # b
    BY DEF InChain
  <2> QED
    BY <1>7, <2>1 DEF Apart, IInv, Shape
<1>9. ASSUME NEW u \in Threads, NEW c \in Bodies
      PROVE  InChain(u, c)' <=> InChain(u, c) \/ (u = t /\ c = b)
  <2>1. CASE u # t
    BY <1>4, <2>1 DEF InChain
  <2>2. CASE u = t
    <3>1. InChain(t, c)' <=> \E i \in 1..Len(s) + 1 : r[i] = c
      BY <1>2, <1>4 DEF InChain
    <3>2. \A i : i \in 1..Len(s) + 1 <=> i \in 1..Len(s) \/ i = Len(s) + 1
      BY <1>1
    <3> QED
      BY <1>2, <2>2, <3>1, <3>2 DEF InChain, s
  <2> QED
    BY <2>1, <2>2
<1>10. Top(t)' = b
  BY <1>2, <1>4 DEF Top
<1> QED
  BY <1>4, <1>5, <1>6, <1>8, <1>9, <1>10

(* The state a thread has is that of the top of its chain.                 *)
LEMMA LiveTop ==
  ASSUME IInv, astray = {}, NEW u \in Threads, live[u] # None
  PROVE  mail[u] = None /\ live[u] = Top(u)
BY DEF IInv, Emptied, Owned

(* save_thread_state keeps the states apart.                               *)
LEMMA SaveStashes ==
  ASSUME IInv, NEW t \in Threads, mail[t] = None, Save(t, Top(t)), astray = {}
  PROVE  Stashed'
<1>1. live[t] = Top(t) /\ Top(t) \in Bodies /\ \A u \in Threads : live[u] = Top(t) => u = t
  BY Tops, LiveTop, NoneOutside DEF IInv, Owned
<1>2. live \in [Threads -> Bodies \cup {None}] /\ saved \in [Bodies -> Bodies \cup {None}]
  BY DEF IInv, Shape, TypeOK
<1>3. \A b \in Bodies : saved'[b] = IF b = Top(t) THEN b ELSE saved[b]
  BY <1>1, <1>2 DEF Save
<1>4. ASSUME NEW b \in Bodies, b # Top(t)
      PROVE  (\E u \in Threads : live'[u] = b) <=> (\E u \in Threads : live[u] = b)
  BY <1>1, <1>2, <1>4, NoneOutside DEF Save
<1>5. \A u \in Threads : live'[u] # Top(t)
  BY <1>1, <1>2, NoneOutside DEF Save
<1> QED
  BY <1>3, <1>4, <1>5 DEF Stashed, IInv, Owned

(* It takes the state from the thread, whoever's name it is under.         *)
LEMMA SaveTypes ==
  ASSUME IInv, NEW t \in Threads, NEW b \in Bodies, Save(t, b)
  PROVE  /\ live' = [live EXCEPT ![t] = None]
         /\ live' \in [Threads -> Bodies \cup {None}]
         /\ saved' \in [Bodies -> Bodies \cup {None}]
BY DEF Save, IInv, Shape, TypeOK

(* install_thread_state of a greenlet that runs nowhere keeps them apart.  *)
LEMMA InstallStashes ==
  ASSUME IInv, NEW t \in Threads, NEW b \in Bodies, mail[t] # None,
         \A u \in Threads : live[u] # b, Install(t, b), astray = {}
  PROVE  Stashed' /\ live' = [live EXCEPT ![t] = b]
<1>1. live[t] = None /\ saved[b] = b
  BY DEF IInv, Emptied, Owned, Stashed
<1>2. /\ live \in [Threads -> Bodies \cup {None}] /\ saved \in [Bodies -> Bodies \cup {None}]
  BY DEF IInv, Shape, TypeOK
<1>3. \A c \in Bodies : saved'[c] = IF c = b THEN None ELSE saved[c]
  BY <1>2 DEF Install
<1>4. live' = [live EXCEPT ![t] = b] /\ live'[t] = b
  BY <1>1, <1>2 DEF Install
<1>5. ASSUME NEW c \in Bodies, c # b
      PROVE  (\E u \in Threads : live'[u] = c) <=> (\E u \in Threads : live[u] = c)
  BY <1>1, <1>2, <1>4, <1>5, NoneOutside
<1>6. Stashed'
  BY <1>3, <1>4, <1>5 DEF Stashed, IInv, Owned
<1> QED
  BY <1>4, <1>6

LEMMA InstallTypes ==
  ASSUME IInv, NEW t \in Threads, NEW b \in Bodies, Install(t, b)
  PROVE  /\ \A u \in Threads \ {t} : live'[u] = live[u]
         /\ live' \in [Threads -> Bodies \cup {None}]
         /\ saved' \in [Bodies -> Bodies \cup {None}]
         /\ current' = [current EXCEPT ![t] = b] /\ current' \in [Threads -> Bodies]
BY DEF Install, IInv, Shape, TypeOK

(* Nothing but the parts named changes.                                    *)
LEMMA Placement ==
  ASSUME IInv, UNCHANGED <<chain, parked>>,
         \A b \in Bodies : status'[b] = "active" <=> status[b] = "active"
  PROVE  Rooted' /\ Apart' /\ Placed' /\ OnlyParked'
BY DEF IInv, Shape, Rooted, Apart, Placed, OnlyParked, InChain

(* So it is with what registry_remove does: a body whose stack is          *)
(* suspended is held by that stack.                                        *)
LEMMA RemoveKeeps ==
  ASSUME IInv, NEW gone, Remove(gone)
  PROVE  parked' = parked /\ registered' = registered \ gone
<1>1. \A b \in parked : b \in Bodies /\ status[b] = "active"
  BY DEF IInv, Shape, TypeOK, Placed, Bodies
<1> QED
  BY <1>1 DEF Remove

LEMMA Quiet ==
  ASSUME IInv, UNCHANGED <<parked, chain, mail, current, live, saved, call, astray>>,
         \A b \in Bodies : status'[b] = "active" <=> status[b] = "active"
  PROVE  /\ Rooted' /\ Apart' /\ Placed' /\ OnlyParked'
         /\ Emptied' /\ Called' /\ Steered' /\ Owned'
<1>1. Rooted' /\ Apart' /\ Placed' /\ OnlyParked'
  BY Placement
<1>2. Emptied' /\ Steered' /\ Owned'
  BY DEF IInv, Emptied, Steered, Owned, Stashed, Top
<1>3. Called'
  BY DEF IInv, Called, Named, InChain, Top
<1> QED
  BY <1>1, <1>2, <1>3

--------------------------------------------------------------------------------
(* What Python code does.                                                  *)
LEMMA CreateStep ==
  ASSUME IInv, NEW t \in Threads, NEW g \in Greenlets, Create(t, g)
  PROVE  IInv'
<1>1. g \in Bodies
  BY DEF Bodies
<1>2. PICK p \in Bodies : parent' = [parent EXCEPT ![g] = p]
  BY DEF Create, IInv, Shape, TypeOK
<1>3. TypeOK'
  BY <1>1, <1>2 DEF Create, IInv, Shape, TypeOK, Bodies
<1>4. \A b \in Bodies : status'[b] = "active" <=> status[b] = "active"
  BY <1>1 DEF Create, IInv, Shape, TypeOK
<1>5. /\ Rooted' /\ Apart' /\ Placed' /\ OnlyParked'
      /\ Emptied' /\ Called' /\ Steered' /\ Owned'
  BY <1>4, Quiet DEF Create
<1>6. Made'
  BY <1>1, <1>2 DEF Create, Made, IInv, Shape, TypeOK
<1> QED
  BY <1>3, <1>5, <1>6 DEF IInv, Shape

LEMMA SetParentStep ==
  ASSUME IInv, NEW t \in Threads, NEW g \in Greenlets, SetParent(t, g)
  PROVE  IInv'
<1>1. g \in Bodies
  BY DEF Bodies
<1>2. \E p \in registered : parent' = [parent EXCEPT ![g] = p]
  BY DEF SetParent
<1>3. TypeOK'
  BY <1>1, <1>2 DEF SetParent, IInv, Shape, TypeOK
<1>4. /\ Rooted' /\ Apart' /\ Placed' /\ OnlyParked'
      /\ Emptied' /\ Called' /\ Steered' /\ Owned'
  BY Quiet DEF SetParent
<1>5. Made'
  BY <1>1, <1>2 DEF SetParent, Made, IInv, Shape, TypeOK
<1> QED
  BY <1>3, <1>4, <1>5 DEF IInv, Shape

LEMMA ThrowUnstartedStep ==
  ASSUME IInv, NEW t \in Threads, NEW g \in Greenlets, ThrowUnstarted(t, g)
  PROVE  IInv'
<1>1. g \in Bodies
  BY DEF Bodies
<1>2. TypeOK'
  BY <1>1 DEF ThrowUnstarted, IInv, Shape, TypeOK
<1>3. \A b \in Bodies : status'[b] = "active" <=> status[b] = "active"
  BY <1>1 DEF ThrowUnstarted, IInv, Shape, TypeOK
<1>4. /\ Rooted' /\ Apart' /\ Placed' /\ OnlyParked'
      /\ Emptied' /\ Called' /\ Steered' /\ Owned'
  BY <1>3, Quiet DEF ThrowUnstarted
<1>5. Made'
  BY <1>1 DEF ThrowUnstarted, Made, IInv, Shape, TypeOK
<1> QED
  BY <1>2, <1>4, <1>5 DEF IInv, Shape

LEMMA TeardownStep ==
  ASSUME IInv, NEW t \in Threads, Teardown(t)
  PROVE  IInv'
<1>1. parked' = parked /\ registered' \subseteq registered
  BY RemoveKeeps DEF Teardown
<1>2. /\ Rooted' /\ Apart' /\ Placed' /\ OnlyParked'
      /\ Emptied' /\ Called' /\ Steered' /\ Owned'
  BY <1>1, Quiet DEF Teardown
<1>3. TypeOK' /\ Made'
  BY <1>1 DEF Teardown, IInv, Shape, TypeOK, Made
<1> QED
  BY <1>2, <1>3 DEF IInv, Shape

LEMMA PanicStep ==
  ASSUME IInv, NEW t \in Threads, Panic(t)
  PROVE  IInv'
<1>1. /\ Rooted' /\ Apart' /\ Placed' /\ OnlyParked'
      /\ Emptied' /\ Called' /\ Steered' /\ Owned'
  BY Quiet DEF Panic
<1>2. TypeOK' /\ Made'
  BY DEF Panic, IInv, Shape, TypeOK, Made
<1> QED
  BY <1>1, <1>2 DEF IInv, Shape

(* current_body is the stack that runs, or the main greenlet.              *)
LEMMA CurrentIs ==
  ASSUME IInv, NEW t \in Threads, mail[t] = None
  PROVE  /\ CurrentBody(t) \in Bodies /\ CurrentBody(t) \in {Top(t), t}
         /\ t \notin astray /\ current[t] \in registered => CurrentBody(t) = Top(t)
BY DEF CurrentBody, IInv, Shape, TypeOK, Steered, Bodies

(* initiate: the state is stashed, the directive is in hand.               *)
LEMMA LeaveStep ==
  ASSUME IInv, NEW t \in Threads, NEW b \in Bodies, NEW l \in Loads, NEW del \in BOOLEAN,
         del => b \in Greenlets, mail[t] = None, Leave(t, b, l, del),
         UNCHANGED <<status, chain, parked, current>>
  PROVE  /\ mail' \in [Threads -> Directives \cup {None}]
         /\ live' \in [Threads -> Bodies \cup {None}]
         /\ saved' \in [Bodies -> Bodies \cup {None}]
         /\ call' \in [Bodies -> Calls \cup {None}] /\ astray' \subseteq Threads
         /\ Rooted' /\ Apart' /\ Placed' /\ OnlyParked'
         /\ Emptied' /\ Called' /\ Steered' /\ Owned'
<1> DEFINE c == CurrentBody(t)
<1> DEFINE r == [as |-> c, to |-> b, del |-> del]
<1>1. /\ c \in Bodies /\ c \in {Top(t), t}
      /\ t \notin astray /\ current[t] \in registered => c = Top(t)
  BY CurrentIs
<1>2. r \in Calls /\ r # None /\ r.as = c /\ r.to = b /\ r.del = del
  BY <1>1, NoneOutside DEF Calls
<1>3. /\ mail' = [mail EXCEPT ![t] = [to |-> b, load |-> l]]
      /\ [to |-> b, load |-> l] \in Directives
      /\ call' = [call EXCEPT ![Top(t)] = r] /\ Save(t, c)
      /\ astray' = IF current[t] \in registered THEN astray ELSE astray \cup {t}
  BY DEF Leave, Post, Directives
<1> HIDE DEF c, r
<1>4. mail' \in [Threads -> Directives \cup {None}] /\ mail'[t] # None
      /\ \A u \in Threads \ {t} : mail'[u] = mail[u]
  BY <1>3, NoneOutside DEF IInv, Shape, TypeOK
<1>5. call' \in [Bodies -> Calls \cup {None}] /\ astray' \subseteq Threads
  BY <1>2, <1>3 DEF IInv, Shape, TypeOK
<1>6. live' = [live EXCEPT ![t] = None] /\ live' \in [Threads -> Bodies \cup {None}]
      /\ saved' \in [Bodies -> Bodies \cup {None}]
  BY <1>1, <1>3, SaveTypes
<1>7. Rooted' /\ Apart' /\ Placed' /\ OnlyParked'
  BY Placement
<1>8. Emptied' /\ Steered'
  BY <1>3, <1>4, <1>6 DEF IInv, Shape, TypeOK, Emptied, Steered, Top
<1>9. Called'
  <2>1. Top(t) \in Bodies /\ status[Top(t)] = "active" /\ Top(t) \notin parked
        /\ \A u \in Threads : InChain(u, Top(t)) => u = t
    BY Tops DEF IInv, Shape, Apart, InChain, Top
  <2>2. call'[Top(t)] = r /\ \A x \in Bodies \ {Top(t)} : call'[x] = call[x]
    BY <1>3, <2>1 DEF IInv, Shape, TypeOK
  <2>3. ASSUME NEW u \in Threads, NEW x \in Bodies, InChain(u, x)' PROVE Named(u, x)'
    <3>1. InChain(u, x) /\ Top(u)' = Top(u) /\ Named(u, x)
      BY <2>3 DEF InChain, Top, IInv, Called
    <3>2. CASE x = Top(t)
      BY <1>1, <1>2, <1>3, <1>4, <2>1, <2>2, <3>1, <3>2 DEF Named
    <3>3. CASE x # Top(t)
      BY <1>3, <1>4, <2>2, <3>1, <3>3 DEF Named
    <3> QED
      BY <3>2, <3>3
  <2>4. \A x \in parked : x \in Bodies /\ x # Top(t)
    BY <2>1 DEF IInv, Shape, TypeOK, Bodies
  <2> QED
    BY <1>2, <2>1, <2>2, <2>3, <2>4 DEF IInv, Called
<1>10. Owned'
  <2> SUFFICES ASSUME astray' = {}
               PROVE  (\A u \in Threads : mail[u] = None => live[u] = Top(u))' /\ Stashed'
    BY DEF Owned
  <2>1. astray = {} /\ c = Top(t)
    BY <1>1, <1>3
  <2>2. Stashed'
    BY <1>3, <2>1, SaveStashes
  <2>3. (\A u \in Threads : mail[u] = None => live[u] = Top(u))'
    BY <1>4, <1>6, <2>1 DEF IInv, Shape, TypeOK, Owned, Top
  <2> QED
    BY <2>2, <2>3
<1> QED
  BY <1>4, <1>5, <1>6, <1>7, <1>8, <1>9, <1>10

(* A main greenlet is started and does not die.                            *)
LEMMA MainsActive ==
  ASSUME IInv, NEW u \in Threads
  PROVE  u \in Bodies /\ status[u] = "active" /\ u \notin parked
<1>1. 1 \in 1..Len(chain[u]) /\ chain[u][1] = u
  BY DEF IInv, Shape, Rooted, TypeOK
<1>2. InChain(u, u) /\ u \in Bodies
  BY <1>1 DEF InChain, Bodies
<1> QED
  BY <1>2 DEF IInv, Shape, Placed, OnlyParked

LEMMA SwitchStep ==
  ASSUME IInv, NEW t \in Threads, NEW b \in Bodies, Switch(t, b)
  PROVE  IInv'
<1>1. PICK l \in Loads : Leave(t, b, l, FALSE)
  BY DEF Switch
<1>2. /\ mail[t] = None
      /\ UNCHANGED <<status, registered, parent, bound, parked, chain, current, crashed>>
  BY DEF Switch, Turn, Running
<1>3. /\ mail' \in [Threads -> Directives \cup {None}]
      /\ live' \in [Threads -> Bodies \cup {None}]
      /\ saved' \in [Bodies -> Bodies \cup {None}]
      /\ call' \in [Bodies -> Calls \cup {None}] /\ astray' \subseteq Threads
      /\ Rooted' /\ Apart' /\ Placed' /\ OnlyParked'
      /\ Emptied' /\ Called' /\ Steered' /\ Owned'
  BY <1>1, <1>2, LeaveStep
<1>4. TypeOK' /\ Made'
  BY <1>2, <1>3 DEF IInv, Shape, TypeOK, Made
<1> QED
  BY <1>3, <1>4 DEF IInv, Shape

LEMMA CollectStep ==
  ASSUME IInv, NEW t \in Threads, NEW g \in Greenlets, Collect(t, g)
  PROVE  IInv'
<1>1. g \in Bodies /\ mail[t] = None
  BY DEF Bodies, Collect, Turn, Running
<1>2. UNCHANGED <<status, bound, chain, current, crashed>>
  BY DEF Collect
<1>3. CASE status[g] = "active" /\ g # CurrentBody(t) /\ ~InChain(t, g)
  <2>1. /\ parent' = [parent EXCEPT ![g] = CurrentBody(t)] /\ Leave(t, g, "throw", TRUE)
        /\ UNCHANGED <<registered, parked>>
    BY <1>3 DEF Collect
  <2>2. "throw" \in Loads /\ CurrentBody(t) \in Bodies
    BY <1>1, CurrentIs DEF Loads
  <2>3. /\ mail' \in [Threads -> Directives \cup {None}]
        /\ live' \in [Threads -> Bodies \cup {None}]
        /\ saved' \in [Bodies -> Bodies \cup {None}]
        /\ call' \in [Bodies -> Calls \cup {None}] /\ astray' \subseteq Threads
        /\ Rooted' /\ Apart' /\ Placed' /\ OnlyParked'
        /\ Emptied' /\ Called' /\ Steered' /\ Owned'
    BY <1>1, <1>2, <2>1, <2>2, LeaveStep
  <2>4. TypeOK'
    BY <1>1, <1>2, <2>1, <2>2, <2>3 DEF IInv, Shape, TypeOK
  <2>5. Made'
    BY <1>1, <1>2, <2>1, <2>2 DEF Made, IInv, Shape, TypeOK
  <2> QED
    BY <2>3, <2>4, <2>5 DEF IInv, Shape
<1>4. CASE ~(status[g] = "active" /\ g # CurrentBody(t) /\ ~InChain(t, g))
  <2>1. Remove({g}) /\ UNCHANGED <<parent, mail, live, saved, call, astray>>
    BY <1>4 DEF Collect
  <2>2. parked' = parked /\ registered' \subseteq registered
    BY <2>1, RemoveKeeps
  <2>3. /\ Rooted' /\ Apart' /\ Placed' /\ OnlyParked'
        /\ Emptied' /\ Called' /\ Steered' /\ Owned'
    BY <1>2, <2>1, <2>2, Quiet
  <2>4. TypeOK' /\ Made'
    BY <1>2, <2>1, <2>2 DEF IInv, Shape, TypeOK, Made
  <2> QED
    BY <2>3, <2>4 DEF IInv, Shape
<1> QED
  BY <1>3, <1>4

LEMMA DieStep ==
  ASSUME IInv, NEW t \in Threads, Die(t)
  PROVE  IInv'
<1> DEFINE g == Top(t)
<1>1. /\ mail[t] = None /\ g \notin Threads
      /\ status' = [status EXCEPT ![g] = "dead"] /\ Save(t, g)
      /\ chain' = [chain EXCEPT ![t] = SubSeq(chain[t], 1, Len(chain[t]) - 1)]
      /\ UNCHANGED <<registered, parent, bound, parked, current, call, crashed, astray>>
  BY DEF Die, Turn, Running
<1>2. g \in Bodies /\ Len(chain[t]) > 1 /\ status[g] = "active" /\ g \notin parked
  <2>1. Len(chain[t]) \in Nat \ {0} /\ Len(chain[t]) # 1
    BY <1>1, Tops
  <2>2. \A n \in Nat \ {0} : n # 1 => n > 1
    OBVIOUS
  <2>3. Len(chain[t]) > 1
    BY <2>1, <2>2
  <2> QED
    BY <2>3, Tops
<1>3. parent[g] \in Bodies
  BY <1>1, <1>2 DEF IInv, Shape, Made, Bodies
<1>4. PICK l \in Loads : mail' = [mail EXCEPT ![t] = [to |-> parent[g], load |-> l]]
  BY DEF Die, Post
<1>5. [to |-> parent[g], load |-> l] \in Directives
  BY <1>3 DEF Directives
<1>6. /\ mail' \in [Threads -> Directives \cup {None}] /\ mail'[t] # None
      /\ \A u \in Threads \ {t} : mail'[u] = mail[u]
  BY <1>4, <1>5, NoneOutside DEF IInv, Shape, TypeOK
<1>7. /\ live' = [live EXCEPT ![t] = None]
      /\ live' \in [Threads -> Bodies \cup {None}]
      /\ saved' \in [Bodies -> Bodies \cup {None}]
  BY <1>1, <1>2, SaveTypes
<1>8. /\ chain' \in [Threads -> Seq(Bodies)] /\ Rooted' /\ Apart'
      /\ \A u \in Threads, b \in Bodies :
           InChain(u, b)' <=> InChain(u, b) /\ ~(u = t /\ b = g)
      /\ \A u \in Threads \ {t} : chain'[u] = chain[u]
  BY <1>1, <1>2, Popped
<1>9. \A u \in Threads : InChain(u, g) => u = t
  BY <1>2, Tops DEF IInv, Shape, Apart, InChain, Top
<1>10. \A u \in Threads \ {t} : Top(u)' = Top(u)
  BY <1>8 DEF Top
<1> HIDE DEF g
<1>11. /\ status' \in [Bodies -> {"fresh", "unstarted", "active", "dead"}]
       /\ status'[g] = "dead" /\ \A b \in Bodies \ {g} : status'[b] = status[b]
  BY <1>1, <1>2 DEF IInv, Shape, TypeOK
<1>12. TypeOK'
  BY <1>1, <1>6, <1>7, <1>8, <1>11 DEF IInv, Shape, TypeOK
<1>13. Placed'
  <2> SUFFICES ASSUME NEW b \in Bodies
               PROVE  status'[b] = "active" <=> (b \in parked' \/ \E u \in Threads : InChain(u, b)')
    BY DEF Placed
  <2>1. CASE b = g
    BY <1>1, <1>2, <1>8, <1>9, <1>11, <2>1
  <2>2. CASE b # g
    BY <1>1, <1>8, <1>11, <2>2 DEF IInv, Shape, Placed
  <2> QED
    BY <2>1, <2>2
<1>14. OnlyParked'
  BY <1>1, <1>8 DEF IInv, Shape, OnlyParked, TypeOK, Bodies
<1>15. Made'
  BY <1>1, <1>2, <1>11 DEF IInv, Shape, Made
<1>16. Emptied' /\ Steered'
  BY <1>1, <1>6, <1>7, <1>10 DEF IInv, Shape, TypeOK, Emptied, Steered
<1>17. Called'
  <2>1. call[g] = None
    BY <1>1, <1>2, Tops DEF IInv, Called, Named, g
  <2>2. ASSUME NEW u \in Threads, NEW b \in Bodies, InChain(u, b)' PROVE Named(u, b)'
    <3>1. InChain(u, b) /\ ~(u = t /\ b = g) /\ Named(u, b)
      BY <1>8, <2>2 DEF IInv, Called
    <3>2. CASE u = t
      BY <1>1, <1>6, <3>1, <3>2 DEF Named, g
    <3>3. CASE u # t
      BY <1>1, <1>6, <1>10, <3>1, <3>3 DEF Named
    <3> QED
      BY <3>2, <3>3
  <2>3. \A b \in Bodies : status'[b] # "active" => call'[b] = None
    BY <1>1, <1>11, <2>1 DEF IInv, Called
  <2>4. \A b \in Bodies : call'[b] # None /\ call'[b].del => call'[b].to \in Greenlets
    BY <1>1 DEF IInv, Called
  <2>5. \A b \in parked' : call'[b] # None /\ call'[b].as = b
    BY <1>1 DEF IInv, Called
  <2> QED
    BY <2>2, <2>3, <2>4, <2>5 DEF Called
<1>18. Owned'
  <2> SUFFICES ASSUME astray' = {}
               PROVE  (\A u \in Threads : mail[u] = None => live[u] = Top(u))' /\ Stashed'
    BY DEF Owned
  <2>1. astray = {}
    BY <1>1
  <2>2. Stashed'
    BY <1>1, <2>1, SaveStashes DEF g
  <2>3. (\A u \in Threads : mail[u] = None => live[u] = Top(u))'
    BY <1>6, <1>7, <1>10, <2>1 DEF IInv, Shape, TypeOK, Owned
  <2> QED
    BY <2>2, <2>3
<1> QED
  BY <1>8, <1>12, <1>13, <1>14, <1>15, <1>16, <1>17, <1>18 DEF IInv, Shape

--------------------------------------------------------------------------------
(* The routing loop.                                                       *)
LEMMA InHand ==
  ASSUME IInv, NEW t \in Threads, Routing(t)
  PROVE  /\ mail[t] # None /\ mail[t] \in Directives /\ live[t] = None
         /\ Addressed(t) \in Bodies /\ mail[t].load \in Loads
         /\ call[Top(t)] # None /\ call[Top(t)] \in Calls
         /\ Self(t) \in {Top(t), t} /\ Self(t) \in Bodies
         /\ t \notin astray => Self(t) = Top(t)
<1>1. /\ mail[t] # None /\ mail[t] \in Directives /\ live[t] = None
      /\ Addressed(t) \in Bodies /\ mail[t].load \in Loads
  BY DEF Routing, IInv, Shape, TypeOK, Emptied, Addressed, Directives
<1>2. Top(t) \in Bodies /\ Named(t, Top(t))
  BY Tops DEF IInv, Called
<1>3. call[Top(t)] # None /\ call[Top(t)] \in Calls
  BY <1>1, <1>2 DEF Named, IInv, Shape, TypeOK
<1>4. /\ Self(t) \in {Top(t), t} /\ t \notin astray => Self(t) = Top(t)
  BY <1>2, <1>3 DEF Named, Self
<1> QED
  BY <1>1, <1>2, <1>3, <1>4 DEF Named, Self, Bodies

RedirectsTo(t) == IF Addressed(t) \in registered THEN parent[Addressed(t)] ELSE t

LEMMA RedirectKnown ==
  ASSUME IInv, NEW t \in Threads, Redirect(t)
  PROVE  /\ RedirectsTo(t) \in Bodies
         /\ mail' \in [Threads -> Directives \cup {None}]
         /\ mail'[t] # None /\ mail'[t].to = RedirectsTo(t)
         /\ \A u \in Threads \ {t} : mail'[u] = mail[u]
<1> DEFINE a == Addressed(t)
<1>1. a \in Bodies /\ mail[t] \in Directives
  BY InHand DEF Redirect
<1>2. RedirectsTo(t) \in Bodies
  <2>1. CASE a \in registered
    <3>1. status[a] = "dead"
      BY <2>1 DEF Redirect, Alive
    <3>2. a \in Greenlets /\ parent[a] \in Bodies
      BY <1>1, <3>1, MainsActive DEF Bodies, IInv, Shape, Made
    <3> QED
      BY <2>1, <3>2 DEF RedirectsTo
  <2>2. CASE a \notin registered
    BY <2>2 DEF Bodies, RedirectsTo
  <2> QED
    BY <2>1, <2>2
<1>3. mail' = [mail EXCEPT ![t].to = RedirectsTo(t)]
  BY DEF Redirect, RedirectsTo
<1>4. mail \in [Threads -> Directives \cup {None}]
  BY DEF IInv, Shape, TypeOK
<1> HIDE DEF a
<1>5. \A u \in Threads \ {t} : mail'[u] = mail[u]
  BY <1>3, <1>4
<1>6. mail'[t] \in Directives /\ mail'[t].to = RedirectsTo(t)
  BY <1>1, <1>2, <1>3, <1>4 DEF Directives
<1>7. mail' \in [Threads -> Directives \cup {None}]
  BY <1>3, <1>4, <1>6
<1> QED
  BY <1>2, <1>5, <1>6, <1>7, NoneOutside

LEMMA RedirectStep ==
  ASSUME IInv, NEW t \in Threads, Redirect(t)
  PROVE  IInv'
<1>1. /\ mail[t] # None /\ live[t] = None
      /\ UNCHANGED <<status, registered, parent, bound, parked, chain, current, live,
                     saved, call, crashed, astray>>
  BY InHand DEF Redirect
<1>2. /\ mail' \in [Threads -> Directives \cup {None}] /\ mail'[t] # None
      /\ \A u \in Threads \ {t} : mail'[u] = mail[u]
  BY RedirectKnown
<1>3. TypeOK' /\ Made'
  BY <1>1, <1>2 DEF IInv, Shape, TypeOK, Made
<1>4. Rooted' /\ Apart' /\ Placed' /\ OnlyParked'
  BY <1>1, Placement
<1>5. Emptied' /\ Steered' /\ Owned'
  BY <1>1, <1>2 DEF IInv, Emptied, Steered, Owned, Stashed, Top
<1>6. \A u \in Threads : mail'[u] = None <=> mail[u] = None
  BY <1>1, <1>2
<1>7. Called'
  BY <1>1, <1>6 DEF IInv, Called, Named, InChain, Top
<1> QED
  BY <1>3, <1>4, <1>5, <1>7 DEF IInv, Shape

LEMMA DeliverStep ==
  ASSUME IInv, NEW t \in Threads, Deliver(t)
  PROVE  IInv'
<1> DEFINE b == Top(t)
<1> DEFINE s == Self(t)
<1>1. /\ mail[t] # None /\ live[t] = None /\ s \in Bodies /\ s \in {b, t}
      /\ t \notin astray => s = b
  BY InHand DEF Deliver
<1>2. /\ mail' = [mail EXCEPT ![t] = None] /\ Install(t, s)
      /\ call' = [call EXCEPT ![b] = None]
      /\ UNCHANGED <<status, parent, bound, chain, crashed, astray>>
  BY DEF Deliver
<1>3. parked' = parked /\ registered' \subseteq registered
  BY RemoveKeeps DEF Deliver
<1>4. /\ b \in Bodies /\ InChain(t, b) /\ b \notin parked
      /\ \A u \in Threads : InChain(u, b) => u = t
  BY Tops DEF IInv, Shape, Apart, InChain, Top
<1>5. \A u \in Threads : Top(u)' = Top(u)
  BY <1>2 DEF Top
<1>6. Rooted' /\ Apart' /\ Placed' /\ OnlyParked'
  BY <1>2, <1>3, Placement
<1>7. astray = {} => \A u \in Threads : live[u] # b
  BY <1>1, LiveTop, Tops, NoneOutside
<1> HIDE DEF b, s
<1>8. /\ \A u \in Threads \ {t} : live'[u] = live[u]
      /\ live' \in [Threads -> Bodies \cup {None}] /\ saved' \in [Bodies -> Bodies \cup {None}]
      /\ current' = [current EXCEPT ![t] = s] /\ current' \in [Threads -> Bodies]
  BY <1>1, <1>2, InstallTypes
<1>9. /\ mail' \in [Threads -> Directives \cup {None}] /\ mail'[t] = None
      /\ \A u \in Threads \ {t} : mail'[u] = mail[u]
      /\ call' \in [Bodies -> Calls \cup {None}] /\ call'[b] = None
      /\ \A x \in Bodies \ {b} : call'[x] = call[x]
      /\ current'[t] = s /\ \A u \in Threads \ {t} : current'[u] = current[u]
  BY <1>2, <1>4, <1>8 DEF IInv, Shape, TypeOK
<1>10. TypeOK' /\ Made'
  BY <1>2, <1>3, <1>8, <1>9 DEF IInv, Shape, TypeOK, Made
<1>11. Emptied' /\ Steered'
  BY <1>1, <1>2, <1>5, <1>8, <1>9 DEF IInv, Emptied, Steered, b
<1>12. Called'
  <2>1. ASSUME NEW u \in Threads, NEW x \in Bodies, InChain(u, x)' PROVE Named(u, x)'
    <3>1. InChain(u, x) /\ Named(u, x)
      BY <1>2, <2>1 DEF InChain, IInv, Called
    <3>2. CASE x = b
      BY <1>4, <1>5, <1>9, <3>1, <3>2 DEF Named, b
    <3>3. CASE x # b /\ u = t
      BY <1>1, <1>2, <1>5, <1>9, <3>1, <3>3 DEF Named, b
    <3>4. CASE x # b /\ u # t
      BY <1>2, <1>5, <1>9, <3>1, <3>4 DEF Named
    <3> QED
      BY <3>2, <3>3, <3>4
  <2>2. \A x \in parked : x \in Bodies /\ x # b
    BY <1>4 DEF IInv, Shape, TypeOK, Bodies
  <2>3. \A x \in Bodies : call'[x] = None \/ call'[x] = call[x]
    BY <1>9
  <2>4. \A x \in Bodies : status'[x] # "active" => call'[x] = None
    BY <1>2, <2>3 DEF IInv, Called
  <2>5. \A x \in Bodies : call'[x] # None /\ call'[x].del => call'[x].to \in Greenlets
    BY <2>3 DEF IInv, Called
  <2>6. \A x \in parked' : call'[x] # None /\ call'[x].as = x
    BY <1>3, <1>9, <2>2 DEF IInv, Called
  <2> QED
    BY <2>1, <2>4, <2>5, <2>6 DEF Called
<1>13. Owned'
  <2> SUFFICES ASSUME astray' = {}
               PROVE  (\A u \in Threads : mail[u] = None => live[u] = Top(u))' /\ Stashed'
    BY DEF Owned
  <2>1. astray = {} /\ s = b
    BY <1>1, <1>2
  <2>2. Stashed' /\ live' = [live EXCEPT ![t] = b]
    BY <1>1, <1>2, <1>7, <2>1, InstallStashes
  <2>3. (\A u \in Threads : mail[u] = None => live[u] = Top(u))'
    BY <1>5, <1>9, <2>1, <2>2 DEF IInv, Shape, TypeOK, Owned, b
  <2> QED
    BY <2>2, <2>3
<1> QED
  BY <1>6, <1>10, <1>11, <1>12, <1>13 DEF IInv, Shape

LEMMA SuspendStep ==
  ASSUME IInv, NEW t \in Threads, Suspend(t)
  PROVE  IInv'
<1> DEFINE g == Top(t)
<1>1. /\ mail[t] # None /\ live[t] = None /\ Addressed(t) # Self(t) /\ InChain(t, Addressed(t))
      /\ Self(t) \notin Threads /\ Self(t) = g /\ call[g] # None /\ call[g].as = g
      /\ chain' = [chain EXCEPT ![t] = SubSeq(chain[t], 1, Len(chain[t]) - 1)]
      /\ parked' = parked \cup {g}
      /\ UNCHANGED <<status, registered, parent, bound, mail, current, live, saved, call,
                     crashed, astray>>
  BY InHand DEF Suspend, RouterGone, Self
<1>2. Len(chain[t]) > 1
  <2>1. PICK i \in 1..Len(chain[t]) : i # Len(chain[t])
    BY <1>1 DEF InChain, Top
  <2>2. Len(chain[t]) \in Nat
    BY Tops
  <2> QED
    BY <2>1, <2>2
<1>3. g \in Greenlets /\ status[g] = "active" /\ g \in Bodies
  BY <1>1, Tops DEF Bodies
<1>4. /\ chain' \in [Threads -> Seq(Bodies)] /\ Rooted' /\ Apart'
      /\ \A u \in Threads, b \in Bodies :
           InChain(u, b)' <=> InChain(u, b) /\ ~(u = t /\ b = g)
      /\ \A u \in Threads \ {t} : chain'[u] = chain[u]
  BY <1>1, <1>2, Popped
<1>5. \A u \in Threads : InChain(u, g) => u = t
  BY <1>3, Tops DEF IInv, Shape, Apart, InChain, Top
<1>6. \A u \in Threads \ {t} : Top(u)' = Top(u)
  BY <1>4 DEF Top
<1>7. TypeOK' /\ Made'
  BY <1>1, <1>3, <1>4 DEF IInv, Shape, TypeOK, Made
<1>8. Placed'
  BY <1>1, <1>3, <1>4 DEF IInv, Shape, Placed
<1>9. OnlyParked'
  BY <1>1, <1>3, <1>4, <1>5 DEF IInv, Shape, OnlyParked, TypeOK, Bodies
<1>10. Emptied' /\ Steered' /\ Owned'
  BY <1>1, <1>6 DEF IInv, Emptied, Steered, Owned, Stashed
<1>11. Called'
  <2>1. ASSUME NEW u \in Threads, NEW b \in Bodies, InChain(u, b)' PROVE Named(u, b)'
    <3>1. InChain(u, b) /\ ~(u = t /\ b = g) /\ Named(u, b)
      BY <1>4, <2>1 DEF IInv, Called
    <3>2. CASE u = t
      BY <1>1, <3>1, <3>2 DEF Named
    <3>3. CASE u # t
      BY <1>1, <1>6, <3>1, <3>3 DEF Named
    <3> QED
      BY <3>2, <3>3
  <2> QED
    BY <1>1, <2>1 DEF IInv, Called
<1> QED
  BY <1>4, <1>7, <1>8, <1>9, <1>10, <1>11 DEF IInv, Shape

LEMMA ResumeStep ==
  ASSUME IInv, NEW t \in Threads, Resume(t)
  PROVE  IInv'
<1> DEFINE g == Addressed(t)
<1>1. /\ mail[t] # None /\ live[t] = None /\ g \in parked /\ g \in Bodies
      /\ chain' = [chain EXCEPT ![t] = Append(@, g)]
      /\ parked' = parked \ {g}
      /\ UNCHANGED <<status, registered, parent, bound, mail, current, live, saved, call,
                     crashed, astray>>
  BY InHand DEF Resume
<1>2. call[g] # None /\ call[g].as = g /\ \A u \in Threads : ~InChain(u, g)
  BY <1>1 DEF IInv, Shape, OnlyParked, Called
<1> HIDE DEF g
<1>3. /\ chain' \in [Threads -> Seq(Bodies)] /\ Rooted' /\ Apart'
      /\ \A u \in Threads, b \in Bodies : InChain(u, b)' <=> InChain(u, b) \/ (u = t /\ b = g)
      /\ \A u \in Threads \ {t} : chain'[u] = chain[u]
  BY <1>1, <1>2, Pushed
<1>4. \A u \in Threads \ {t} : Top(u)' = Top(u)
  BY <1>3 DEF Top
<1>5. TypeOK' /\ Made'
  BY <1>1, <1>3 DEF IInv, Shape, TypeOK, Made
<1>6. Placed'
  BY <1>1, <1>3 DEF IInv, Shape, Placed
<1>7. OnlyParked'
  BY <1>1, <1>3 DEF IInv, Shape, OnlyParked, TypeOK, Bodies
<1>8. Emptied' /\ Steered' /\ Owned'
  BY <1>1, <1>4 DEF IInv, Emptied, Steered, Owned, Stashed
<1>9. Called'
  <2>1. ASSUME NEW u \in Threads, NEW b \in Bodies, InChain(u, b)' PROVE Named(u, b)'
    <3>1. CASE u = t /\ b = g
      BY <1>1, <1>2, <3>1 DEF Named
    <3>2. CASE u = t /\ b # g
      <4>1. Named(t, b)
        BY <1>3, <2>1, <3>2 DEF IInv, Called
      <4> QED
        BY <1>1, <3>2, <4>1 DEF Named
    <3>3. CASE u # t
      <4>1. Named(u, b)
        BY <1>3, <2>1, <3>3 DEF IInv, Called
      <4> QED
        BY <1>1, <1>4, <3>3, <4>1 DEF Named
    <3> QED
      BY <3>1, <3>2, <3>3
  <2> QED
    BY <1>1, <2>1 DEF IInv, Called
<1> QED
  BY <1>3, <1>5, <1>6, <1>7, <1>8, <1>9 DEF IInv, Shape

LEMMA StartStep ==
  ASSUME IInv, NEW t \in Threads, Start(t)
  PROVE  IInv'
<1> DEFINE g == Addressed(t)
<1>1. /\ mail[t] # None /\ live[t] = None /\ g \in Bodies /\ status[g] = "unstarted"
      /\ status' = [status EXCEPT ![g] = "active"] /\ bound' = [bound EXCEPT ![g] = t]
      /\ chain' = [chain EXCEPT ![t] = Append(@, g)] /\ Install(t, g)
      /\ mail' = [mail EXCEPT ![t] = None]
      /\ UNCHANGED <<registered, parent, parked, call, crashed, astray>>
  BY InHand DEF Start
<1>2. g \notin parked /\ call[g] = None /\ \A u \in Threads : ~InChain(u, g)
  BY <1>1 DEF IInv, Shape, Placed, Called
<1>3. astray = {} => \A u \in Threads : live[u] # g
  BY <1>1, <1>2, LiveTop, Tops, NoneOutside
<1> HIDE DEF g
<1>4. /\ chain' \in [Threads -> Seq(Bodies)] /\ Rooted' /\ Apart' /\ Top(t)' = g
      /\ \A u \in Threads, b \in Bodies : InChain(u, b)' <=> InChain(u, b) \/ (u = t /\ b = g)
      /\ \A u \in Threads \ {t} : chain'[u] = chain[u]
  BY <1>1, <1>2, Pushed
<1>5. \A u \in Threads \ {t} : Top(u)' = Top(u)
  BY <1>4 DEF Top
<1>6. /\ \A u \in Threads \ {t} : live'[u] = live[u]
      /\ live' \in [Threads -> Bodies \cup {None}] /\ saved' \in [Bodies -> Bodies \cup {None}]
      /\ current' = [current EXCEPT ![t] = g] /\ current' \in [Threads -> Bodies]
  BY <1>1, InstallTypes
<1>7. /\ mail'[t] = None /\ \A u \in Threads \ {t} : mail'[u] = mail[u]
      /\ current'[t] = g /\ \A u \in Threads \ {t} : current'[u] = current[u]
      /\ status'[g] = "active" /\ \A b \in Bodies \ {g} : status'[b] = status[b]
  BY <1>1, <1>6 DEF IInv, Shape, TypeOK
<1>8. TypeOK'
  BY <1>1, <1>4, <1>6 DEF IInv, Shape, TypeOK
<1>9. Placed'
  BY <1>1, <1>2, <1>4, <1>7 DEF IInv, Shape, Placed
<1>10. OnlyParked'
  BY <1>1, <1>2, <1>4 DEF IInv, Shape, OnlyParked, TypeOK, Bodies
<1>11. Made'
  BY <1>1, <1>7 DEF IInv, Shape, Made
<1>12. Emptied' /\ Steered'
  BY <1>1, <1>4, <1>5, <1>6, <1>7 DEF IInv, Emptied, Steered
<1>13. Called'
  <2>1. ASSUME NEW u \in Threads, NEW b \in Bodies, InChain(u, b)' PROVE Named(u, b)'
    <3>1. CASE u = t /\ b = g
      BY <1>1, <1>2, <1>4, <1>7, <3>1 DEF Named
    <3>2. CASE u = t /\ b # g
      <4>1. Named(t, b)
        BY <1>4, <2>1, <3>2 DEF IInv, Called
      <4> QED
        BY <1>1, <1>4, <3>2, <4>1 DEF Named
    <3>3. CASE u # t
      <4>1. Named(u, b)
        BY <1>4, <2>1, <3>3 DEF IInv, Called
      <4> QED
        BY <1>1, <1>5, <1>7, <3>3, <4>1 DEF Named
    <3> QED
      BY <3>1, <3>2, <3>3
  <2>2. \A b \in Bodies : status'[b] # "active" => status[b] # "active"
    BY <1>7
  <2> QED
    BY <1>1, <2>1, <2>2 DEF IInv, Called
<1>14. Owned'
  <2> SUFFICES ASSUME astray' = {}
               PROVE  (\A u \in Threads : mail[u] = None => live[u] = Top(u))' /\ Stashed'
    BY DEF Owned
  <2>1. Stashed' /\ live' = [live EXCEPT ![t] = g] /\ astray = {}
    BY <1>1, <1>3, InstallStashes
  <2>2. live'[t] = g
    BY <2>1 DEF IInv, Shape, TypeOK
  <2>3. ASSUME NEW u \in Threads, mail'[u] = None PROVE live'[u] = Top(u)'
    <3>1. CASE u = t
      BY <1>4, <1>5, <1>6, <1>7, <2>2, <3>1
    <3>2. CASE u # t
      <4>1. live'[u] = live[u]
        BY <2>1, <3>2 DEF IInv, Shape, TypeOK
      <4>2. mail'[u] = mail[u]
        BY <1>1, <3>2 DEF IInv, Shape, TypeOK
      <4>3. live[u] = Top(u)
        BY <2>1, <2>3, <4>2 DEF IInv, Owned
      <4> QED
        BY <1>5, <3>2, <4>1, <4>3
    <3> QED
      BY <3>1, <3>2
  <2> QED
    BY <2>1, <2>3
<1> QED
  BY <1>4, <1>8, <1>9, <1>10, <1>11, <1>12, <1>13, <1>14 DEF IInv, Shape

LEMMA StillbornStep ==
  ASSUME IInv, NEW t \in Threads, Stillborn(t)
  PROVE  IInv'
<1> DEFINE g == Addressed(t)
<1>1. /\ mail[t] # None /\ live[t] = None /\ g \in Bodies /\ status[g] = "unstarted"
      /\ status' = [status EXCEPT ![g] = "dead"] /\ bound' = [bound EXCEPT ![g] = t]
      /\ current' = [current EXCEPT ![t] = g]
      /\ UNCHANGED <<registered, parent, parked, chain, live, saved, call, crashed, astray>>
  BY InHand DEF Stillborn
<1>2. parent[g] \in Bodies
  BY <1>1, MainsActive DEF Bodies, IInv, Shape, Made
<1>3. PICK l \in Loads : mail' = [mail EXCEPT ![t] = [to |-> parent[g], load |-> l]]
  BY DEF Stillborn, Post
<1>4. [to |-> parent[g], load |-> l] \in Directives
  BY <1>2 DEF Directives
<1>5. /\ mail' \in [Threads -> Directives \cup {None}] /\ mail'[t] # None
      /\ \A u \in Threads \ {t} : mail'[u] = mail[u]
  BY <1>3, <1>4, NoneOutside DEF IInv, Shape, TypeOK
<1> HIDE DEF g
<1>6. TypeOK'
  BY <1>1, <1>5 DEF IInv, Shape, TypeOK
<1>7. /\ \A b \in Bodies : status'[b] = "active" <=> status[b] = "active"
      /\ \A b \in Bodies : status'[b] = "fresh" <=> status[b] = "fresh"
  BY <1>1 DEF IInv, Shape, TypeOK
<1>8. Rooted' /\ Apart' /\ Placed' /\ OnlyParked'
  BY <1>1, <1>7, Placement
<1>9. Made'
  BY <1>1, <1>7 DEF IInv, Shape, Made
<1>10. \A u \in Threads : mail'[u] = None <=> mail[u] = None
  BY <1>1, <1>5
<1>11. Emptied' /\ Owned'
  BY <1>1, <1>10 DEF IInv, Emptied, Owned, Stashed, Top
<1>12. Steered'
  BY <1>1, <1>5 DEF IInv, Shape, TypeOK, Steered, Top
<1>13. Called'
  BY <1>1, <1>7, <1>10 DEF IInv, Called, Named, InChain, Top
<1> QED
  BY <1>6, <1>8, <1>9, <1>11, <1>12, <1>13 DEF IInv, Shape

--------------------------------------------------------------------------------
LEMMA Inductive == IInv /\ [Next]_vars => IInv'
<1> SUFFICES ASSUME IInv, [Next]_vars PROVE IInv'
  OBVIOUS
<1>1. CASE UNCHANGED vars
  <2>1. /\ Rooted' /\ Apart' /\ Placed' /\ OnlyParked'
        /\ Emptied' /\ Called' /\ Steered' /\ Owned'
    BY <1>1, Quiet DEF vars
  <2>2. TypeOK' /\ Made'
    BY <1>1 DEF vars, IInv, Shape, TypeOK, Made
  <2> QED
    BY <2>1, <2>2 DEF IInv, Shape
<1>2. ASSUME NEW t \in Threads, Route(t) PROVE IInv'
  BY <1>2, RedirectStep, DeliverStep, SuspendStep, ResumeStep, StartStep, StillbornStep,
     PanicStep DEF Route
<1>3. ASSUME NEW t \in Threads, Python(t) PROVE IInv'
  BY <1>3, DieStep, TeardownStep, CreateStep, SetParentStep, ThrowUnstartedStep,
     CollectStep, SwitchStep DEF Python
<1> QED
  BY <1>1, <1>2, <1>3 DEF Next

LEMMA Invariant == Spec => []IInv
BY Initially, Inductive, PTL DEF Spec

(* The state of greenlet_native.rs is always well formed.                  *)
THEOREM TypeCorrect == Spec => []TypeOK
<1>1. IInv => TypeOK
  BY DEF IInv, Shape
<1> QED
  BY Invariant, <1>1, PTL

(* Every started greenlet's native stack is in exactly one place until it  *)
(* dies, through switches, collections and thread ends: the chain (CHAIN)  *)
(* and the coroutine field of the bodies never disagree, and registry      *)
(* removals never drop a body whose stack is suspended in it.              *)
THEOREM StacksInPlace == Spec => []OneStack
<1>1. IInv => OneStack
  BY DEF IInv, Shape, OneStack, Rooted, Apart, Placed, OnlyParked
<1> QED
  BY Invariant, <1>1, PTL

(* save_thread_state and install_thread_state pair up until a greenlet     *)
(* that was collected while it ran switches: a greenlet that goes on finds *)
(* the state it left with, and nobody runs on another's.                   *)
THEOREM OwnStateBack == Spec => []OwnState
<1>1. IInv => OwnState
  BY DEF IInv, OwnState, Emptied, Steered, Owned, Stashed
<1> QED
  BY Invariant, <1>1, PTL

--------------------------------------------------------------------------------
(* The refinement of GreenletContract.                                     *)

(* A greenlet is known by the time a switch names it, or it is a parent.   *)
Known ==
  /\ \A b \in Greenlets : status[b] # "fresh" => status[parent[b]] # "fresh"
  /\ \A t \in Threads : status[current[t]] # "fresh"
  /\ \A t \in Threads : mail[t] # None => status[mail[t].to] # "fresh"

(* A main greenlet is its own thread's, the thread of a switch is there,   *)
(* and no other has one under way.                                         *)
Binds == \A t \in Threads : bound[t] = t /\ (mail[t] # None => t \in registered)
Single == \A t, u \in Threads : Routing(t) /\ Routing(u) => t = u

Ties == Known /\ Binds /\ Single

LEMMA TiesInitially == Init => Ties
<1> SUFFICES ASSUME Init PROVE Ties
  OBVIOUS
<1>1. Known
  BY GreenletAssumption DEF Init, Known, Bodies
<1>2. Binds
  BY GreenletAssumption DEF Init, Binds, Bodies
<1>3. Single
  BY DEF Init, Single, Routing
<1> QED
  BY <1>1, <1>2, <1>3 DEF Ties

(* The values that Known speaks of.                                        *)
LEMMA Names ==
  ASSUME IInv
  PROVE  /\ \A b \in Greenlets : b \in Bodies /\ (status[b] # "fresh" => parent[b] \in Bodies)
         /\ \A t \in Threads : t \in Bodies /\ current[t] \in Bodies
         /\ \A t \in Threads : mail[t] # None => mail[t].to \in Bodies
BY DEF IInv, Shape, Made, TypeOK, Bodies, Directives

(* Nothing but the state of one directive changes.                         *)
LEMMA KnownStays ==
  ASSUME IInv, Ties, UNCHANGED <<parent, current>>, NEW t \in Threads,
         \A b \in Bodies : status[b] # "fresh" => status'[b] # "fresh",
         \A b \in Greenlets : status'[b] # "fresh" => status[b] # "fresh",
         \A u \in Threads \ {t} : mail'[u] = mail[u],
         mail'[t] # None => mail'[t].to \in Bodies /\ status[mail'[t].to] # "fresh"
  PROVE  Known'
BY Names DEF Ties, Known

LEMMA SingleStays ==
  ASSUME Ties, NEW t \in Threads, Routing(t), crashed \subseteq crashed',
         \A u \in Threads \ {t} : mail'[u] = mail[u]
  PROVE  Single'
BY DEF Ties, Single, Routing

LEMMA ArrivalsTie ==
  ASSUME IInv, Ties, NEW t \in Threads, Route(t)
  PROVE  Ties'
<1> DEFINE a == Addressed(t)
<1>1. Routing(t)
  BY DEF Route, Redirect, Deliver, Suspend, Resume, Start, Stillborn, Panic
<1>2. /\ t \in registered /\ a \in Bodies /\ status[a] # "fresh" /\ mail[t] # None
      /\ status[t] = "active" /\ t \in Bodies
  BY <1>1, InHand, MainsActive DEF Ties, Known, Binds, Addressed
<1>3. CASE Redirect(t)
  <2>1. UNCHANGED <<status, registered, parent, bound, current, crashed>>
    BY <1>3 DEF Redirect
  <2>2. /\ RedirectsTo(t) \in Bodies /\ mail'[t].to = RedirectsTo(t)
        /\ \A u \in Threads \ {t} : mail'[u] = mail[u]
    BY <1>3, RedirectKnown
  <2>3. status[RedirectsTo(t)] # "fresh"
    <3>1. CASE a \in registered
      <4>1. a \in Greenlets
        BY <1>2, <1>3, <3>1, MainsActive DEF Redirect, Alive, Bodies
      <4> QED
        BY <1>2, <3>1, <4>1 DEF Ties, Known, RedirectsTo
    <3>2. CASE a \notin registered
      BY <1>2, <3>2 DEF RedirectsTo
    <3> QED
      BY <3>1, <3>2
  <2>4. Known'
    BY <2>1, <2>2, <2>3, KnownStays
  <2>5. Binds'
    BY <1>2, <2>1, <2>2 DEF Ties, Binds
  <2> QED
    BY <1>1, <2>1, <2>2, <2>4, <2>5, SingleStays DEF Ties
<1>4. CASE Deliver(t)
  <2>1. /\ UNCHANGED <<status, parent, bound, crashed>> /\ mail' = [mail EXCEPT ![t] = None]
        /\ Install(t, Self(t))
    BY <1>4 DEF Deliver
  <2>2. mail'[t] = None /\ \A u \in Threads \ {t} : mail'[u] = mail[u]
    BY <2>1 DEF IInv, Shape, TypeOK
  <2>3. Self(t) \in Bodies /\ status[Self(t)] # "fresh"
    BY <1>1, <1>2, InHand, Tops
  <2>4. current'[t] = Self(t) /\ \A u \in Threads \ {t} : current'[u] = current[u]
    BY <2>1, <2>3, InstallTypes DEF IInv, Shape, TypeOK
  <2>5. Known'
    BY <2>1, <2>2, <2>3, <2>4 DEF Ties, Known
  <2>6. registered' = registered \ (IF call[Top(t)].del THEN {call[Top(t)].to} ELSE {})
    BY <1>4, RemoveKeeps DEF Deliver
  <2>7. call[Top(t)].del => call[Top(t)].to \in Greenlets
    BY <1>1, InHand, Tops DEF IInv, Called
  <2>8. \A u \in Threads : u \in registered => u \in registered'
    BY <2>6, <2>7, GreenletAssumption
  <2>9. Binds'
    BY <2>1, <2>2, <2>8 DEF Ties, Binds
  <2> QED
    BY <1>1, <2>1, <2>2, <2>5, <2>9, SingleStays DEF Ties
<1>5. CASE Suspend(t) \/ Resume(t) \/ Panic(t)
  <2>1. UNCHANGED <<status, registered, parent, bound, mail, current>> /\ crashed \subseteq crashed'
    BY <1>5 DEF Suspend, Resume, Panic
  <2>2. Known' /\ Binds'
    BY <2>1 DEF Ties, Known, Binds
  <2> QED
    BY <1>1, <2>1, <2>2, SingleStays DEF Ties
<1>6. CASE Start(t)
  <2>1. /\ status[a] = "unstarted" /\ status' = [status EXCEPT ![a] = "active"]
        /\ bound' = [bound EXCEPT ![a] = t] /\ mail' = [mail EXCEPT ![t] = None]
        /\ UNCHANGED <<registered, parent, crashed>> /\ Install(t, a)
    BY <1>6 DEF Start
  <2>2. a \notin Threads
    BY <2>1, MainsActive
  <2> HIDE DEF a
  <2>3. /\ mail'[t] = None /\ \A u \in Threads \ {t} : mail'[u] = mail[u]
        /\ \A b \in Bodies : status'[b] # "fresh" <=> status[b] # "fresh"
        /\ \A u \in Threads : bound'[u] = bound[u]
    BY <1>2, <2>1, <2>2 DEF IInv, Shape, TypeOK, Bodies
  <2>4. current'[t] = a /\ \A u \in Threads \ {t} : current'[u] = current[u]
    BY <1>2, <2>1, InstallTypes DEF IInv, Shape, TypeOK
  <2>5. Known'
    BY <1>2, <2>1, <2>3, <2>4, Names DEF Ties, Known
  <2>6. Binds'
    BY <2>1, <2>3 DEF Ties, Binds
  <2> QED
    BY <1>1, <2>1, <2>3, <2>5, <2>6, SingleStays DEF Ties
<1>7. CASE Stillborn(t)
  <2>1. /\ status[a] = "unstarted" /\ status' = [status EXCEPT ![a] = "dead"]
        /\ bound' = [bound EXCEPT ![a] = t] /\ current' = [current EXCEPT ![t] = a]
        /\ UNCHANGED <<registered, parent, crashed>>
    BY <1>7 DEF Stillborn
  <2>2. PICK l \in Loads : mail' = [mail EXCEPT ![t] = [to |-> parent[a], load |-> l]]
    BY <1>7 DEF Stillborn, Post
  <2>3. a \in Greenlets /\ a \notin Threads
    BY <1>2, <2>1, MainsActive DEF Bodies
  <2>4. parent[a] \in Bodies /\ status[parent[a]] # "fresh"
    BY <1>2, <2>3, Names DEF Ties, Known
  <2> HIDE DEF a
  <2>5. /\ mail'[t].to = parent[a] /\ \A u \in Threads \ {t} : mail'[u] = mail[u]
        /\ \A b \in Bodies : status'[b] # "fresh" <=> status[b] # "fresh"
        /\ \A u \in Threads : bound'[u] = bound[u]
        /\ current'[t] = a /\ \A u \in Threads \ {t} : current'[u] = current[u]
    BY <1>2, <2>1, <2>2, <2>3 DEF IInv, Shape, TypeOK, Bodies
  <2>6. Known'
    BY <1>2, <2>1, <2>4, <2>5, Names DEF Ties, Known
  <2>7. Binds'
    BY <1>2, <2>1, <2>5 DEF Ties, Binds
  <2> QED
    BY <1>1, <2>1, <2>5, <2>6, <2>7, SingleStays DEF Ties
<1> QED
  BY <1>3, <1>4, <1>5, <1>6, <1>7 DEF Route

(* Whose turn it is has the only thread with a routing loop at work.       *)
LEMMA TurnSingle ==
  ASSUME NEW t \in Threads, Turn(t), UNCHANGED crashed,
         \A u \in Threads \ {t} : mail'[u] = mail[u]
  PROVE  Single'
BY DEF Turn, Single, Routing

LEMMA DeparturesTie ==
  ASSUME IInv, Ties, NEW t \in Threads, Python(t)
  PROVE  Ties'
<1>1. Turn(t) /\ t \in registered /\ mail[t] = None /\ UNCHANGED crashed
  <2>1. Turn(t) /\ UNCHANGED crashed
    BY DEF Python, Die, Teardown, Create, SetParent, ThrowUnstarted, Collect, Switch
  <2> QED
    BY <2>1 DEF Turn, Running
<1>2. CASE Die(t)
  <2> DEFINE g == Top(t)
  <2>1. /\ g \notin Threads /\ status' = [status EXCEPT ![g] = "dead"]
        /\ UNCHANGED <<registered, parent, bound, current>>
    BY <1>2 DEF Die
  <2>2. g \in Greenlets /\ status[g] = "active" /\ g \in Bodies
    BY <2>1, Tops DEF Bodies
  <2>3. PICK l \in Loads : mail' = [mail EXCEPT ![t] = [to |-> parent[g], load |-> l]]
    BY <1>2 DEF Die, Post
  <2>4. parent[g] \in Bodies /\ status[parent[g]] # "fresh"
    BY <2>2, Names DEF Ties, Known
  <2> HIDE DEF g
  <2>5. /\ mail'[t].to = parent[g] /\ \A u \in Threads \ {t} : mail'[u] = mail[u]
        /\ \A b \in Bodies : status'[b] # "fresh" <=> status[b] # "fresh"
    BY <2>1, <2>2, <2>3 DEF IInv, Shape, TypeOK
  <2>6. Known'
    BY <2>1, <2>4, <2>5, KnownStays, Names
  <2>7. Binds'
    BY <1>1, <2>1, <2>5 DEF Ties, Binds
  <2> QED
    BY <1>1, <2>5, <2>6, <2>7, TurnSingle DEF Ties
<1>3. CASE Teardown(t)
  <2>1. UNCHANGED <<status, parent, bound, mail, current>>
    BY <1>3 DEF Teardown
  <2>2. registered' = registered \ {b \in Bodies : bound[b] = t}
    BY <1>3, RemoveKeeps DEF Teardown
  <2>3. Known'
    BY <2>1 DEF Ties, Known
  <2>4. Binds'
    BY <1>1, <2>1, <2>2 DEF Ties, Binds
  <2> QED
    BY <1>1, <2>1, <2>3, <2>4, TurnSingle DEF Ties
<1>4. CASE \E g \in Greenlets : Create(t, g)
  <2>1. PICK g \in Greenlets : Create(t, g)
    BY <1>4
  <2>2. PICK p \in registered \cup {current[t]} : parent' = [parent EXCEPT ![g] = p]
    BY <2>1 DEF Create
  <2>3. /\ status[g] = "fresh" /\ status' = [status EXCEPT ![g] = "unstarted"]
        /\ registered' = registered \cup {g} /\ UNCHANGED <<bound, mail, current>>
    BY <2>1 DEF Create
  <2>4. p \in Bodies /\ status[p] # "fresh"
    BY DEF IInv, Shape, TypeOK, Made, Ties, Known
  <2>5. /\ \A b \in Bodies : status[b] # "fresh" => status'[b] # "fresh"
        /\ \A b \in Bodies \ {g} : status'[b] = status[b]
        /\ parent'[g] = p /\ \A b \in Greenlets \ {g} : parent'[b] = parent[b]
    BY <2>2, <2>3 DEF IInv, Shape, TypeOK, Bodies
  <2>6. Known'
    BY <2>3, <2>4, <2>5, Names DEF Ties, Known
  <2>7. Binds'
    BY <2>3 DEF Ties, Binds
  <2> QED
    BY <1>1, <2>3, <2>6, <2>7, TurnSingle DEF Ties
<1>5. CASE \E g \in Greenlets : SetParent(t, g)
  <2>1. PICK g \in Greenlets : SetParent(t, g)
    BY <1>5
  <2>2. PICK p \in registered : parent' = [parent EXCEPT ![g] = p]
    BY <2>1 DEF SetParent
  <2>3. UNCHANGED <<status, registered, bound, mail, current>>
    BY <2>1 DEF SetParent
  <2>4. status[p] # "fresh"
    BY DEF IInv, Shape, TypeOK, Made
  <2>5. parent'[g] = p /\ \A b \in Greenlets \ {g} : parent'[b] = parent[b]
    BY <2>2 DEF IInv, Shape, TypeOK, Bodies
  <2>6. Known'
    BY <2>3, <2>4, <2>5 DEF Ties, Known
  <2>7. Binds'
    BY <2>3 DEF Ties, Binds
  <2> QED
    BY <1>1, <2>3, <2>6, <2>7, TurnSingle DEF Ties
<1>6. CASE \E g \in Greenlets : ThrowUnstarted(t, g)
  <2>1. PICK g \in Greenlets : ThrowUnstarted(t, g)
    BY <1>6
  <2>2. /\ status[g] = "unstarted" /\ status' = [status EXCEPT ![g] = "dead"]
        /\ UNCHANGED <<registered, parent, bound, mail, current>>
    BY <2>1 DEF ThrowUnstarted
  <2>3. \A b \in Bodies : status'[b] # "fresh" <=> status[b] # "fresh"
    BY <2>2 DEF IInv, Shape, TypeOK
  <2>4. Known'
    BY <2>2, <2>3, Names DEF Ties, Known
  <2>5. Binds'
    BY <2>2 DEF Ties, Binds
  <2> QED
    BY <1>1, <2>2, <2>4, <2>5, TurnSingle DEF Ties
<1>7. CASE \E g \in Greenlets : Collect(t, g)
  <2>1. PICK g \in Greenlets : Collect(t, g)
    BY <1>7
  <2>2. /\ g \in registered /\ g \in Bodies /\ g \notin Threads /\ status[g] # "fresh"
        /\ UNCHANGED <<status, bound, current>>
    BY <2>1, GreenletAssumption DEF Collect, IInv, Shape, Made, Bodies
  <2>3. CASE status[g] = "active" /\ g # CurrentBody(t) /\ ~InChain(t, g)
    <3> DEFINE c == CurrentBody(t)
    <3>1. /\ parent' = [parent EXCEPT ![g] = c]
          /\ mail' = [mail EXCEPT ![t] = [to |-> g, load |-> "throw"]]
          /\ UNCHANGED registered
      BY <2>1, <2>3 DEF Collect, Leave, Post
    <3>2. c \in Bodies /\ status[c] # "fresh"
      BY <1>1, CurrentIs, MainsActive, Tops
    <3> HIDE DEF c
    <3>3. /\ mail'[t].to = g /\ \A u \in Threads \ {t} : mail'[u] = mail[u]
          /\ parent'[g] = c /\ \A b \in Greenlets \ {g} : parent'[b] = parent[b]
      BY <3>1 DEF IInv, Shape, TypeOK, Bodies
    <3>4. Known'
      BY <2>2, <3>2, <3>3 DEF Ties, Known
    <3>5. Binds'
      BY <1>1, <2>2, <3>1, <3>3 DEF Ties, Binds
    <3> QED
      BY <1>1, <3>3, <3>4, <3>5, TurnSingle DEF Ties
  <2>4. CASE ~(status[g] = "active" /\ g # CurrentBody(t) /\ ~InChain(t, g))
    <3>1. registered' = registered \ {g} /\ UNCHANGED <<parent, mail>>
      BY <2>1, <2>4, RemoveKeeps DEF Collect
    <3>2. Known'
      BY <2>2, <3>1 DEF Ties, Known
    <3>3. Binds'
      BY <2>2, <3>1 DEF Ties, Binds
    <3> QED
      BY <1>1, <3>1, <3>2, <3>3, TurnSingle DEF Ties
  <2> QED
    BY <2>3, <2>4
<1>8. CASE \E b \in Bodies : Switch(t, b)
  <2>1. PICK b \in Bodies : Switch(t, b)
    BY <1>8
  <2>2. b \in registered /\ UNCHANGED <<status, registered, parent, bound, current>>
    BY <2>1 DEF Switch
  <2>3. PICK l \in Loads : mail' = [mail EXCEPT ![t] = [to |-> b, load |-> l]]
    BY <2>1 DEF Switch, Leave, Post
  <2>4. mail'[t].to = b /\ \A u \in Threads \ {t} : mail'[u] = mail[u]
    BY <2>3 DEF IInv, Shape, TypeOK
  <2>5. status[b] # "fresh"
    BY <2>2 DEF IInv, Shape, Made
  <2>6. Known'
    BY <2>2, <2>4, <2>5, KnownStays
  <2>7. Binds'
    BY <1>1, <2>2, <2>4 DEF Ties, Binds
  <2> QED
    BY <1>1, <2>4, <2>6, <2>7, TurnSingle DEF Ties
<1> QED
  BY <1>2, <1>3, <1>4, <1>5, <1>6, <1>7, <1>8 DEF Python

LEMMA TiesKept == IInv /\ Ties /\ [Next]_vars => Ties'
<1>1. ASSUME Ties, UNCHANGED vars PROVE Ties'
  BY <1>1 DEF vars, Ties, Known, Binds, Single, Routing
<1> QED
  BY <1>1, ArrivalsTie, DeparturesTie DEF Next


--------------------------------------------------------------------------------
(* The state of the contract: who runs, what is under way, who has ended.  *)
Runs == [t \in Threads |-> IF Running(t) /\ t \notin astray THEN Top(t) ELSE None]
Mails == [t \in Threads |-> IF t \in crashed \cup astray THEN None ELSE mail[t]]
Over == {b \in Bodies : status[b] # "fresh" /\ ~Alive(b)}

(* What a step of thread t leaves alone of the others.                     *)
Elsewhere(t) == \A u \in Threads \ {t} :
  /\ mail'[u] = mail[u] /\ chain'[u] = chain[u]
  /\ u \in crashed' <=> u \in crashed
  /\ u \in astray' <=> u \in astray
  /\ u \in registered' <=> u \in registered

LEMMA RunsChange ==
  ASSUME NEW t \in Threads, Elsewhere(t)
  PROVE  Runs' = [Runs EXCEPT ![t] = Runs'[t]]
<1> DEFINE now == IF Running(t)' /\ t \notin astray' THEN Top(t)' ELSE None
<1>1. \A u \in Threads :
        (IF Running(u)' /\ u \notin astray' THEN Top(u)' ELSE None)
          = IF u = t THEN now
            ELSE IF Running(u) /\ u \notin astray THEN Top(u) ELSE None
  <2> TAKE u \in Threads
  <2>1. CASE u = t
    BY <2>1
  <2>2. CASE u # t
    <3>1. (Running(u)' <=> Running(u)) /\ Top(u)' = Top(u)
      BY <2>2 DEF Elsewhere, Running, Top
    <3> QED
      BY <2>2, <3>1 DEF Elsewhere
  <2> QED
    BY <2>1, <2>2
<1> HIDE DEF now
<1>2. Runs' = [u \in Threads |-> IF u = t THEN now
               ELSE IF Running(u) /\ u \notin astray THEN Top(u) ELSE None]
  BY <1>1 DEF Runs
<1>3. Runs'[t] = now
  BY <1>2
<1> QED
  BY <1>2, <1>3 DEF Runs

LEMMA MailsChange ==
  ASSUME NEW t \in Threads, Elsewhere(t)
  PROVE  Mails' = [Mails EXCEPT ![t] = Mails'[t]]
BY DEF Mails, Elsewhere

(* A switch is under way in one thread at most.                            *)
LEMMA OthersIdle ==
  ASSUME Ties, NEW t \in Threads, Turn(t) \/ Routing(t)
  PROVE  \A u \in Threads \ {t} : Mails[u] = None
BY DEF Mails, Turn, Ties, Single, Routing

LEMMA Silent ==
  ASSUME Runs' = Runs, Mails' = Mails, Over' = Over
  PROVE  [Contract!Next]_Contract!vars
BY DEF Contract!vars, Runs, Mails, Over

(* Those who end now are not named by a message under way.                 *)
LEMMA Ends ==
  ASSUME Over \subseteq Over', \A u \in Threads : Mails'[u] = None
  PROVE  \E gone \in SUBSET Bodies :
           /\ \A u \in Threads : Mails'[u] # None => Mails'[u].to \notin gone
           /\ Over' = Over \cup gone
<1>1. Over' \ Over \in SUBSET Bodies /\ Over' = Over \cup (Over' \ Over)
  BY DEF Over
<1> QED
  BY <1>1

LEMMA Collects ==
  ASSUME Runs' = Runs, Mails' = Mails, Over \subseteq Over',
         \A u \in Threads : Mails[u] = None
  PROVE  [Contract!Next]_Contract!vars
<1>1. \E gone \in SUBSET Bodies :
        /\ \A u \in Threads : Mails'[u] # None => Mails'[u].to \notin gone
        /\ Over' = Over \cup gone
  BY Ends
<1>2. Contract!Collect
  BY <1>1 DEF Contract!Collect, Contract!End, Runs, Mails, Over
<1> QED
  BY <1>2 DEF Contract!Next

LEMMA Exits ==
  ASSUME NEW t \in Threads, Runs[t] # None \/ Mails[t] # None,
         \A u \in Threads \ {t} : Mails[u] = None,
         Runs' = [Runs EXCEPT ![t] = None], Mails' = [Mails EXCEPT ![t] = None],
         Over \subseteq Over'
  PROVE  [Contract!Next]_Contract!vars
<1>1. \A u \in Threads : Mails'[u] = None
  BY DEF Mails
<1>2. \E gone \in SUBSET Bodies :
        /\ \A u \in Threads : Mails'[u] # None => Mails'[u].to \notin gone
        /\ Over' = Over \cup gone
  BY <1>1, Ends
<1>3. Contract!Exit(t)
  BY <1>2 DEF Contract!Exit, Contract!End, Runs, Mails, Over
<1> QED
  BY <1>3 DEF Contract!Next

LEMMA Leaves ==
  ASSUME NEW t \in Threads, NEW b \in Bodies, NEW l \in Loads, Runs[t] # None,
         Mails' = [Mails EXCEPT ![t] = [to |-> b, load |-> l]],
         Runs' = [Runs EXCEPT ![t] = None], Over' \in {Over, Over \cup {Runs[t]}}
  PROVE  [Contract!Next]_Contract!vars
<1>1. Contract!Leave(t)
  BY DEF Contract!Leave, Contract!Loads, Loads, Runs, Mails, Over
<1> QED
  BY <1>1 DEF Contract!Next

LEMMA Redirects ==
  ASSUME NEW t \in Threads, NEW b \in Bodies, Mails[t] # None, Mails[t].to \in Over,
         Mails' = [Mails EXCEPT ![t].to = b], Runs' = Runs, Over' = Over
  PROVE  [Contract!Next]_Contract!vars
<1>1. Contract!Redirect(t)
  BY DEF Contract!Redirect, Runs, Mails, Over
<1> QED
  BY <1>1 DEF Contract!Next

LEMMA Rejects ==
  ASSUME NEW t \in Threads, NEW b \in Bodies, NEW l \in Loads, Mails[t] # None,
         Mails[t].to \notin Over, Mails[t].load = "throw",
         Mails' = [Mails EXCEPT ![t] = [to |-> b, load |-> l]],
         Runs' = Runs, Over' = Over \cup {Mails[t].to}
  PROVE  [Contract!Next]_Contract!vars
<1>1. Contract!Reject(t)
  BY DEF Contract!Reject, Contract!Loads, Loads, Runs, Mails, Over
<1> QED
  BY <1>1 DEF Contract!Next

LEMMA Arrives ==
  ASSUME NEW t \in Threads, Mails[t] # None, Mails[t].to \notin Over,
         \A u \in Threads : Runs[u] # Mails[t].to,
         \A u \in Threads \ {t} : Mails[u] = None,
         Mails' = [Mails EXCEPT ![t] = None], Runs' = [Runs EXCEPT ![t] = Mails[t].to],
         Over \subseteq Over'
  PROVE  [Contract!Next]_Contract!vars
<1>1. \A u \in Threads : Mails'[u] = None
  BY DEF Mails
<1>2. \E gone \in SUBSET Bodies :
        /\ \A u \in Threads : Mails'[u] # None => Mails'[u].to \notin gone
        /\ Over' = Over \cup gone
  BY <1>1, Ends
<1>3. Contract!Arrive(t)
  BY <1>2 DEF Contract!Arrive, Contract!End, Runs, Mails, Over
<1> QED
  BY <1>3 DEF Contract!Next

--------------------------------------------------------------------------------
(* A step is of one thread, and takes nobody of another's.                 *)
LEMMA StepsElsewhere ==
  ASSUME IInv, Ties, NEW t \in Threads, Route(t) \/ Python(t)
  PROVE  Elsewhere(t)
<1> USE DEF IInv, Shape, TypeOK
<1>1. ASSUME UNCHANGED <<registered, crashed, astray>>,
             \A u \in Threads \ {t} : mail'[u] = mail[u] /\ chain'[u] = chain[u]
      PROVE  Elsewhere(t)
  BY <1>1 DEF Elsewhere
<1>2. CASE Redirect(t) \/ Suspend(t) \/ Resume(t) \/ Start(t) \/ Stillborn(t) \/ Die(t)
  <2>1. /\ UNCHANGED <<registered, crashed, astray>>
        /\ \A u \in Threads \ {t} : chain'[u] = chain[u]
    BY <1>2 DEF Redirect, Suspend, Resume, Start, Stillborn, Die
  <2>2. \A u \in Threads \ {t} : mail'[u] = mail[u]
    BY <1>2 DEF Redirect, Suspend, Resume, Start, Stillborn, Die, Post
  <2> QED
    BY <1>1, <2>1, <2>2
<1>3. CASE Deliver(t)
  <2>1. registered' = registered \ (IF call[Top(t)].del THEN {call[Top(t)].to} ELSE {})
    BY <1>3, RemoveKeeps DEF Deliver
  <2>2. call[Top(t)].del => call[Top(t)].to \in Greenlets
    BY <1>3, InHand, Tops DEF Deliver, Called
  <2>3. \A u \in Threads : u \in registered' <=> u \in registered
    BY <2>1, <2>2, GreenletAssumption
  <2> QED
    BY <1>3, <2>3 DEF Deliver, Elsewhere
<1>4. CASE Panic(t)
  BY <1>4 DEF Panic, Elsewhere
<1>5. CASE Teardown(t)
  <2>1. registered' = registered \ {b \in Bodies : bound[b] = t}
    BY <1>5, RemoveKeeps DEF Teardown
  <2>2. \A u \in Threads \ {t} : bound[u] # t
    BY DEF Ties, Binds
  <2> QED
    BY <1>5, <2>1, <2>2 DEF Teardown, Elsewhere
<1>6. ASSUME NEW g \in Greenlets, Create(t, g) PROVE Elsewhere(t)
  BY <1>6, GreenletAssumption DEF Create, Elsewhere
<1>7. ASSUME NEW g \in Greenlets, SetParent(t, g) \/ ThrowUnstarted(t, g) PROVE Elsewhere(t)
  BY <1>1, <1>7 DEF SetParent, ThrowUnstarted
<1>8. ASSUME NEW g \in Greenlets, Collect(t, g) PROVE Elsewhere(t)
  <2>1. CASE status[g] = "active" /\ g # CurrentBody(t) /\ ~InChain(t, g)
    BY <1>8, <2>1 DEF Collect, Leave, Post, Elsewhere
  <2>2. CASE ~(status[g] = "active" /\ g # CurrentBody(t) /\ ~InChain(t, g))
    <3>1. registered' = registered \ {g}
      BY <1>8, <2>2, RemoveKeeps DEF Collect
    <3> QED
      BY <1>8, <2>2, <3>1, GreenletAssumption DEF Collect, Elsewhere
  <2> QED
    BY <2>1, <2>2
<1>9. ASSUME NEW b \in Bodies, Switch(t, b) PROVE Elsewhere(t)
  BY <1>9 DEF Switch, Leave, Post, Elsewhere
<1> QED
  BY <1>2, <1>3, <1>4, <1>5, <1>6, <1>7, <1>8, <1>9 DEF Route, Python

(* Who has ended stays so, and so does a thread that went astray.          *)
LEMMA OverGrows ==
  ASSUME IInv, NEW t \in Threads, Route(t) \/ Python(t)
  PROVE  Over \subseteq Over' /\ astray \subseteq astray'
<1> USE DEF IInv, Shape, TypeOK
<1>1. ASSUME registered' \subseteq registered, astray \subseteq astray',
             \A b \in Bodies : status[b] # "fresh" => status'[b] # "fresh",
             \A b \in registered : status[b] = "dead" => status'[b] = "dead"
      PROVE  Over \subseteq Over' /\ astray \subseteq astray'
  BY <1>1 DEF Over, Alive
<1>2. CASE Redirect(t) \/ Suspend(t) \/ Resume(t) \/ Start(t) \/ Stillborn(t) \/ Panic(t) \/ Die(t)
  <2>1. UNCHANGED <<registered, astray>>
    BY <1>2 DEF Redirect, Suspend, Resume, Start, Stillborn, Panic, Die
  <2>2. CASE Redirect(t) \/ Suspend(t) \/ Resume(t) \/ Panic(t)
    BY <1>1, <2>1, <2>2 DEF Redirect, Suspend, Resume, Panic
  <2>3. CASE Start(t) \/ Stillborn(t) \/ Die(t)
    BY <1>1, <2>1, <2>3 DEF Start, Stillborn, Die
  <2> QED
    BY <1>2, <2>2, <2>3
<1>3. CASE Deliver(t) \/ Teardown(t)
  <2>1. registered' \subseteq registered /\ UNCHANGED <<status, astray>>
    BY <1>3, RemoveKeeps DEF Deliver, Teardown
  <2> QED
    BY <1>1, <2>1
<1>4. ASSUME NEW g \in Greenlets, Create(t, g)
      PROVE  Over \subseteq Over' /\ astray \subseteq astray'
  BY <1>4 DEF Create, Over, Alive
<1>5. ASSUME NEW g \in Greenlets, SetParent(t, g) \/ ThrowUnstarted(t, g)
      PROVE  Over \subseteq Over' /\ astray \subseteq astray'
  BY <1>1, <1>5 DEF SetParent, ThrowUnstarted
<1>6. ASSUME NEW g \in Greenlets, Collect(t, g)
      PROVE  Over \subseteq Over' /\ astray \subseteq astray'
  <2>1. registered' \subseteq registered /\ astray \subseteq astray' /\ UNCHANGED status
    BY <1>6, RemoveKeeps DEF Collect, Leave
  <2> QED
    BY <1>1, <2>1
<1>7. ASSUME NEW b \in Bodies, Switch(t, b)
      PROVE  Over \subseteq Over' /\ astray \subseteq astray'
  BY <1>1, <1>7 DEF Switch, Leave
<1> QED
  BY <1>2, <1>3, <1>4, <1>5, <1>6, <1>7 DEF Route, Python

(* A thread that went astray only ends greenlets, for the contract.        *)
LEMMA AstrayRefines ==
  ASSUME IInv, Ties, NEW t \in Threads, Route(t) \/ Python(t), t \in astray
  PROVE  [Contract!Next]_Contract!vars
<1>1. Turn(t) \/ Routing(t)
  BY DEF Route, Redirect, Deliver, Suspend, Resume, Start, Stillborn, Panic,
         Python, Die, Teardown, Create, SetParent, ThrowUnstarted, Collect, Switch
<1>2. Over \subseteq Over' /\ t \in astray' /\ Elsewhere(t)
  BY OverGrows, StepsElsewhere
<1>3. Runs[t] = None /\ Runs'[t] = None /\ Mails[t] = None /\ Mails'[t] = None
  BY <1>2 DEF Runs, Mails
<1>4. Runs' = Runs /\ Mails' = Mails
  <2>1. Runs' = [Runs EXCEPT ![t] = Runs[t]] /\ Mails' = [Mails EXCEPT ![t] = Mails[t]]
    BY <1>2, <1>3, RunsChange, MailsChange
  <2> QED
    BY <2>1 DEF Runs, Mails
<1>5. \A u \in Threads : Mails[u] = None
  BY <1>1, <1>3, OthersIdle
<1> QED
  BY <1>2, <1>4, <1>5, Collects

--------------------------------------------------------------------------------
(* What Python code does, in a thread that is in the contract.             *)
LEMMA MyTurn ==
  ASSUME IInv, NEW t \in Threads, Turn(t), t \notin astray
  PROVE  /\ mail[t] = None /\ t \notin crashed /\ t \in registered
         /\ Runs[t] = Top(t) /\ Top(t) \in Bodies /\ Runs[t] # None /\ Mails[t] = None
BY Tops, NoneOutside DEF Turn, Running, Runs, Mails

(* A thread that posts a message runs nobody.                              *)
LEMMA Posted ==
  ASSUME NEW t \in Threads, NEW b \in Bodies, NEW l \in Loads, Elsewhere(t),
         mail' = [mail EXCEPT ![t] = [to |-> b, load |-> l]],
         mail \in [Threads -> Directives \cup {None}], t \notin crashed', t \notin astray'
  PROVE  /\ Runs' = [Runs EXCEPT ![t] = None]
         /\ Mails' = [Mails EXCEPT ![t] = [to |-> b, load |-> l]]
<1>1. mail'[t] = [to |-> b, load |-> l] /\ mail'[t] # None
  <2>1. [to |-> b, load |-> l] \in Directives
    BY DEF Directives
  <2> QED
    BY <2>1, NoneOutside
<1>2. Runs'[t] = None
  BY <1>1 DEF Runs, Running
<1>3. Mails'[t] = [to |-> b, load |-> l]
  BY <1>1 DEF Mails
<1> QED
  BY <1>2, <1>3, RunsChange, MailsChange

(* A switch from a greenlet that was collected leads out of the contract.  *)
LEMMA LeaveRefines ==
  ASSUME IInv, Ties, NEW t \in Threads, NEW b \in Bodies, NEW l \in Loads, NEW del,
         Turn(t), t \notin astray, Leave(t, b, l, del), Elsewhere(t),
         UNCHANGED <<status, registered, crashed>>
  PROVE  [Contract!Next]_Contract!vars
<1>1. /\ Runs[t] # None /\ Mails[t] = None /\ t \notin crashed'
      /\ mail \in [Threads -> Directives \cup {None}]
  BY MyTurn DEF IInv, Shape, TypeOK
<1>2. Over' = Over
  BY DEF Over, Alive
<1>3. CASE current[t] \in registered
  <2>1. astray' = astray /\ mail' = [mail EXCEPT ![t] = [to |-> b, load |-> l]]
    BY <1>3 DEF Leave, Post
  <2>2. /\ Runs' = [Runs EXCEPT ![t] = None]
        /\ Mails' = [Mails EXCEPT ![t] = [to |-> b, load |-> l]]
    BY <1>1, <2>1, Posted
  <2> QED
    BY <1>1, <1>2, <2>2, Leaves
<1>4. CASE current[t] \notin registered
  <2>1. t \in astray'
    BY <1>4 DEF Leave
  <2>2. Runs'[t] = None /\ Mails'[t] = None
    BY <2>1 DEF Runs, Mails
  <2>3. Runs' = [Runs EXCEPT ![t] = None] /\ Mails' = [Mails EXCEPT ![t] = None]
    BY <2>2, RunsChange, MailsChange
  <2> QED
    BY <1>1, <1>2, <2>3, OthersIdle, Exits
<1> QED
  BY <1>3, <1>4

LEMMA DieRefines ==
  ASSUME IInv, Ties, NEW t \in Threads, Die(t), t \notin astray
  PROVE  [Contract!Next]_Contract!vars
<1> DEFINE g == Top(t)
<1>1. /\ Turn(t) /\ g \notin Threads /\ status' = [status EXCEPT ![g] = "dead"]
      /\ UNCHANGED <<registered, crashed, astray>>
  BY DEF Die
<1>2. /\ Runs[t] = g /\ Runs[t] # None /\ g \in Bodies /\ status[g] = "active"
      /\ parent[g] \in Bodies /\ t \notin crashed
  BY <1>1, MyTurn, Tops DEF IInv, Shape, Made, Bodies
<1>3. PICK l \in Loads : mail' = [mail EXCEPT ![t] = [to |-> parent[g], load |-> l]]
  BY DEF Die, Post
<1>4. Elsewhere(t) /\ mail \in [Threads -> Directives \cup {None}]
  BY StepsElsewhere DEF Python, IInv, Shape, TypeOK
<1> HIDE DEF g
<1>5. Over' \in {Over, Over \cup {g}}
  <2>1. status'[g] = "dead" /\ \A b \in Bodies \ {g} : status'[b] = status[b]
    BY <1>1, <1>2 DEF IInv, Shape, TypeOK
  <2>2. Over' = Over \cup {g}
    BY <1>1, <1>2, <2>1 DEF Over, Alive
  <2> QED
    BY <2>2
<1>6. /\ Runs' = [Runs EXCEPT ![t] = None]
      /\ Mails' = [Mails EXCEPT ![t] = [to |-> parent[g], load |-> l]]
  BY <1>1, <1>2, <1>3, <1>4, Posted
<1> QED
  BY <1>2, <1>5, <1>6, Leaves

(* Python code that goes on in the same greenlet.                          *)
LEMMA GoesOn ==
  ASSUME NEW t \in Threads, Elsewhere(t), UNCHANGED <<mail, chain, crashed, astray>>,
         t \in registered' <=> t \in registered
  PROVE  Runs' = Runs /\ Mails' = Mails
<1>1. \A u \in Threads : (Running(u)' <=> Running(u)) /\ Top(u)' = Top(u)
  BY DEF Elsewhere, Running, Top
<1> QED
  BY <1>1 DEF Runs, Mails

LEMMA CollectRefines ==
  ASSUME IInv, Ties, NEW t \in Threads, NEW g \in Greenlets, Collect(t, g), t \notin astray
  PROVE  [Contract!Next]_Contract!vars
<1>1. /\ Turn(t) /\ Elsewhere(t) /\ Over \subseteq Over' /\ g \in Bodies /\ g \notin Threads
      /\ UNCHANGED <<status, chain, crashed>>
  BY StepsElsewhere, OverGrows, GreenletAssumption DEF Python, Collect, Bodies
<1>2. CASE status[g] = "active" /\ g # CurrentBody(t) /\ ~InChain(t, g)
  <2>1. Leave(t, g, "throw", TRUE) /\ UNCHANGED registered /\ "throw" \in Loads
    BY <1>2 DEF Collect, Loads
  <2> QED
    BY <1>1, <2>1, LeaveRefines
<1>3. CASE ~(status[g] = "active" /\ g # CurrentBody(t) /\ ~InChain(t, g))
  <2>1. registered' = registered \ {g} /\ UNCHANGED <<mail, astray>>
    BY <1>3, RemoveKeeps DEF Collect
  <2>2. Runs' = Runs /\ Mails' = Mails
    BY <1>1, <2>1, GoesOn
  <2>3. \A u \in Threads : Mails[u] = None
    BY <1>1, MyTurn, OthersIdle
  <2> QED
    BY <1>1, <2>2, <2>3, Collects
<1> QED
  BY <1>2, <1>3

LEMMA TeardownRefines ==
  ASSUME IInv, Ties, NEW t \in Threads, Teardown(t), t \notin astray
  PROVE  [Contract!Next]_Contract!vars
<1>1. Turn(t) /\ Elsewhere(t) /\ Over \subseteq Over' /\ t \in Bodies
  BY StepsElsewhere, OverGrows DEF Python, Teardown, Bodies
<1>2. t \notin registered' /\ UNCHANGED mail
  BY <1>1, RemoveKeeps DEF Teardown, Ties, Binds
<1>3. mail[t] = None /\ Runs[t] # None /\ Mails[t] = None
  BY <1>1, MyTurn
<1>4. Runs'[t] = None /\ Mails'[t] = None
  BY <1>2, <1>3 DEF Runs, Running, Mails
<1>5. Runs' = [Runs EXCEPT ![t] = None] /\ Mails' = [Mails EXCEPT ![t] = None]
  BY <1>1, <1>4, RunsChange, MailsChange
<1> QED
  BY <1>1, <1>3, <1>5, OthersIdle, Exits

LEMMA PythonRefines ==
  ASSUME IInv, Ties, NEW t \in Threads, Python(t), t \notin astray
  PROVE  [Contract!Next]_Contract!vars
<1>1. Elsewhere(t) /\ Over \subseteq Over'
  BY StepsElsewhere, OverGrows
<1>2. ASSUME NEW g \in Greenlets, SetParent(t, g) PROVE [Contract!Next]_Contract!vars
  <2>1. UNCHANGED <<status, registered, chain, mail, crashed, astray>>
    BY <1>2 DEF SetParent
  <2>2. Runs' = Runs /\ Mails' = Mails /\ Over' = Over
    BY <1>1, <2>1, GoesOn DEF Over, Alive
  <2> QED
    BY <2>2, Silent
<1>3. ASSUME NEW g \in Greenlets, Create(t, g) \/ ThrowUnstarted(t, g)
      PROVE  [Contract!Next]_Contract!vars
  <2>1. Turn(t) /\ t \in registered' /\ UNCHANGED <<chain, mail, crashed, astray>>
    BY <1>3, MyTurn DEF Create, ThrowUnstarted
  <2>2. Runs' = Runs /\ Mails' = Mails
    BY <1>1, <2>1, MyTurn, GoesOn
  <2>3. \A u \in Threads : Mails[u] = None
    BY <2>1, MyTurn, OthersIdle
  <2> QED
    BY <1>1, <2>2, <2>3, Collects
<1>4. ASSUME NEW b \in Bodies, Switch(t, b) PROVE [Contract!Next]_Contract!vars
  <2>1. PICK l \in Loads : Leave(t, b, l, FALSE)
    BY <1>4 DEF Switch
  <2>2. Turn(t) /\ UNCHANGED <<status, registered, crashed>>
    BY <1>4 DEF Switch
  <2> QED
    BY <1>1, <2>1, <2>2, LeaveRefines
<1> QED
  BY <1>2, <1>3, <1>4, DieRefines, CollectRefines, TeardownRefines DEF Python

--------------------------------------------------------------------------------
(* What the routing loop does, in a thread that is in the contract.        *)
LEMMA UnderWay ==
  ASSUME IInv, Ties, NEW t \in Threads, Routing(t), t \notin astray
  PROVE  /\ mail[t] # None /\ Mails[t] = mail[t] /\ mail[t] \in Directives
         /\ Addressed(t) \in Bodies /\ Addressed(t) = Mails[t].to /\ Mails[t] # None
         /\ Runs[t] = None /\ t \in registered /\ t \notin crashed
         /\ Addressed(t) \in Over <=> ~Alive(Addressed(t))
BY InHand DEF Ties, Known, Binds, Routing, Runs, Running, Mails, Over, Addressed

LEMMA RedirectRefines ==
  ASSUME IInv, Ties, NEW t \in Threads, Redirect(t), t \notin astray
  PROVE  [Contract!Next]_Contract!vars
<1> DEFINE b == RedirectsTo(t)
<1>1. /\ Routing(t) /\ ~Alive(Addressed(t)) /\ mail' = [mail EXCEPT ![t].to = b]
      /\ UNCHANGED <<status, registered, crashed, astray>>
  BY DEF Redirect, RedirectsTo
<1>2. Mails[t] # None /\ Mails[t].to \in Over /\ Mails[t] = mail[t] /\ Runs[t] = None
  BY <1>1, UnderWay
<1>3. b \in Bodies /\ mail'[t] # None /\ t \notin crashed' /\ t \notin astray' /\ Elsewhere(t)
  BY <1>1, RedirectKnown, StepsElsewhere, UnderWay DEF Route
<1> HIDE DEF b
<1>4. Runs' = Runs
  <2>1. Runs'[t] = None
    BY <1>3 DEF Runs, Running
  <2>2. Runs' = [Runs EXCEPT ![t] = Runs[t]]
    BY <1>2, <1>3, <2>1, RunsChange
  <2> QED
    BY <2>2 DEF Runs
<1>5. Mails' = [Mails EXCEPT ![t].to = b]
  <2>1. Mails'[t] = [mail[t] EXCEPT !.to = b]
    BY <1>1, <1>3 DEF Mails, IInv, Shape, TypeOK
  <2> QED
    BY <1>2, <1>3, <2>1, MailsChange
<1>6. Over' = Over
  BY <1>1 DEF Over, Alive
<1> QED
  BY <1>2, <1>3, <1>4, <1>5, <1>6, Redirects

(* The loop goes by the name of the stack it runs on.                      *)
LEMMA DeliverRefines ==
  ASSUME IInv, Ties, NEW t \in Threads, Deliver(t), t \notin astray
  PROVE  [Contract!Next]_Contract!vars
<1> DEFINE a == Addressed(t)
<1>1. /\ Routing(t) /\ Alive(a) /\ a = Self(t) /\ mail' = [mail EXCEPT ![t] = None]
      /\ UNCHANGED <<chain, crashed, astray>>
  BY DEF Deliver
<1>2. /\ Mails[t] # None /\ Mails[t].to = a /\ a \notin Over /\ Runs[t] = None
      /\ t \in registered /\ t \notin crashed
  BY <1>1, UnderWay
<1>3. a = Top(t)
  BY <1>1, InHand
<1>4. Elsewhere(t) /\ Over \subseteq Over'
  BY StepsElsewhere, OverGrows DEF Route
<1>5. \A u \in Threads : Runs[u] # a
  BY <1>2, <1>3, Tops, NoneOutside DEF Runs
<1>6. mail'[t] = None /\ t \in registered' /\ Top(t)' = a
  <2>1. registered' = registered \ (IF call[Top(t)].del THEN {call[Top(t)].to} ELSE {})
    BY RemoveKeeps DEF Deliver
  <2>2. call[Top(t)].del => call[Top(t)].to \in Greenlets
    BY <1>1, InHand, Tops DEF IInv, Called
  <2>3. t \in registered'
    BY <1>2, <2>1, <2>2, GreenletAssumption
  <2> QED
    BY <1>1, <1>3, <2>3 DEF IInv, Shape, TypeOK, Top
<1> HIDE DEF a
<1>7. Runs' = [Runs EXCEPT ![t] = a] /\ Mails' = [Mails EXCEPT ![t] = None]
  <2>1. Runs'[t] = a /\ Mails'[t] = None
    BY <1>1, <1>2, <1>6 DEF Runs, Running, Mails
  <2> QED
    BY <1>4, <2>1, RunsChange, MailsChange
<1>8. \A u \in Threads \ {t} : Mails[u] = None
  BY <1>1, OthersIdle
<1> QED
  BY <1>2, <1>4, <1>5, <1>7, <1>8, Arrives

LEMMA StartRefines ==
  ASSUME IInv, Ties, NEW t \in Threads, Start(t), t \notin astray
  PROVE  [Contract!Next]_Contract!vars
<1> DEFINE a == Addressed(t)
<1>1. /\ Routing(t) /\ a \in registered /\ status[a] = "unstarted"
      /\ chain' = [chain EXCEPT ![t] = Append(@, a)]
      /\ mail' = [mail EXCEPT ![t] = None]
      /\ UNCHANGED <<registered, crashed, astray>>
  BY DEF Start
<1>2. /\ Mails[t] # None /\ Mails[t].to = a /\ a \notin Over /\ a \in Bodies /\ Runs[t] = None
      /\ t \in registered /\ t \notin crashed
  BY <1>1, UnderWay DEF Alive
<1>3. Elsewhere(t) /\ Over \subseteq Over'
  BY StepsElsewhere, OverGrows DEF Route
<1>4. \A u \in Threads : ~InChain(u, a) /\ Runs[u] # a
  BY <1>1, <1>2, Tops, NoneOutside DEF Runs, IInv, Shape, Placed
<1> HIDE DEF a
<1>5. mail'[t] = None /\ Top(t)' = a
  <2>1. Top(t)' = a
    BY <1>1, <1>2, <1>4, Pushed
  <2>2. mail'[t] = None
    BY <1>1 DEF IInv, Shape, TypeOK
  <2> QED
    BY <2>1, <2>2
<1>6. Runs' = [Runs EXCEPT ![t] = a] /\ Mails' = [Mails EXCEPT ![t] = None]
  <2>1. Runs'[t] = a /\ Mails'[t] = None
    BY <1>1, <1>2, <1>5 DEF Runs, Running, Mails
  <2> QED
    BY <1>3, <2>1, RunsChange, MailsChange
<1>7. \A u \in Threads \ {t} : Mails[u] = None
  BY <1>1, OthersIdle
<1> QED
  BY <1>2, <1>3, <1>4, <1>6, <1>7, Arrives

LEMMA StillbornRefines ==
  ASSUME IInv, Ties, NEW t \in Threads, Stillborn(t), t \notin astray
  PROVE  [Contract!Next]_Contract!vars
<1> DEFINE a == Addressed(t)
<1>1. /\ Routing(t) /\ a \in registered /\ status[a] = "unstarted" /\ mail[t].load = "throw"
      /\ status' = [status EXCEPT ![a] = "dead"]
      /\ UNCHANGED <<registered, crashed, astray>>
  BY DEF Stillborn
<1>2. /\ Mails[t] # None /\ Mails[t] = mail[t] /\ Mails[t].to = a /\ a \notin Over
      /\ a \in Bodies /\ Runs[t] = None /\ t \notin crashed
  BY <1>1, UnderWay DEF Alive
<1>3. parent[a] \in Bodies /\ Elsewhere(t) /\ mail \in [Threads -> Directives \cup {None}]
  BY <1>1, <1>2, MainsActive, StepsElsewhere DEF Route, Bodies, IInv, Shape, Made, TypeOK
<1>4. PICK l \in Loads : mail' = [mail EXCEPT ![t] = [to |-> parent[a], load |-> l]]
  BY DEF Stillborn, Post
<1> HIDE DEF a
<1>5. /\ Runs' = [Runs EXCEPT ![t] = None]
      /\ Mails' = [Mails EXCEPT ![t] = [to |-> parent[a], load |-> l]]
  BY <1>1, <1>2, <1>3, <1>4, Posted
<1>6. Runs' = Runs
  BY <1>2, <1>5 DEF Runs
<1>7. Over' = Over \cup {a}
  <2>1. status'[a] = "dead" /\ \A b \in Bodies \ {a} : status'[b] = status[b]
    BY <1>1, <1>2 DEF IInv, Shape, TypeOK
  <2> QED
    BY <1>1, <1>2, <2>1 DEF Over, Alive
<1> QED
  BY <1>1, <1>2, <1>3, <1>5, <1>6, <1>7, Rejects

(* The stacks between the two greenlets are nobody's business.             *)
LEMMA HopRefines ==
  ASSUME IInv, Ties, NEW t \in Threads, Suspend(t) \/ Resume(t), t \notin astray
  PROVE  [Contract!Next]_Contract!vars
<1>1. Routing(t) /\ UNCHANGED <<status, registered, mail, crashed, astray>> /\ Elsewhere(t)
  BY StepsElsewhere DEF Suspend, Resume, Route
<1>2. mail'[t] # None /\ Runs[t] = None
  BY <1>1, UnderWay
<1>3. Runs' = Runs
  <2>1. Runs'[t] = None
    BY <1>2 DEF Runs, Running
  <2>2. Runs' = [Runs EXCEPT ![t] = Runs[t]]
    BY <1>1, <1>2, <2>1, RunsChange
  <2> QED
    BY <2>2 DEF Runs
<1>4. Mails' = Mails /\ Over' = Over
  BY <1>1 DEF Mails, Over, Alive
<1> QED
  BY <1>3, <1>4, Silent

LEMMA PanicRefines ==
  ASSUME IInv, Ties, NEW t \in Threads, Panic(t), t \notin astray
  PROVE  [Contract!Next]_Contract!vars
<1>1. Routing(t) /\ t \in crashed' /\ Elsewhere(t) /\ Over \subseteq Over'
  BY StepsElsewhere, OverGrows DEF Panic, Route
<1>2. mail'[t] # None /\ Mails[t] # None
  BY UnderWay DEF Panic
<1>3. Runs'[t] = None /\ Mails'[t] = None
  BY <1>1 DEF Runs, Running, Mails
<1>4. Runs' = [Runs EXCEPT ![t] = None] /\ Mails' = [Mails EXCEPT ![t] = None]
  BY <1>1, <1>3, RunsChange, MailsChange
<1> QED
  BY <1>1, <1>2, <1>4, OthersIdle, Exits

LEMMA StepRefines == IInv /\ Ties /\ [Next]_vars => [Contract!Next]_Contract!vars
<1> SUFFICES ASSUME IInv, Ties, [Next]_vars PROVE [Contract!Next]_Contract!vars
  OBVIOUS
<1>1. CASE UNCHANGED vars
  <2>1. Runs' = Runs /\ Mails' = Mails /\ Over' = Over
    BY <1>1 DEF vars, Runs, Running, Top, Mails, Over, Alive
  <2> QED
    BY <2>1, Silent
<1>2. ASSUME NEW t \in Threads, Route(t) \/ Python(t) PROVE [Contract!Next]_Contract!vars
  <2>1. CASE t \in astray
    BY <1>2, <2>1, AstrayRefines
  <2>2. CASE t \notin astray /\ Route(t)
    BY <2>2, RedirectRefines, DeliverRefines, StartRefines, StillbornRefines, HopRefines,
       PanicRefines DEF Route
  <2>3. CASE t \notin astray /\ Python(t)
    BY <2>3, PythonRefines
  <2> QED
    BY <1>2, <2>1, <2>2, <2>3
<1> QED
  BY <1>1, <1>2 DEF Next

LEMMA StartsRefine == Init => Contract!Init
<1> SUFFICES ASSUME Init PROVE Contract!Init
  OBVIOUS
<1>1. \A t \in Threads : Running(t) /\ t \notin astray /\ Top(t) = t
  BY DEF Init, Running, Top
<1>2. Runs = [t \in Threads |-> t]
  BY <1>1 DEF Runs
<1>3. Mails = [t \in Threads |-> None]
  BY DEF Init, Mails
<1>4. Over = {}
  BY DEF Init, Over, Alive, Bodies
<1> QED
  BY <1>2, <1>3, <1>4 DEF Contract!Init, Runs, Mails, Over

(* route(), whatever it suspends and resumes on the way, is a symmetric    *)
(* switch, on any number of threads, also for a message that is redirected *)
(* to a greenlet of another thread: until a panic, or until a greenlet     *)
(* that was collected while it was current switches, where the contract    *)
(* lets the thread go.                                                     *)
THEOREM SymmetricSwitch == Spec => ContractSpec
<1>1. Init => IInv /\ Ties /\ Contract!Init
  BY Initially, TiesInitially, StartsRefine
<1>2. IInv /\ Ties /\ [Next]_vars => IInv' /\ Ties' /\ [Contract!Next]_Contract!vars
  BY Inductive, TiesKept, StepRefines
<1> QED
  BY <1>1, <1>2, PTL DEF Spec, ContractSpec, Contract!Spec
=================================================================================
