---------------------------- MODULE AsyncTaskProofs ----------------------------
(***************************************************************************)
(* The ways tasks come to their next steps, the current task and the       *)
(* requests to cancel, for any tasks and futures.                          *)
(***************************************************************************)
EXTENDS AsyncTask, SequenceTheorems, TLAPS

Stages == {"fresh", "pending", "finished", "cancelled"}
Done == {"finished", "cancelled"}

(* Where a task is, in values of the variables.                            *)
RunsIn(run, t) == \E i \in 1..Len(run) : run[i].task = t
QueuedIn(r, t) == \E i \in 1..Len(r) : r[i].task = t
Handle(r, t, o) == \E i \in 1..Len(r) : r[i].task = t /\ r[i].of = o
CallIn(s, t) == \E i \in 1..Len(s) : s[i] = t
Distinct(s) == \A i, j \in 1..Len(s) : s[i] = s[j] => i = j

Types(st, c, w, r, run) ==
  /\ st \in [Awaitables -> Stages]
  /\ c \in [Awaitables -> Seq(Tasks)]
  /\ w \in [Tasks -> Awaitables \cup {None}]
  /\ r \in Seq(Handles)
  /\ run \in Seq(Levels)

(* What a task with this way on waits for.                                 *)
Way(st, c, w, r, run, h, t) ==
  /\ IF t = h
     THEN /\ st[t] = "pending" /\ w[t] = None
          /\ ~RunsIn(run, t) /\ ~QueuedIn(r, t) /\ \A o \in Awaitables : ~CallIn(c[o], t)
     ELSE st[t] = "pending" <=>
            RunsIn(run, t) \/ QueuedIn(r, t) \/ \E o \in Awaitables : CallIn(c[o], t)
  /\ w[t] # None => st[t] = "pending"
  /\ RunsIn(run, t) => w[t] = None /\ ~QueuedIn(r, t)
  /\ \A o \in Awaitables : CallIn(c[o], t) =>
       w[t] = o /\ st[o] = "pending" /\ ~QueuedIn(r, t)
  /\ \A o \in Awaitables \cup {None} : Handle(r, t, o) =>
       w[t] = o /\ (o # None => st[o] \in Done)

(* All tasks have one way on, but for `h`, on its way from one to another. *)
Ways(st, c, w, r, run, h) ==
  /\ Types(st, c, w, r, run)
  /\ Once(run) /\ Once(r) /\ \A o \in Awaitables : Distinct(c[o])
  /\ \A t \in Tasks : Way(st, c, w, r, run, h, t)

LEMMA NoneOutside == None \notin Awaitables /\ Tasks \subseteq Awaitables /\ Futures \subseteq Awaitables
BY AsyncAssumption DEF Awaitables

--------------------------------------------------------------------------------
(* Sequences of handles, levels and callbacks.                             *)

(* All but the last element of a sequence, as Pop and PopFrame take it.    *)
LEMMA AllButLast ==
  ASSUME NEW S, NEW s \in Seq(S), Len(s) > 0
  PROVE  /\ SubSeq(s, 1, Len(s) - 1) \in Seq(S)
         /\ Len(SubSeq(s, 1, Len(s) - 1)) = Len(s) - 1
         /\ \A i \in 1..Len(s) - 1 : SubSeq(s, 1, Len(s) - 1)[i] = s[i]
<1> DEFINE k == Len(s)
<1> DEFINE p == SubSeq(s, 1, k - 1)
<1>1. k \in Nat /\ k > 0 /\ \A i \in 1..k - 1 : s[i] \in S
  OBVIOUS
<1>2. /\ p \in Seq(S)
      /\ Len(p) = IF 1 <= k - 1 THEN (k - 1) - 1 + 1 ELSE 0
      /\ \A i \in 1..(k - 1) - 1 + 1 : p[i] = s[1 + i - 1]
  BY <1>1, SubSeqProperties
<1> HIDE DEF k, p
<1>3. Len(p) = k - 1
  BY <1>1, <1>2
<1>4. ASSUME NEW i \in 1..k - 1 PROVE p[i] = s[i]
  <2>1. i \in 1..(k - 1) - 1 + 1 /\ 1 + i - 1 = i
    BY <1>1
  <2> QED
    BY <1>2, <2>1
<1>5. /\ p \in Seq(S) /\ Len(p) = k - 1
      /\ \A i \in 1..k - 1 : p[i] = s[i]
  BY <1>2, <1>3, <1>4
<1> QED
  BY <1>5 DEF k, p

LEMMA PopSeq ==
  ASSUME NEW run \in Seq(Levels), run # <<>>, Once(run)
  PROVE  LET p == SubSeq(run, 1, Len(run) - 1)
             top == run[Len(run)]
         IN /\ p \in Seq(Levels) /\ Len(p) = Len(run) - 1
            /\ \A i \in 1..Len(p) : p[i] = run[i]
            /\ top \in Levels /\ RunsIn(run, top.task) /\ Once(p)
            /\ \A t : RunsIn(p, t) <=> RunsIn(run, t) /\ t # top.task
<1> DEFINE p == SubSeq(run, 1, Len(run) - 1)
<1> DEFINE top == run[Len(run)]
<1>1. Len(run) \in Nat \ {0} /\ Len(run) \in 1..Len(run)
  BY EmptySeq
<1>2. p \in Seq(Levels) /\ Len(p) = Len(run) - 1 /\ \A i \in 1..Len(p) : p[i] = run[i]
  <2>1. /\ p \in Seq(Levels) /\ Len(p) = Len(run) - 1
        /\ \A i \in 1..Len(run) - 1 : p[i] = run[i]
    BY <1>1, AllButLast
  <2> QED
    BY <2>1
<1>3. top \in Levels /\ RunsIn(run, top.task)
  BY <1>1 DEF RunsIn
<1>4. \A i \in 1..Len(p) : i \in 1..Len(run) /\ i # Len(run)
  BY <1>1, <1>2
<1>5. Once(p)
  BY <1>2, <1>4 DEF Once
<1>6. ASSUME NEW t PROVE RunsIn(p, t) <=> RunsIn(run, t) /\ t # top.task
  <2>1. ASSUME RunsIn(p, t) PROVE RunsIn(run, t) /\ t # top.task
    <3>1. PICK i \in 1..Len(p) : p[i].task = t
      BY <2>1 DEF RunsIn
    <3> QED
      BY <1>1, <1>2, <1>4, <3>1 DEF RunsIn, Once
  <2>2. ASSUME RunsIn(run, t), t # top.task PROVE RunsIn(p, t)
    <3>1. PICK i \in 1..Len(run) : run[i].task = t
      BY <2>2 DEF RunsIn
    <3>2. i \in 1..Len(p)
      BY <1>1, <1>2, <2>2, <3>1
    <3> QED
      BY <1>2, <3>1, <3>2 DEF RunsIn
  <2> QED
    BY <2>1, <2>2
<1> QED
  BY <1>2, <1>3, <1>5, <1>6

LEMMA RunSeq ==
  ASSUME NEW run \in Seq(Levels), NEW l \in Levels, ~RunsIn(run, l.task), Once(run)
  PROVE  /\ Append(run, l) \in Seq(Levels) /\ Once(Append(run, l))
         /\ \A t : RunsIn(Append(run, l), t) <=> RunsIn(run, t) \/ t = l.task
<1> DEFINE q == Append(run, l)
<1>1. /\ q \in Seq(Levels) /\ Len(q) = Len(run) + 1 /\ Len(run) \in Nat
      /\ q[Len(q)] = l /\ \A i \in 1..Len(run) : q[i] = run[i]
  BY AppendProperties
<1>2. /\ \A i \in 1..Len(q) : i \in 1..Len(run) \/ i = Len(q)
      /\ \A i \in 1..Len(run) : i \in 1..Len(q)
      /\ Len(q) \in 1..Len(q)
  BY <1>1
<1> HIDE DEF q
<1>3. \A i \in 1..Len(run) : q[i].task # l.task
  BY <1>1 DEF RunsIn
<1>4. Once(q)
  BY <1>1, <1>2, <1>3 DEF Once
<1>5. ASSUME NEW t PROVE RunsIn(q, t) <=> RunsIn(run, t) \/ t = l.task
  BY <1>1, <1>2 DEF RunsIn
<1> QED
  BY <1>1, <1>4, <1>5 DEF q

LEMMA QueueSeq ==
  ASSUME NEW r \in Seq(Handles), NEW x \in Handles, ~QueuedIn(r, x.task), Once(r)
  PROVE  /\ Append(r, x) \in Seq(Handles) /\ Once(Append(r, x))
         /\ \A t : QueuedIn(Append(r, x), t) <=> QueuedIn(r, t) \/ t = x.task
         /\ \A t, o : Handle(Append(r, x), t, o) <=> Handle(r, t, o) \/ (t = x.task /\ o = x.of)
<1> DEFINE q == Append(r, x)
<1>1. /\ q \in Seq(Handles) /\ Len(q) = Len(r) + 1 /\ Len(r) \in Nat
      /\ q[Len(q)] = x /\ \A i \in 1..Len(r) : q[i] = r[i]
  BY AppendProperties
<1>2. /\ \A i \in 1..Len(q) : i \in 1..Len(r) \/ i = Len(q)
      /\ \A i \in 1..Len(r) : i \in 1..Len(q)
      /\ Len(q) \in 1..Len(q)
  BY <1>1
<1> HIDE DEF q
<1>3. \A i \in 1..Len(r) : q[i].task # x.task
  BY <1>1 DEF QueuedIn
<1>4. Once(q)
  BY <1>1, <1>2, <1>3 DEF Once
<1>5. ASSUME NEW t PROVE QueuedIn(q, t) <=> QueuedIn(r, t) \/ t = x.task
  BY <1>1, <1>2 DEF QueuedIn
<1>6. ASSUME NEW t, NEW o PROVE Handle(q, t, o) <=> Handle(r, t, o) \/ (t = x.task /\ o = x.of)
  BY <1>1, <1>2 DEF Handle
<1> QED
  BY <1>1, <1>4, <1>5, <1>6 DEF q

LEMMA TakeSeq ==
  ASSUME NEW r \in Seq(Handles), r # <<>>, Once(r)
  PROVE  /\ Head(r) \in Handles /\ Tail(r) \in Seq(Handles) /\ Once(Tail(r))
         /\ Handle(r, Head(r).task, Head(r).of) /\ QueuedIn(r, Head(r).task)
         /\ \A t : QueuedIn(Tail(r), t) <=> QueuedIn(r, t) /\ t # Head(r).task
         /\ \A t, o : Handle(Tail(r), t, o) <=> Handle(r, t, o) /\ t # Head(r).task
<1> DEFINE q == Tail(r)
<1> DEFINE x == Head(r)
<1>1. /\ x \in Handles /\ q \in Seq(Handles) /\ Len(q) = Len(r) - 1 /\ Len(r) \in Nat \ {0}
      /\ x = r[1] /\ \A i \in 1..Len(q) : q[i] = r[i + 1]
  BY HeadTailProperties, EmptySeq
<1> HIDE DEF q, x
<1>2. /\ 1 \in 1..Len(r)
      /\ \A i \in 1..Len(q) : i + 1 \in 1..Len(r) /\ i + 1 # 1
      /\ \A i \in 1..Len(r) : i = 1 \/ (i - 1 \in 1..Len(q) /\ q[i - 1] = r[i])
  BY <1>1
<1>3. Handle(r, x.task, x.of) /\ QueuedIn(r, x.task)
  BY <1>1, <1>2 DEF Handle, QueuedIn
<1>4. Once(q)
  <2> SUFFICES ASSUME NEW i \in 1..Len(q), NEW j \in 1..Len(q), q[i].task = q[j].task PROVE i = j
    BY DEF Once
  <2>1. r[i + 1].task = r[j + 1].task
    BY <1>1
  <2>2. i + 1 = j + 1
    BY <1>2, <2>1 DEF Once
  <2> QED
    BY <2>2
<1>5. \A i \in 1..Len(q) : q[i].task # x.task
  BY <1>1, <1>2 DEF Once
<1>6. ASSUME NEW t PROVE QueuedIn(q, t) <=> QueuedIn(r, t) /\ t # x.task
  <2>1. QueuedIn(q, t) => QueuedIn(r, t) /\ t # x.task
    BY <1>1, <1>2, <1>5 DEF QueuedIn
  <2>2. QueuedIn(r, t) /\ t # x.task => QueuedIn(q, t)
    BY <1>1, <1>2 DEF QueuedIn
  <2> QED
    BY <2>1, <2>2
<1>7. ASSUME NEW t, NEW o PROVE Handle(q, t, o) <=> Handle(r, t, o) /\ t # x.task
  <2>1. Handle(q, t, o) => Handle(r, t, o) /\ t # x.task
    BY <1>1, <1>2, <1>5 DEF Handle
  <2>2. Handle(r, t, o) /\ t # x.task => Handle(q, t, o)
    BY <1>1, <1>2 DEF Handle
  <2> QED
    BY <2>1, <2>2
<1> QED
  BY <1>1, <1>3, <1>4, <1>6, <1>7 DEF q, x

LEMMA CallSeq ==
  ASSUME NEW s \in Seq(Tasks), NEW t \in Tasks, ~CallIn(s, t), Distinct(s)
  PROVE  /\ Append(s, t) \in Seq(Tasks) /\ Distinct(Append(s, t))
         /\ \A u : CallIn(Append(s, t), u) <=> CallIn(s, u) \/ u = t
<1> DEFINE q == Append(s, t)
<1>1. /\ q \in Seq(Tasks) /\ Len(q) = Len(s) + 1 /\ Len(s) \in Nat
      /\ q[Len(q)] = t /\ \A i \in 1..Len(s) : q[i] = s[i]
  BY AppendProperties
<1>2. /\ \A i \in 1..Len(q) : i \in 1..Len(s) \/ i = Len(q)
      /\ \A i \in 1..Len(s) : i \in 1..Len(q)
      /\ Len(q) \in 1..Len(q)
  BY <1>1
<1> HIDE DEF q
<1>3. \A i \in 1..Len(s) : q[i] # t
  BY <1>1 DEF CallIn
<1>4. Distinct(q)
  BY <1>1, <1>2, <1>3 DEF Distinct
<1>5. ASSUME NEW u PROVE CallIn(q, u) <=> CallIn(s, u) \/ u = t
  BY <1>1, <1>2 DEF CallIn
<1> QED
  BY <1>1, <1>4, <1>5 DEF q

(* The callbacks s of o become handles.                                    *)
LEMMA WakeSeq ==
  ASSUME NEW r \in Seq(Handles), NEW s \in Seq(Tasks), NEW o \in Awaitables,
         Once(r), Distinct(s), \A t : CallIn(s, t) => ~QueuedIn(r, t)
  PROVE  LET q == r \o [i \in DOMAIN s |-> Wakeup(s[i], o)]
         IN /\ q \in Seq(Handles) /\ Once(q)
            /\ \A t : QueuedIn(q, t) <=> QueuedIn(r, t) \/ CallIn(s, t)
            /\ \A t, x : Handle(q, t, x) <=> Handle(r, t, x) \/ (CallIn(s, t) /\ x = o)
<1> DEFINE e == [i \in DOMAIN s |-> Wakeup(s[i], o)]
<1> DEFINE q == r \o e
<1>1. Len(s) \in Nat /\ DOMAIN s = 1..Len(s) /\ \A i \in 1..Len(s) : s[i] \in Tasks
  BY LenProperties
<1>2. \A i \in 1..Len(s) : Wakeup(s[i], o) \in Handles
  BY <1>1 DEF Wakeup, Handles
<1>3. e \in Seq(Handles) /\ Len(e) = Len(s)
  <2>1. e \in [1..Len(s) -> Handles]
    BY <1>1, <1>2
  <2>2. e \in Seq(Handles)
    BY <1>1, <2>1, SeqDef
  <2> QED
    BY <1>1, <2>1, <2>2, LenProperties
<1>4. \A i \in 1..Len(s) : e[i].task = s[i] /\ e[i].of = o
  BY <1>1 DEF Wakeup
<1> HIDE DEF e
<1>5. /\ q \in Seq(Handles) /\ Len(q) = Len(r) + Len(s) /\ Len(r) \in Nat
      /\ \A i \in 1..Len(q) : q[i] = IF i <= Len(r) THEN r[i] ELSE e[i - Len(r)]
  <2>1. /\ q \in Seq(Handles) /\ Len(q) = Len(r) + Len(e)
        /\ \A i \in 1..Len(r) + Len(e) : q[i] = IF i <= Len(r) THEN r[i] ELSE e[i - Len(r)]
    BY <1>3, ConcatProperties
  <2>2. Len(r) \in Nat
    BY LenProperties
  <2> HIDE DEF q
  <2> QED
    BY <1>3, <2>1, <2>2
<1> HIDE DEF q
<1>6. \A i \in 1..Len(q) :
        \/ i \in 1..Len(r) /\ q[i] = r[i]
        \/ i - Len(r) \in 1..Len(s) /\ q[i].task = s[i - Len(r)] /\ q[i].of = o
  BY <1>1, <1>4, <1>5
<1>7. \A i \in 1..Len(r) : i \in 1..Len(q) /\ q[i] = r[i]
  BY <1>1, <1>5
<1>8. \A i \in 1..Len(s) :
        i + Len(r) \in 1..Len(q) /\ q[i + Len(r)].task = s[i] /\ q[i + Len(r)].of = o
  <2> TAKE i \in 1..Len(s)
  <2>1. i + Len(r) \in 1..Len(q) /\ ~(i + Len(r) <= Len(r)) /\ (i + Len(r)) - Len(r) = i
    BY <1>1, <1>5
  <2>2. q[i + Len(r)] = e[i]
    BY <1>5, <2>1
  <2> QED
    BY <1>4, <2>1, <2>2
<1>9. ASSUME NEW t PROVE QueuedIn(q, t) <=> QueuedIn(r, t) \/ CallIn(s, t)
  <2>1. QueuedIn(q, t) => QueuedIn(r, t) \/ CallIn(s, t)
    BY <1>6 DEF QueuedIn, CallIn
  <2>2. QueuedIn(r, t) => QueuedIn(q, t)
    BY <1>7 DEF QueuedIn
  <2>3. CallIn(s, t) => QueuedIn(q, t)
    BY <1>8 DEF QueuedIn, CallIn
  <2> QED
    BY <2>1, <2>2, <2>3
<1>10. ASSUME NEW t, NEW x PROVE Handle(q, t, x) <=> Handle(r, t, x) \/ (CallIn(s, t) /\ x = o)
  <2>1. Handle(q, t, x) => Handle(r, t, x) \/ (CallIn(s, t) /\ x = o)
    BY <1>6 DEF Handle, CallIn
  <2>2. Handle(r, t, x) => Handle(q, t, x)
    BY <1>7 DEF Handle
  <2>3. CallIn(s, t) /\ x = o => Handle(q, t, x)
    BY <1>8 DEF Handle, CallIn
  <2> QED
    BY <2>1, <2>2, <2>3
<1>11. Once(q)
  <2> SUFFICES ASSUME NEW i \in 1..Len(q), NEW j \in 1..Len(q), q[i].task = q[j].task PROVE i = j
    BY DEF Once
  <2>1. CASE i \in 1..Len(r) /\ j \in 1..Len(r)
    BY <1>7, <2>1 DEF Once
  <2>2. CASE i \notin 1..Len(r) /\ j \notin 1..Len(r)
    <3>1. i - Len(r) \in 1..Len(s) /\ j - Len(r) \in 1..Len(s) /\ s[i - Len(r)] = s[j - Len(r)]
      BY <1>6, <2>2
    <3>2. i - Len(r) = j - Len(r)
      BY <3>1 DEF Distinct
    <3> QED
      BY <1>5, <3>2
  <2>3. CASE i \in 1..Len(r) /\ j \notin 1..Len(r)
    BY <1>6, <1>7, <2>3 DEF QueuedIn, CallIn
  <2>4. CASE i \notin 1..Len(r) /\ j \in 1..Len(r)
    BY <1>6, <1>7, <2>4 DEF QueuedIn, CallIn
  <2> QED
    BY <2>1, <2>2, <2>3, <2>4
<1> QED
  BY <1>5, <1>9, <1>10, <1>11 DEF q, e

--------------------------------------------------------------------------------
(* A task leaves its way on, or takes a new one.                           *)

(* It stops running.                                                       *)
LEMMA PopWays ==
  ASSUME NEW st, NEW c, NEW w, NEW r, NEW run, Ways(st, c, w, r, run, None), run # <<>>
  PROVE  /\ run[Len(run)] \in Levels /\ RunsIn(run, run[Len(run)].task)
         /\ Ways(st, c, w, r, SubSeq(run, 1, Len(run) - 1), run[Len(run)].task)
<1> DEFINE p == SubSeq(run, 1, Len(run) - 1)
<1> DEFINE t == run[Len(run)].task
<1>1. /\ p \in Seq(Levels) /\ run[Len(run)] \in Levels /\ RunsIn(run, t) /\ Once(p)
      /\ \A u : RunsIn(p, u) <=> RunsIn(run, u) /\ u # t
  BY PopSeq DEF Ways, Types
<1>2. t \in Tasks
  BY <1>1 DEF Levels
<1> HIDE DEF p, t
<1>3. ASSUME NEW u \in Tasks PROVE Way(st, c, w, r, p, t, u)
  <2>1. Way(st, c, w, r, run, None, u) /\ u # None
    BY NoneOutside DEF Ways
  <2>2. CASE u = t
    BY <1>1, <2>1, <2>2, NoneOutside DEF Way
  <2>3. CASE u # t
    BY <1>1, <2>1, <2>3 DEF Way
  <2> QED
    BY <2>2, <2>3
<1> QED
  BY <1>1, <1>3 DEF Ways, Types, p, t

(* It starts to run.                                                       *)
LEMMA RunWays ==
  ASSUME NEW st, NEW c, NEW w, NEW r, NEW run, NEW l \in Levels, Ways(st, c, w, r, run, l.task)
  PROVE  Ways(st, c, w, r, Append(run, l), None)
<1> DEFINE p == Append(run, l)
<1> DEFINE t == l.task
<1>1. t \in Tasks /\ t # None
  BY NoneOutside DEF Levels
<1>2. Way(st, c, w, r, run, t, t)
  BY <1>1 DEF Ways
<1>3. /\ p \in Seq(Levels) /\ Once(p)
      /\ \A u : RunsIn(p, u) <=> RunsIn(run, u) \/ u = t
  BY <1>2, RunSeq DEF Ways, Types, Way
<1> HIDE DEF p, t
<1>4. ASSUME NEW u \in Tasks PROVE Way(st, c, w, r, p, None, u)
  <2>1. Way(st, c, w, r, run, t, u) /\ u # None
    BY NoneOutside DEF Ways, t
  <2>2. CASE u = t
    BY <1>2, <1>3, <2>1, <2>2 DEF Way
  <2>3. CASE u # t
    BY <1>3, <2>1, <2>3 DEF Way
  <2> QED
    BY <2>2, <2>3
<1> QED
  BY <1>3, <1>4 DEF Ways, Types, p, t

(* It gets a handle of a step.                                             *)
LEMMA QueueWays ==
  ASSUME NEW st, NEW c, NEW w, NEW r, NEW run, NEW t \in Tasks, Ways(st, c, w, r, run, t)
  PROVE  Ways(st, c, w, Append(r, StepOf(t)), run, None)
<1> DEFINE q == Append(r, StepOf(t))
<1>1. t # None /\ StepOf(t) \in Handles /\ StepOf(t).task = t /\ StepOf(t).of = None
  BY NoneOutside DEF StepOf, Handles
<1>2. Way(st, c, w, r, run, t, t)
  BY DEF Ways
<1>3. /\ q \in Seq(Handles) /\ Once(q)
      /\ \A u : QueuedIn(q, u) <=> QueuedIn(r, u) \/ u = t
      /\ \A u, o : Handle(q, u, o) <=> Handle(r, u, o) \/ (u = t /\ o = None)
  BY <1>1, <1>2, QueueSeq DEF Ways, Types, Way
<1> HIDE DEF q
<1>4. ASSUME NEW u \in Tasks PROVE Way(st, c, w, q, run, None, u)
  <2>1. Way(st, c, w, r, run, t, u) /\ u # None
    BY NoneOutside DEF Ways
  <2>2. CASE u = t
    <3>1. \A o : ~Handle(r, t, o)
      BY <1>2 DEF Way, Handle, QueuedIn
    <3>2. QueuedIn(q, t) /\ \A o : Handle(q, t, o) <=> o = None
      BY <1>3, <3>1
    <3> QED
      BY <1>2, <2>1, <2>2, <3>2 DEF Way
  <2>3. CASE u # t
    BY <1>3, <2>1, <2>3 DEF Way
  <2> QED
    BY <2>2, <2>3
<1> QED
  BY <1>3, <1>4 DEF Ways, Types, q

(* The handle at the head of the queue is taken.                           *)
LEMMA TakeWays ==
  ASSUME NEW st, NEW c, NEW w, NEW r, NEW run, Ways(st, c, w, r, run, None), r # <<>>
  PROVE  LET t == Head(r).task
             f == Head(r).of
         IN /\ t \in Tasks /\ f = w[t] /\ st[t] = "pending"
            /\ Ways(st, c, [w EXCEPT ![t] = None], Tail(r), run, t)
<1> DEFINE t == Head(r).task
<1> DEFINE f == Head(r).of
<1> DEFINE q == Tail(r)
<1> DEFINE v == [w EXCEPT ![t] = None]
<1>1. /\ Head(r) \in Handles /\ q \in Seq(Handles) /\ Once(q)
      /\ Handle(r, t, f) /\ QueuedIn(r, t)
      /\ \A u : QueuedIn(q, u) <=> QueuedIn(r, u) /\ u # t
      /\ \A u, o : Handle(q, u, o) <=> Handle(r, u, o) /\ u # t
  BY TakeSeq DEF Ways, Types
<1>2. t \in Tasks /\ f \in Awaitables \cup {None} /\ t # None
  BY <1>1, NoneOutside DEF Handles
<1>3. v \in [Tasks -> Awaitables \cup {None}] /\ v[t] = None /\ \A u \in Tasks \ {t} : v[u] = w[u]
  BY <1>2 DEF Ways, Types
<1> HIDE DEF t, f, q, v
<1>4. Way(st, c, w, r, run, None, t)
  BY <1>2 DEF Ways
<1>5. f = w[t] /\ st[t] = "pending"
  BY <1>1, <1>2, <1>4 DEF Way
<1>6. ASSUME NEW u \in Tasks PROVE Way(st, c, v, q, run, t, u)
  <2>1. Way(st, c, w, r, run, None, u) /\ u # None
    BY NoneOutside DEF Ways
  <2>2. CASE u = t
    BY <1>1, <1>3, <1>5, <2>1, <2>2 DEF Way
  <2>3. CASE u # t
    BY <1>1, <1>3, <2>1, <2>3 DEF Way
  <2> QED
    BY <2>2, <2>3
<1> QED
  BY <1>1, <1>2, <1>3, <1>5, <1>6 DEF Ways, Types, t, f, q, v

(* It awaits o.                                                            *)
LEMMA AwaitWays ==
  ASSUME NEW st, NEW c, NEW w, NEW r, NEW run, NEW t \in Tasks, NEW o \in Awaitables,
         Ways(st, c, w, r, run, t), st[o] = "pending"
  PROVE  Ways(st, [c EXCEPT ![o] = Append(@, t)], [w EXCEPT ![t] = o], r, run, None)
<1> DEFINE d == [c EXCEPT ![o] = Append(@, t)]
<1> DEFINE v == [w EXCEPT ![t] = o]
<1>1. Way(st, c, w, r, run, t, t) /\ t # None /\ o # None
  BY NoneOutside DEF Ways
<1>2. /\ Append(c[o], t) \in Seq(Tasks) /\ Distinct(Append(c[o], t))
      /\ \A u : CallIn(Append(c[o], t), u) <=> CallIn(c[o], u) \/ u = t
  BY <1>1, CallSeq DEF Ways, Types, Way
<1>3. /\ d \in [Awaitables -> Seq(Tasks)] /\ d[o] = Append(c[o], t)
      /\ \A x \in Awaitables \ {o} : d[x] = c[x]
  BY <1>2 DEF Ways, Types
<1>4. v \in [Tasks -> Awaitables \cup {None}] /\ v[t] = o /\ \A u \in Tasks \ {t} : v[u] = w[u]
  BY DEF Ways, Types
<1> HIDE DEF d, v
<1>5. \A x \in Awaitables : Distinct(d[x])
  BY <1>2, <1>3 DEF Ways
<1>6. ASSUME NEW x \in Awaitables, NEW u PROVE CallIn(d[x], u) <=> CallIn(c[x], u) \/ (x = o /\ u = t)
  BY <1>2, <1>3
<1>7. ASSUME NEW u \in Tasks PROVE Way(st, d, v, r, run, None, u)
  <2>1. Way(st, c, w, r, run, t, u) /\ u # None
    BY NoneOutside DEF Ways
  <2>2. CASE u = t
    <3>1. \A x : ~Handle(r, t, x)
      BY <1>1 DEF Way, Handle, QueuedIn
    <3> QED
      BY <1>1, <1>4, <1>6, <2>1, <2>2, <3>1 DEF Way
  <2>3. CASE u # t
    BY <1>4, <1>6, <2>1, <2>3 DEF Way
  <2> QED
    BY <2>2, <2>3
<1> QED
  BY <1>3, <1>4, <1>5, <1>7 DEF Ways, Types, d, v

(* o is done, and its callbacks are handles.  A task that ends has no way  *)
(* on any more.                                                            *)
LEMMA SettleWays ==
  ASSUME NEW st, NEW c, NEW w, NEW r, NEW run, NEW h, NEW o \in Awaitables, NEW outcome \in Done,
         Ways(st, c, w, r, run, h), st[o] = "pending", o = h \/ o \in Futures
  PROVE  Ways([st EXCEPT ![o] = outcome], [c EXCEPT ![o] = <<>>], w,
              r \o [i \in DOMAIN c[o] |-> Wakeup(c[o][i], o)], run, IF o = h THEN None ELSE h)
<1> DEFINE s == [st EXCEPT ![o] = outcome]
<1> DEFINE d == [c EXCEPT ![o] = <<>>]
<1> DEFINE q == r \o [i \in DOMAIN c[o] |-> Wakeup(c[o][i], o)]
<1> DEFINE g == IF o = h THEN None ELSE h
<1>1. /\ st \in [Awaitables -> Stages] /\ c \in [Awaitables -> Seq(Tasks)]
      /\ r \in Seq(Handles) /\ Once(r) /\ c[o] \in Seq(Tasks) /\ Distinct(c[o])
  BY DEF Ways, Types
<1>2. o # None /\ (o \in Tasks => o = h)
  BY NoneOutside, AsyncAssumption
<1>3. \A u : CallIn(c[o], u) => u \in Tasks /\ ~QueuedIn(r, u)
  <2> SUFFICES ASSUME NEW u, CallIn(c[o], u) PROVE u \in Tasks /\ ~QueuedIn(r, u)
    OBVIOUS
  <2>1. u \in Tasks
    BY <1>1, ElementOfSeq DEF CallIn
  <2>2. Way(st, c, w, r, run, h, u)
    BY <2>1 DEF Ways
  <2> QED
    BY <2>1, <2>2 DEF Way
<1>4. /\ q \in Seq(Handles) /\ Once(q)
      /\ \A u : QueuedIn(q, u) <=> QueuedIn(r, u) \/ CallIn(c[o], u)
      /\ \A u, x : Handle(q, u, x) <=> Handle(r, u, x) \/ (CallIn(c[o], u) /\ x = o)
  BY <1>1, <1>3, WakeSeq
<1>5. /\ s \in [Awaitables -> Stages] /\ s[o] = outcome /\ outcome # "pending"
      /\ \A x \in Awaitables \ {o} : s[x] = st[x]
  BY <1>1 DEF Stages, Done
<1>6. /\ d \in [Awaitables -> Seq(Tasks)] /\ d[o] = <<>> /\ \A x \in Awaitables \ {o} : d[x] = c[x]
  BY <1>1, EmptySeq
<1> HIDE DEF s, d, q, g
<1>7. \A u : ~CallIn(d[o], u)
  BY <1>6 DEF CallIn
<1>8. \A x \in Awaitables : Distinct(d[x])
  <2>1. Distinct(<<>>)
    BY DEF Distinct
  <2> QED
    BY <1>6, <2>1 DEF Ways
<1>9. ASSUME NEW u \in Tasks PROVE Way(s, d, w, q, run, g, u)
  <2>1. Way(st, c, w, r, run, h, u) /\ u \in Awaitables /\ u # None
    BY NoneOutside DEF Ways
  <2>2. CASE u = o
    BY <1>2, <1>4, <1>5, <1>6, <1>7, <2>1, <2>2 DEF Way, g
  <2>3. CASE u # o /\ u = h
    <3>1. g = u
      BY <1>2, <2>3 DEF g
    <3> QED
      BY <1>2, <1>4, <1>5, <1>6, <1>7, <2>1, <2>3, <3>1 DEF Way
  <2>4. CASE u # o /\ u # h
    <3>1. u # g /\ s[u] = st[u]
      BY <1>5, <2>1, <2>4 DEF g
    <3>2. \A x \in Awaitables : CallIn(d[x], u) <=> CallIn(c[x], u) /\ x # o
      BY <1>6, <1>7
    <3>3. st[u] = "pending" <=>
            RunsIn(run, u) \/ QueuedIn(q, u) \/ \E x \in Awaitables : CallIn(d[x], u)
      BY <1>4, <2>1, <2>4, <3>2 DEF Way
    <3>4. RunsIn(run, u) => w[u] = None /\ ~QueuedIn(q, u)
      BY <1>2, <1>4, <2>1 DEF Way
    <3>5. ASSUME NEW x \in Awaitables, CallIn(d[x], u)
          PROVE  w[u] = x /\ s[x] = "pending" /\ ~QueuedIn(q, u)
      BY <1>4, <1>5, <2>1, <3>2, <3>5 DEF Way
    <3>6. ASSUME NEW x \in Awaitables \cup {None}, Handle(q, u, x)
          PROVE  w[u] = x /\ (x # None => s[x] \in Done)
      BY <1>4, <1>5, <2>1, <3>6 DEF Way
    <3> QED
      BY <2>1, <2>4, <3>1, <3>3, <3>4, <3>5, <3>6 DEF Way
  <2> QED
    BY <2>2, <2>3, <2>4
<1> QED
  BY <1>4, <1>5, <1>6, <1>8, <1>9 DEF Ways, Types, s, d, q, g

(* A task is made.                                                         *)
LEMMA HatchWays ==
  ASSUME NEW st, NEW c, NEW w, NEW r, NEW run, NEW t \in Tasks,
         Ways(st, c, w, r, run, None), st[t] = "fresh"
  PROVE  Ways([st EXCEPT ![t] = "pending"], c, w, r, run, t)
<1> DEFINE s == [st EXCEPT ![t] = "pending"]
<1>1. t \in Awaitables /\ t # None
  BY NoneOutside
<1>2. s \in [Awaitables -> Stages] /\ s[t] = "pending" /\ \A x \in Awaitables \ {t} : s[x] = st[x]
  BY <1>1 DEF Ways, Types, Stages
<1> HIDE DEF s
<1>3. ASSUME NEW u \in Tasks PROVE Way(s, c, w, r, run, t, u)
  <2>1. Way(st, c, w, r, run, None, u) /\ u # None /\ u \in Awaitables
    BY NoneOutside DEF Ways
  <2>2. ASSUME NEW o \in Awaitables, CallIn(c[o], u)
        PROVE  w[u] = o /\ s[o] = "pending" /\ ~QueuedIn(r, u)
    BY <1>2, <2>1, <2>2 DEF Way
  <2>3. ASSUME NEW o \in Awaitables \cup {None}, Handle(r, u, o)
        PROVE  w[u] = o /\ (o # None => s[o] \in Done)
    BY <1>2, <2>1, <2>3 DEF Way, Done
  <2>4. CASE u = t
    BY <1>2, <2>1, <2>2, <2>3, <2>4 DEF Way
  <2>5. CASE u # t
    BY <1>2, <2>1, <2>2, <2>3, <2>5 DEF Way
  <2> QED
    BY <2>4, <2>5
<1> QED
  BY <1>2, <1>3 DEF Ways, Types, s

--------------------------------------------------------------------------------
(* The invariant.                                                          *)

Counts ==
  /\ must \in [Tasks -> BOOLEAN]
  /\ requests \in [Tasks -> 0 .. MaxCancels]
  /\ current \in Tasks \cup {None}
  /\ owed \subseteq Tasks

(* Eager starts stand on one another, each with its creator as `outer`.    *)
Nested == \A i \in 1..Len(running) :
  /\ running[i].outer = IF i = 1 THEN None ELSE running[i - 1].task
  /\ i > 1 => running[i].eager

(* No tasks await each other in a circle.                                  *)
Acyclic == \A S \in SUBSET Tasks :
  S # {} => \E u \in S : ~(AwaitsTask(u) /\ waiter[u] \in S)

Placed == Ways(status, callbacks, waiter, ready, running, None)

IInv == Placed /\ Counts /\ Nested /\ CurrentRuns /\ Acyclic /\ CancelOwed

(* A future that is awaited is pending or done.                            *)
LEMMA WaitersKnown ==
  ASSUME Placed, NEW t \in Tasks, waiter[t] # None
  PROVE  waiter[t] \in Awaitables /\ status[waiter[t]] # "fresh"
<1>1. Way(status, callbacks, waiter, ready, running, None, t) /\ t # None
  BY NoneOutside DEF Placed, Ways
<1>2. waiter[t] \in Awaitables /\ ready \in Seq(Handles)
  BY DEF Placed, Ways, Types
<1>3. CASE QueuedIn(ready, t)
  <2>1. PICK i \in 1..Len(ready) : ready[i].task = t
    BY <1>3 DEF QueuedIn
  <2>2. ready[i].of \in Awaitables \cup {None}
    <3>1. ready[i] \in Handles
      BY <1>2, ElementOfSeq
    <3> QED
      BY <3>1 DEF Handles
  <2>3. Handle(ready, t, ready[i].of)
    BY <2>1 DEF Handle
  <2> QED
    BY <1>1, <1>2, <2>2, <2>3 DEF Way, Done
<1>4. CASE ~QueuedIn(ready, t)
  BY <1>1, <1>2, <1>4 DEF Way
<1> QED
  BY <1>3, <1>4

(* A cancellation finds the end of the chain of awaited tasks.             *)
LEMMA Chain ==
  ASSUME Acyclic, NEW t \in Tasks
  PROVE  /\ Asked(t) \subseteq Tasks /\ t \in Asked(t)
         /\ \A u \in Asked(t) : AwaitsTask(u) => waiter[u] \in Asked(t)
         /\ LastAsked(t) \in Asked(t) /\ ~AwaitsTask(LastAsked(t))
<1>1. Asked(t) \subseteq Tasks /\ t \in Asked(t)
  BY DEF Asked
<1>2. ASSUME NEW u \in Asked(t), AwaitsTask(u) PROVE waiter[u] \in Asked(t)
  <2>1. waiter[u] \in Tasks
    BY <1>2 DEF AwaitsTask
  <2>2. ASSUME NEW S \in SUBSET Tasks, t \in S, \A x \in S : AwaitsTask(x) => waiter[x] \in S
        PROVE  waiter[u] \in S
    <3>1. u \in S
      BY <2>2 DEF Asked
    <3> QED
      BY <1>2, <2>2, <3>1
  <2> QED
    BY <2>1, <2>2 DEF Asked
<1>3. \E u \in Asked(t) : ~AwaitsTask(u)
  BY <1>1, <1>2 DEF Acyclic
<1> QED
  BY <1>1, <1>2, <1>3 DEF LastAsked

LEMMA Initially == Init => IInv
<1> SUFFICES ASSUME Init PROVE IInv
  OBVIOUS
<1>1. /\ status \in [Awaitables -> Stages] /\ callbacks \in [Awaitables -> Seq(Tasks)]
      /\ waiter \in [Tasks -> Awaitables \cup {None}]
      /\ ready = <<>> /\ running = <<>> /\ \A o \in Awaitables : callbacks[o] = <<>>
      /\ \A t \in Tasks : status[t] = "fresh" /\ waiter[t] = None
  BY NoneOutside, AsyncAssumption, EmptySeq DEF Init, Stages
<1>2. Placed
  <2>1. Types(status, callbacks, waiter, ready, running)
    BY <1>1, EmptySeq DEF Types
  <2>2. Once(running) /\ Once(ready) /\ \A o \in Awaitables : Distinct(callbacks[o])
    BY <1>1 DEF Once, Distinct
  <2>3. ASSUME NEW t \in Tasks PROVE Way(status, callbacks, waiter, ready, running, None, t)
    <3>1. /\ ~RunsIn(running, t) /\ ~QueuedIn(ready, t) /\ \A o : ~Handle(ready, t, o)
          /\ \A o \in Awaitables : ~CallIn(callbacks[o], t)
      BY <1>1 DEF RunsIn, QueuedIn, Handle, CallIn
    <3> QED
      BY <1>1, <3>1, NoneOutside DEF Way
  <2> QED
    BY <2>1, <2>2, <2>3 DEF Placed, Ways
<1>3. Counts
  BY AsyncAssumption DEF Init, Counts
<1>4. Nested /\ CurrentRuns /\ CancelOwed
  BY DEF Init, Nested, CurrentRuns, CancelOwed, Idle
<1>5. Acyclic
  BY <1>1, NoneOutside DEF Acyclic, AwaitsTask
<1> QED
  BY <1>2, <1>3, <1>4, <1>5 DEF IInv

--------------------------------------------------------------------------------
(* The actions, and what they do to the ways of the tasks.                 *)

(* The top of the running tasks.                                           *)
LEMMA Tops ==
  ASSUME Placed, ~Idle
  PROVE  /\ Top \in Levels /\ Top.task \in Tasks
         /\ waiter[Top.task] = None /\ status[Top.task] = "pending"
         /\ Len(running) \in Nat \ {0} /\ Len(running) \in 1..Len(running)
<1>1. Top \in Levels /\ RunsIn(running, Top.task)
  BY PopWays DEF Placed, Idle, Top
<1>2. Top.task \in Tasks
  BY <1>1 DEF Levels
<1>3. Way(status, callbacks, waiter, ready, running, None, Top.task)
  BY <1>2 DEF Placed, Ways
<1>4. Len(running) \in Nat \ {0}
  BY EmptySeq DEF Placed, Ways, Types, Idle
<1> QED
  BY <1>1, <1>2, <1>3, <1>4, NoneOutside DEF Way

LEMMA PopPlaced ==
  ASSUME Placed, ~Idle, Pop
  PROVE  Ways(status, callbacks, waiter, ready, running', Top.task)
BY PopWays DEF Placed, Idle, Top, Pop

(* The future that the last task of the chain awaits, if it can be         *)
(* cancelled, is a plain one.                                              *)
LEMMA AskedFuture ==
  ASSUME Placed, Acyclic, NEW t \in Tasks
  PROVE  /\ LastAsked(t) \in Tasks
         /\ waiter[LastAsked(t)] # None /\ status[waiter[LastAsked(t)]] = "pending"
            => waiter[LastAsked(t)] \in Futures
<1>1. LastAsked(t) \in Tasks /\ ~AwaitsTask(LastAsked(t))
  BY Chain
<1> QED
  BY <1>1 DEF AwaitsTask, Placed, Ways, Types, Awaitables

LEMMA RequestPlaced ==
  ASSUME Placed, Acyclic, NEW t \in Tasks, NEW calls, NEW kept, NEW v, NEW p,
         Ways(status, calls, v, ready, p, None), Request(t, calls, kept)
  PROVE  Ways(status', callbacks', v, ready', p, None)
<1> DEFINE f == waiter[LastAsked(t)]
<1>1. f # None /\ status[f] = "pending" => f \in Futures
  BY AskedFuture
<1>2. CASE f # None /\ status[f] = "pending"
  <2>1. Settle(f, "cancelled", calls)
    BY <1>2 DEF Request
  <2>2. f \in Futures /\ f \in Awaitables
    BY <1>1, <1>2, NoneOutside
  <2> HIDE DEF f
  <2>3. Ways([status EXCEPT ![f] = "cancelled"], [calls EXCEPT ![f] = <<>>], v,
             ready \o [i \in DOMAIN calls[f] |-> Wakeup(calls[f][i], f)], p,
             IF f = None THEN None ELSE None)
    BY <1>2, <2>2, SettleWays DEF Done
  <2> QED
    BY <2>1, <2>3 DEF Settle, Schedule
<1>3. CASE ~(f # None /\ status[f] = "pending")
  <2>1. callbacks' = calls /\ UNCHANGED <<status, ready>>
    BY <1>3 DEF Request
  <2> QED
    BY <2>1
<1> QED
  BY <1>2, <1>3

LEMMA SettlePlaced ==
  ASSUME NEW o \in Awaitables, NEW outcome \in Done, NEW calls, NEW v, NEW p, NEW h,
         Ways(status, calls, v, ready, p, h), status[o] = "pending", o = h \/ o \in Futures,
         Settle(o, outcome, calls)
  PROVE  Ways(status', callbacks', v, ready', p, IF o = h THEN None ELSE h)
BY SettleWays DEF Settle, Schedule

LEMMA AwaitPlaced ==
  ASSUME IInv, NEW o \in Awaitables, Await(o)
  PROVE  Placed'
<1> DEFINE t == Top.task
<1> DEFINE calls == [callbacks EXCEPT ![o] = Append(@, t)]
<1> DEFINE kept == [must EXCEPT ![t] = FALSE]
<1>1. Placed /\ Acyclic /\ ~Idle /\ Pop /\ status[o] = "pending" /\ waiter' = [waiter EXCEPT ![t] = o]
  BY DEF IInv, Await
<1>2. t \in Tasks
  BY <1>1, Tops
<1>3. Ways(status, callbacks, waiter, ready, running', t)
  BY <1>1, PopPlaced
<1> HIDE DEF t
<1>4. Ways(status, calls, waiter', ready, running', None)
  BY <1>1, <1>2, <1>3, AwaitWays
<1> USE DEF t
<1> HIDE DEF calls, kept
<1>5. CASE ~must[t]
  <2>1. callbacks' = calls /\ UNCHANGED <<status, ready>>
    BY <1>5 DEF Await, calls
  <2> QED
    BY <1>4, <2>1 DEF Placed
<1>6. CASE must[t] /\ o \in Futures
  <2>1. Settle(o, "cancelled", calls)
    BY <1>6 DEF Await, calls
  <2>2. Ways(status', callbacks', waiter', ready', running', IF o = None THEN None ELSE None)
    BY <1>1, <1>4, <1>6, <2>1, SettlePlaced DEF Done
  <2> QED
    BY <2>2 DEF Placed
<1>7. CASE must[t] /\ o \notin Futures
  <2>1. Request(o, calls, kept) /\ o \in Tasks
    BY <1>7 DEF Await, calls, kept, Awaitables
  <2>2. Ways(status', callbacks', waiter', ready', running', None)
    BY <1>1, <1>4, <2>1, RequestPlaced
  <2> QED
    BY <2>2 DEF Placed
<1> QED
  BY <1>5, <1>6, <1>7

LEMMA StepPlaced ==
  ASSUME IInv, Step
  PROVE  /\ Placed'
         /\ Head(ready).task \in Tasks /\ Head(ready).of = waiter[Head(ready).task]
<1> DEFINE t == Head(ready).task
<1> DEFINE l == [task |-> t, eager |-> FALSE, outer |-> None]
<1>1. Placed /\ running = <<>> /\ ready # <<>> /\ ready' = Tail(ready) /\ running' = <<l>>
  BY DEF IInv, Step, Idle
<1>2. /\ waiter' = [waiter EXCEPT ![t] = None] /\ UNCHANGED <<status, callbacks>>
  BY DEF Step
<1>3. /\ t \in Tasks /\ Head(ready).of = waiter[t]
      /\ Ways(status, callbacks, [waiter EXCEPT ![t] = None], Tail(ready), running, t)
  BY <1>1, TakeWays DEF Placed
<1>4. l \in Levels /\ l.task = t
  BY <1>3 DEF Levels
<1>5. Append(running, l) = <<l>>
  BY <1>1
<1> HIDE DEF l, t
<1>6. Ways(status, callbacks, waiter', ready', Append(running, l), None)
  BY <1>1, <1>2, <1>3, <1>4, RunWays
<1> QED
  BY <1>1, <1>2, <1>3, <1>5, <1>6 DEF Placed, t

LEMMA PlacedStep == IInv /\ [Next]_vars => Placed'
<1> SUFFICES ASSUME IInv, [Next]_vars PROVE Placed'
  OBVIOUS
<1>1. Placed /\ Acyclic
  BY DEF IInv
<1>2. ASSUME NEW f \in Futures, NEW outcome \in {"finished", "cancelled"}, Complete(f, outcome)
      PROVE  Placed'
  <2>1. f \in Awaitables /\ status[f] = "pending" /\ Settle(f, outcome, callbacks)
        /\ UNCHANGED <<waiter, running>>
    BY <1>2, NoneOutside DEF Complete
  <2>2. Ways(status', callbacks', waiter, ready', running, IF f = None THEN None ELSE None)
    BY <1>1, <2>1, SettlePlaced DEF Placed, Done
  <2> QED
    BY <2>1, <2>2 DEF Placed
<1>3. ASSUME NEW t \in Tasks, Cancel(t) PROVE Placed'
  <2>1. Request(t, callbacks, must) /\ UNCHANGED <<waiter, running>>
    BY <1>3 DEF Cancel
  <2>2. Ways(status', callbacks', waiter, ready', running, None)
    BY <1>1, <2>1, RequestPlaced DEF Placed
  <2> QED
    BY <2>1, <2>2 DEF Placed
<1>4. ASSUME NEW t \in Tasks, Uncancel(t) PROVE Placed'
  BY <1>1, <1>4 DEF Uncancel, Placed
<1>5. ASSUME NEW t \in Tasks, Create(t) PROVE Placed'
  <2>1. Ways(status', callbacks, waiter, ready, running, t)
    BY <1>1, <1>5, HatchWays DEF Create, Placed
  <2>2. Ways(status', callbacks, waiter, Append(ready, StepOf(t)), running, None)
    BY <2>1, QueueWays
  <2> QED
    BY <1>5, <2>2 DEF Create, Placed
<1>6. ASSUME NEW t \in Tasks, EagerStart(t) PROVE Placed'
  <2> DEFINE l == [task |-> t, eager |-> TRUE, outer |-> current]
  <2>1. Ways(status', callbacks, waiter, ready, running, t)
    BY <1>1, <1>6, HatchWays DEF EagerStart, Placed
  <2>2. l \in Levels /\ l.task = t
    BY DEF Levels, IInv, Counts
  <2> HIDE DEF l
  <2>3. Ways(status', callbacks, waiter, ready, Append(running, l), None)
    BY <2>1, <2>2, RunWays
  <2> QED
    BY <1>6, <2>3 DEF EagerStart, Placed, l
<1>7. ASSUME Step PROVE Placed'
  BY <1>7, StepPlaced
<1>8. ASSUME NEW o \in Awaitables, Await(o) PROVE Placed'
  BY <1>8, AwaitPlaced
<1>9. ASSUME YieldNow PROVE Placed'
  <2>1. ~Idle /\ Pop /\ ready' = Append(ready, StepOf(Top.task))
        /\ UNCHANGED <<status, callbacks, waiter>>
    BY <1>9 DEF YieldNow
  <2>2. Ways(status, callbacks, waiter, ready, running', Top.task) /\ Top.task \in Tasks
    BY <1>1, <2>1, PopPlaced, Tops
  <2>3. Ways(status, callbacks, waiter, Append(ready, StepOf(Top.task)), running', None)
    BY <2>2, QueueWays
  <2> QED
    BY <2>1, <2>3 DEF Placed
<1>10. ASSUME NEW raised \in {None, "CancelledError", "Exception"}, Finish(raised) PROVE Placed'
  <2> DEFINE t == Top.task
  <2>1. PICK outcome \in Done : Settle(t, outcome, callbacks)
    BY <1>10 DEF Finish, Done
  <2>2. ~Idle /\ Pop /\ UNCHANGED waiter
    BY <1>10 DEF Finish
  <2>3. /\ Ways(status, callbacks, waiter, ready, running', t)
        /\ t \in Tasks /\ t \in Awaitables /\ status[t] = "pending"
    BY <1>1, <2>2, PopPlaced, Tops, NoneOutside
  <2>4. Ways(status', callbacks', waiter, ready', running', IF t = t THEN None ELSE t)
    BY <2>1, <2>3, SettlePlaced
  <2> QED
    BY <2>2, <2>4 DEF Placed
<1>11. CASE UNCHANGED vars
  BY <1>1, <1>11 DEF vars, Placed
<1> QED
  BY <1>2, <1>3, <1>4, <1>5, <1>6, <1>7, <1>8, <1>9, <1>10, <1>11 DEF Next, EndStep

--------------------------------------------------------------------------------
(* What is pending was so before, and what is cancelled stays so.          *)
Onward == \A o \in Awaitables :
  /\ status'[o] = "pending" => status[o] = "pending"
  /\ status[o] = "cancelled" => status'[o] = "cancelled"

LEMMA Typed ==
  ASSUME IInv
  PROVE  /\ Placed /\ Counts /\ Acyclic
         /\ status \in [Awaitables -> Stages] /\ waiter \in [Tasks -> Awaitables \cup {None}]
         /\ must \in [Tasks -> BOOLEAN] /\ requests \in [Tasks -> 0 .. MaxCancels]
         /\ running \in Seq(Levels)
BY DEF IInv, Placed, Ways, Types, Counts

LEMMA SettleOnward ==
  ASSUME Placed, NEW o \in Awaitables, NEW outcome, NEW calls,
         status[o] = "pending", Settle(o, outcome, calls), outcome \in Done
  PROVE  Onward /\ status'[o] = outcome
BY DEF Placed, Ways, Types, Settle, Onward, Done

(* A request is with the last task, which keeps it or awaits what is       *)
(* cancelled; the others keep theirs.                                      *)
LEMMA RequestOwes ==
  ASSUME Placed, Acyclic, NEW t \in Tasks, NEW calls, NEW kept \in [Tasks -> BOOLEAN],
         Request(t, calls, kept)
  PROVE  LET last == LastAsked(t)
         IN /\ Onward /\ last \in Tasks /\ must' \in [Tasks -> BOOLEAN]
            /\ must'[last] \/ (waiter[last] # None /\ status'[waiter[last]] = "cancelled")
            /\ \A u \in Tasks : kept[u] => must'[u]
<1> DEFINE last == LastAsked(t)
<1> DEFINE f == waiter[last]
<1>1. last \in Tasks /\ (f # None /\ status[f] = "pending" => f \in Futures)
  BY AskedFuture
<1> HIDE DEF last
<1>2. CASE f # None /\ status[f] = "pending"
  <2>1. must' = kept /\ Settle(f, "cancelled", calls)
    BY <1>2 DEF Request, last
  <2>2. f \in Awaitables
    BY <1>1, <1>2, NoneOutside
  <2>3. Onward /\ status'[f] = "cancelled"
    BY <1>2, <2>1, <2>2, SettleOnward DEF Done
  <2> QED
    BY <1>1, <1>2, <2>1, <2>3 DEF last
<1>3. CASE ~(f # None /\ status[f] = "pending")
  <2>1. must' = [kept EXCEPT ![last] = TRUE] /\ UNCHANGED status
    BY <1>3 DEF Request, last
  <2>2. must' \in [Tasks -> BOOLEAN] /\ must'[last] /\ \A u \in Tasks : kept[u] => must'[u]
    BY <1>1, <2>1
  <2> QED
    BY <1>1, <2>1, <2>2 DEF Onward, last
<1> QED
  BY <1>2, <1>3

LEMMA RequestsCounted ==
  ASSUME requests \in [Tasks -> 0 .. MaxCancels], NEW t, NEW calls, NEW kept,
         CanAsk(t), Request(t, calls, kept)
  PROVE  requests' \in [Tasks -> 0 .. MaxCancels]
<1>1. requests' = [u \in Tasks |-> IF u \in Asked(t) THEN requests[u] + 1 ELSE requests[u]]
  BY DEF Request
<1>2. ASSUME NEW u \in Tasks
      PROVE  (IF u \in Asked(t) THEN requests[u] + 1 ELSE requests[u]) \in 0 .. MaxCancels
  BY AsyncAssumption DEF CanAsk
<1> QED
  BY <1>1, <1>2

--------------------------------------------------------------------------------
(* The other parts of the invariant.                                       *)

(* The running tasks, and which one is current.                            *)
LEMMA CurrentStep == IInv /\ [Next]_vars => Nested' /\ CurrentRuns'
<1> SUFFICES ASSUME IInv, [Next]_vars PROVE Nested' /\ CurrentRuns'
  OBVIOUS
<1>1. Placed /\ Nested /\ CurrentRuns /\ running \in Seq(Levels) /\ Len(running) \in Nat
  BY Typed, LenProperties DEF IInv
<1>2. ASSUME UNCHANGED <<running, current>> PROVE Nested' /\ CurrentRuns'
  BY <1>1, <1>2 DEF Nested, CurrentRuns, Idle, Top
<1>3. ASSUME NEW t \in Tasks, EagerStart(t) PROVE Nested' /\ CurrentRuns'
  <2> DEFINE l == [task |-> t, eager |-> TRUE, outer |-> current]
  <2>1. running' = Append(running, l) /\ current' = t
    BY <1>3 DEF EagerStart
  <2>2. l \in Levels
    BY DEF Levels, IInv, Counts
  <2>3. /\ Len(running') = Len(running) + 1 /\ running'[Len(running) + 1] = l
        /\ running' # <<>> /\ \A i \in 1..Len(running) : running'[i] = running[i]
    BY <1>1, <2>1, <2>2, AppendProperties
  <2>4. l.task = t /\ l.eager /\ l.outer = current
    OBVIOUS
  <2> HIDE DEF l
  <2>5. CurrentRuns'
    BY <1>1, <2>1, <2>3, <2>4 DEF CurrentRuns, Idle, Top
  <2>6. current = IF Len(running) = 0 THEN None ELSE running[Len(running)].task
    BY <1>1, EmptySeq DEF CurrentRuns, Idle, Top
  <2>7. ASSUME NEW i \in 1..Len(running')
        PROVE  /\ running'[i].outer = IF i = 1 THEN None ELSE running'[i - 1].task
               /\ i > 1 => running'[i].eager
    <3>1. CASE i = Len(running) + 1
      <4>1. i # 1 => i - 1 = Len(running) /\ Len(running) \in 1..Len(running)
        BY <1>1, <3>1
      <4> QED
        BY <1>1, <2>3, <2>4, <2>6, <3>1, <4>1
    <3>2. CASE i # Len(running) + 1
      <4>1. i \in 1..Len(running) /\ (i # 1 => i - 1 \in 1..Len(running))
        BY <1>1, <2>3, <3>2
      <4> QED
        BY <1>1, <2>3, <4>1 DEF Nested
    <3> QED
      BY <3>1, <3>2
  <2> QED
    BY <2>5, <2>7 DEF Nested
<1>4. ASSUME Step PROVE Nested' /\ CurrentRuns'
  <2> DEFINE l == [task |-> Head(ready).task, eager |-> FALSE, outer |-> None]
  <2>1. running' = <<l>> /\ current' = l.task
    BY <1>4 DEF Step
  <2>2. Len(running') = 1 /\ running'[1] = l /\ running' # <<>> /\ \A i \in 1..1 : i = 1
    BY <2>1
  <2>3. l.outer = None
    OBVIOUS
  <2> HIDE DEF l
  <2> QED
    BY <2>1, <2>2, <2>3 DEF Nested, CurrentRuns, Idle, Top
<1>5. ASSUME ~Idle, Pop PROVE Nested' /\ CurrentRuns'
  <2>1. /\ Len(running) \in Nat \ {0} /\ running # <<>>
        /\ running' = SubSeq(running, 1, Len(running) - 1)
    BY <1>1, <1>5, Tops DEF Idle, Pop
  <2>2. Once(running)
    BY <1>1 DEF Placed, Ways
  <2>3. /\ Len(running') = Len(running) - 1 /\ running' \in Seq(Levels)
        /\ \A i \in 1..Len(running') : running'[i] = running[i]
    BY <1>1, <2>1, <2>2, PopSeq
  <2>4. Nested'
    <3>1. \A i \in 1..Len(running') : i \in 1..Len(running) /\ (i # 1 => i - 1 \in 1..Len(running'))
      BY <2>1, <2>3
    <3> QED
      BY <1>1, <2>3, <3>1 DEF Nested
  <2>5. /\ Top.outer = IF Len(running) = 1 THEN None ELSE running[Len(running) - 1].task
        /\ Len(running) > 1 => Top.eager
    <3>1. Len(running) \in 1..Len(running)
      BY <2>1
    <3> QED
      BY <1>1, <3>1 DEF Nested, Top
  <2>6. current = Top.task
    BY <1>1, <1>5 DEF CurrentRuns
  <2>7. CASE Len(running) = 1
    <3>1. running' = <<>>
      BY <2>3, <2>7, EmptySeq
    <3>2. current' = None
      BY <1>5, <2>5, <2>6, <2>7 DEF Pop
    <3> QED
      BY <2>4, <3>1, <3>2 DEF CurrentRuns, Idle
  <2>8. CASE Len(running) # 1
    <3>1. Len(running) > 1 /\ Len(running') \in 1..Len(running')
      BY <2>1, <2>3, <2>8
    <3>2. current' = running[Len(running) - 1].task
      BY <1>5, <2>5, <2>8, <3>1 DEF Pop
    <3>3. running' # <<>> /\ running'[Len(running')] = running[Len(running) - 1]
      BY <2>3, <3>1
    <3> QED
      BY <2>4, <3>2, <3>3 DEF CurrentRuns, Idle, Top
  <2> QED
    BY <2>7, <2>8
<1> QED
  BY <1>2, <1>3, <1>4, <1>5
     DEF Next, EndStep, Complete, Cancel, Uncancel, Create, Await, YieldNow, Finish, vars

LEMMA CountsStep == IInv /\ [Next]_vars => Counts'
<1> SUFFICES ASSUME IInv, [Next]_vars PROVE Counts'
  OBVIOUS
<1>1. Placed /\ Counts /\ Acyclic /\ CurrentRuns'
  BY CurrentStep DEF IInv
<1>2. current' \in Tasks \cup {None}
  <2>1. Placed'
    BY PlacedStep
  <2>2. running' # <<>> => Len(running') \in 1..Len(running') /\ running' \in Seq(Levels)
    BY <2>1, EmptySeq DEF Placed, Ways, Types
  <2>3. running' # <<>> => running'[Len(running')] \in Levels
    BY <2>2, ElementOfSeq
  <2> QED
    BY <1>1, <2>3 DEF CurrentRuns, Idle, Top, Levels
<1>3. ASSUME UNCHANGED <<must, requests, owed>> PROVE Counts'
  BY <1>1, <1>2, <1>3 DEF Counts
<1>4. ASSUME NEW t \in Tasks, Cancel(t) PROVE Counts'
  <2>1. CanAsk(t) /\ Request(t, callbacks, must) /\ owed' = owed \cup {LastAsked(t)}
    BY <1>4 DEF Cancel
  <2>2. LastAsked(t) \in Tasks /\ must' \in [Tasks -> BOOLEAN]
    BY <1>1, <2>1, RequestOwes DEF Counts
  <2>3. requests' \in [Tasks -> 0 .. MaxCancels]
    BY <1>1, <2>1, RequestsCounted DEF Counts
  <2> QED
    BY <1>1, <1>2, <2>1, <2>2, <2>3 DEF Counts
<1>5. ASSUME NEW t \in Tasks, Uncancel(t) PROVE Counts'
  <2>1. requests' = [requests EXCEPT ![t] = @ - 1] /\ requests[t] > 0
        /\ must' = [must EXCEPT ![t] = @ /\ requests[t] > 1]
        /\ owed' \subseteq owed
    BY <1>5 DEF Uncancel
  <2>2. requests' \in [Tasks -> 0 .. MaxCancels]
    BY <1>1, <2>1, AsyncAssumption DEF Counts
  <2>3. (must[t] /\ requests[t] > 1) \in BOOLEAN
    OBVIOUS
  <2>4. must' \in [Tasks -> BOOLEAN]
    BY <1>1, <2>1, <2>3, Zenon DEF Counts
  <2> QED
    BY <1>1, <1>2, <2>1, <2>2, <2>4 DEF Counts
<1>6. ASSUME Step PROVE Counts'
  BY <1>1, <1>2, <1>6 DEF Step, Counts
<1>7. ASSUME NEW o \in Awaitables, Await(o) PROVE Counts'
  <2> DEFINE t == Top.task
  <2> DEFINE calls == [callbacks EXCEPT ![o] = Append(@, t)]
  <2> DEFINE kept == [must EXCEPT ![t] = FALSE]
  <2>1. t \in Tasks
    BY <1>1, <1>7, Tops DEF Await
  <2>2. kept \in [Tasks -> BOOLEAN]
    BY <1>1 DEF Counts
  <2> HIDE DEF kept, calls
  <2>3. CASE ~must[t]
    BY <1>3, <1>7, <2>3 DEF Await
  <2>4. CASE must[t] /\ o \in Futures
    BY <1>1, <1>2, <1>7, <2>2, <2>4 DEF Await, Counts, kept
  <2>5. CASE must[t] /\ o \notin Futures
    <3>1. /\ CanAsk(o) /\ Request(o, calls, kept) /\ o \in Tasks
          /\ owed' = (owed \ {t}) \cup {LastAsked(o)}
      BY <1>7, <2>5 DEF Await, calls, kept, Awaitables
    <3>2. LastAsked(o) \in Tasks /\ must' \in [Tasks -> BOOLEAN]
      BY <1>1, <2>2, <3>1, RequestOwes
    <3>3. requests' \in [Tasks -> 0 .. MaxCancels]
      BY <1>1, <3>1, RequestsCounted DEF Counts
    <3> QED
      BY <1>1, <1>2, <3>1, <3>2, <3>3 DEF Counts
  <2> QED
    BY <2>3, <2>4, <2>5
<1>8. ASSUME NEW raised, Finish(raised) PROVE Counts'
  <2>1. /\ must' = [must EXCEPT ![Top.task] = @ /\ raised # None]
        /\ owed' = owed \ {Top.task} /\ UNCHANGED requests
    BY <1>8 DEF Finish
  <2>2. must' \in [Tasks -> BOOLEAN]
    BY <1>1, <2>1, Zenon DEF Counts
  <2> QED
    BY <1>1, <1>2, <2>1, <2>2 DEF Counts
<1> QED
  BY <1>3, <1>4, <1>5, <1>6, <1>7, <1>8
     DEF Next, EndStep, Complete, Create, EagerStart, YieldNow, vars

(* No step closes a circle of tasks.                                       *)
LEMMA AcyclicStep == IInv /\ [Next]_vars => Acyclic'
<1> SUFFICES ASSUME IInv, [Next]_vars PROVE Acyclic'
  OBVIOUS
<1>1. /\ Placed /\ Counts /\ Acyclic
      /\ status \in [Awaitables -> Stages] /\ waiter \in [Tasks -> Awaitables \cup {None}]
      /\ must \in [Tasks -> BOOLEAN]
  BY Typed
<1>2. ASSUME \A u \in Tasks : AwaitsTask(u)' => AwaitsTask(u) /\ waiter'[u] = waiter[u]
      PROVE  Acyclic'
  BY <1>1, <1>2 DEF Acyclic
<1>3. ASSUME Onward, UNCHANGED waiter PROVE Acyclic'
  <2>1. \A u \in Tasks : AwaitsTask(u)' => AwaitsTask(u) /\ waiter'[u] = waiter[u]
    BY <1>3, NoneOutside DEF AwaitsTask, Onward
  <2> QED
    BY <1>2, <2>1
<1>4. ASSUME NEW f \in Futures, NEW outcome \in {"finished", "cancelled"}, Complete(f, outcome)
      PROVE  Acyclic'
  <2>1. Onward
    BY <1>1, <1>4, NoneOutside, SettleOnward DEF Complete, Done
  <2> QED
    BY <1>3, <1>4, <2>1 DEF Complete
<1>5. ASSUME NEW t \in Tasks, Cancel(t) PROVE Acyclic'
  <2>1. Onward
    BY <1>1, <1>5, RequestOwes DEF Cancel
  <2> QED
    BY <1>3, <1>5, <2>1 DEF Cancel
<1>6. ASSUME NEW t \in Tasks, Create(t) \/ EagerStart(t) PROVE Acyclic'
  <2>1. status[t] = "fresh" /\ status' = [status EXCEPT ![t] = "pending"] /\ UNCHANGED waiter
    BY <1>6 DEF Create, EagerStart
  <2>2. ASSUME NEW u \in Tasks, AwaitsTask(u)' PROVE AwaitsTask(u)
    <3>1. waiter[u] # None /\ waiter[u] \in Tasks
      BY <2>1, <2>2, NoneOutside DEF AwaitsTask
    <3>2. waiter[u] # t
      BY <1>1, <2>1, <3>1, WaitersKnown
    <3> QED
      BY <1>1, <2>1, <2>2, <3>1, <3>2, NoneOutside DEF AwaitsTask
  <2> QED
    BY <1>2, <2>1, <2>2
<1>7. ASSUME Step PROVE Acyclic'
  <2> DEFINE t == Head(ready).task
  <2>1. waiter' = [waiter EXCEPT ![t] = None] /\ UNCHANGED status
    BY <1>7 DEF Step
  <2> HIDE DEF t
  <2>2. ASSUME NEW u \in Tasks, AwaitsTask(u)' PROVE AwaitsTask(u) /\ waiter'[u] = waiter[u]
    <3>1. u # t
      BY <1>1, <2>1, <2>2, NoneOutside DEF AwaitsTask
    <3> QED
      BY <1>1, <2>1, <2>2, <3>1 DEF AwaitsTask
  <2> QED
    BY <1>2, <2>2
<1>8. ASSUME NEW o \in Awaitables, Await(o) PROVE Acyclic'
  <2> DEFINE t == Top.task
  <2> DEFINE calls == [callbacks EXCEPT ![o] = Append(@, t)]
  <2> DEFINE kept == [must EXCEPT ![t] = FALSE]
  <2>1. /\ ~Idle /\ status[o] = "pending" /\ waiter' = [waiter EXCEPT ![t] = o]
        /\ o \in Tasks => t \notin Asked(o)
    BY <1>8 DEF Await
  <2>2. t \in Tasks
    BY <1>1, <2>1, Tops
  <2>3. kept \in [Tasks -> BOOLEAN]
    BY <1>1
  <2> HIDE DEF t, calls, kept
  <2>4. Onward
    <3>1. CASE ~must[t]
      BY <1>8, <3>1 DEF Await, Onward, t
    <3>2. CASE must[t] /\ o \in Futures
      <4>1. Settle(o, "cancelled", calls)
        BY <1>8, <3>2 DEF Await, calls, t
      <4> QED
        BY <1>1, <2>1, <4>1, SettleOnward DEF Done
    <3>3. CASE must[t] /\ o \notin Futures
      <4>1. Request(o, calls, kept) /\ o \in Tasks
        BY <1>8, <3>3 DEF Await, calls, kept, t, Awaitables
      <4> QED
        BY <1>1, <2>3, <4>1, RequestOwes
    <3> QED
      BY <3>1, <3>2, <3>3
  <2>5. ASSUME NEW u \in Tasks, u # t, AwaitsTask(u)'
        PROVE  AwaitsTask(u) /\ waiter'[u] = waiter[u]
    <3>1. waiter'[u] = waiter[u]
      BY <1>1, <2>1, <2>5
    <3> QED
      BY <2>4, <2>5, <3>1, NoneOutside DEF AwaitsTask, Onward
  <2>6. SUFFICES ASSUME NEW S \in SUBSET Tasks, S # {},
                        \A u \in S : AwaitsTask(u)' /\ waiter'[u] \in S
                 PROVE  FALSE
    BY DEF Acyclic
  <2>7. CASE t \notin S
    BY <1>1, <2>5, <2>6, <2>7 DEF Acyclic
  <2>8. CASE t \in S
    <3>1. waiter'[t] = o
      BY <1>1, <2>1, <2>2
    <3>2. o \in S /\ o \in Tasks /\ t \notin Asked(o)
      BY <2>1, <2>6, <2>8, <3>1
    <3> DEFINE R == S \cap Asked(o)
    <3>3. R \in SUBSET Tasks /\ o \in R /\ t \notin R
      BY <1>1, <3>2, Chain
    <3>4. ASSUME NEW u \in R PROVE AwaitsTask(u) /\ waiter[u] \in R
      <4>1. u \in Tasks /\ u # t /\ u \in S
        BY <3>3
      <4>2. AwaitsTask(u) /\ waiter[u] \in S
        BY <2>5, <2>6, <4>1
      <4>3. waiter[u] \in Asked(o)
        BY <1>1, <3>2, <4>2, Chain
      <4> QED
        BY <4>2, <4>3
    <3> HIDE DEF R
    <3> QED
      BY <1>1, <3>3, <3>4 DEF Acyclic
  <2> QED
    BY <2>7, <2>8
<1>9. ASSUME NEW raised, Finish(raised) PROVE Acyclic'
  <2>1. PICK outcome \in Done : Settle(Top.task, outcome, callbacks)
    BY <1>9 DEF Finish, Done
  <2>2. Top.task \in Awaitables /\ status[Top.task] = "pending"
    BY <1>1, <1>9, Tops, NoneOutside DEF Finish
  <2>3. Onward
    BY <1>1, <2>1, <2>2, SettleOnward
  <2> QED
    BY <1>3, <1>9, <2>3 DEF Finish
<1>10. ASSUME UNCHANGED <<status, waiter>> PROVE Acyclic'
  BY <1>3, <1>10 DEF Onward
<1> QED
  BY <1>4, <1>5, <1>6, <1>7, <1>8, <1>9, <1>10 DEF Next, EndStep, Uncancel, YieldNow, vars

(* What a task is owed stays announced.                                    *)
LEMMA OwedStep == IInv /\ [Next]_vars => CancelOwed'
<1> SUFFICES ASSUME IInv, [Next]_vars PROVE CancelOwed'
  OBVIOUS
<1>1. /\ Placed /\ Counts /\ Acyclic /\ CancelOwed /\ owed \subseteq Tasks
      /\ status \in [Awaitables -> Stages] /\ waiter \in [Tasks -> Awaitables \cup {None}]
      /\ must \in [Tasks -> BOOLEAN]
  BY Typed DEF IInv, Counts
<1>2. ASSUME NEW u \in owed, Onward, waiter'[u] = waiter[u], must[u] => must'[u]
      PROVE  must'[u] \/ (waiter'[u] # None /\ status'[waiter'[u]] = "cancelled")
  <2>1. waiter[u] # None => waiter[u] \in Awaitables
    BY <1>1
  <2> QED
    BY <1>1, <1>2, <2>1 DEF CancelOwed, Onward
<1>3. ASSUME NEW f \in Futures, NEW outcome \in {"finished", "cancelled"}, Complete(f, outcome)
      PROVE  CancelOwed'
  <2>1. Onward
    BY <1>1, <1>3, NoneOutside, SettleOnward DEF Complete, Done
  <2> QED
    BY <1>2, <1>3, <2>1 DEF Complete, CancelOwed
<1>4. ASSUME NEW t \in Tasks, Cancel(t) PROVE CancelOwed'
  <2> DEFINE last == LastAsked(t)
  <2>1. Request(t, callbacks, must) /\ owed' = owed \cup {last} /\ UNCHANGED waiter
    BY <1>4 DEF Cancel
  <2>2. /\ Onward
        /\ must'[last] \/ (waiter[last] # None /\ status'[waiter[last]] = "cancelled")
        /\ \A u \in Tasks : must[u] => must'[u]
    BY <1>1, <2>1, RequestOwes
  <2> HIDE DEF last
  <2>3. ASSUME NEW u \in owed
        PROVE  must'[u] \/ (waiter'[u] # None /\ status'[waiter'[u]] = "cancelled")
    BY <1>1, <1>2, <2>1, <2>2
  <2> QED
    BY <2>1, <2>2, <2>3 DEF CancelOwed
<1>5. ASSUME NEW t \in Tasks, Uncancel(t) PROVE CancelOwed'
  <2>1. /\ must' = [must EXCEPT ![t] = @ /\ requests[t] > 1] /\ requests[t] > 0
        /\ owed' = IF must[t] /\ requests[t] = 1 THEN owed \ {t} ELSE owed
        /\ UNCHANGED <<status, waiter>>
    BY <1>5 DEF Uncancel
  <2>2. Onward
    BY <2>1 DEF Onward
  <2>3. ASSUME NEW u \in owed' PROVE u \in owed /\ (must[u] => must'[u])
    <3>1. u \in owed /\ u \in Tasks
      BY <1>1, <2>1, <2>3
    <3>2. CASE u # t
      BY <1>1, <2>1, <3>1, <3>2
    <3>3. CASE u = t /\ must[t]
      <4>1. requests[t] # 1 /\ requests[t] \in Nat
        BY <1>1, <2>1, <2>3, <3>3, AsyncAssumption DEF Counts
      <4>2. requests[t] > 1
        BY <2>1, <4>1
      <4>3. must'[t] = (must[t] /\ requests[t] > 1)
        BY <1>1, <2>1
      <4> QED
        BY <3>1, <3>3, <4>2, <4>3
    <3> QED
      BY <3>1, <3>2, <3>3
  <2> QED
    BY <1>2, <2>1, <2>2, <2>3 DEF CancelOwed
<1>6. ASSUME NEW t \in Tasks, Create(t) \/ EagerStart(t) PROVE CancelOwed'
  <2>1. /\ status[t] = "fresh" /\ status' = [status EXCEPT ![t] = "pending"]
        /\ UNCHANGED <<waiter, must, owed>>
    BY <1>6 DEF Create, EagerStart
  <2>2. \A o \in Awaitables : status[o] = "cancelled" => status'[o] = "cancelled"
    BY <1>1, <2>1
  <2>3. \A u \in owed : waiter[u] # None => waiter[u] \in Awaitables
    BY <1>1
  <2> QED
    BY <1>1, <2>1, <2>2, <2>3 DEF CancelOwed
<1>7. ASSUME Step PROVE CancelOwed'
  <2> DEFINE t == Head(ready).task
  <2> DEFINE f == Head(ready).of
  <2>1. /\ owed' = IF must[t] \/ (f # None /\ status[f] = "cancelled") THEN owed \ {t} ELSE owed
        /\ must' = [must EXCEPT ![t] = FALSE] /\ waiter' = [waiter EXCEPT ![t] = None]
        /\ UNCHANGED status
    BY <1>7 DEF Step
  <2>2. f = waiter[t]
    BY <1>7, StepPlaced
  <2> HIDE DEF t, f
  <2>3. t \notin owed'
    BY <1>1, <2>1, <2>2 DEF CancelOwed
  <2>4. Onward
    BY <2>1 DEF Onward
  <2>5. \A u \in owed' : u \in owed /\ waiter'[u] = waiter[u] /\ (must[u] => must'[u])
    BY <1>1, <2>1, <2>3
  <2> QED
    BY <1>2, <2>4, <2>5 DEF CancelOwed
<1>8. ASSUME NEW o \in Awaitables, Await(o) PROVE CancelOwed'
  <2> DEFINE t == Top.task
  <2> DEFINE calls == [callbacks EXCEPT ![o] = Append(@, t)]
  <2> DEFINE kept == [must EXCEPT ![t] = FALSE]
  <2>1. ~Idle /\ status[o] = "pending" /\ waiter' = [waiter EXCEPT ![t] = o]
    BY <1>8 DEF Await
  <2>2. t \in Tasks /\ waiter[t] = None
    BY <1>1, <2>1, Tops
  <2>3. kept \in [Tasks -> BOOLEAN] /\ \A u \in Tasks \ {t} : kept[u] = must[u]
    BY <1>1
  <2>4. waiter'[t] = o /\ o # None /\ \A u \in Tasks \ {t} : waiter'[u] = waiter[u]
    BY <1>1, <2>1, <2>2, NoneOutside
  <2> HIDE DEF t, calls, kept
  <2>5. t \in owed => must[t]
    BY <1>1, <2>2 DEF CancelOwed
  <2>6. CASE ~must[t]
    <3>1. UNCHANGED <<status, must, owed>>
      BY <1>8, <2>6 DEF Await, t
    <3>2. Onward
      BY <3>1 DEF Onward
    <3>3. \A u \in owed' : u \in owed /\ waiter'[u] = waiter[u] /\ (must[u] => must'[u])
      BY <1>1, <2>4, <2>5, <2>6, <3>1
    <3> QED
      BY <1>2, <3>2, <3>3 DEF CancelOwed
  <2>7. CASE must[t] /\ o \in Futures
    <3>1. Settle(o, "cancelled", calls) /\ must' = kept /\ UNCHANGED owed
      BY <1>8, <2>7 DEF Await, calls, kept, t
    <3>2. Onward /\ status'[o] = "cancelled"
      BY <1>1, <2>1, <3>1, SettleOnward DEF Done
    <3>3. ASSUME NEW u \in owed
          PROVE  must'[u] \/ (waiter'[u] # None /\ status'[waiter'[u]] = "cancelled")
      <4>1. CASE u = t
        BY <2>4, <3>2, <4>1
      <4>2. CASE u # t
        BY <1>1, <1>2, <2>3, <2>4, <3>1, <3>2, <4>2
      <4> QED
        BY <4>1, <4>2
    <3> QED
      BY <3>1, <3>3 DEF CancelOwed
  <2>8. CASE must[t] /\ o \notin Futures
    <3> DEFINE last == LastAsked(o)
    <3>1. /\ Request(o, calls, kept) /\ o \in Tasks
          /\ owed' = (owed \ {t}) \cup {last} /\ t \notin Asked(o)
      BY <1>8, <2>8 DEF Await, calls, kept, t, Awaitables
    <3>2. /\ Onward /\ last \in Tasks
          /\ must'[last] \/ (waiter[last] # None /\ status'[waiter[last]] = "cancelled")
          /\ \A u \in Tasks : kept[u] => must'[u]
      BY <1>1, <2>3, <3>1, RequestOwes
    <3>3. last # t
      BY <1>1, <3>1, Chain
    <3> HIDE DEF last
    <3>4. ASSUME NEW u \in owed, u # t
          PROVE  must'[u] \/ (waiter'[u] # None /\ status'[waiter'[u]] = "cancelled")
      BY <1>1, <1>2, <2>3, <2>4, <3>2, <3>4
    <3>5. waiter'[last] = waiter[last]
      BY <2>4, <3>2, <3>3
    <3> QED
      BY <3>1, <3>2, <3>4, <3>5 DEF CancelOwed
  <2> QED
    BY <2>6, <2>7, <2>8
<1>9. ASSUME NEW raised, Finish(raised) PROVE CancelOwed'
  <2> DEFINE t == Top.task
  <2>1. PICK outcome \in Done : Settle(t, outcome, callbacks)
    BY <1>9 DEF Finish, Done
  <2>2. t \in Awaitables /\ status[t] = "pending"
    BY <1>1, <1>9, Tops, NoneOutside DEF Finish
  <2>3. Onward
    BY <1>1, <2>1, <2>2, SettleOnward
  <2>4. /\ must' = [must EXCEPT ![t] = @ /\ raised # None] /\ owed' = owed \ {t}
        /\ UNCHANGED waiter
    BY <1>9 DEF Finish
  <2> HIDE DEF t
  <2>5. \A u \in owed' : u \in owed /\ waiter'[u] = waiter[u] /\ (must[u] => must'[u])
    BY <1>1, <2>4
  <2> QED
    BY <1>2, <2>3, <2>5 DEF CancelOwed
<1>10. ASSUME UNCHANGED <<status, waiter, must, owed>> PROVE CancelOwed'
  BY <1>1, <1>10 DEF CancelOwed
<1> QED
  BY <1>3, <1>4, <1>5, <1>6, <1>7, <1>8, <1>9, <1>10 DEF Next, EndStep, YieldNow, vars

--------------------------------------------------------------------------------
(* The invariant holds of the specification, for any tasks, futures and    *)
(* bound on the requests.                                                  *)
THEOREM Invariance == Spec => []IInv
<1>1. IInv /\ [Next]_vars => IInv'
  BY PlacedStep, CountsStep, CurrentStep, AcyclicStep, OwedStep DEF IInv
<1> QED
  BY Initially, <1>1, PTL DEF Spec

(* Every variable keeps its type: no request is withdrawn that was not     *)
(* made, and only tasks are resumed.                                       *)
THEOREM TypeCorrect == Spec => []TypeOK
<1>1. IInv => TypeOK
  BY DEF IInv, Placed, Ways, Types, Counts, TypeOK, Stages
<1> QED
  BY Invariance, <1>1, PTL

(* Every task that is not done has exactly one way to its next step.       *)
THEOREM OneWay == Spec => []OneWayOn
<1>1. IInv => OneWayOn
  <2> SUFFICES ASSUME IInv PROVE OneWayOn
    OBVIOUS
  <2>1. /\ Once(running) /\ Once(ready)
        /\ \A o \in Awaitables : Distinct(callbacks[o])
    BY DEF IInv, Placed, Ways
  <2>2. ASSUME NEW t \in Tasks
        PROVE  /\ status[t] = "pending" <=> Runs(t) \/ Queued(t) \/ Awaits(t)
               /\ ~(Runs(t) /\ Queued(t)) /\ ~(Runs(t) /\ Awaits(t)) /\ ~(Queued(t) /\ Awaits(t))
               /\ \A o, p \in Awaitables : AwaitsIn(t, o) /\ AwaitsIn(t, p) => o = p
    <3>1. Way(status, callbacks, waiter, ready, running, None, t) /\ t # None
      BY NoneOutside DEF IInv, Placed, Ways
    <3>2. /\ Runs(t) <=> RunsIn(running, t)
          /\ Queued(t) <=> QueuedIn(ready, t)
          /\ \A o \in Awaitables : AwaitsIn(t, o) <=> CallIn(callbacks[o], t)
      BY DEF Runs, RunsIn, Queued, QueuedIn, AwaitsIn, CallIn
    <3> QED
      BY <3>1, <3>2, NoneOutside DEF Way, Awaits
  <2> QED
    BY <2>1, <2>2 DEF OneWayOn, Distinct
<1> QED
  BY Invariance, <1>1, PTL

(* current_task() tells the task whose coroutine runs.                     *)
THEOREM CurrentTruthful == Spec => []CurrentRuns
<1>1. IInv => CurrentRuns
  BY DEF IInv
<1> QED
  BY Invariance, <1>1, PTL

(* No request to cancel is forgotten.                                      *)
THEOREM CancelNotForgotten == Spec => []CancelOwed
<1>1. IInv => CancelOwed
  BY DEF IInv
<1> QED
  BY Invariance, <1>1, PTL
================================================================================
