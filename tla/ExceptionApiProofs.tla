------------------------- MODULE ExceptionApiProofs -------------------------
(***************************************************************************)
(* What the exception API keeps for any number of concurrent requests, and *)
(* what it keeps when they are served one after the other.                 *)
(*                                                                         *)
(* A thread's place is the first step it has still to do.  All that a      *)
(* proof needs of the others is which step may come after which, so the    *)
(* first part is about that: every thread's steps form a Chain.            *)
(***************************************************************************)
EXTENDS ExceptionApi, SequenceTheorems, FiniteSetTheorems, TLAPS

Threads ==
    [case : Cases, action : Asked \cup {"none", "declare"}, from : States \cup {"none"},
     seen : Nat, passed : BOOLEAN, armed : BOOLEAN, row : Rows, todo : Seq(Steps)]

\* Step t may come after step s in a handler.
Follows(s, t) ==
    \/ s \in {"INVESTIGATING", "RECOVERY_PROPOSED", "RESOLVED", "ESCALATED", "BLOCKED",
              "verify", "block"} /\ t = "case"
    \/ s = "case" /\ t \in {"investigated", "authorize", "cap"}
    \/ s = "cap" /\ t \in {"refusal", "executed"}
    \/ s = "propose" /\ t = "authorize"
    \/ s \in {"authorize", "AUTHORIZED"} /\ t = "gate"
    \/ s = "deliver" /\ t = "credit"
    \/ s = "credit" /\ t = "mark"
    \/ s = "mark" /\ t = "count"
    \/ s = "count" /\ t = "counted"
    \/ s = "counted" /\ t = "EXECUTED"
    \/ s = "EXECUTED" /\ t = "VERIFYING"
    \/ s = "VERIFYING" /\ t = "verify"
    \/ s = "executed" /\ t = "verified"
    \/ s = "verified" /\ t = "verdict"
    \/ s = "verdict" /\ t = "escalation"

\* The steps that a handler may end with: at the gate it is decided what follows.
Ends == {"investigated", "gate", "dispatch", "refused", "refusal", "escalation"}

Chain(t) ==
    /\ t \in Seq(Steps) /\ t # <<>>
    /\ \A i \in 1..(Len(t) - 1) : Follows(t[i], t[i + 1])
    /\ t[Len(t)] \in Ends

\* /transition writes the state that it is told and saves the case.
Shape(q) ==
    IF q.action = "declare"
    THEN q.todo = <<"case">> \/ \E to \in States : q.todo = <<to, "case">>
    ELSE Chain(q.todo)

Shapes == \A r \in Requests : req[r] # Idle => Shape(req[r])

\* The step a thread is at.
Place(r) == Head(req[r].todo)

-----------------------------------------------------------------------------
\* Chains of steps.

LEMMA HeadIsFirst ==
    ASSUME NEW t \in Seq(Steps), t # <<>>
    PROVE  /\ Head(t) = t[1] /\ Head(t) \in Steps /\ Tail(t) \in Seq(Steps)
           /\ Len(t) \in Nat \ {0} /\ Len(Tail(t)) = Len(t) - 1
           /\ \A i \in 1..(Len(t) - 1) : Tail(t)[i] = t[i + 1]
           /\ Tail(t) = <<>> <=> Len(t) = 1
<1>1. Len(t) \in Nat \ {0}
  BY EmptySeq
<1>2. Head(t) = t[1] /\ Head(t) \in Steps /\ Tail(t) \in Seq(Steps) /\ Len(Tail(t)) = Len(t) - 1
  BY HeadTailProperties
<1>3. \A i \in 1..(Len(t) - 1) : Tail(t)[i] = t[i + 1]
  BY <1>2, HeadTailProperties
<1>4. Tail(t) = <<>> <=> Len(Tail(t)) = 0
  BY <1>2, EmptySeq
<1> QED
  BY <1>1, <1>2, <1>3, <1>4

\* What is left of a chain is one, and nothing comes after its end.
LEMMA ChainTail ==
    ASSUME NEW t, Chain(t)
    PROVE  /\ Head(t) \in Ends => Tail(t) = <<>>
           /\ Head(t) \notin Ends => Chain(Tail(t)) /\ Follows(Head(t), Head(Tail(t)))
<1>1. t \in Seq(Steps) /\ t # <<>>
  BY DEF Chain
<1>2. CASE Len(t) = 1
  BY <1>1, <1>2, HeadIsFirst DEF Chain
<1>3. CASE Len(t) # 1
  <2>1. /\ Tail(t) \in Seq(Steps) /\ Tail(t) # <<>> /\ Len(Tail(t)) = Len(t) - 1 /\ Len(t) >= 2
        /\ Head(t) = t[1] /\ \A i \in 1..(Len(t) - 1) : Tail(t)[i] = t[i + 1]
    BY <1>1, <1>3, HeadIsFirst
  <2>2. Head(Tail(t)) = t[2]
    BY <2>1, HeadIsFirst
  <2>3. Follows(Head(t), Head(Tail(t)))
    BY <2>1, <2>2 DEF Chain
  <2>4. \A i \in 1..(Len(Tail(t)) - 1) : Follows(Tail(t)[i], Tail(t)[i + 1])
    BY <2>1 DEF Chain
  <2>5. Tail(t)[Len(Tail(t))] \in Ends
    BY <2>1 DEF Chain
  <2>6. Head(t) \notin Ends
    BY <2>3 DEF Follows, Ends
  <2> QED
    BY <2>1, <2>3, <2>4, <2>5, <2>6 DEF Chain
<1> QED
  BY <1>2, <1>3

LEMMA Cons ==
    ASSUME NEW t \in Seq(Steps), NEW s \in Steps
    PROVE  /\ <<s>> \o t \in Seq(Steps) /\ <<s>> \o t # <<>> /\ Head(<<s>> \o t) = s
           /\ Tail(<<s>> \o t) = t /\ Len(<<s>> \o t) = Len(t) + 1
           /\ \A i \in 1..Len(t) : (<<s>> \o t)[i + 1] = t[i]
OBVIOUS

LEMMA Short ==
    ASSUME NEW s \in Steps, NEW t \in Steps
    PROVE  Tail(<<s>>) = <<>> /\ Tail(<<s, t>>) = <<t>>
<1>1. <<s>> \in Seq(Steps) /\ Len(<<s>>) = 1 /\ <<s, t>> \in Seq(Steps) /\ Len(<<s, t>>) = 2
  OBVIOUS
<1>2. Tail(<<s>>) = <<>>
  BY <1>1, HeadIsFirst
<1>3. Tail(<<s, t>>) \in Seq(Steps) /\ Len(Tail(<<s, t>>)) = 1 /\ Tail(<<s, t>>)[1] = t
  BY <1>1, HeadIsFirst
<1> QED
  BY <1>2, <1>3

LEMMA ChainCons ==
    ASSUME NEW t, Chain(t), NEW s \in Steps, Follows(s, Head(t))
    PROVE  Chain(<<s>> \o t)
<1> DEFINE u == <<s>> \o t
<1>1. /\ t \in Seq(Steps) /\ u \in Seq(Steps) /\ u # <<>> /\ u[1] = s /\ Len(u) = Len(t) + 1
      /\ Len(t) \in Nat \ {0} /\ Head(t) = t[1] /\ \A i \in 1..Len(t) : u[i + 1] = t[i]
  BY Cons, HeadIsFirst DEF Chain
<1>2. ASSUME NEW i \in 1..(Len(u) - 1) PROVE Follows(u[i], u[i + 1])
  <2>1. CASE i = 1
    BY <1>1, <2>1
  <2>2. CASE i # 1
    <3>1. i - 1 \in 1..(Len(t) - 1)
      BY <1>1, <2>2
    <3>2. u[i] = t[i - 1] /\ u[i + 1] = t[i]
      BY <1>1, <3>1
    <3>3. Follows(t[i - 1], t[(i - 1) + 1])
      BY <3>1 DEF Chain
    <3> QED
      BY <3>2, <3>3
  <2> QED
    BY <2>1, <2>2
<1>3. u[Len(u)] \in Ends
  BY <1>1 DEF Chain
<1> QED
  BY <1>1, <1>2, <1>3 DEF Chain

\* Without a database only the write of a case gives way to a step that follows it.
LEMMA DoableIs ==
    ASSUME NEW t \in Seq(Steps)
    PROVE  /\ Doable(t) \in Seq(Steps)
           /\ t = <<>> => Doable(t) = <<>>
           /\ t # <<>> /\ Head(t) \notin DiskSteps => Doable(t) = t
           /\ Doable(t) \in {t, Tail(t), <<>>}
           /\ DiskWorks => Doable(t) = t
           /\ Chain(t) => \/ Doable(t) \in {t, <<>>}
                          \/ /\ Head(t) = "case" /\ Doable(t) = Tail(t)
                             /\ Chain(Tail(t)) /\ Head(Tail(t)) = "authorize"
<1>1. CASE t = <<>> \/ DiskWorks \/ Head(t) \notin DiskSteps
  BY <1>1 DEF Doable
<1>2. CASE t # <<>> /\ ~DiskWorks /\ Head(t) \in DiskSteps
  <2>1. CASE Len(t) > 1 /\ t[2] \notin DiskSteps
    <3>1. /\ Doable(t) = Tail(t) /\ Tail(t) \in Seq(Steps) /\ Tail(t) # <<>>
          /\ Head(Tail(t)) = t[2]
      BY <1>2, <2>1, HeadIsFirst DEF Doable
    <3>2. ASSUME Chain(t)
          PROVE  Head(t) = "case" /\ Chain(Tail(t)) /\ Head(Tail(t)) = "authorize"
      <4>1. Chain(Tail(t)) /\ Follows(Head(t), Head(Tail(t)))
        BY <3>1, <3>2, ChainTail
      <4> QED
        BY <1>2, <2>1, <3>1, <4>1 DEF Follows, DiskSteps
    <3> QED
      BY <1>2, <3>1, <3>2
  <2>2. CASE ~ (Len(t) > 1 /\ t[2] \notin DiskSteps)
    BY <1>2, <2>2 DEF Doable
  <2> QED
    BY <2>1, <2>2
<1> QED
  BY <1>1, <1>2

\* One of the steps is among those of t.
In(t, steps) == \E i \in DOMAIN t : t[i] \in steps

LEMMA InParts ==
    ASSUME NEW t \in Seq(Steps), t # <<>>, NEW S
    PROVE  In(t, S) <=> Head(t) \in S \/ In(Tail(t), S)
<1>1. /\ Head(t) = t[1] /\ Tail(t) \in Seq(Steps) /\ Len(t) \in Nat \ {0}
      /\ Len(Tail(t)) = Len(t) - 1 /\ \A i \in 1..(Len(t) - 1) : Tail(t)[i] = t[i + 1]
  BY HeadIsFirst
<1>2. DOMAIN t = 1..Len(t) /\ DOMAIN Tail(t) = 1..(Len(t) - 1)
  BY <1>1, LenProperties
<1>3. ASSUME In(t, S) PROVE Head(t) \in S \/ In(Tail(t), S)
  <2>1. PICK i \in 1..Len(t) : t[i] \in S
    BY <1>2, <1>3 DEF In
  <2>2. CASE i = 1
    BY <1>1, <2>1, <2>2
  <2>3. CASE i # 1
    <3>1. i - 1 \in 1..(Len(t) - 1) /\ Tail(t)[i - 1] = t[i]
      BY <1>1, <2>3
    <3> QED
      BY <1>2, <2>1, <3>1 DEF In
  <2> QED
    BY <2>2, <2>3
<1>4. ASSUME In(Tail(t), S) PROVE In(t, S)
  <2>1. PICK i \in 1..(Len(t) - 1) : Tail(t)[i] \in S
    BY <1>2, <1>4 DEF In
  <2>2. i + 1 \in 1..Len(t) /\ t[i + 1] \in S
    BY <1>1, <2>1
  <2> QED
    BY <1>2, <2>2 DEF In
<1>5. ASSUME Head(t) \in S PROVE In(t, S)
  BY <1>1, <1>2, <1>5 DEF In
<1> QED
  BY <1>3, <1>4, <1>5

LEMMA InNothing == \A S : ~In(<<>>, S)
BY DEF In

LEMMA InConcat ==
    ASSUME NEW s \in Seq(Steps), NEW t \in Seq(Steps), NEW S, In(s \o t, S)
    PROVE  In(s, S) \/ In(t, S)
<1>1. /\ s \o t \in Seq(Steps) /\ Len(s \o t) = Len(s) + Len(t) /\ Len(s) \in Nat /\ Len(t) \in Nat
      /\ DOMAIN (s \o t) = 1..(Len(s) + Len(t)) /\ DOMAIN s = 1..Len(s) /\ DOMAIN t = 1..Len(t)
  BY ConcatProperties, LenProperties
<1>2. PICK i \in 1..(Len(s) + Len(t)) : (s \o t)[i] \in S
  BY <1>1 DEF In
<1>3. (s \o t)[i] = IF i <= Len(s) THEN s[i] ELSE t[i - Len(s)]
  BY <1>1, ConcatProperties
<1>4. CASE i <= Len(s)
  BY <1>1, <1>2, <1>3, <1>4 DEF In
<1>5. CASE ~(i <= Len(s))
  <2>1. i - Len(s) \in 1..Len(t) /\ t[i - Len(s)] \in S
    BY <1>1, <1>2, <1>3, <1>5
  <2> QED
    BY <1>1, <2>1 DEF In
<1> QED
  BY <1>4, <1>5

\* The steps whose being left matters: what they need is remembered.
Needing == {"investigated", "refusal", "executed", "verified", "verdict", "escalation", "cap", "counted"}

-----------------------------------------------------------------------------
\* The threads.

LEMMA Served ==
    ASSUME TypeOK, NEW r \in Requests, req[r] # Idle
    PROVE  /\ req[r] \in Threads /\ req[r].todo # <<>> /\ req[r].todo \in Seq(Steps)
           /\ req[r].case \in Cases /\ req[r].action \in Asked \cup {"none", "declare"}
           /\ req[r].from \in States \cup {"none"} /\ req[r].seen \in Nat
           /\ req[r].passed \in BOOLEAN /\ req[r].armed \in BOOLEAN
           /\ Place(r) \in Steps /\ Tail(req[r].todo) \in Seq(Steps)
           /\ req[r].row \in Rows
           /\ \A step : At(r, step) <=> Place(r) = step
           /\ req[r].armed => Place(r) \in States \cup {"case"}
<1>1. /\ req[r] \in Threads /\ req[r].todo # <<>>
      /\ req[r].armed => Moving(r) \/ At(r, "case")
  BY DEF TypeOK, Threads
<1>2. req[r].todo \in Seq(Steps)
  BY <1>1 DEF Threads
<1>3. Place(r) \in Steps /\ Tail(req[r].todo) \in Seq(Steps)
  BY <1>1, <1>2, HeadIsFirst DEF Place
<1>4. \A step : At(r, step) <=> Place(r) = step
  BY <1>1 DEF At, Place
<1> QED
  BY <1>1, <1>2, <1>3, <1>4 DEF Threads, Moving

LEMMA NoRowTyped == NoRow \in Rows
BY DEF NoRow, Rows

\* A thread at a step serves a request.
LEMMA AtServed ==
    ASSUME NEW r \in Requests, NEW step, At(r, step)
    PROVE  req[r] # Idle
BY DEF At, Idle

\* What thread q remembers as it goes on: what a step that is left needs, and of the
\* rest nothing that is made up.
Remembers(q, from, seen, passed) ==
    /\ q.from \in {from, "none"} /\ q.seen \in {seen, 0} /\ q.passed \in {passed, FALSE}
    /\ In(q.todo, {"investigated", "refusal", "executed"}) => q.from = from
    /\ In(q.todo, {"counted"}) => q.seen = seen
    /\ In(q.todo, {"verdict"}) => q.passed = passed

\* What Becomes makes of a thread; the others stay what they are.
LEMMA BecomesIs ==
    ASSUME TypeOK, NEW r \in Requests, NEW q \in Threads, Becomes(r, q)
    PROVE  /\ req' \in [Requests -> {Idle} \cup Threads]
           /\ \A s \in Requests \ {r} : req'[s] = req[s]
           /\ Doable(q.todo) = <<>> => req'[r] = Idle
           /\ Doable(q.todo) # <<>> =>
                /\ req'[r] \in Threads /\ req'[r] # Idle /\ req'[r].todo = Doable(q.todo)
                /\ req'[r].case = q.case /\ req'[r].action = q.action /\ req'[r].armed = q.armed
                /\ Remembers(req'[r], q.from, q.seen, q.passed)
<1> DEFINE todo == Doable(q.todo)
           Left(steps) == \E i \in DOMAIN todo : todo[i] \in steps
           p == [q EXCEPT !.todo = todo,
                          !.from = IF Left({"investigated", "refusal", "executed"}) THEN @ ELSE "none",
                          !.seen = IF Left({"counted"}) THEN @ ELSE 0,
                          !.passed = Left({"verdict"}) /\ @]
<1>1. req \in [Requests -> {Idle} \cup Threads]
  BY DEF TypeOK, Threads
<1>2. req' = [req EXCEPT ![r] = IF todo = <<>> THEN Idle ELSE p]
  BY DEF Becomes
<1>3. todo \in Seq(Steps)
  BY DoableIs DEF Threads
<1>4. /\ p \in Threads /\ p.todo = todo /\ p.case = q.case /\ p.action = q.action
      /\ p.armed = q.armed /\ Remembers(p, q.from, q.seen, q.passed)
  <2> HIDE DEF todo
  <2>1. Left({"verdict"}) \in BOOLEAN
    OBVIOUS
  <2> HIDE DEF Left
  <2>2. p \in Threads /\ p.todo = todo /\ p.case = q.case /\ p.action = q.action /\ p.armed = q.armed
    BY <1>3, <2>1 DEF Threads
  <2>3. /\ p.from = IF Left({"investigated", "refusal", "executed"}) THEN q.from ELSE "none"
        /\ p.seen = IF Left({"counted"}) THEN q.seen ELSE 0
        /\ p.passed \in {q.passed, FALSE} /\ (Left({"verdict"}) => p.passed = q.passed)
    BY <1>3, <2>1 DEF Threads
  <2>4. \A steps : In(p.todo, steps) <=> Left(steps)
    BY <2>2 DEF In, Left
  <2> QED
    BY <2>2, <2>3, <2>4 DEF Remembers
<1> HIDE DEF todo, p
<1>5. p # Idle \/ todo = <<>>
  BY <1>4 DEF Idle
<1> QED
  BY <1>1, <1>2, <1>4, <1>5 DEF todo

\* What may follow a step, the write of a case being dropped where it cannot be done.
Successor(s, t) == Follows(s, t) \/ (Follows(s, "case") /\ t = "authorize")

\* A thread that goes on to the rest of its handler.
LEMMA Advance ==
    ASSUME TypeOK, Shapes, NEW r \in Requests, req[r] # Idle, NEW q \in Threads, Becomes(r, q),
           q.todo = Tail(req[r].todo), q.action = req[r].action
    PROVE  \/ req'[r] = Idle
           \/ /\ req'[r] # Idle /\ req'[r] \in Threads /\ Shape(req'[r])
              /\ q.action # "declare" => Successor(Place(r), Place(r)')
              /\ q.action = "declare" => Place(r)' = "case"
<1>1. /\ req[r].todo \in Seq(Steps) /\ req[r].todo # <<>> /\ q.todo \in Seq(Steps)
      /\ Place(r) = Head(req[r].todo)
  BY Served DEF Place
<1>2. SUFFICES ASSUME req'[r] # Idle
               PROVE  /\ Shape(req'[r])
                      /\ q.action # "declare" => Successor(Place(r), Place(r)')
                      /\ q.action = "declare" => Place(r)' = "case"
  BY BecomesIs
<1>3. /\ Doable(q.todo) # <<>> /\ req'[r].todo = Doable(q.todo) /\ req'[r].action = q.action
      /\ Place(r)' = Head(Doable(q.todo))
  BY <1>2, BecomesIs DEF Place
<1>4. CASE q.action = "declare"
  <2>1. req[r].todo = <<"case">> \/ \E to \in States : req[r].todo = <<to, "case">>
    BY <1>4 DEF Shapes, Shape
  <2>2. q.todo = <<>> \/ q.todo = <<"case">>
    BY <2>1, Short DEF Steps, DiskSteps
  <2>3. q.todo = <<"case">>
    BY <1>1, <1>3, <2>2, DoableIs
  <2>4. Tail(q.todo) = <<>>
    BY <2>3, Short DEF Steps, DiskSteps
  <2>5. Doable(q.todo) = <<"case">>
    BY <1>1, <1>3, <2>3, <2>4, DoableIs
  <2> QED
    BY <1>3, <1>4, <2>5 DEF Shape
<1>5. CASE q.action # "declare"
  <2>1. Chain(req[r].todo)
    BY <1>5 DEF Shapes, Shape
  <2>2. q.todo # <<>>
    BY <1>1, <1>3, DoableIs
  <2>3. Chain(q.todo) /\ Follows(Place(r), Head(q.todo))
    BY <1>1, <2>1, <2>2, ChainTail
  <2>4. \/ Doable(q.todo) = q.todo
        \/ /\ Head(q.todo) = "case" /\ Doable(q.todo) = Tail(q.todo)
           /\ Chain(Tail(q.todo)) /\ Head(Tail(q.todo)) = "authorize"
    BY <1>1, <1>3, <2>3, DoableIs
  <2> QED
    BY <1>3, <1>5, <2>3, <2>4 DEF Shape, Successor
<1> QED
  BY <1>4, <1>5

\* A thread that is given other steps, the first of which can be done.
LEMMA Given ==
    ASSUME TypeOK, NEW r \in Requests, NEW q \in Threads, Becomes(r, q),
           q.todo # <<>>, Head(q.todo) \notin DiskSteps, Shape(q)
    PROVE  /\ req'[r] # Idle /\ req'[r] \in Threads /\ Shape(req'[r])
           /\ Place(r)' = Head(q.todo) /\ req'[r].todo = q.todo
<1>1. Doable(q.todo) = q.todo
  BY DoableIs DEF Threads
<1>2. /\ req'[r] # Idle /\ req'[r] \in Threads /\ req'[r].todo = q.todo /\ req'[r].action = q.action
  BY <1>1, BecomesIs
<1> QED
  BY <1>2 DEF Place, Shape

\* The thread that Then leads to.
LEMMA ThenBecomes ==
    ASSUME TypeOK, NEW r \in Requests, req[r] # Idle, NEW steps \in Seq(Steps), Then(r, steps)
    PROVE  \E q \in Threads :
              /\ Becomes(r, q) /\ q.todo = steps \o Tail(req[r].todo) /\ q.armed = FALSE
              /\ q.case = req[r].case /\ q.action = req[r].action /\ q.from = req[r].from
              /\ q.seen = req[r].seen /\ q.passed = req[r].passed
<1> DEFINE q == [req[r] EXCEPT !.todo = steps \o Tail(@), !.armed = FALSE, !.row = NoRow]
<1>1. req[r] \in Threads /\ Tail(req[r].todo) \in Seq(Steps)
  BY Served
<1>2. steps \o Tail(req[r].todo) \in Seq(Steps)
  BY <1>1, ConcatProperties
<1>3. /\ q \in Threads /\ q.todo = steps \o Tail(req[r].todo) /\ q.armed = FALSE
      /\ q.case = req[r].case /\ q.action = req[r].action /\ q.from = req[r].from
      /\ q.seen = req[r].seen /\ q.passed = req[r].passed
  BY <1>1, <1>2, NoRowTyped DEF Threads
<1>4. Becomes(r, q)
  BY DEF Then
<1> QED
  BY <1>3, <1>4

\* Nothing that a handler has to write comes next, so that it goes on for sure.
LEMMA AdvanceFirm ==
    ASSUME TypeOK, Shapes, NEW r \in Requests, req[r] # Idle, NEW q \in Threads, Becomes(r, q),
           q.todo = Tail(req[r].todo), q.action = req[r].action, q.action # "declare",
           Place(r) \notin Ends, \A t \in DiskSteps : ~Follows(Place(r), t)
    PROVE  req'[r] # Idle /\ Follows(Place(r), Place(r)')
<1>1. /\ req[r].todo \in Seq(Steps) /\ req[r].todo # <<>> /\ q.todo \in Seq(Steps)
      /\ Place(r) = Head(req[r].todo) /\ Chain(req[r].todo)
  BY Served DEF Place, Shapes, Shape
<1>2. Chain(q.todo) /\ Follows(Place(r), Head(q.todo))
  BY <1>1, ChainTail
<1>3. q.todo # <<>> /\ Head(q.todo) \notin DiskSteps
  BY <1>2 DEF Chain
<1>4. Shape(q)
  BY <1>2 DEF Shape
<1> QED
  BY <1>2, <1>3, <1>4, Given

\* Thread r comes to one of the places, for the request that it serves, or is done.
Moves(r, places) ==
    /\ req' \in [Requests -> {Idle} \cup Threads]
    /\ \A s \in Requests \ {r} : req'[s] = req[s]
    /\ \/ req'[r] = Idle
       \/ /\ req'[r] # Idle /\ req'[r] \in Threads /\ Shape(req'[r]) /\ Place(r)' \in places
          /\ req'[r].case = req[r].case /\ req'[r].action = req[r].action /\ req'[r].armed = FALSE

\* It comes to that place and nowhere else.
Comes(r, place) == Moves(r, {place}) /\ req'[r] # Idle

\* The places that come after the one it is at.
After(r) ==
    IF req[r].action = "declare" THEN {"case"} ELSE {t \in Steps : Successor(Place(r), t)}

Forgets(r) == req'[r] # Idle => Remembers(req'[r], req[r].from, req[r].seen, req[r].passed)

\* No step that needs what the thread remembers is new.
NoNew(r) ==
    req'[r] # Idle => \A S \in SUBSET Needing : In(req'[r].todo, S) => In(req[r].todo, S)

LEMMA ThenMoves ==
    ASSUME TypeOK, Shapes, NEW r \in Requests, req[r] # Idle, Then(r, <<>>)
    PROVE  /\ Moves(r, After(r)) /\ Forgets(r) /\ NoNew(r)
           /\ req'[r] # Idle => /\ Tail(req[r].todo) # <<>>
                                /\ req'[r].todo \in {Tail(req[r].todo), Tail(Tail(req[r].todo))}
           /\ DiskWorks => IF Tail(req[r].todo) = <<>> THEN req'[r] = Idle
                           ELSE req'[r] # Idle /\ req'[r].todo = Tail(req[r].todo)
           /\ /\ req[r].action # "declare" /\ Place(r) \notin Ends
              /\ \A t \in DiskSteps : ~Follows(Place(r), t)
              => req'[r] # Idle /\ Follows(Place(r), Place(r)')
<1>1. /\ req[r] \in Threads /\ Tail(req[r].todo) \in Seq(Steps) /\ <<>> \in Seq(Steps)
  BY Served, EmptySeq
<1>2. PICK q \in Threads :
        /\ Becomes(r, q) /\ q.todo = <<>> \o Tail(req[r].todo) /\ q.armed = FALSE
        /\ q.case = req[r].case /\ q.action = req[r].action /\ q.from = req[r].from
        /\ q.seen = req[r].seen /\ q.passed = req[r].passed
  BY <1>1, ThenBecomes
<1>3. q.todo = Tail(req[r].todo)
  BY <1>1, <1>2, ConcatEmptySeq
<1>4. req'[r] # Idle => /\ req'[r] \in Threads /\ req'[r].case = q.case /\ req'[r].action = q.action
                        /\ req'[r].armed = q.armed
                        /\ Remembers(req'[r], q.from, q.seen, q.passed)
  BY <1>2, BecomesIs
<1>5. req' \in [Requests -> {Idle} \cup Threads] /\ \A s \in Requests \ {r} : req'[s] = req[s]
  BY <1>2, BecomesIs
<1>6. ASSUME req'[r] # Idle
      PROVE  /\ Shape(req'[r])
             /\ req[r].action # "declare" => Successor(Place(r), Place(r)')
             /\ req[r].action = "declare" => Place(r)' = "case"
  BY <1>2, <1>3, <1>6, Advance
<1>7. req'[r] # Idle => Place(r)' \in Steps
  BY <1>6 DEF Successor, Follows, Steps, DiskSteps, States
<1>a. ASSUME req'[r] # Idle PROVE Place(r)' \in After(r)
  BY <1>6, <1>7, <1>a DEF After
<1>8. Moves(r, After(r))
  BY <1>2, <1>4, <1>5, <1>6, <1>a DEF Moves
<1>9. Forgets(r)
  BY <1>2, <1>4 DEF Forgets
<1>10. /\ req[r].action # "declare" /\ Place(r) \notin Ends
       /\ \A t \in DiskSteps : ~Follows(Place(r), t)
       => req'[r] # Idle /\ Follows(Place(r), Place(r)')
  BY <1>2, <1>3, AdvanceFirm
<1>11. /\ Doable(q.todo) = <<>> => req'[r] = Idle
       /\ Doable(q.todo) # <<>> => req'[r] # Idle /\ req'[r].todo = Doable(q.todo)
  BY <1>2, BecomesIs
<1>12. /\ req'[r] # Idle => /\ Tail(req[r].todo) # <<>>
                             /\ req'[r].todo \in {Tail(req[r].todo), Tail(Tail(req[r].todo))}
       /\ DiskWorks => IF Tail(req[r].todo) = <<>> THEN req'[r] = Idle
                       ELSE req'[r] # Idle /\ req'[r].todo = Tail(req[r].todo)
  BY <1>1, <1>3, <1>11, DoableIs
<1>13. NoNew(r)
  <2>1. \A S : In(Tail(req[r].todo), S) => In(req[r].todo, S)
    BY Served, InParts
  <2>2. Tail(req[r].todo) # <<>> =>
           \A S : In(Tail(Tail(req[r].todo)), S) => In(Tail(req[r].todo), S)
    BY <1>1, InParts
  <2> QED
    BY <1>12, <2>1, <2>2 DEF NoNew
<1> QED
  BY <1>8, <1>9, <1>10, <1>12, <1>13

LEMMA ReturnMoves ==
    ASSUME TypeOK, NEW r \in Requests, NEW places, Return(r)
    PROVE  Moves(r, places) /\ Forgets(r) /\ NoNew(r) /\ req'[r] = Idle
BY DEF Return, Moves, Forgets, NoNew, TypeOK, Threads

\* Steps that are put before the rest, or instead of it.
LEMMA GivenMoves ==
    ASSUME TypeOK, NEW r \in Requests, req[r] # Idle, NEW q \in Threads, Becomes(r, q),
           q.case = req[r].case, q.action = req[r].action, q.action # "declare", q.armed = FALSE,
           Chain(q.todo), Head(q.todo) \notin DiskSteps
    PROVE  /\ Comes(r, Head(q.todo)) /\ req'[r].todo = q.todo
           /\ Remembers(req'[r], q.from, q.seen, q.passed)
<1>1. q.todo # <<>> /\ Shape(q)
  BY DEF Chain, Shape
<1>2. /\ req'[r] # Idle /\ req'[r] \in Threads /\ Shape(req'[r])
      /\ Place(r)' = Head(q.todo) /\ req'[r].todo = q.todo
  BY <1>1, Given
<1>3. Doable(q.todo) # <<>>
  BY <1>2, BecomesIs
<1>4. /\ req' \in [Requests -> {Idle} \cup Threads] /\ \A s \in Requests \ {r} : req'[s] = req[s]
      /\ req'[r].case = q.case /\ req'[r].action = q.action /\ req'[r].armed = q.armed
      /\ Remembers(req'[r], q.from, q.seen, q.passed)
  BY <1>3, BecomesIs
<1> QED
  BY <1>2, <1>4 DEF Comes, Moves

-----------------------------------------------------------------------------
\* Where each step of a handler leads.

\* Steps that are put before what is left of a handler.
LEMMA Put ==
    ASSUME TypeOK, Shapes, NEW r \in Requests, req[r] # Idle, req[r].action # "declare",
           NEW steps \in Seq(Steps), Then(r, steps), Chain(steps \o Tail(req[r].todo)),
           Head(steps \o Tail(req[r].todo)) \notin DiskSteps
    PROVE  /\ Comes(r, Head(steps \o Tail(req[r].todo))) /\ Forgets(r)
           /\ req'[r].todo = steps \o Tail(req[r].todo)
<1>1. PICK q \in Threads :
        /\ Becomes(r, q) /\ q.todo = steps \o Tail(req[r].todo) /\ q.armed = FALSE
        /\ q.case = req[r].case /\ q.action = req[r].action /\ q.from = req[r].from
        /\ q.seen = req[r].seen /\ q.passed = req[r].passed
  BY ThenBecomes
<1>2. /\ Comes(r, Head(q.todo)) /\ req'[r].todo = q.todo
      /\ Remembers(req'[r], q.from, q.seen, q.passed)
  BY <1>1, GivenMoves
<1> QED
  BY <1>1, <1>2 DEF Forgets

LEMMA PutNothingNew ==
    ASSUME TypeOK, NEW r \in Requests, req[r] # Idle, NEW steps \in Seq(Steps),
           ~In(steps, Needing), req'[r].todo = steps \o Tail(req[r].todo)
    PROVE  NoNew(r)
<1>1. req[r].todo \in Seq(Steps) /\ req[r].todo # <<>> /\ Tail(req[r].todo) \in Seq(Steps)
  BY Served
<1>2. ASSUME NEW S \in SUBSET Needing, In(req'[r].todo, S) PROVE In(req[r].todo, S)
  <2>0. In(steps \o Tail(req[r].todo), S)
    BY <1>2
  <2>1. In(steps, S) \/ In(Tail(req[r].todo), S)
    BY <1>1, <2>0, InConcat
  <2>2. ~In(steps, S)
    BY DEF In
  <2> QED
    BY <1>1, <2>1, <2>2, InParts
<1> QED
  BY <1>2 DEF NoNew

\* The step that a thread in execute() is at, and what is left after it.
LEMMA InExecute ==
    ASSUME TypeOK, Shapes, NEW r \in Requests, NEW step, At(r, step),
           step \in Steps \ (States \cup {"case"})
    PROVE  /\ req[r] # Idle /\ req[r].action # "declare" /\ Chain(req[r].todo) /\ Place(r) = step
           /\ step \in Ends => Tail(req[r].todo) = <<>>
           /\ step \notin Ends => /\ Chain(Tail(req[r].todo))
                                  /\ Follows(step, Head(Tail(req[r].todo)))
<1>1. req[r] # Idle /\ Place(r) = step /\ req[r].todo \in Seq(Steps) /\ req[r].todo # <<>>
  BY AtServed, Served
<1>2. ASSUME req[r].action = "declare" PROVE Place(r) \in States \cup {"case"}
  <2>1. req[r].todo = <<"case">> \/ \E to \in States : req[r].todo = <<to, "case">>
    BY <1>1, <1>2 DEF Shapes, Shape
  <2> QED
    BY <2>1 DEF Place
<1>3. req[r].action # "declare" /\ Chain(req[r].todo)
  BY <1>1, <1>2 DEF Shapes, Shape
<1> QED
  BY <1>1, <1>3, ChainTail DEF Place

LEMMA ProposeMoves ==
    ASSUME TypeOK, Shapes, NEW r \in Requests, Propose(r)
    PROVE  /\ req[r].action # "declare" /\ req[r] # Idle /\ Place(r) = "propose" /\ Forgets(r) /\ NoNew(r)
           /\ IF StateOf(r) = "INVESTIGATING" THEN Comes(r, "RECOVERY_PROPOSED") ELSE Moves(r, {"authorize"})
<1> DEFINE rest == Tail(req[r].todo)
<1>1. /\ req[r] # Idle /\ req[r].action # "declare" /\ Place(r) = "propose"
      /\ Chain(rest) /\ Head(rest) = "authorize" /\ rest \in Seq(Steps)
  <2>1. At(r, "propose") /\ "propose" \in Steps \ (States \cup {"case"}) /\ "propose" \notin Ends
    BY DEF Propose, MoveOnFrom, Steps, States, Ends
  <2>2. /\ req[r] # Idle /\ req[r].action # "declare" /\ Place(r) = "propose"
        /\ Chain(rest) /\ Follows("propose", Head(rest))
    BY <2>1, InExecute
  <2> QED
    BY <2>2 DEF Follows, Chain
<1>2. CASE StateOf(r) = "INVESTIGATING"
  <2> DEFINE all == <<"RECOVERY_PROPOSED", "case">> \o rest
  <2>1. Chain(<<"case">> \o rest)
    BY <1>1, ChainCons DEF Follows, Steps, DiskSteps
  <2>2. Head(<<"case">> \o rest) = "case" /\ <<"case">> \o rest \in Seq(Steps)
    BY <1>1, Cons DEF Steps, DiskSteps
  <2>3. Chain(<<"RECOVERY_PROPOSED">> \o (<<"case">> \o rest))
    BY <2>1, <2>2, ChainCons DEF Follows, Steps, States
  <2>4. all = <<"RECOVERY_PROPOSED">> \o (<<"case">> \o rest)
    <3>1. <<"RECOVERY_PROPOSED">> \in Seq(Steps) /\ <<"case">> \in Seq(Steps)
      BY DEF Steps, States, DiskSteps
    <3>2. <<"RECOVERY_PROPOSED", "case">> = <<"RECOVERY_PROPOSED">> \o <<"case">>
      OBVIOUS
    <3> QED
      BY <1>1, <3>1, <3>2, ConcatAssociative
  <2>5. Head(all) = "RECOVERY_PROPOSED"
    BY <2>2, <2>4, Cons DEF Steps, States
  <2>6. Then(r, <<"RECOVERY_PROPOSED", "case">>) /\ <<"RECOVERY_PROPOSED", "case">> \in Seq(Steps)
    BY <1>2 DEF Propose, MoveOnFrom, Steps, States, DiskSteps
  <2>7. Comes(r, Head(all)) /\ Forgets(r) /\ req'[r].todo = all
    BY <1>1, <2>3, <2>4, <2>5, <2>6, Put DEF DiskSteps
  <2>8. ~In(<<"RECOVERY_PROPOSED", "case">>, Needing)
    BY DEF In, Needing
  <2>9. NoNew(r)
    BY <1>1, <2>6, <2>7, <2>8, PutNothingNew
  <2> QED
    BY <1>1, <1>2, <2>5, <2>7, <2>9
<1>3. CASE StateOf(r) # "INVESTIGATING"
  <2>1. Then(r, <<>>)
    BY <1>3 DEF Propose, MoveOnFrom
  <2>2. Moves(r, After(r)) /\ Forgets(r) /\ NoNew(r)
    BY <1>1, <2>1, ThenMoves
  <2>3. After(r) = {"authorize"}
    BY <1>1 DEF After, Successor, Follows, Steps
  <2> QED
    BY <1>1, <1>3, <2>2, <2>3
<1> QED
  BY <1>2, <1>3

\* A step at the head of what is left.
LEMMA PutOne ==
    ASSUME TypeOK, Shapes, NEW r \in Requests, req[r] # Idle, req[r].action # "declare",
           NEW s \in Steps \ (DiskSteps \cup Needing), Then(r, <<s>>),
           Chain(<<s>> \o Tail(req[r].todo))
    PROVE  Comes(r, s) /\ Forgets(r) /\ NoNew(r)
<1>1. Head(<<s>> \o Tail(req[r].todo)) = s /\ <<s>> \in Seq(Steps)
  BY Served, Cons
<1>2. ~In(<<s>>, Needing)
  BY DEF In
<1> QED
  BY <1>1, <1>2, Put, PutNothingNew

LEMMA AuthorizeMoves ==
    ASSUME TypeOK, Shapes, NEW r \in Requests, Authorize(r)
    PROVE  /\ req[r].action # "declare" /\ req[r] # Idle /\ Place(r) = "authorize" /\ Forgets(r) /\ NoNew(r)
           /\ IF StateOf(r) = "RECOVERY_PROPOSED" THEN Comes(r, "AUTHORIZED") ELSE Moves(r, {"gate"})
<1> DEFINE rest == Tail(req[r].todo)
<1>1. /\ req[r] # Idle /\ req[r].action # "declare" /\ Place(r) = "authorize"
      /\ Chain(rest) /\ Head(rest) = "gate" /\ rest \in Seq(Steps)
  <2>1. At(r, "authorize") /\ "authorize" \in Steps \ (States \cup {"case"}) /\ "authorize" \notin Ends
    BY DEF Authorize, MoveOnFrom, Steps, States, Ends
  <2>2. /\ req[r] # Idle /\ req[r].action # "declare" /\ Place(r) = "authorize"
        /\ Chain(rest) /\ Follows("authorize", Head(rest))
    BY <2>1, InExecute
  <2> QED
    BY <2>2 DEF Follows, Chain
<1>2. CASE StateOf(r) = "RECOVERY_PROPOSED"
  <2>1. Chain(<<"AUTHORIZED">> \o rest)
    BY <1>1, ChainCons DEF Follows, Steps, States
  <2>2. Then(r, <<"AUTHORIZED">>)
    BY <1>2 DEF Authorize, MoveOnFrom
  <2> QED
    BY <1>1, <1>2, <2>1, <2>2, PutOne DEF Steps, States, DiskSteps, Needing
<1>3. CASE StateOf(r) # "RECOVERY_PROPOSED"
  <2>1. Then(r, <<>>)
    BY <1>3 DEF Authorize, MoveOnFrom
  <2>2. Moves(r, After(r)) /\ Forgets(r) /\ NoNew(r)
    BY <1>1, <2>1, ThenMoves
  <2>3. After(r) = {"gate"}
    BY <1>1 DEF After, Successor, Follows, Steps
  <2> QED
    BY <1>1, <1>3, <2>2, <2>3
<1> QED
  BY <1>2, <1>3

LEMMA BlockMoves ==
    ASSUME TypeOK, Shapes, NEW r \in Requests, Block(r)
    PROVE  /\ req[r].action # "declare" /\ req[r] # Idle /\ Place(r) = "block" /\ Forgets(r) /\ NoNew(r)
           /\ IF StateOf(r) = "AUTHORIZED" THEN Comes(r, "BLOCKED") ELSE Moves(r, {"case", "authorize"})
<1> DEFINE rest == Tail(req[r].todo)
<1>1. /\ req[r] # Idle /\ req[r].action # "declare" /\ Place(r) = "block"
      /\ Chain(rest) /\ Head(rest) = "case" /\ rest \in Seq(Steps)
  <2>1. At(r, "block") /\ "block" \in Steps \ (States \cup {"case"}) /\ "block" \notin Ends
    BY DEF Block, MoveOnFrom, Steps, States, Ends
  <2>2. /\ req[r] # Idle /\ req[r].action # "declare" /\ Place(r) = "block"
        /\ Chain(rest) /\ Follows("block", Head(rest))
    BY <2>1, InExecute
  <2> QED
    BY <2>2 DEF Follows, Chain
<1>2. CASE StateOf(r) = "AUTHORIZED"
  <2>1. Chain(<<"BLOCKED">> \o rest)
    BY <1>1, ChainCons DEF Follows, Steps, States
  <2>2. Then(r, <<"BLOCKED">>)
    BY <1>2 DEF Block, MoveOnFrom
  <2> QED
    BY <1>1, <1>2, <2>1, <2>2, PutOne DEF Steps, States, DiskSteps, Needing
<1>3. CASE StateOf(r) # "AUTHORIZED"
  <2>1. Then(r, <<>>)
    BY <1>3 DEF Block, MoveOnFrom
  <2>2. Moves(r, After(r)) /\ Forgets(r) /\ NoNew(r)
    BY <1>1, <2>1, ThenMoves
  <2>3. After(r) = {"case", "authorize"}
    BY <1>1 DEF After, Successor, Follows, Steps, DiskSteps
  <2> QED
    BY <1>1, <1>3, <2>2, <2>3
<1> QED
  BY <1>2, <1>3

\* The steps that everything is put in the place of.
LEMMA FixedChains ==
    /\ Chain(<<"dispatch">>) /\ Chain(<<"refused">>)
    /\ Chain(<<"block", "case", "cap", "refusal">>)
    /\ Chain(<<"propose", "authorize", "gate">>)
    /\ Chain(<<"INVESTIGATING", "case", "investigated">>)
    /\ Chain(AfterDispatch) /\ Head(AfterDispatch) = "mark"
    /\ Chain(<<"deliver", "credit">> \o AfterDispatch)
    /\ Head(<<"deliver", "credit">> \o AfterDispatch) = "deliver"
<1>1. Chain(<<"dispatch">>) /\ Chain(<<"refused">>)
  BY DEF Chain, Steps, Ends
<1>2. Chain(<<"block", "case", "cap", "refusal">>)
  BY DEF Chain, Steps, DiskSteps, Ends, Follows
<1>3. Chain(<<"propose", "authorize", "gate">>)
  BY DEF Chain, Steps, Ends, Follows
<1>4. Chain(<<"INVESTIGATING", "case", "investigated">>)
  BY DEF Chain, Steps, States, DiskSteps, Ends, Follows
<1>5. Chain(AfterDispatch)
  <2> DEFINE t == AfterDispatch
  <2>1. t \in Seq(Steps) /\ t # <<>> /\ Len(t) = 12
    BY DEF AfterDispatch, Steps, States, DiskSteps
  <2>2. /\ t[1] = "mark" /\ t[2] = "count" /\ t[3] = "counted" /\ t[4] = "EXECUTED"
        /\ t[5] = "VERIFYING" /\ t[6] = "verify" /\ t[7] = "case" /\ t[8] = "cap"
        /\ t[9] = "executed" /\ t[10] = "verified" /\ t[11] = "verdict" /\ t[12] = "escalation"
    BY DEF AfterDispatch
  <2> HIDE DEF t
  <2>3. /\ Follows(t[1], t[2]) /\ Follows(t[2], t[3]) /\ Follows(t[3], t[4])
        /\ Follows(t[4], t[5]) /\ Follows(t[5], t[6]) /\ Follows(t[6], t[7])
        /\ Follows(t[7], t[8]) /\ Follows(t[8], t[9]) /\ Follows(t[9], t[10])
        /\ Follows(t[10], t[11]) /\ Follows(t[11], t[12])
    BY <2>2 DEF Follows
  <2>4. \A i \in 1..11 : i \in {1, 2, 3, 4, 5, 6, 7, 8, 9, 10, 11}
    OBVIOUS
  <2>5. \A i \in {1, 2, 3, 4, 5, 6, 7, 8, 9, 10, 11} : Follows(t[i], t[i + 1])
    BY <2>3
  <2>6. t[Len(t)] \in Ends
    BY <2>1, <2>2 DEF Ends
  <2>7. \A i \in 1..(Len(t) - 1) : Follows(t[i], t[i + 1])
    BY <2>1, <2>4, <2>5
  <2>8. Chain(t)
    BY <2>1, <2>6, <2>7 DEF Chain
  <2> QED
    BY <2>8 DEF t
<1>6. Head(AfterDispatch) = "mark"
  BY DEF AfterDispatch
<1>7. /\ Chain(<<"deliver", "credit">> \o AfterDispatch)
      /\ Head(<<"deliver", "credit">> \o AfterDispatch) = "deliver"
  <2> HIDE DEF AfterDispatch
  <2>1. Chain(<<"credit">> \o AfterDispatch)
    BY <1>5, <1>6, ChainCons DEF Follows, Steps
  <2>2. AfterDispatch \in Seq(Steps) /\ <<"credit">> \o AfterDispatch \in Seq(Steps)
        /\ Head(<<"credit">> \o AfterDispatch) = "credit"
    BY <1>5, Cons DEF Chain, Steps
  <2>3. Chain(<<"deliver">> \o (<<"credit">> \o AfterDispatch))
    BY <2>1, <2>2, ChainCons DEF Follows, Steps
  <2>4. Head(<<"deliver">> \o (<<"credit">> \o AfterDispatch)) = "deliver"
    BY <2>2, Cons DEF Steps
  <2>5. /\ <<"deliver">> \in Seq(Steps) /\ <<"credit">> \in Seq(Steps)
        /\ <<"deliver", "credit">> = <<"deliver">> \o <<"credit">>
    BY DEF Steps
  <2>6. <<"deliver", "credit">> \o AfterDispatch = <<"deliver">> \o (<<"credit">> \o AfterDispatch)
    BY <2>2, <2>5, ConcatAssociative
  <2> QED
    BY <2>3, <2>4, <2>6
<1> QED
  BY <1>1, <1>2, <1>3, <1>4, <1>5, <1>6, <1>7

LEMMA Alone ==
    ASSUME TypeOK, Shapes, NEW r \in Requests, req[r] # Idle, req[r].action # "declare",
           Tail(req[r].todo) = <<>>, NEW steps, Chain(steps), Then(r, steps),
           Head(steps) \notin DiskSteps
    PROVE  Comes(r, Head(steps)) /\ Forgets(r) /\ req'[r].todo = steps
<1>1. steps \in Seq(Steps) /\ steps \o Tail(req[r].todo) = steps
  BY ConcatEmptySeq DEF Chain
<1> QED
  BY <1>1, Put

LEMMA GateMoves ==
    ASSUME TypeOK, Shapes, NEW r \in Requests, Gate(r)
    PROVE  /\ req[r].action # "declare" /\ req[r] # Idle /\ Place(r) = "gate" /\ Forgets(r) /\ NoNew(r)
           /\ \/ /\ CaseOf(r) \notin expired /\ Permitted(kind[CaseOf(r)], req[r].action)
                 /\ KeyOf(r) \notin executed /\ Comes(r, "dispatch")
              \/ Comes(r, "refused")
<1>1. /\ req[r] # Idle /\ req[r].action # "declare" /\ Place(r) = "gate" /\ Tail(req[r].todo) = <<>>
  BY InExecute DEF Gate, Steps, States, Ends, DiskSteps
<1>2. ASSUME NEW s \in {"dispatch", "refused"}, Then(r, <<s>>)
      PROVE  Comes(r, s) /\ Forgets(r) /\ NoNew(r)
  <2>1. Chain(<<s>>) /\ Head(<<s>>) = s
    BY FixedChains
  <2>2. Comes(r, s) /\ Forgets(r) /\ req'[r].todo = <<s>>
    BY <1>1, <1>2, <2>1, Alone DEF DiskSteps
  <2>3. ~In(<<s>>, Needing)
    BY DEF In, Needing
  <2> QED
    BY <2>2, <2>3 DEF NoNew, In
<1> QED
  BY <1>1, <1>2 DEF Gate

LEMMA DispatchMoves ==
    ASSUME TypeOK, Shapes, NEW r \in Requests, Dispatch(r)
    PROVE  /\ req[r].action # "declare" /\ req[r] # Idle /\ Place(r) = "dispatch" /\ Forgets(r)
           /\ \/ /\ req[r].action \in Mutations /\ reconciled' \in {reconciled, TRUE}
                 /\ effects' = [effects EXCEPT ![KeyOf(r)] = @ + 1]
                 /\ \/ Comes(r, "mark") /\ req'[r].todo = AfterDispatch
                    \/ Comes(r, "deliver") /\ req'[r].todo = <<"deliver", "credit">> \o AfterDispatch
              \/ /\ req[r].action \notin Mutations /\ UNCHANGED <<reconciled, effects>>
                 /\ Comes(r, "refused") /\ NoNew(r)
<1>1. /\ req[r] # Idle /\ req[r].action # "declare" /\ Place(r) = "dispatch" /\ Tail(req[r].todo) = <<>>
  BY InExecute DEF Dispatch, Steps, States, Ends, DiskSteps
<1>2. ASSUME Then(r, AfterDispatch)
      PROVE  Comes(r, "mark") /\ Forgets(r) /\ req'[r].todo = AfterDispatch
  BY <1>1, <1>2, FixedChains, Alone DEF DiskSteps
<1>4. ASSUME Then(r, <<"deliver", "credit">> \o AfterDispatch)
      PROVE  /\ Comes(r, "deliver") /\ Forgets(r)
             /\ req'[r].todo = <<"deliver", "credit">> \o AfterDispatch
  <2> DEFINE steps == <<"deliver", "credit">> \o AfterDispatch
  <2>1. Chain(steps) /\ Head(steps) = "deliver"
    BY FixedChains
  <2>2. Then(r, steps)
    BY <1>4
  <2> HIDE DEF steps
  <2>3. Comes(r, "deliver") /\ Forgets(r) /\ req'[r].todo = steps
    BY <1>1, <2>1, <2>2, Alone DEF DiskSteps
  <2> QED
    BY <2>3 DEF steps
<1>3. ASSUME Then(r, <<"refused">>)
      PROVE  Comes(r, "refused") /\ Forgets(r) /\ NoNew(r)
  <2>1. Chain(<<"refused">>) /\ Head(<<"refused">>) = "refused"
    BY FixedChains
  <2>2. Comes(r, "refused") /\ Forgets(r) /\ req'[r].todo = <<"refused">>
    BY <1>1, <1>3, <2>1, Alone DEF DiskSteps
  <2>3. ~In(<<"refused">>, Needing)
    BY DEF In, Needing
  <2> QED
    BY <2>2, <2>3 DEF NoNew, In
<1> HIDE DEF AfterDispatch
<1>5. CASE ReplayWebhook(r)
  <2>1. /\ req[r].action \in Mutations /\ reconciled' = reconciled
        /\ effects' = [effects EXCEPT ![KeyOf(r)] = @ + 1]
        /\ Then(r, AfterDispatch) \/ Then(r, <<"deliver", "credit">> \o AfterDispatch)
    BY <1>5 DEF ReplayWebhook, Mutations
  <2> QED
    BY <1>1, <1>2, <1>4, <2>1
<1>6. CASE SyncCustomer(r)
  BY <1>1, <1>2, <1>6 DEF SyncCustomer, Mutations
<1>7. CASE Unserved(r)
  BY <1>1, <1>3, <1>7 DEF Unserved
<1> QED
  BY <1>5, <1>6, <1>7 DEF Dispatch

\* The steps that nothing is put before.
LEMMA PlainMoves ==
    ASSUME TypeOK, Shapes, NEW r \in Requests, NEW step \in Steps, At(r, step), Then(r, <<>>)
    PROVE  /\ req[r] # Idle /\ Place(r) = step /\ Moves(r, After(r)) /\ Forgets(r) /\ NoNew(r)
           /\ req[r].action # "declare" =>
                /\ step = "deliver" => Comes(r, "credit")
                /\ step = "credit" => Comes(r, "mark")
                /\ step = "mark" => Comes(r, "count")
                /\ step = "count" => Comes(r, "counted")
                /\ step = "counted" => Comes(r, "EXECUTED")
                /\ step = "EXECUTED" => Comes(r, "VERIFYING")
                /\ step = "VERIFYING" => Comes(r, "verify")
                /\ step = "AUTHORIZED" => Comes(r, "gate")
                /\ step \in {"RESOLVED", "INVESTIGATING", "RECOVERY_PROPOSED", "ESCALATED", "BLOCKED"} =>
                      Moves(r, {"case", "authorize"})
<1>1. req[r] # Idle /\ Place(r) = step
  BY AtServed, Served
<1>2. /\ Moves(r, After(r)) /\ Forgets(r) /\ NoNew(r)
      /\ /\ req[r].action # "declare" /\ Place(r) \notin Ends
         /\ \A t \in DiskSteps : ~Follows(Place(r), t)
         => req'[r] # Idle /\ Follows(Place(r), Place(r)')
  BY <1>1, ThenMoves
<1>3. ASSUME req[r].action # "declare",
             step \in {"deliver", "credit", "mark", "count", "counted", "EXECUTED", "VERIFYING",
                       "AUTHORIZED"}
      PROVE  req'[r] # Idle /\ Follows(step, Place(r)')
  BY <1>1, <1>2, <1>3 DEF Follows, DiskSteps, Ends
<1>4. ASSUME req[r].action # "declare", NEW g, req'[r] # Idle, Place(r)' = g
      PROVE  Comes(r, g)
  BY <1>2, <1>4 DEF Comes, Moves
<1>5. ASSUME req[r].action # "declare",
             step \in {"RESOLVED", "INVESTIGATING", "RECOVERY_PROPOSED", "ESCALATED", "BLOCKED"}
      PROVE  After(r) = {"case", "authorize"}
  BY <1>1, <1>5 DEF After, Successor, Follows, Steps, DiskSteps
<1>6. ASSUME req[r].action # "declare" PROVE
                /\ step = "deliver" => Comes(r, "credit")
                /\ step = "credit" => Comes(r, "mark")
                /\ step = "mark" => Comes(r, "count")
                /\ step = "count" => Comes(r, "counted")
                /\ step = "counted" => Comes(r, "EXECUTED")
                /\ step = "EXECUTED" => Comes(r, "VERIFYING")
                /\ step = "VERIFYING" => Comes(r, "verify")
                /\ step = "AUTHORIZED" => Comes(r, "gate")
  BY <1>3, <1>4, <1>6 DEF Follows
<1> QED
  BY <1>1, <1>2, <1>5, <1>6

LEMMA ReadMoves ==
    ASSUME TypeOK, Shapes, NEW r \in Requests, ReadAttempts(r)
    PROVE  /\ req[r].action # "declare" /\ req[r] # Idle /\ Place(r) = "count" /\ Comes(r, "counted")
           /\ Remembers(req'[r], StateOf(r), attempts[CaseOf(r)], req[r].passed)
           /\ req'[r].todo = Tail(req[r].todo)
<1> DEFINE q == [req[r] EXCEPT !.from = StateOf(r), !.seen = attempts[CaseOf(r)], !.todo = Tail(@)]
<1>1. /\ req[r] # Idle /\ req[r].action # "declare" /\ Place(r) = "count"
      /\ Chain(Tail(req[r].todo)) /\ Head(Tail(req[r].todo)) = "counted"
  BY InExecute DEF ReadAttempts, Steps, States, Ends, Follows, DiskSteps
<1>2. /\ req[r] \in Threads /\ Tail(req[r].todo) \in Seq(Steps) /\ CaseOf(r) \in Cases
      /\ req[r].armed = FALSE
  BY <1>1, Served DEF CaseOf, States
<1>3. StateOf(r) \in States /\ attempts[CaseOf(r)] \in Nat
  BY <1>2 DEF TypeOK, StateOf
<1>4. /\ q \in Threads /\ q.todo = Tail(req[r].todo) /\ q.case = req[r].case
      /\ q.action = req[r].action /\ q.armed = FALSE /\ q.seen = attempts[CaseOf(r)]
      /\ q.passed = req[r].passed /\ q.from = StateOf(r)
  BY <1>2, <1>3 DEF Threads
<1>5. Becomes(r, q)
  BY DEF ReadAttempts
<1> HIDE DEF q
<1>6. /\ Comes(r, Head(q.todo)) /\ req'[r].todo = q.todo
      /\ Remembers(req'[r], q.from, q.seen, q.passed)
  BY <1>1, <1>4, <1>5, GivenMoves DEF DiskSteps
<1> QED
  BY <1>1, <1>4, <1>6

LEMMA VerifyMoves ==
    ASSUME TypeOK, Shapes, NEW r \in Requests, Verify(r)
    PROVE  /\ req[r].action # "declare" /\ req[r] # Idle /\ Place(r) = "verify" /\ Comes(r, Verdict(r))
           /\ Verdict(r) \in {"RESOLVED", "ESCALATED", "RECOVERY_PROPOSED"}
           /\ Remembers(req'[r], req[r].from, req[r].seen, Passed(kind[CaseOf(r)]))
           /\ req'[r].todo = <<Verdict(r)>> \o Tail(req[r].todo) /\ NoNew(r)
<1> DEFINE q == [req[r] EXCEPT !.passed = Passed(kind[CaseOf(r)]), !.todo = <<Verdict(r)>> \o Tail(@)]
<1>1. /\ req[r] # Idle /\ req[r].action # "declare" /\ Place(r) = "verify"
      /\ Chain(Tail(req[r].todo)) /\ Head(Tail(req[r].todo)) = "case"
  BY InExecute DEF Verify, Steps, States, Ends, Follows, DiskSteps
<1>2. /\ req[r] \in Threads /\ Tail(req[r].todo) \in Seq(Steps) /\ CaseOf(r) \in Cases
      /\ req[r].armed = FALSE
  BY <1>1, Served DEF CaseOf, States
<1>3. Passed(kind[CaseOf(r)]) \in BOOLEAN
  BY DEF Passed, HasPostconditions
<1>4. Verdict(r) \in {"RESOLVED", "ESCALATED", "RECOVERY_PROPOSED"}
  BY DEF Verdict
<1>5. /\ <<Verdict(r)>> \o Tail(req[r].todo) \in Seq(Steps)
      /\ Head(<<Verdict(r)>> \o Tail(req[r].todo)) = Verdict(r)
  BY <1>2, <1>4, Cons DEF Steps, States
<1>6. Chain(<<Verdict(r)>> \o Tail(req[r].todo))
  BY <1>1, <1>4, ChainCons DEF Steps, States, Follows
<1>7. /\ q \in Threads /\ q.todo = <<Verdict(r)>> \o Tail(req[r].todo) /\ q.case = req[r].case
      /\ q.action = req[r].action /\ q.armed = FALSE /\ q.seen = req[r].seen
      /\ q.passed = Passed(kind[CaseOf(r)]) /\ q.from = req[r].from
  BY <1>2, <1>3, <1>5 DEF Threads
<1>8. Becomes(r, q)
  BY DEF Verify
<1> HIDE DEF q
<1>9. /\ Comes(r, Head(q.todo)) /\ req'[r].todo = q.todo
      /\ Remembers(req'[r], q.from, q.seen, q.passed)
  BY <1>1, <1>4, <1>5, <1>6, <1>7, <1>8, GivenMoves DEF DiskSteps
<1>10. ~In(<<Verdict(r)>>, Needing) /\ <<Verdict(r)>> \in Seq(Steps)
  BY <1>4 DEF In, Needing, Steps, States
<1>11. NoNew(r)
  BY <1>1, <1>7, <1>9, <1>10, PutNothingNew
<1> QED
  BY <1>1, <1>4, <1>5, <1>7, <1>9, <1>11

LEMMA RefusedMoves ==
    ASSUME TypeOK, Shapes, NEW r \in Requests, Refused(r)
    PROVE  /\ req[r].action # "declare" /\ req[r] # Idle /\ Place(r) = "refused" /\ Comes(r, "block")
           /\ Remembers(req'[r], StateOf(r), req[r].seen, req[r].passed)
           /\ req'[r].todo = <<"block", "case", "cap", "refusal">>
<1> DEFINE steps == <<"block", "case", "cap", "refusal">>
           q == [req[r] EXCEPT !.from = StateOf(r), !.todo = steps]
<1>1. /\ req[r] # Idle /\ req[r].action # "declare" /\ Place(r) = "refused"
  BY InExecute DEF Refused, Steps, States, Ends, DiskSteps
<1>2. req[r] \in Threads /\ CaseOf(r) \in Cases /\ req[r].armed = FALSE
  BY <1>1, Served DEF CaseOf, States
<1>3. StateOf(r) \in States
  BY <1>2 DEF TypeOK, StateOf
<1>4. Chain(steps) /\ steps \in Seq(Steps) /\ Head(steps) = "block"
  BY FixedChains DEF Chain
<1>5. Becomes(r, q)
  BY DEF Refused
<1> HIDE DEF steps
<1>6. /\ q \in Threads /\ q.todo = steps /\ q.case = req[r].case /\ q.seen = req[r].seen
      /\ q.action = req[r].action /\ q.armed = FALSE /\ q.passed = req[r].passed /\ q.from = StateOf(r)
  BY <1>2, <1>3, <1>4 DEF Threads
<1> HIDE DEF q
<1>7. /\ Comes(r, Head(q.todo)) /\ req'[r].todo = q.todo
      /\ Remembers(req'[r], q.from, q.seen, q.passed)
  BY <1>1, <1>4, <1>5, <1>6, GivenMoves DEF DiskSteps
<1> QED
  BY <1>1, <1>4, <1>6, <1>7 DEF steps

\* The check of a transition: the thread is armed for it, or its handler is left.
LEMMA CheckMoves ==
    ASSUME TypeOK, NEW r \in Requests, CheckTransition(r)
    PROVE  /\ req[r] # Idle /\ Place(r) \in States
           /\ req' \in [Requests -> {Idle} \cup Threads]
           /\ \A s \in Requests \ {r} : req'[s] = req[s]
           /\ \/ req'[r] = Idle /\ ~CanTransition(StateOf(r), Place(r))
              \/ /\ req'[r] # Idle /\ req'[r] \in Threads /\ req'[r].armed = TRUE
                 /\ CanTransition(StateOf(r), Place(r))
                 /\ req'[r].todo = req[r].todo /\ req'[r].case = req[r].case
                 /\ req'[r].action = req[r].action /\ req'[r].from = req[r].from
                 /\ req'[r].seen = req[r].seen /\ req'[r].passed = req[r].passed
<1>1. req[r] # Idle
  BY AtServed DEF CheckTransition, Moving
<1>2. req[r] \in Threads /\ req[r].todo # <<>> /\ Place(r) \in States
  BY <1>1, Served DEF CheckTransition, Moving
<1>3. req \in [Requests -> {Idle} \cup Threads]
  BY DEF TypeOK, Threads
<1>4. CASE CanTransition(StateOf(r), Place(r))
  <2> DEFINE q == [req[r] EXCEPT !.armed = TRUE]
  <2>1. req' = [req EXCEPT ![r] = q]
    BY <1>4, <1>3 DEF CheckTransition, Place
  <2>2. /\ q \in Threads /\ q.armed = TRUE /\ q.todo = req[r].todo /\ q.case = req[r].case
        /\ q.action = req[r].action /\ q.from = req[r].from
        /\ q.seen = req[r].seen /\ q.passed = req[r].passed
    BY <1>2 DEF Threads
  <2>3. q # Idle
    BY <1>2, <2>2 DEF Idle
  <2> HIDE DEF q
  <2>4. /\ req'[r] = q /\ req' \in [Requests -> {Idle} \cup Threads]
        /\ \A s \in Requests \ {r} : req'[s] = req[s]
    BY <1>3, <2>1, <2>2
  <2> QED
    BY <1>1, <1>2, <1>4, <2>2, <2>3, <2>4
<1>5. CASE ~CanTransition(StateOf(r), Place(r))
  BY <1>1, <1>2, <1>3, <1>5 DEF CheckTransition, Return, Place
<1> QED
  BY <1>4, <1>5

\* The row of a case is built, and nothing else happens.
LEMMA BuildMoves ==
    ASSUME TypeOK, NEW r \in Requests, BuildRow(r)
    PROVE  /\ req[r] # Idle /\ Place(r) = "case" /\ ~req[r].armed
           /\ req' \in [Requests -> {Idle} \cup Threads]
           /\ \A s \in Requests \ {r} : req'[s] = req[s]
           /\ req'[r] # Idle /\ req'[r] \in Threads /\ req'[r].armed = TRUE
           /\ req'[r].row = Row(CaseOf(r))
           /\ req'[r].todo = req[r].todo /\ req'[r].case = req[r].case
           /\ req'[r].action = req[r].action /\ req'[r].from = req[r].from
           /\ req'[r].seen = req[r].seen /\ req'[r].passed = req[r].passed
           /\ UNCHANGED <<caseVars, worldVars, diskVars, lost>>
<1> DEFINE q == [req[r] EXCEPT !.armed = TRUE, !.row = Row(CaseOf(r))]
<1>1. req[r] # Idle
  BY AtServed DEF BuildRow
<1>2. req[r] \in Threads /\ req[r].todo # <<>> /\ Place(r) = "case" /\ CaseOf(r) \in Cases
  BY <1>1, Served DEF BuildRow, CaseOf
<1>3. req \in [Requests -> {Idle} \cup Threads]
  BY DEF TypeOK, Threads
<1>4. Row(CaseOf(r)) \in Rows
  BY <1>2 DEF Row, Rows, TypeOK
<1>5. req' = [req EXCEPT ![r] = q]
  BY <1>3 DEF BuildRow
<1>6. /\ q \in Threads /\ q.armed = TRUE /\ q.row = Row(CaseOf(r)) /\ q.todo = req[r].todo
      /\ q.case = req[r].case /\ q.action = req[r].action /\ q.from = req[r].from
      /\ q.seen = req[r].seen /\ q.passed = req[r].passed
  BY <1>2, <1>4 DEF Threads
<1>7. q # Idle
  BY <1>2, <1>6 DEF Idle
<1> HIDE DEF q
<1>8. /\ req'[r] = q /\ req' \in [Requests -> {Idle} \cup Threads]
      /\ \A s \in Requests \ {r} : req'[s] = req[s]
  BY <1>3, <1>5, <1>6
<1> QED
  BY <1>1, <1>2, <1>6, <1>7, <1>8 DEF BuildRow

\* A request that is accepted.
Starts(r, c, action, place) ==
    /\ req[r] = Idle /\ kind[c] # "absent" /\ c \notin lost
    /\ req' \in [Requests -> {Idle} \cup Threads]
    /\ \A s \in Requests \ {r} : req'[s] = req[s]
    /\ req'[r] # Idle /\ req'[r] \in Threads /\ Shape(req'[r]) /\ Place(r)' = place
    /\ req'[r].case = c /\ req'[r].action = action /\ req'[r].armed = FALSE
    /\ Remembers(req'[r], state[c], 0, FALSE)

LEMMA AcceptStarts ==
    ASSUME TypeOK, NEW r \in Requests, NEW c \in Cases, NEW action \in Asked \cup {"none", "declare"},
           NEW steps \in Seq(Steps), NEW endpoint, Accept(r, endpoint, c, action, steps),
           Shape(Serving(c, action, state[c], steps)), steps # <<>>, Head(steps) \notin DiskSteps
    PROVE  Starts(r, c, action, Head(steps)) /\ req'[r].todo = steps
<1> DEFINE q == Serving(c, action, state[c], steps)
<1>1. /\ q \in Threads /\ q.todo = steps /\ q.case = c /\ q.action = action /\ q.armed = FALSE
      /\ q.passed = FALSE /\ q.seen = 0 /\ q.from = state[c]
  BY NoRowTyped DEF Serving, Threads, TypeOK
<1>2. Becomes(r, q) /\ Shape(q)
  BY DEF Accept
<1> HIDE DEF q
<1>3. /\ req'[r] # Idle /\ req'[r] \in Threads /\ Shape(req'[r])
      /\ Place(r)' = Head(q.todo) /\ req'[r].todo = q.todo
  BY <1>1, <1>2, Given
<1>4. Doable(q.todo) # <<>>
  BY <1>1, <1>2, <1>3, BecomesIs
<1>5. /\ req' \in [Requests -> {Idle} \cup Threads] /\ \A s \in Requests \ {r} : req'[s] = req[s]
      /\ req'[r].case = q.case /\ req'[r].action = q.action /\ req'[r].armed = q.armed
      /\ Remembers(req'[r], q.from, q.seen, q.passed)
  BY <1>1, <1>2, <1>4, BecomesIs
<1> QED
  BY <1>1, <1>3, <1>5 DEF Starts, Accept

LEMMA ReceiveStarts ==
    ASSUME TypeOK, NEW r \in Requests, Receive(r)
    PROVE  \E c \in Cases :
              \/ Starts(r, c, "none", "INVESTIGATING") /\ Investigate(r, c)
                    /\ req'[r].todo = <<"INVESTIGATING", "case", "investigated">>
              \/ \E to \in States : Starts(r, c, "declare", to) /\ Transition(r, c, to)
              \/ \E action \in Asked : Starts(r, c, action, "propose") /\ Execute(r, c, action)
                    /\ req'[r].todo = <<"propose", "authorize", "gate">>
<1>1. ASSUME NEW c \in Cases, Investigate(r, c)
      PROVE  Starts(r, c, "none", "INVESTIGATING")
                /\ req'[r].todo = <<"INVESTIGATING", "case", "investigated">>
  <2> DEFINE steps == <<"INVESTIGATING", "case", "investigated">>
  <2>1. Chain(steps) /\ Head(steps) = "INVESTIGATING" /\ steps # <<>> /\ steps \in Seq(Steps)
    BY FixedChains DEF Chain
  <2> HIDE DEF steps
  <2>2. Shape(Serving(c, "none", state[c], steps))
    BY <2>1 DEF Shape, Serving
  <2>3. Accept(r, "investigate", c, "none", steps)
    BY <1>1 DEF Investigate, steps
  <2>4. Starts(r, c, "none", Head(steps)) /\ req'[r].todo = steps
    BY <2>1, <2>2, <2>3, AcceptStarts DEF DiskSteps
  <2> QED
    BY <2>1, <2>4 DEF steps
<1>2. ASSUME NEW c \in Cases, NEW to \in States, Transition(r, c, to)
      PROVE  Starts(r, c, "declare", to)
  <2> DEFINE steps == <<to, "case">>
  <2>1. Head(steps) = to /\ steps # <<>> /\ steps \in Seq(Steps)
    BY DEF Steps, DiskSteps
  <2>2. Shape(Serving(c, "declare", state[c], steps))
    BY DEF Shape, Serving
  <2>3. Accept(r, "transition", c, "declare", steps)
    BY <1>2 DEF Transition
  <2> HIDE DEF steps
  <2>4. Starts(r, c, "declare", Head(steps))
    BY <2>1, <2>2, <2>3, AcceptStarts DEF DiskSteps, States
  <2> QED
    BY <2>1, <2>4
<1>3. ASSUME NEW c \in Cases, NEW action \in Asked, Execute(r, c, action)
      PROVE  Starts(r, c, action, "propose") /\ req'[r].todo = <<"propose", "authorize", "gate">>
  <2> DEFINE steps == <<"propose", "authorize", "gate">>
  <2>1. Chain(steps) /\ Head(steps) = "propose" /\ steps # <<>> /\ steps \in Seq(Steps)
    BY FixedChains DEF Chain
  <2> HIDE DEF steps
  <2>2. Shape(Serving(c, action, state[c], steps))
    BY <2>1 DEF Shape, Serving, Asked, Mutations
  <2>3. Accept(r, "execute", c, action, steps)
    BY <1>3 DEF Execute, steps
  <2>4. Starts(r, c, action, Head(steps)) /\ req'[r].todo = steps
    BY <2>1, <2>2, <2>3, AcceptStarts DEF DiskSteps
  <2> QED
    BY <2>1, <2>4 DEF steps
<1> QED
  BY <1>1, <1>2, <1>3 DEF Receive

\* The steps that store something, and the write of a state.
LEMMA StoreMoves ==
    ASSUME TypeOK, Shapes, NEW r \in Requests, Store(r), ~BuildRow(r)
    PROVE  req[r] # Idle /\ Place(r) \in DiskSteps /\ Moves(r, After(r)) /\ Forgets(r) /\ NoNew(r)
<1>1. PICK step \in DiskSteps : At(r, step)
  BY DEF Store, SaveCase, RecordTransition, RecordRow, DropWrites, DiskSteps
<1>2. req[r] # Idle /\ Place(r) \in DiskSteps
  BY <1>1, AtServed, Served
<1>3. Then(r, <<>>) \/ Return(r)
  BY DEF Store, SaveCase, RecordTransition, RecordRow, DropWrites
<1> QED
  BY <1>2, <1>3, ThenMoves, ReturnMoves

LEMMA WriteMoves ==
    ASSUME TypeOK, Shapes, NEW r \in Requests, WriteTransition(r)
    PROVE  /\ req[r] # Idle /\ Place(r) \in States /\ At(r, Place(r)) /\ req[r].armed
           /\ Moves(r, After(r)) /\ Forgets(r) /\ NoNew(r)
           /\ state' = [state EXCEPT ![CaseOf(r)] = Place(r)]
<1>1. req[r] # Idle
  BY AtServed DEF WriteTransition, Moving
<1>2. Place(r) \in States /\ At(r, Place(r))
  BY <1>1, Served DEF WriteTransition, Moving
<1> QED
  BY <1>1, <1>2, ThenMoves DEF WriteTransition, Place

\* A thread that is armed, for a transition or for the commit of a row.
Arms(r) == CheckTransition(r) \/ BuildRow(r)

\* A thread at work that is not armed by it goes on with its request or is done with it.
LEMMA WorkMoves ==
    ASSUME TypeOK, Shapes, NEW r \in Requests, Serve(r) \/ Store(r), ~Arms(r)
    PROVE  req[r] # Idle /\ Moves(r, Steps)
<1>1. \A g \in Steps : Comes(r, g) => Moves(r, Steps)
  BY DEF Comes, Moves
<1>2. \A places \in SUBSET Steps : Moves(r, places) => Moves(r, Steps)
  BY DEF Moves
<1>3. After(r) \in SUBSET Steps
  BY DEF After, Steps, DiskSteps
<1>4. Store(r) \/ WriteTransition(r) => req[r] # Idle /\ Moves(r, Steps)
  BY <1>2, <1>3, StoreMoves, WriteMoves DEF Arms
<1>5. Propose(r) \/ Authorize(r) \/ Block(r) => req[r] # Idle /\ Moves(r, Steps)
  <2>1. {"authorize"} \in SUBSET Steps /\ {"gate"} \in SUBSET Steps /\ {"case", "authorize"} \in SUBSET Steps
    BY DEF Steps, DiskSteps
  <2>2. "RECOVERY_PROPOSED" \in Steps /\ "AUTHORIZED" \in Steps /\ "BLOCKED" \in Steps
    BY DEF Steps, States
  <2> QED
    BY <1>1, <1>2, <2>1, <2>2, ProposeMoves, AuthorizeMoves, BlockMoves
<1>6. Gate(r) \/ Dispatch(r) \/ ReadAttempts(r) \/ Verify(r) \/ Refused(r)
        => req[r] # Idle /\ Moves(r, Steps)
  <2>1. {"dispatch", "refused", "deliver", "mark", "counted", "block", "RESOLVED", "ESCALATED", "RECOVERY_PROPOSED"}
          \subseteq Steps
    BY DEF Steps, States
  <2> QED
    BY <1>1, <2>1, GateMoves, DispatchMoves, ReadMoves, VerifyMoves, RefusedMoves
<1>7. DeliverWebhook(r) \/ CreditCustomer(r) \/ MarkExecuted(r) \/ CountAttempt(r)
        => req[r] # Idle /\ Moves(r, Steps)
  <2>1. {"deliver", "credit", "mark", "counted"} \subseteq Steps
    BY DEF Steps
  <2> QED
    BY <1>2, <1>3, <2>1, PlainMoves DEF DeliverWebhook, CreditCustomer, MarkExecuted, CountAttempt
<1> QED
  BY <1>4, <1>5, <1>6, <1>7 DEF Serve, Arms

-----------------------------------------------------------------------------
\* Types.

ThreadsTyped ==
    /\ req \in [Requests -> {Idle} \cup Threads]
    /\ \A r \in Requests : req[r] # Idle => /\ req[r].todo # <<>>
                                            /\ req[r].armed => Moving(r) \/ At(r, "case")

LEMMA StepThreads ==
    ASSUME TypeOK, Shapes, [Next]_vars
    PROVE  ThreadsTyped' /\ Shapes'
<1>1. ThreadsTyped
  BY DEF TypeOK, ThreadsTyped, Threads
<1>2. ASSUME NEW r \in Requests, req' \in [Requests -> {Idle} \cup Threads],
             \A s \in Requests \ {r} : req'[s] = req[s],
             req'[r] # Idle => Shape(req'[r]) /\ (req'[r].armed => Moving(r)' \/ At(r, "case")')
      PROVE  ThreadsTyped' /\ Shapes'
  <2>1. ASSUME NEW s \in Requests, req'[s] # Idle
        PROVE  /\ Shape(req'[s]) /\ req'[s].todo # <<>>
               /\ req'[s].armed => Moving(s)' \/ At(s, "case")'
    <3>1. CASE s = r
      <4>1. Shape(req'[r]) /\ (req'[r].armed => Moving(r)' \/ At(r, "case")')
        BY <1>2, <2>1, <3>1
      <4>2. <<"case">> # <<>> /\ \A to \in States : <<to, "case">> # <<>>
        <5>1. Len(<<"case">>) = 1 /\ (\A to \in States : Len(<<to, "case">>) = 2) /\ Len(<<>>) = 0
          OBVIOUS
        <5> QED
          BY <5>1
      <4>3. req'[r].todo # <<>>
        BY <2>1, <3>1, <4>1, <4>2 DEF Shape, Chain
      <4> QED
        BY <3>1, <4>1, <4>3 DEF Moving, At
    <3>2. CASE s # r
      <4>1. req'[s] = req[s]
        BY <1>2, <3>2
      <4> QED
        BY <1>1, <2>1, <4>1 DEF ThreadsTyped, Shapes, Moving, At
    <3> QED
      BY <3>1, <3>2
  <2> QED
    BY <1>2, <2>1 DEF ThreadsTyped, Shapes
<1>3. ASSUME UNCHANGED req PROVE ThreadsTyped' /\ Shapes'
  BY <1>1, <1>3 DEF ThreadsTyped, Shapes, Moving, At
<1>4. ASSUME NEW r \in Requests, Receive(r) PROVE ThreadsTyped' /\ Shapes'
  BY <1>2, <1>4, ReceiveStarts DEF Starts
<1>5. ASSUME NEW r \in Requests, CheckTransition(r) PROVE ThreadsTyped' /\ Shapes'
  <2>1. ASSUME req'[r] # Idle PROVE Shape(req'[r]) /\ Moving(r)'
    <3>1. req'[r].todo = req[r].todo /\ req'[r].action = req[r].action /\ req[r] # Idle
      BY <1>5, <2>1, CheckMoves
    <3> QED
      BY <1>5, <3>1 DEF Shapes, Shape, Moving, At, CheckTransition
  <2> QED
    BY <1>2, <1>5, <2>1, CheckMoves
<1>10. ASSUME NEW r \in Requests, BuildRow(r) PROVE ThreadsTyped' /\ Shapes'
  <2>1. /\ req'[r].todo = req[r].todo /\ req'[r].action = req[r].action /\ req[r] # Idle
        /\ At(r, "case")
    BY <1>10, BuildMoves DEF BuildRow
  <2>2. Shape(req'[r]) /\ At(r, "case")'
    BY <2>1 DEF Shapes, Shape, At
  <2> QED
    BY <1>2, <1>10, <2>2, BuildMoves
<1>6. ASSUME NEW r \in Requests, Serve(r) \/ Store(r), ~Arms(r)
      PROVE  ThreadsTyped' /\ Shapes'
  BY <1>2, <1>6, WorkMoves DEF Moves
<1>7. ASSUME NEW c \in Cases, ExpireEnvelope(c) \/ \E k \in Kinds : CreateException(c, k)
      PROVE  UNCHANGED req
  BY <1>7 DEF ExpireEnvelope, CreateException
<1>8. ASSUME Restart PROVE ThreadsTyped' /\ Shapes'
  BY <1>8 DEF Restart, ThreadsTyped, Shapes
<1>9. UNCHANGED vars => UNCHANGED req
  BY DEF vars
<1> QED
  BY <1>3, <1>4, <1>5, <1>6, <1>7, <1>8, <1>9, <1>10 DEF Next, Arms

LEMMA InitThreads == Init => TypeOK /\ Shapes
<1> SUFFICES ASSUME Init PROVE TypeOK /\ Shapes
  OBVIOUS
<1>1. NoRow \in Rows
  BY NoRowTyped
<1>2. <<"DETECTED", "DETECTED">> \in States \X States
  BY DEF States
<1>3. /\ kind \in [Cases -> Kinds \cup {"absent"}] /\ state \in [Cases -> States]
      /\ attempts \in [Cases -> Nat]
  BY DEF Init, States
<1>6. /\ {expired, declared, unsaved, lost} \subseteq SUBSET Cases
      /\ executed \subseteq Keys /\ world \in Worlds /\ {delivered, reconciled} \subseteq BOOLEAN
  BY DEF Init, InitWorld
<1>7. effects \in [Keys -> Nat] /\ faults \in 0..MaxFaults
  BY ApiAssumption DEF Init
<1>4. /\ saved \in [Cases -> Rows]
      /\ trail \in [Cases -> States \X States]
      /\ records \in [Cases -> SUBSET {"capability", "executed", "PASS", "FAIL", "escalation"}]
  BY <1>1, <1>2 DEF Init
<1>5. /\ req \in [Requests -> {Idle} \cup Threads]
      /\ \A r \in Requests : req[r] = Idle
  BY DEF Init
<1> QED
  BY <1>3, <1>4, <1>5, <1>6, <1>7 DEF TypeOK, Threads, Shapes


\* A handler's records name the state that a case moved from; from where /execute reads
\* it the thread has it.
Naming == {"investigated", "refusal", "executed"}

\* The steps of a mutation before its handler reads the case again.
Reached == {"deliver", "credit", "mark", "count"}

FromKnown ==
    \A r \in Requests :
        req[r] # Idle /\ Place(r) \notin Reached /\ In(req[r].todo, Naming)
            => req[r].from \in States

LEMMA WorkFrom ==
    ASSUME TypeOK, Shapes, FromKnown, NEW r \in Requests, Serve(r) \/ Store(r), req'[r] # Idle,
           Place(r)' \notin Reached, In(req'[r].todo, Naming)
    PROVE  req'[r].from \in States
<1>1. /\ req[r] # Idle /\ req[r].case \in Cases
  BY Served, WorkMoves, CheckMoves, BuildMoves DEF Arms
<1>2. StateOf(r) \in States
  BY <1>1 DEF TypeOK, StateOf, CaseOf
<1>3. Naming \in SUBSET Needing
  BY DEF Naming, Needing
<1>4. ASSUME NEW from, NEW seen, NEW passed, Remembers(req'[r], from, seen, passed)
      PROVE  req'[r].from = from
  BY <1>4 DEF Remembers, Naming
<1>5. ASSUME NoNew(r), req'[r].from = req[r].from, Place(r) \notin Reached
      PROVE  req'[r].from \in States
  BY <1>1, <1>3, <1>5 DEF NoNew, FromKnown
<1>6. CASE Arms(r)
  <2>1. /\ req[r] # Idle /\ req'[r].todo = req[r].todo /\ req'[r].from = req[r].from
        /\ Place(r)' = Place(r)
    BY <1>6, CheckMoves, BuildMoves DEF Place, Arms
  <2> QED
    BY <2>1 DEF FromKnown
<1>7. CASE Refused(r) \/ ReadAttempts(r)
  BY <1>2, <1>4, <1>7, RefusedMoves, ReadMoves
<1>8. CASE Propose(r) \/ Authorize(r) \/ Gate(r) \/ Block(r)
  <2>1. Forgets(r) /\ NoNew(r) /\ Place(r) \notin Reached
    BY <1>8, ProposeMoves, AuthorizeMoves, GateMoves, BlockMoves DEF Reached
  <2> QED
    BY <1>4, <1>5, <2>1 DEF Forgets
<1>9. CASE Dispatch(r)
  <2>1. Forgets(r) /\ NoNew(r) /\ Place(r) \notin Reached
    BY <1>9, DispatchMoves DEF Comes, Moves, Reached
  <2> QED
    BY <1>4, <1>5, <2>1 DEF Forgets
<1>10. CASE Verify(r)
  <2>1. NoNew(r) /\ Place(r) = "verify" /\ req'[r].from = req[r].from
    BY <1>4, <1>10, VerifyMoves
  <2> QED
    BY <1>5, <2>1 DEF Reached
<1>11. CASE (Store(r) \/ WriteTransition(r)) /\ ~Arms(r)
  <2>1. Forgets(r) /\ NoNew(r) /\ Place(r) \notin Reached
    BY <1>11, StoreMoves, WriteMoves DEF DiskSteps, States, Arms, Reached
  <2> QED
    BY <1>4, <1>5, <2>1 DEF Forgets
<1>12. CASE CountAttempt(r)
  <2>1. "counted" \in Steps
    BY DEF Steps
  <2>2. Forgets(r) /\ NoNew(r) /\ Place(r) = "counted"
    BY <1>12, <2>1, PlainMoves DEF CountAttempt
  <2> QED
    BY <1>4, <1>5, <2>2 DEF Forgets, Reached
<1>13. CASE DeliverWebhook(r) \/ CreditCustomer(r) \/ MarkExecuted(r)
  <2>1. PICK step \in {"deliver", "credit", "mark"} : At(r, step) /\ Then(r, <<>>)
    BY <1>13 DEF DeliverWebhook, CreditCustomer, MarkExecuted
  <2>2. req[r].action # "declare" /\ step \in Steps
    BY <2>1, InExecute DEF Steps, States, DiskSteps
  <2>3. \E place \in Reached : Comes(r, place)
    BY <2>1, <2>2, PlainMoves DEF Reached
  <2> QED
    BY <2>3 DEF Comes, Moves
<1> QED
  BY <1>6, <1>7, <1>8, <1>9, <1>10, <1>11, <1>12, <1>13 DEF Serve, Arms

LEMMA StepFrom ==
    ASSUME TypeOK, Shapes, FromKnown, [Next]_vars
    PROVE  FromKnown'
<1>1. ASSUME NEW r \in Requests, \A s \in Requests \ {r} : req'[s] = req[s],
             /\ req'[r] # Idle /\ Place(r)' \notin Reached /\ In(req'[r].todo, Naming)
             => req'[r].from \in States
      PROVE  FromKnown'
  BY <1>1 DEF FromKnown, Place
<1>2. ASSUME NEW r \in Requests, Serve(r) \/ Store(r) PROVE FromKnown'
  <2>1. \A s \in Requests \ {r} : req'[s] = req[s]
    BY <1>2, WorkMoves, CheckMoves, BuildMoves DEF Moves, Arms
  <2> QED
    BY <1>1, <1>2, <2>1, WorkFrom
<1>3. ASSUME NEW r \in Requests, Receive(r) PROVE FromKnown'
  <2>1. PICK c \in Cases : \E action, place : Starts(r, c, action, place)
    BY <1>3, ReceiveStarts
  <2>2. /\ \A s \in Requests \ {r} : req'[s] = req[s]
        /\ In(req'[r].todo, Naming) => req'[r].from = state[c]
    BY <2>1 DEF Starts, Remembers, Naming
  <2>3. state[c] \in States
    BY DEF TypeOK
  <2> QED
    BY <1>1, <2>2, <2>3
<1>4. UNCHANGED req => FromKnown'
  BY DEF FromKnown, Place
<1>5. ASSUME NEW c \in Cases, ExpireEnvelope(c) \/ \E k \in Kinds : CreateException(c, k)
      PROVE  UNCHANGED req
  BY <1>5 DEF ExpireEnvelope, CreateException
<1>6. Restart => FromKnown'
  BY DEF Restart, FromKnown
<1>7. UNCHANGED vars => UNCHANGED req
  BY DEF vars
<1> QED
  BY <1>2, <1>3, <1>4, <1>5, <1>6, <1>7 DEF Next

-----------------------------------------------------------------------------
\* What a thread may rely on.

\* A thread serves a case that exists; it calls an adapter for what policy permits, notes
\* a key whose mutation took place, and resolves what was verified.
Effecting == {"deliver", "credit", "mark"}

Backed(r) ==
    /\ kind[CaseOf(r)] # "absent" /\ CaseOf(r) \notin lost
    /\ Place(r) = "dispatch" => Permitted(kind[CaseOf(r)], req[r].action)
    /\ Place(r) \in Effecting => req[r].action \in Mutations /\ effects[KeyOf(r)] > 0
    /\ Place(r) = "RESOLVED" /\ req[r].action # "declare" => Passed(kind[CaseOf(r)])
    /\ req[r].passed => Passed(kind[CaseOf(r)])

InService == \A r \in Requests : req[r] # Idle => Backed(r)

\* What only a restart takes back.
LEMMA Stays ==
    ASSUME TypeOK, [Next]_vars, ~Restart
    PROVE  /\ lost' = lost
           /\ \A c \in Cases : kind[c] # "absent" =>
                 kind'[c] = kind[c] /\ (Passed(kind[c]) => Passed(kind[c])')
           /\ \A k \in Keys : effects'[k] \in Nat /\ effects'[k] >= effects[k]
<1> DEFINE Goal == /\ lost' = lost /\ world' = world /\ (reconciled => reconciled')
                   /\ \A c \in Cases : kind[c] # "absent" => kind'[c] = kind[c]
                   /\ \A k \in Keys : effects'[k] \in Nat /\ effects'[k] >= effects[k]
<1>1. effects \in [Keys -> Nat] /\ kind \in [Cases -> Kinds \cup {"absent"}]
  BY DEF TypeOK
<1>2. UNCHANGED <<kind, world, reconciled, effects, lost>> => Goal
  BY <1>1
<1>3. ASSUME NEW r \in Requests, Serve(r) \/ Receive(r) \/ Store(r), ~Dispatch(r), ~CreditCustomer(r) PROVE Goal
  BY <1>2, <1>3 DEF Receive, Investigate, Transition, Execute, Accept, Serve, CheckTransition,
     WriteTransition, Propose, Authorize, MoveOnFrom, Gate, DeliverWebhook, MarkExecuted,
     ReadAttempts, CountAttempt, Verify, Refused, Block, Store, BuildRow, SaveCase,
     RecordTransition, RecordRow, DropWrites, caseVars, worldVars
<1>4. ASSUME NEW r \in Requests, Dispatch(r) PROVE Goal
  <2>1. \/ effects' = [effects EXCEPT ![KeyOf(r)] = @ + 1] /\ reconciled' \in {reconciled, TRUE}
        \/ UNCHANGED <<effects, reconciled>>
    BY <1>4 DEF Dispatch, ReplayWebhook, SyncCustomer, Unserved
  <2>2. UNCHANGED <<kind, world, lost>>
    BY <1>4 DEF Dispatch, caseVars
  <2>3. reconciled => reconciled'
    BY <2>1 DEF TypeOK
  <2>4. \A k \in Keys : effects'[k] \in Nat /\ effects'[k] >= effects[k]
    <3>1. effects' = [effects EXCEPT ![KeyOf(r)] = @ + 1] \/ effects' = effects
      BY <2>1
    <3> QED
      BY <1>1, <3>1
  <2> QED
    BY <2>2, <2>3, <2>4
<1>9. ASSUME NEW r \in Requests, CreditCustomer(r) PROVE Goal
  BY <1>1, <1>9 DEF CreditCustomer, caseVars
<1>5. ASSUME NEW c \in Cases, ExpireEnvelope(c) PROVE Goal
  BY <1>2, <1>5 DEF ExpireEnvelope, worldVars
<1>6. ASSUME NEW c \in Cases, NEW k \in Kinds, CreateException(c, k) PROVE Goal
  BY <1>1, <1>6 DEF CreateException, worldVars
<1>7. UNCHANGED vars => Goal
  BY <1>2 DEF vars, caseVars, worldVars
<1>8. Goal
  BY <1>3, <1>4, <1>5, <1>6, <1>7, <1>9 DEF Next
<1> QED
  BY <1>8 DEF Passed, PostconditionsHold, AmbiguousRefund, HasPostconditions

LEMMA WorkBacked ==
    ASSUME TypeOK, Shapes, InService, [Next]_vars, ~Restart,
           NEW r \in Requests, Serve(r) \/ Store(r), req'[r] # Idle
    PROVE  Backed(r)'
<1>1. req[r] # Idle /\ Backed(r) /\ req[r].case \in Cases
  BY Served, WorkMoves, CheckMoves, BuildMoves DEF InService, Arms
<1>2. ASSUME req'[r].case = req[r].case
      PROVE  /\ (kind[CaseOf(r)] # "absent" /\ CaseOf(r) \notin lost)'
             /\ CaseOf(r)' = CaseOf(r) /\ kind'[CaseOf(r)] = kind[CaseOf(r)]
             /\ Passed(kind[CaseOf(r)]) => Passed(kind[CaseOf(r)])'
  BY <1>1, <1>2, Stays DEF Backed, CaseOf
<1>3. ASSUME NEW places, Moves(r, places), Forgets(r), 
             "dispatch" \notin places /\ Effecting \cap places = {},
             "RESOLVED" \notin places \/ req[r].action = "declare"
      PROVE  Backed(r)'
  <2>1. /\ req'[r].case = req[r].case /\ req'[r].action = req[r].action /\ Place(r)' \in places
        /\ req'[r].passed \in {req[r].passed, FALSE}
    BY <1>3 DEF Moves, Forgets, Remembers
  <2> QED
    BY <1>1, <1>2, <1>3, <2>1 DEF Backed, CaseOf
<1>4. CASE Arms(r)
  <2>1. /\ req'[r].todo = req[r].todo /\ req'[r].case = req[r].case
        /\ req'[r].action = req[r].action /\ req'[r].passed = req[r].passed
        /\ Place(r)' = Place(r) /\ Place(r) \in States \cup {"case"}
    BY <1>4, CheckMoves, BuildMoves DEF Place, Arms
  <2> QED
    BY <1>1, <1>2, <2>1 DEF Backed, CaseOf, States, Effecting
<1>5. CASE Propose(r) \/ Authorize(r) \/ Block(r)
  BY <1>3, <1>5, ProposeMoves, AuthorizeMoves, BlockMoves DEF Comes, Effecting
<1>6. CASE Gate(r)
  <2>1. /\ req[r].passed = FALSE \/ req[r].passed = TRUE
        /\ req'[r].case = req[r].case /\ req'[r].action = req[r].action
        /\ req'[r].passed \in {req[r].passed, FALSE}
        /\ \/ Permitted(kind[CaseOf(r)], req[r].action) /\ Place(r)' = "dispatch"
           \/ Place(r)' = "refused"
    BY <1>1, <1>6, GateMoves, Served DEF Comes, Moves, Forgets, Remembers
  <2> QED
    BY <1>1, <1>2, <2>1 DEF Backed, CaseOf, Effecting
<1>7. CASE Dispatch(r)
  <2>1. /\ req'[r].case = req[r].case /\ req'[r].action = req[r].action
        /\ req'[r].passed \in {req[r].passed, FALSE} /\ KeyOf(r)' = KeyOf(r)
        /\ \/ /\ Place(r)' \in {"deliver", "mark"} /\ req[r].action \in Mutations
              /\ effects' = [effects EXCEPT ![KeyOf(r)] = @ + 1]
           \/ Place(r)' = "refused"
    BY <1>7, DispatchMoves DEF Comes, Moves, Forgets, Remembers, KeyOf
  <2>2. Place(r)' \in {"deliver", "mark"} => effects'[KeyOf(r)] > 0
    <3>1. ASSUME Place(r)' \in {"deliver", "mark"} PROVE KeyOf(r) \in Keys
      BY <1>1, <2>1, <3>1 DEF KeyOf, Keys
    <3> QED
      BY <2>1, <3>1 DEF TypeOK
  <2> QED
    BY <1>1, <1>2, <2>1, <2>2 DEF Backed, CaseOf, Effecting
<1>8. CASE MarkExecuted(r) \/ CountAttempt(r)
  <2>1. "mark" \in Steps /\ "counted" \in Steps
    BY DEF Steps
  <2>2. \E step \in {"mark", "counted"} : At(r, step) /\ Then(r, <<>>)
    BY <1>8 DEF MarkExecuted, CountAttempt
  <2>3. req[r].action # "declare"
    BY <2>1, <2>2, InExecute DEF States
  <2>4. Forgets(r) /\ (Moves(r, {"count"}) \/ Moves(r, {"EXECUTED"}))
    BY <2>1, <2>2, <2>3, PlainMoves DEF Comes
  <2> QED
    BY <1>3, <2>4 DEF Effecting
<1>13. CASE DeliverWebhook(r) \/ CreditCustomer(r)
  <2>1. PICK step \in {"deliver", "credit"} : At(r, step) /\ Then(r, <<>>)
    BY <1>13 DEF DeliverWebhook, CreditCustomer
  <2>2. step \in Steps /\ req[r].action # "declare" /\ Place(r) = step
    BY <2>1, InExecute DEF Steps, States, DiskSteps
  <2>3. Forgets(r) /\ (Comes(r, "credit") \/ Comes(r, "mark"))
    BY <2>1, <2>2, PlainMoves
  <2>4. /\ req'[r].case = req[r].case /\ req'[r].action = req[r].action /\ KeyOf(r)' = KeyOf(r)
        /\ req'[r].passed \in {req[r].passed, FALSE} /\ Place(r)' \in {"credit", "mark"}
    BY <2>3 DEF Comes, Moves, Forgets, Remembers, KeyOf
  <2>5. req[r].action \in Mutations /\ effects[KeyOf(r)] > 0 /\ KeyOf(r) \in Keys
    BY <1>1, <2>2 DEF Backed, Effecting, KeyOf, Keys
  <2>6. effects'[KeyOf(r)] > 0
    BY <2>5, Stays DEF TypeOK
  <2> QED
    BY <1>1, <1>2, <2>4, <2>5, <2>6 DEF Backed, CaseOf
<1>9. CASE ReadAttempts(r)
  <2>1. /\ req'[r].case = req[r].case /\ req'[r].action = req[r].action
        /\ Place(r)' = "counted" /\ req'[r].passed \in {req[r].passed, FALSE}
    BY <1>9, ReadMoves DEF Comes, Moves, Remembers
  <2> QED
    BY <1>1, <1>2, <2>1 DEF Backed, CaseOf, Effecting
<1>10. CASE Verify(r)
  <2>1. /\ req'[r].case = req[r].case /\ req'[r].action = req[r].action
        /\ Place(r)' = Verdict(r) /\ req'[r].passed \in {Passed(kind[CaseOf(r)]), FALSE}
    BY <1>10, VerifyMoves DEF Comes, Moves, Remembers
  <2>2. Verdict(r) \notin Effecting \cup {"dispatch"} /\ (Verdict(r) = "RESOLVED" => Passed(kind[CaseOf(r)]))
    BY DEF Verdict, Effecting
  <2> QED
    BY <1>1, <1>2, <2>1, <2>2 DEF Backed, CaseOf
<1>11. CASE Refused(r)
  <2>1. /\ req'[r].case = req[r].case /\ req'[r].action = req[r].action
        /\ Place(r)' = "block" /\ req'[r].passed \in {req[r].passed, FALSE}
    BY <1>11, RefusedMoves DEF Comes, Moves, Remembers
  <2> QED
    BY <1>1, <1>2, <2>1 DEF Backed, CaseOf, Effecting
<1>12. CASE (Store(r) \/ WriteTransition(r)) /\ ~Arms(r)
  <2>1. Moves(r, After(r)) /\ Forgets(r)
    BY <1>12, StoreMoves, WriteMoves DEF Arms
  <2>2. Place(r) \in States \cup DiskSteps
    BY <1>12, StoreMoves, WriteMoves DEF Arms
  <2>3. /\ "dispatch" \notin After(r) /\ Effecting \cap After(r) = {} /\ "RESOLVED" \notin After(r)
    BY <2>2 DEF After, Successor, Follows, Effecting, States, DiskSteps
  <2> QED
    BY <1>3, <2>1, <2>3
<1> QED
  BY <1>4, <1>5, <1>6, <1>7, <1>8, <1>9, <1>10, <1>11, <1>12, <1>13 DEF Serve, Arms

LEMMA StepInService ==
    ASSUME TypeOK, Shapes, InService, [Next]_vars
    PROVE  InService'
<1>1. CASE Restart
  BY <1>1 DEF Restart, InService
<1>2. CASE ~Restart
  <2>1. ASSUME NEW r \in Requests, UNCHANGED req[r], req[r] # Idle PROVE Backed(r)'
    <3>1. Backed(r) /\ CaseOf(r) \in Cases /\ CaseOf(r)' = CaseOf(r) /\ KeyOf(r)' = KeyOf(r)
          /\ Place(r)' = Place(r) /\ req[r].action \in Asked \cup {"none", "declare"}
      BY <2>1, Served DEF InService, CaseOf, KeyOf, Place
    <3>2. Place(r) \in Effecting => KeyOf(r) \in Keys
      BY <3>1 DEF Backed, KeyOf, CaseOf, Keys
    <3>3. Place(r) \in Effecting => effects'[KeyOf(r)] > 0
      BY <1>2, <3>1, <3>2, Stays DEF Backed, TypeOK
    <3> QED
      BY <1>2, <2>1, <3>1, <3>3, Stays DEF Backed
  <2>2. ASSUME NEW r \in Requests, \A s \in Requests \ {r} : req'[s] = req[s],
               req'[r] # Idle => Backed(r)'
        PROVE  InService'
    BY <2>1, <2>2 DEF InService
  <2>3. ASSUME NEW r \in Requests, Serve(r) \/ Store(r) PROVE InService'
    <3>1. \A s \in Requests \ {r} : req'[s] = req[s]
      BY <2>3, WorkMoves, CheckMoves, BuildMoves DEF Moves, Arms
    <3> QED
      BY <1>2, <2>2, <2>3, <3>1, WorkBacked
  <2>4. ASSUME NEW r \in Requests, Receive(r) PROVE InService'
    <3>1. PICK c \in Cases :
              \/ Starts(r, c, "none", "INVESTIGATING")
              \/ \E to \in States : Starts(r, c, "declare", to)
              \/ \E action \in Asked : Starts(r, c, action, "propose")
      BY <2>4, ReceiveStarts
    <3>2. /\ \A s \in Requests \ {r} : req'[s] = req[s]
          /\ CaseOf(r)' = c /\ req'[r].passed = FALSE /\ kind[c] # "absent" /\ c \notin lost
          /\ Place(r)' \in States \cup {"INVESTIGATING", "propose"}
          /\ Place(r)' \notin {"INVESTIGATING", "propose"} => req'[r].action = "declare"
      BY <3>1 DEF Starts, CaseOf, Remembers
    <3>3. kind'[c] # "absent" /\ c \notin lost'
      BY <1>2, <3>2, Stays
    <3>4. Backed(r)'
      BY <3>2, <3>3 DEF Backed, States, Effecting
    <3> QED
      BY <2>2, <3>2, <3>4
  <2>5. ASSUME UNCHANGED req PROVE InService'
    BY <2>1, <2>5 DEF InService
  <2>6. ASSUME NEW c \in Cases, ExpireEnvelope(c) \/ \E k \in Kinds : CreateException(c, k)
        PROVE  UNCHANGED req
    BY <2>6 DEF ExpireEnvelope, CreateException
  <2>7. UNCHANGED vars => UNCHANGED req
    BY DEF vars
  <2> QED
    BY <1>2, <2>3, <2>4, <2>5, <2>6, <2>7 DEF Next
<1> QED
  BY <1>1, <1>2

\* The variables other than the threads.
VarsTyped ==
    /\ kind \in [Cases -> Kinds \cup {"absent"}]
    /\ state \in [Cases -> States]
    /\ attempts \in [Cases -> Nat]
    /\ expired \subseteq Cases /\ declared \subseteq Cases
    /\ unsaved \subseteq Cases /\ lost \subseteq Cases
    /\ executed \subseteq Keys
    /\ world \in Worlds
    /\ {delivered, reconciled} \subseteq BOOLEAN
    /\ effects \in [Keys -> Nat]
    /\ saved \in [Cases -> Rows]
    /\ trail \in [Cases -> States \X States]
    /\ records \in [Cases -> SUBSET {"capability", "executed", "PASS", "FAIL", "escalation"}]
    /\ faults \in 0..MaxFaults

LEMMA Parts == TypeOK <=> VarsTyped /\ ThreadsTyped
BY DEF TypeOK, VarsTyped, ThreadsTyped, Threads

LEMMA StepVars ==
    ASSUME TypeOK, FromKnown, InService, [Next]_vars
    PROVE  VarsTyped'
<1> DEFINE Goal == VarsTyped'
<1> SUFFICES Goal
  OBVIOUS
<1> USE Parts
<1>1. UNCHANGED <<caseVars, worldVars, diskVars, lost>> => Goal
  BY DEF VarsTyped, caseVars, worldVars, diskVars
<1>2. ASSUME NEW r \in Requests, NEW step, At(r, step)
      PROVE  /\ req[r] # Idle /\ Place(r) = step /\ CaseOf(r) \in Cases /\ StateOf(r) \in States
             /\ req[r].seen \in Nat /\ In(req[r].todo, {step})
  <2>1. req[r] # Idle /\ Place(r) = step /\ CaseOf(r) \in Cases /\ req[r].seen \in Nat
    BY <1>2, AtServed, Served DEF CaseOf
  <2>2. In(req[r].todo, {step})
    BY <2>1, Served, InParts DEF Place
  <2> QED
    BY <2>1, <2>2 DEF VarsTyped, StateOf
<1>3. ASSUME NEW c \in Cases
      PROVE  Row(c) \in Rows
  BY DEF Row, Rows, VarsTyped
<1>4. ASSUME NEW c \in Cases, Refuses(c)
      PROVE  faults' \in 0..MaxFaults /\ unsaved' \subseteq Cases /\ UNCHANGED <<saved, trail, records>>
  BY <1>4, ApiAssumption DEF Refuses, VarsTyped
<1>5. ASSUME NEW r \in Requests, Receive(r) PROVE Goal
  BY <1>1, <1>5 DEF Receive, Investigate, Transition, Execute, Accept
<1>6. ASSUME NEW r \in Requests, CheckTransition(r) \/ Propose(r) \/ Authorize(r) \/ Gate(r)
                                 \/ ReadAttempts(r) \/ Verify(r) \/ Refused(r) \/ Block(r) \/ BuildRow(r)
      PROVE  Goal
  BY <1>1, <1>6 DEF CheckTransition, Propose, Authorize, MoveOnFrom, Gate, ReadAttempts, Verify,
                    Refused, Block, BuildRow
<1>7. ASSUME NEW r \in Requests, WriteTransition(r) PROVE Goal
  <2>1. PICK s \in States : At(r, s)
    BY <1>7 DEF WriteTransition, Moving
  <2>2. CaseOf(r) \in Cases /\ Head(req[r].todo) = s
    BY <1>2, <2>1 DEF At
  <2> QED
    BY <1>7, <2>1, <2>2 DEF WriteTransition, VarsTyped, worldVars, diskVars
<1>8. ASSUME NEW r \in Requests, Dispatch(r) PROVE Goal
  <2>1. CaseOf(r) \in Cases /\ req[r].action \in Asked \cup {"none", "declare"}
    BY <1>2, <1>8, Served DEF Dispatch
  <2>2. \/ effects' = [effects EXCEPT ![KeyOf(r)] = @ + 1] /\ reconciled' \in {reconciled, TRUE}
        \/ UNCHANGED <<effects, reconciled>>
    BY <1>8 DEF Dispatch, ReplayWebhook, SyncCustomer, Unserved
  <2>3. effects' \in [Keys -> Nat]
    <3>1. effects' = [effects EXCEPT ![KeyOf(r)] = @ + 1] \/ effects' = effects
      BY <2>2
    <3> QED
      BY <3>1 DEF VarsTyped
  <2>4. {delivered, reconciled'} \subseteq BOOLEAN
    <3>1. reconciled' \in {reconciled, TRUE}
      BY <2>2
    <3> QED
      BY <3>1 DEF VarsTyped
  <2> QED
    BY <1>8, <2>3, <2>4 DEF Dispatch, VarsTyped, caseVars, diskVars
<1>19. ASSUME NEW r \in Requests, DeliverWebhook(r) \/ CreditCustomer(r) PROVE Goal
  BY <1>19 DEF DeliverWebhook, CreditCustomer, VarsTyped, caseVars, diskVars
<1>9. ASSUME NEW r \in Requests, MarkExecuted(r) PROVE Goal
  <2>1. req[r] # Idle /\ Place(r) = "mark" /\ req[r].case \in Cases
    BY <1>2, <1>9 DEF MarkExecuted, CaseOf
  <2>2. KeyOf(r) \in Keys
    BY <2>1 DEF InService, Backed, Effecting, KeyOf, Keys
  <2> QED
    BY <1>9, <2>2 DEF MarkExecuted, VarsTyped, caseVars, diskVars
<1>10. ASSUME NEW r \in Requests, CountAttempt(r) PROVE Goal
  <2>1. CaseOf(r) \in Cases /\ req[r].seen \in Nat
    BY <1>2, <1>10 DEF CountAttempt
  <2> QED
    BY <1>10, <2>1, SMTT(30) DEF CountAttempt, VarsTyped, worldVars, diskVars
<1>11. ASSUME NEW r \in Requests, SaveCase(r) PROVE Goal
  <2>1. CaseOf(r) \in Cases /\ req[r].row \in Rows
    BY <1>2, <1>11, Served DEF SaveCase
  <2>2. saved' \in [Cases -> Rows]
    BY <1>11, <2>1 DEF SaveCase, VarsTyped
  <2> QED
    BY <1>11, <2>2 DEF SaveCase, VarsTyped, worldVars, caseVars
<1>12. ASSUME NEW r \in Requests, RecordTransition(r) PROVE Goal
  <2>1. PICK step \in {"investigated", "refusal", "executed", "verified"} : At(r, step)
    BY <1>12 DEF RecordTransition
  <2>2. /\ req[r] # Idle /\ Place(r) = step /\ CaseOf(r) \in Cases /\ StateOf(r) \in States
        /\ In(req[r].todo, {step})
    BY <1>2, <2>1
  <2>3. step # "verified" => req[r].from \in States
    <3>1. step # "verified" => In(req[r].todo, Naming)
      BY <2>2 DEF In, Naming
    <3>2. Place(r) \notin Reached
      BY <2>1, <2>2 DEF Reached
    <3> QED
      BY <2>2, <3>1, <3>2 DEF FromKnown
  <2>4. \A t : At(r, t) <=> t = step
    BY <2>2, Served
  <2>5. TrailRow(r) \in States \X States
    BY <2>1, <2>2, <2>3, <2>4 DEF TrailRow, States
  <2>6. trail' \in [Cases -> States \X States]
    BY <1>12, <2>5 DEF RecordTransition, VarsTyped
  <2>7. records' \in [Cases -> SUBSET {"capability", "executed", "PASS", "FAIL", "escalation"}]
    BY <1>12, <2>2 DEF RecordTransition, VarsTyped
  <2> QED
    BY <1>12, <2>6, <2>7 DEF RecordTransition, VarsTyped, worldVars, caseVars
<1>13. ASSUME NEW r \in Requests, RecordRow(r) PROVE Goal
  <2>1. RowOf(r) \subseteq {"capability", "executed", "PASS", "FAIL", "escalation"}
    BY DEF RowOf
  <2>2. records' \in [Cases -> SUBSET {"capability", "executed", "PASS", "FAIL", "escalation"}]
    BY <1>13, <2>1 DEF RecordRow, VarsTyped
  <2> QED
    BY <1>13, <2>2 DEF RecordRow, VarsTyped, worldVars, caseVars
<1>14. ASSUME NEW r \in Requests, DropWrites(r) PROVE Goal
  <2>1. CaseOf(r) \in Cases /\ Refuses(CaseOf(r))
    BY <1>2, <1>14 DEF DropWrites
  <2> QED
    BY <1>4, <1>14, <2>1 DEF DropWrites, VarsTyped, worldVars, caseVars
<1>15. ASSUME NEW c \in Cases, ExpireEnvelope(c) PROVE Goal
  BY <1>15 DEF ExpireEnvelope, VarsTyped, worldVars, diskVars
<1>16. ASSUME NEW c \in Cases, NEW k \in Kinds, CreateException(c, k) PROVE Goal
  <2>1. kind' \in [Cases -> Kinds \cup {"absent"}]
    BY <1>16 DEF CreateException, VarsTyped
  <2>2. /\ saved' \in [Cases -> Rows]
        /\ UNCHANGED <<trail, records>> /\ unsaved' \subseteq Cases /\ faults' \in 0..MaxFaults
    BY <1>3, <1>4, <1>16, SMTT(30) DEF CreateException, VarsTyped
  <2>3. UNCHANGED <<state, attempts, expired, declared, executed, world, delivered, reconciled, effects, lost>>
    BY <1>16 DEF CreateException, worldVars
  <2> QED
    BY <2>1, <2>2, <2>3 DEF VarsTyped
<1>17. ASSUME Restart PROVE Goal
  <2>1. /\ UNCHANGED <<kind, state, attempts, expired, declared, effects>>
        /\ UNCHANGED <<saved, trail, records, unsaved, faults>>
        /\ executed' = {} /\ world' \in Worlds /\ delivered' = FALSE /\ reconciled' = FALSE /\ lost' \subseteq Cases
    BY <1>17 DEF Restart, caseVars, diskVars
  <2> QED
    BY <2>1 DEF VarsTyped
<1>18. UNCHANGED vars => Goal
  BY <1>1 DEF vars
<1> QED
  BY <1>5, <1>6, <1>7, <1>8, <1>9, <1>10, <1>11, <1>12, <1>13, <1>14, <1>15, <1>16, <1>17, <1>18,
     <1>19
  DEF Next, Serve, Store

-----------------------------------------------------------------------------
\* What every number of concurrent requests keeps.

\* The one action that changes each of these.
LEMMA Frames ==
    ASSUME [Next]_vars
    PROVE  /\ (\E r \in Requests : WriteTransition(r)) \/ UNCHANGED <<state, declared>>
           /\ (\E r \in Requests : CountAttempt(r)) \/ UNCHANGED attempts
           /\ (\E r \in Requests : Dispatch(r)) \/ UNCHANGED effects
           /\ (\E r \in Requests : MarkExecuted(r)) \/ Restart \/ UNCHANGED executed
<1> DEFINE Goal == /\ (\E r \in Requests : WriteTransition(r)) \/ UNCHANGED <<state, declared>>
                   /\ (\E r \in Requests : CountAttempt(r)) \/ UNCHANGED attempts
                   /\ (\E r \in Requests : Dispatch(r)) \/ UNCHANGED effects
                   /\ (\E r \in Requests : MarkExecuted(r)) \/ Restart \/ UNCHANGED executed
<1>1. ASSUME NEW r \in Requests, Receive(r) \/ Store(r) PROVE Goal
  BY <1>1 DEF Receive, Investigate, Transition, Execute, Accept, Store, BuildRow, SaveCase,
     RecordTransition, RecordRow, DropWrites, caseVars, worldVars
<1>2. ASSUME NEW r \in Requests, Serve(r) PROVE Goal
  BY <1>2 DEF Serve, CheckTransition, WriteTransition, Propose, Authorize, MoveOnFrom, Gate,
     Dispatch, DeliverWebhook, CreditCustomer, MarkExecuted, ReadAttempts, CountAttempt, Verify, Refused, Block, caseVars, worldVars
<1>3. ASSUME NEW c \in Cases, ExpireEnvelope(c) \/ \E k \in Kinds : CreateException(c, k)
      PROVE  Goal
  BY <1>3 DEF ExpireEnvelope, CreateException, worldVars
<1>4. Restart => Goal
  BY DEF Restart, caseVars
<1>5. UNCHANGED vars => Goal
  BY DEF vars, caseVars, worldVars
<1> HIDE DEF Goal
<1>6. Goal
  BY <1>1, <1>2, <1>3, <1>4, <1>5 DEF Next
<1> QED
  BY <1>6 DEF Goal

\* A restart loses cases that exist.
LostExisted == \A c \in lost : kind[c] # "absent"

LEMMA StepLost ==
    ASSUME TypeOK, LostExisted, [Next]_vars
    PROVE  LostExisted'
<1>1. CASE Restart
  BY <1>1 DEF Restart, caseVars, LostExisted
<1>2. CASE ~Restart
  BY <1>2, Stays DEF LostExisted, TypeOK
<1> QED
  BY <1>1, <1>2

LEMMA StepResolved ==
    ASSUME TypeOK, Shapes, InService, LostExisted, ResolvedIsProved, [Next]_vars
    PROVE  ResolvedIsProved'
<1> DEFINE Sound(c) == state[c] = "RESOLVED" => Passed(kind[c])
<1>1. ResolvedIsProved <=> \A c \in Cases \ (declared \cup lost) : Sound(c)
  BY DEF ResolvedIsProved, Proved, Passed, PostconditionsHold, AmbiguousRefund
<1>2. ResolvedIsProved' <=> \A c \in Cases \ (declared' \cup lost') : Sound(c)'
  BY DEF ResolvedIsProved, Proved, Passed, PostconditionsHold, AmbiguousRefund
<1>3. Passed("absent") = FALSE
  BY DEF Passed, HasPostconditions
<1>4. CASE Restart
  <2>1. /\ lost' = {c \in Cases : kind[c] # "absent"} /\ UNCHANGED <<kind, state, declared>>
    BY <1>4 DEF Restart, caseVars
  <2>2. ASSUME NEW c \in Cases \ (declared' \cup lost'), state'[c] = "RESOLVED" PROVE FALSE
    <3>1. kind[c] = "absent" /\ c \notin declared /\ c \notin lost /\ state[c] = "RESOLVED"
      BY <2>1, <2>2 DEF LostExisted
    <3> QED
      BY <1>1, <1>3, <3>1
  <2> QED
    BY <1>2, <2>2
<1>5. CASE ~Restart
  <2>1. ASSUME NEW c \in Cases, Passed(kind[c]) PROVE Passed(kind[c])'
    <3>1. kind[c] # "absent"
      BY <1>3, <2>1
    <3> QED
      BY <1>5, <2>1, <3>1, Stays
  <2>2. CASE UNCHANGED <<state, declared>>
    BY <1>1, <1>2, <1>5, <2>1, <2>2, Stays
  <2>3. ASSUME NEW r \in Requests, WriteTransition(r) PROVE ResolvedIsProved'
    <3>1. /\ req[r] # Idle /\ state' = [state EXCEPT ![CaseOf(r)] = Place(r)]
          /\ CaseOf(r) \in Cases
      BY <2>3, WriteMoves, Served DEF CaseOf
    <3>2. declared' = IF req[r].action = "declare" THEN declared \cup {CaseOf(r)}
                      ELSE declared \ {CaseOf(r)}
      BY <2>3 DEF WriteTransition
    <3>3. Place(r) = "RESOLVED" /\ req[r].action # "declare" => Passed(kind[CaseOf(r)])
      BY <3>1 DEF InService, Backed
    <3>4. ASSUME NEW c \in Cases \ (declared' \cup lost') PROVE Sound(c)'
      <4>1. CASE c = CaseOf(r)
        BY <2>1, <3>1, <3>2, <3>3, <4>1 DEF TypeOK
      <4>2. CASE c # CaseOf(r)
        BY <1>1, <1>5, <2>1, <3>1, <3>2, <4>2, Stays
      <4> QED
        BY <4>1, <4>2
    <3> QED
      BY <1>2, <3>4
  <2> QED
    BY <2>2, <2>3, Frames
<1> QED
  BY <1>4, <1>5

LEMMA StepPolicy ==
    ASSUME TypeOK, Shapes, InService, EffectsWithinPolicy, [Next]_vars
    PROVE  EffectsWithinPolicy'
<1>1. ASSUME NEW k \in Keys PROVE k[1] \in Cases
  BY <1>1 DEF Keys
<1>2. CASE Restart
  BY <1>2 DEF Restart, caseVars, EffectsWithinPolicy
<1>3. CASE ~Restart
  <2>1. ASSUME NEW k \in Keys, kind[k[1]] = "payment_webhook_failed"
        PROVE  kind'[k[1]] = "payment_webhook_failed"
    BY <1>1, <1>3, <2>1, Stays
  <2>2. ASSUME NEW k \in Keys, effects[k] > 0 PROVE effects'[k] > 0
    BY <1>3, <2>2, Stays DEF TypeOK
  <2>3. ASSUME NEW k \in Keys, effects'[k] > 0 PROVE kind'[k[1]] = "payment_webhook_failed"
    <3>1. CASE effects[k] > 0
      BY <2>1, <3>1 DEF EffectsWithinPolicy
    <3>2. CASE ~(effects[k] > 0)
      <4>1. PICK r \in Requests : Dispatch(r)
        BY <2>3, <3>2, Frames
      <4>2. /\ req[r] # Idle /\ Place(r) = "dispatch" /\ req[r].action \in Mutations
            /\ effects' = [effects EXCEPT ![KeyOf(r)] = @ + 1]
        BY <2>3, <3>2, <4>1, DispatchMoves
      <4>3. k = KeyOf(r)
        BY <2>3, <3>2, <4>2 DEF TypeOK
      <4>4. Permitted(kind[CaseOf(r)], req[r].action)
        BY <4>2 DEF InService, Backed
      <4> QED
        BY <2>1, <4>2, <4>3, <4>4 DEF Permitted, Mutations, KeyOf, CaseOf
    <3> QED
      BY <3>1, <3>2
  <2>4. ASSUME NEW k \in Keys, k \in executed' PROVE effects'[k] > 0
    <3>1. CASE k \in executed
      BY <2>2, <3>1 DEF EffectsWithinPolicy
    <3>2. CASE k \notin executed
      <4>1. PICK r \in Requests : MarkExecuted(r)
        BY <1>3, <2>4, <3>2, Frames
      <4>2. At(r, "mark") /\ k = KeyOf(r)
        BY <2>4, <3>2, <4>1 DEF MarkExecuted
      <4>3. req[r] # Idle /\ Place(r) = "mark"
        BY <4>2, AtServed, Served
      <4> QED
        BY <2>2, <4>2, <4>3 DEF InService, Backed, Effecting
    <3> QED
      BY <3>1, <3>2
  <2> QED
    BY <2>3, <2>4 DEF EffectsWithinPolicy
<1> QED
  BY <1>2, <1>3

\* The threads of case c between its mutation and the write of its count: each of them has
\* a mutation that is not counted yet.
InCount    == {"deliver", "credit", "mark", "count", "counted"}
Counting(c) == {r \in Requests : req[r] # Idle /\ CaseOf(r) = c /\ Place(r) \in InCount}

Backing ==
    \A c \in Cases :
        /\ IsFiniteSet(Counting(c)) /\ attempts[c] + Cardinality(Counting(c)) <= Mutated(c)
        /\ \A r \in Counting(c) :
               Place(r) = "counted" => req[r].seen + Cardinality(Counting(c)) <= Mutated(c)

LEMMA MutatedIsNat == ASSUME TypeOK, NEW c \in Cases PROVE Mutated(c) \in Nat
<1>1. <<c, "replay_webhook">> \in Keys /\ <<c, "sync_crm">> \in Keys
  BY DEF Keys, Mutations
<1> QED
  BY <1>1 DEF TypeOK, Mutated

\* Who comes to the count and who leaves it.
LEMMA CountPlaces ==
    ASSUME TypeOK, Shapes, NEW r \in Requests, Serve(r) \/ Store(r)
    PROVE  /\ \A s \in Requests \ {r} : req'[s] = req[s]
           /\ req[r] # Idle /\ (req'[r] # Idle => req'[r].case = req[r].case)
           /\ \/ Place(r) \notin InCount /\ (req'[r] # Idle => Place(r)' \notin InCount)
              \/ Dispatch(r) /\ Place(r) \notin InCount /\ req'[r] # Idle
                 /\ Place(r)' \in {"deliver", "mark"}
                 /\ effects' = [effects EXCEPT ![KeyOf(r)] = @ + 1] /\ req[r].action \in Mutations
              \/ Place(r) \in {"deliver", "credit", "mark"} /\ req'[r] # Idle
                 /\ Place(r)' \in {"credit", "mark", "count"} /\ ~Dispatch(r)
              \/ Place(r) = "count" /\ req'[r] # Idle /\ Place(r)' = "counted"
                 /\ req'[r].seen = attempts[CaseOf(r)] /\ ~Dispatch(r)
              \/ Place(r) = "counted" /\ CountAttempt(r)
                 /\ (req'[r] # Idle => Place(r)' \notin InCount)
<1>1. /\ req[r] # Idle /\ \A s \in Requests \ {r} : req'[s] = req[s]
      /\ req'[r] # Idle => req'[r].case = req[r].case
  BY WorkMoves, CheckMoves, BuildMoves DEF Moves, Arms
<1>2. CASE Arms(r)
  <2>1. Place(r) \in States \cup {"case"} /\ (req'[r] # Idle => Place(r)' = Place(r))
    BY <1>2, CheckMoves, BuildMoves DEF Place, Arms
  <2> QED
    BY <1>1, <2>1 DEF InCount, States
<1>3. CASE Propose(r) \/ Authorize(r) \/ Block(r) \/ Gate(r) \/ Refused(r)
  <2>1. /\ Place(r) \in {"propose", "authorize", "block", "gate", "refused"}
        /\ Moves(r, {"RECOVERY_PROPOSED", "authorize", "AUTHORIZED", "gate", "BLOCKED", "case",
                     "dispatch", "refused", "block"})
    BY <1>3, ProposeMoves, AuthorizeMoves, BlockMoves, GateMoves, RefusedMoves DEF Comes, Moves
  <2> QED
    BY <1>1, <2>1 DEF InCount, Moves
<1>4. CASE Dispatch(r)
  BY <1>1, <1>4, DispatchMoves DEF InCount, Comes, Moves
<1>5. CASE DeliverWebhook(r) \/ CreditCustomer(r) \/ MarkExecuted(r)
  <2>1. PICK step \in {"deliver", "credit", "mark"} : At(r, step) /\ Then(r, <<>>)
    BY <1>5 DEF DeliverWebhook, CreditCustomer, MarkExecuted
  <2>a. step \in Steps \ (States \cup {"case"})
    BY <2>1 DEF Steps, States
  <2>2. /\ Comes(r, "credit") \/ Comes(r, "mark") \/ Comes(r, "count")
        /\ Place(r) \in {"deliver", "credit", "mark"}
    BY <2>1, <2>a, PlainMoves, InExecute
  <2>3. ~Dispatch(r)
    BY <2>2, DispatchMoves
  <2> QED
    BY <1>1, <2>2, <2>3 DEF Comes, Moves
<1>6. CASE ReadAttempts(r)
  <2>1. /\ Place(r) = "count" /\ Comes(r, "counted")
        /\ Remembers(req'[r], StateOf(r), attempts[CaseOf(r)], req[r].passed)
    BY <1>6, ReadMoves
  <2>2. req'[r].todo # <<>> /\ req'[r].todo \in Seq(Steps) /\ Head(req'[r].todo) = "counted"
    BY <2>1 DEF Comes, Moves, Shape, Chain, Threads, Place
  <2>3. In(req'[r].todo, {"counted"})
    BY <2>2, InParts
  <2>4. ~Dispatch(r)
    BY <2>1, DispatchMoves
  <2> QED
    BY <1>1, <2>1, <2>3, <2>4 DEF Remembers, Comes, Moves
<1>7. CASE CountAttempt(r)
  <2>1. At(r, "counted") /\ Then(r, <<>>) /\ "counted" \in Steps \ (States \cup {"case"})
    BY <1>7 DEF CountAttempt, Steps, States, DiskSteps
  <2>2. Comes(r, "EXECUTED") /\ Place(r) = "counted"
    BY <2>1, PlainMoves, InExecute
  <2> QED
    BY <1>1, <1>7, <2>2 DEF Comes, Moves, InCount
<1>8. CASE Verify(r)
  <2>1. Place(r) = "verify" /\ Moves(r, {"RESOLVED", "ESCALATED", "RECOVERY_PROPOSED"})
    BY <1>8, VerifyMoves DEF Comes, Moves
  <2> QED
    BY <1>1, <2>1 DEF InCount, Moves
<1>9. CASE (Store(r) \/ WriteTransition(r)) /\ ~Arms(r)
  <2>1. Place(r) \in DiskSteps \cup States /\ Moves(r, After(r))
    BY <1>9, StoreMoves, WriteMoves DEF Arms
  <2>2. After(r) \cap InCount = {}
    BY <2>1 DEF After, InCount, Successor, Follows, DiskSteps, States
  <2> QED
    BY <1>1, <2>1, <2>2 DEF InCount, Moves, DiskSteps, States
<1> QED
  BY <1>2, <1>3, <1>4, <1>5, <1>6, <1>7, <1>8, <1>9 DEF Serve, Arms

\* A thread of case c is at the write of its count, with what it has seen.
SawThen(r, c) == r \in Counting(c) /\ Place(r) = "counted"

\* What a step does to the counts: nothing that matters; another mutation of case d that
\* is not counted; or the count of one.
Steady ==
    /\ UNCHANGED attempts /\ \A c \in Cases : Counting(c)' = Counting(c) /\ Mutated(c)' = Mutated(c)
    /\ \A c \in Cases, r \in Requests : SawThen(r, c)' =>
           (SawThen(r, c) /\ req'[r].seen = req[r].seen) \/ req'[r].seen = attempts[c]

Adds(d, r) ==
    /\ UNCHANGED attempts
    /\ Counting(d)' = Counting(d) \cup {r} /\ r \notin Counting(d)
    /\ Mutated(d)' = Mutated(d) + 1
    /\ \A c \in Cases \ {d} : Counting(c)' = Counting(c) /\ Mutated(c)' = Mutated(c)
    /\ \A c \in Cases, s \in Requests : SawThen(s, c)' => SawThen(s, c) /\ req'[s].seen = req[s].seen

Removes(d, r) ==
    /\ attempts' = [attempts EXCEPT ![d] = req[r].seen + 1]
    /\ Counting(d)' = Counting(d) \ {r} /\ SawThen(r, d)
    /\ \A c \in Cases \ {d} : Counting(c)' = Counting(c)
    /\ \A c \in Cases : Mutated(c)' = Mutated(c)
    /\ \A c \in Cases, s \in Requests : SawThen(s, c)' => SawThen(s, c) /\ req'[s].seen = req[s].seen

LEMMA CountMoves ==
    ASSUME TypeOK, Shapes, [Next]_vars
    PROVE  \/ Restart
           \/ Steady
           \/ \E d \in Cases, r \in Requests : Adds(d, r) \/ Removes(d, r)
<1> DEFINE Goal == \/ Restart
                   \/ Steady
                   \/ \E d \in Cases, r \in Requests : Adds(d, r) \/ Removes(d, r)
<1>1. ASSUME NEW r \in Requests, NEW c \in Cases, UNCHANGED req[r], SawThen(r, c)'
      PROVE  SawThen(r, c) /\ req'[r].seen = req[r].seen
  BY <1>1 DEF SawThen, Counting, Place, CaseOf
<1>2. ASSUME NEW r \in Requests, \A s \in Requests \ {r} : req'[s] = req[s],
             UNCHANGED <<attempts, effects>>,
             \A c \in Cases : Counting(c)' = Counting(c),
             req'[r] # Idle /\ Place(r)' = "counted" => req'[r].seen = attempts[CaseOf(r)']
      PROVE  Goal
  <2>1. \A c \in Cases : Mutated(c)' = Mutated(c)
    BY <1>2 DEF Mutated
  <2>2. ASSUME NEW c \in Cases, SawThen(r, c)' PROVE req'[r].seen = attempts[c]
    BY <1>2, <2>2 DEF SawThen, Counting
  <2> QED
    BY <1>1, <1>2, <2>1, <2>2 DEF Steady
<1>4. ASSUME UNCHANGED <<req, attempts, effects>> PROVE Goal
  <2>1. \A c \in Cases : Counting(c)' = Counting(c) /\ Mutated(c)' = Mutated(c)
    BY <1>4 DEF Counting, Place, CaseOf, Mutated
  <2> QED
    BY <1>1, <1>4, <2>1 DEF Steady
<1>5. ASSUME NEW r \in Requests, Receive(r) PROVE Goal
  <2>1. /\ req[r] = Idle /\ \A s \in Requests \ {r} : req'[s] = req[s]
        /\ Place(r)' \notin InCount
    BY <1>5, ReceiveStarts DEF Starts, InCount, States
  <2>2. UNCHANGED <<attempts, effects>>
    BY <1>5 DEF Receive, Investigate, Transition, Execute, Accept, caseVars, worldVars
  <2>3. \A c \in Cases : Counting(c)' = Counting(c)
    BY <2>1 DEF Counting, CaseOf, Place
  <2> QED
    BY <1>2, <2>1, <2>2, <2>3 DEF Place, InCount
<1>6. ASSUME NEW r \in Requests, Serve(r) \/ Store(r), ~Dispatch(r), ~CountAttempt(r)
      PROVE  Goal
  <2>1. UNCHANGED <<attempts, effects>>
    BY <1>6 DEF Serve, CheckTransition, WriteTransition, Propose, Authorize, MoveOnFrom, Gate,
       DeliverWebhook, CreditCustomer, MarkExecuted, ReadAttempts, Verify, Refused, Block, Store,
       BuildRow, SaveCase,
       RecordTransition, RecordRow, DropWrites, caseVars, worldVars
  <2>2. \A c \in Cases : Counting(c)' = Counting(c)
    BY <1>6, CountPlaces DEF Counting, CaseOf, Place, InCount
  <2>3. req'[r] # Idle /\ Place(r)' = "counted" => req'[r].seen = attempts[CaseOf(r)']
    BY <1>6, CountPlaces DEF CaseOf, InCount
  <2>4. \A s \in Requests \ {r} : req'[s] = req[s]
    BY <1>6, CountPlaces
  <2> QED
    BY <1>2, <2>1, <2>2, <2>3, <2>4 DEF Place
<1>7. ASSUME NEW r \in Requests, Dispatch(r) PROVE Goal
  <2>1. UNCHANGED attempts
    BY <1>7 DEF Dispatch, caseVars
  <2>2. CASE effects' = effects
    <3>0. effects' = [effects EXCEPT ![KeyOf(r)] = @ + 1] => req[r].action \notin Mutations
      <4>1. SUFFICES ASSUME effects' = [effects EXCEPT ![KeyOf(r)] = @ + 1],
                            req[r].action \in Mutations
                     PROVE  FALSE
        OBVIOUS
      <4>2. KeyOf(r) \in Keys
        BY <1>7, <4>1, DispatchMoves, Served DEF KeyOf, Keys
      <4> QED
        BY <2>2, <4>1, <4>2 DEF TypeOK
    <3>1. /\ Place(r) \notin InCount /\ (req'[r] # Idle => Place(r)' \notin InCount)
          /\ \A s \in Requests \ {r} : req'[s] = req[s]
      BY <1>7, <3>0, DispatchMoves DEF InCount, Comes, Moves
    <3>2. \A c \in Cases : Counting(c)' = Counting(c)
      BY <3>1 DEF Counting, CaseOf, Place
    <3> QED
      BY <1>2, <2>1, <2>2, <3>1, <3>2 DEF Place, InCount
  <2>3. CASE effects' # effects
    <3>1. /\ Place(r) \notin InCount /\ req'[r] # Idle /\ Place(r)' \in {"deliver", "mark"}
          /\ effects' = [effects EXCEPT ![KeyOf(r)] = @ + 1] /\ req[r].action \in Mutations
          /\ req[r] # Idle /\ req'[r].case = req[r].case /\ CaseOf(r) \in Cases
          /\ \A s \in Requests \ {r} : req'[s] = req[s]
      BY <1>7, <2>3, CountPlaces, DispatchMoves, Served DEF Serve, Comes, Moves, InCount, CaseOf
    <3>d. PICK d \in Cases : d = CaseOf(r)
      BY <3>1
    <3>k. KeyOf(r) = <<d, req[r].action>>
      BY <3>d DEF KeyOf, CaseOf
    <3>2. /\ Counting(d)' = Counting(d) \cup {r} /\ r \notin Counting(d)
          /\ \A c \in Cases \ {d} : Counting(c)' = Counting(c)
      BY <3>1, <3>d DEF Counting, CaseOf, Place, InCount
    <3>3. /\ Mutated(d)' = Mutated(d) + 1
          /\ \A c \in Cases \ {d} : Mutated(c)' = Mutated(c)
      <4>1. \A c \in Cases : /\ <<c, "replay_webhook">> \in Keys /\ <<c, "sync_crm">> \in Keys
                            /\ effects[<<c, "replay_webhook">>] \in Nat
                            /\ effects[<<c, "sync_crm">>] \in Nat
        BY DEF TypeOK, Keys, Mutations
      <4>2. effects' = [effects EXCEPT ![<<d, req[r].action>>] = @ + 1] /\ DOMAIN effects = Keys
        BY <3>1, <3>k DEF TypeOK
      <4>3. ASSUME NEW c \in Cases \ {d} PROVE Mutated(c)' = Mutated(c)
        <5>1. /\ <<c, "replay_webhook">> # <<d, req[r].action>>
              /\ <<c, "sync_crm">> # <<d, req[r].action>>
          OBVIOUS
        <5> QED
          BY <4>1, <4>2, <5>1 DEF Mutated
      <4>4. CASE req[r].action = "replay_webhook"
        <5>1. <<d, "sync_crm">> # <<d, "replay_webhook">>
          OBVIOUS
        <5> QED
          BY <4>1, <4>2, <4>3, <4>4, <5>1 DEF Mutated
      <4>5. CASE req[r].action = "sync_crm"
        <5>1. <<d, "sync_crm">> # <<d, "replay_webhook">>
          OBVIOUS
        <5> QED
          BY <4>1, <4>2, <4>3, <4>5, <5>1 DEF Mutated
      <4> QED
        BY <3>1, <4>4, <4>5 DEF Mutations
    <3>4. ASSUME NEW c \in Cases, NEW s \in Requests, SawThen(s, c)'
          PROVE  SawThen(s, c) /\ req'[s].seen = req[s].seen
      <4>1. s # r
        BY <3>1, <3>4 DEF SawThen
      <4> QED
        BY <1>1, <3>1, <3>4, <4>1
    <3> QED
      BY <2>1, <3>2, <3>3, <3>4 DEF Adds
  <2> QED
    BY <2>2, <2>3
<1>8. ASSUME NEW r \in Requests, CountAttempt(r) PROVE Goal
  <2>1. /\ Place(r) = "counted" /\ req[r] # Idle /\ CaseOf(r) \in Cases
        /\ (req'[r] # Idle => Place(r)' \notin InCount)
        /\ \A s \in Requests \ {r} : req'[s] = req[s]
        /\ attempts' = [attempts EXCEPT ![CaseOf(r)] = req[r].seen + 1] /\ UNCHANGED effects
    <3>1. At(r, "counted")
      BY <1>8 DEF CountAttempt
    <3>2. req[r] # Idle /\ Place(r) = "counted" /\ CaseOf(r) \in Cases
      BY <3>1, AtServed, Served DEF CaseOf
    <3>3. (req'[r] # Idle => Place(r)' \notin InCount) /\ \A s \in Requests \ {r} : req'[s] = req[s]
      BY <1>8, <3>2, CountPlaces DEF Serve, InCount
    <3> QED
      BY <1>8, <3>2, <3>3 DEF CountAttempt, worldVars
  <2>d. PICK d \in Cases : d = CaseOf(r)
    BY <2>1
  <2>2. /\ Counting(d)' = Counting(d) \ {r} /\ r \in Counting(d)
        /\ \A c \in Cases \ {d} : Counting(c)' = Counting(c)
    BY <2>1, <2>d DEF Counting, CaseOf, Place, InCount
  <2>3. \A c \in Cases : Mutated(c)' = Mutated(c)
    BY <2>1 DEF Mutated
  <2>4. ASSUME NEW c \in Cases, NEW s \in Requests, SawThen(s, c)'
        PROVE  SawThen(s, c) /\ req'[s].seen = req[s].seen
    <3>1. s # r
      BY <2>1, <2>4 DEF SawThen, Counting, InCount
    <3> QED
      BY <1>1, <2>1, <2>4, <3>1
  <2> QED
    BY <2>1, <2>d, <2>2, <2>3, <2>4 DEF Removes, SawThen
<1>9. ASSUME NEW c \in Cases, ExpireEnvelope(c) \/ \E k \in Kinds : CreateException(c, k)
      PROVE  UNCHANGED <<req, attempts, effects>>
  BY <1>9 DEF ExpireEnvelope, CreateException, worldVars
<1>10. UNCHANGED vars => UNCHANGED <<req, attempts, effects>>
  BY DEF vars, caseVars, worldVars
<1> QED
  BY <1>4, <1>5, <1>6, <1>7, <1>8, <1>9, <1>10 DEF Next

LEMMA StepBacking ==
    ASSUME TypeOK, Shapes, Backing, [Next]_vars
    PROVE  Backing'
<1> DEFINE Kept(c) ==
             /\ IsFiniteSet(Counting(c)) /\ attempts[c] + Cardinality(Counting(c)) <= Mutated(c)
             /\ \A r \in Requests :
                    SawThen(r, c) => req[r].seen + Cardinality(Counting(c)) <= Mutated(c)
<1>1. Backing <=> \A c \in Cases : Kept(c)
  BY DEF Backing, SawThen, Counting
<1>2. Backing' <=> \A c \in Cases : Kept(c)'
  BY DEF Backing, SawThen, Counting
<1>3. ASSUME NEW c \in Cases
      PROVE  /\ Kept(c) /\ Cardinality(Counting(c)) \in Nat /\ attempts[c] \in Nat /\ Mutated(c) \in Nat
             /\ \A r \in Requests : SawThen(r, c) => req[r].seen \in Nat
  BY <1>1, MutatedIsNat, FS_CardinalityType, Served DEF TypeOK, Counting, SawThen
<1>4. CASE Restart
  <2>1. ASSUME NEW c \in Cases
        PROVE  Counting(c)' = {} /\ Mutated(c)' = Mutated(c) /\ attempts'[c] = attempts[c]
    BY <1>4 DEF Restart, Counting, Mutated, caseVars
  <2>2. ASSUME NEW c \in Cases PROVE Kept(c)'
    <3>1. \A r : ~SawThen(r, c)'
      BY <2>1 DEF SawThen
    <3>2. IsFiniteSet(Counting(c)') /\ Cardinality(Counting(c)') = 0
      BY <2>1, FS_EmptySet
    <3> QED
      BY <1>3, <2>1, <3>1, <3>2
  <2> QED
    BY <1>2, <2>2
<1>5. CASE Steady
  <2>1. ASSUME NEW c \in Cases PROVE Kept(c)'
    BY <1>3, <1>5 DEF Steady
  <2> QED
    BY <1>2, <2>1
<1>6. ASSUME NEW d \in Cases, NEW r \in Requests, Adds(d, r) PROVE Backing'
  <2>1. /\ IsFiniteSet(Counting(d)')
        /\ Cardinality(Counting(d)') = Cardinality(Counting(d)) + 1
    BY <1>3, <1>6, FS_AddElement DEF Adds
  <2>2. Kept(d)'
    <3>1. /\ attempts'[d] = attempts[d] /\ Mutated(d)' = Mutated(d) + 1
          /\ \A s \in Requests : SawThen(s, d)' => SawThen(s, d) /\ req'[s].seen = req[s].seen
      BY <1>6 DEF Adds
    <3>2. attempts'[d] + Cardinality(Counting(d)') <= Mutated(d)'
      BY <1>3, <2>1, <3>1
    <3>3. ASSUME NEW s \in Requests, SawThen(s, d)'
          PROVE  req'[s].seen + Cardinality(Counting(d)') <= Mutated(d)'
      <4>1. req'[s].seen \in Nat /\ req'[s].seen + Cardinality(Counting(d)) <= Mutated(d)
        BY <1>3, <3>1, <3>3
      <4> QED
        BY <1>3, <2>1, <3>1, <4>1
    <3> QED
      BY <2>1, <3>2, <3>3
  <2>3. ASSUME NEW c \in Cases \ {d} PROVE Kept(c)'
    BY <1>3, <1>6 DEF Adds
  <2> QED
    BY <1>2, <2>2, <2>3
<1>7. ASSUME NEW d \in Cases, NEW r \in Requests, Removes(d, r) PROVE Backing'
  <2>1. /\ IsFiniteSet(Counting(d)')
        /\ Cardinality(Counting(d)') = Cardinality(Counting(d)) - 1
    BY <1>3, <1>7, FS_RemoveElement DEF Removes, SawThen
  <2>2. attempts'[d] = req[r].seen + 1 /\ \A c \in Cases \ {d} : attempts'[c] = attempts[c]
    BY <1>7 DEF Removes, TypeOK
  <2>3. req[r].seen \in Nat /\ req[r].seen + Cardinality(Counting(d)) <= Mutated(d)
    BY <1>3, <1>7 DEF Removes
  <2>4. Kept(d)'
    <3>1. /\ Mutated(d)' = Mutated(d)
          /\ \A s \in Requests : SawThen(s, d)' => SawThen(s, d) /\ req'[s].seen = req[s].seen
      BY <1>7 DEF Removes
    <3>2. attempts'[d] + Cardinality(Counting(d)') <= Mutated(d)'
      BY <1>3, <2>1, <2>2, <2>3, <3>1
    <3>3. ASSUME NEW s \in Requests, SawThen(s, d)'
          PROVE  req'[s].seen + Cardinality(Counting(d)') <= Mutated(d)'
      <4>1. req'[s].seen \in Nat /\ req'[s].seen + Cardinality(Counting(d)) <= Mutated(d)
        BY <1>3, <3>1, <3>3
      <4> QED
        BY <1>3, <2>1, <3>1, <4>1
    <3> QED
      BY <2>1, <3>2, <3>3
  <2>5. ASSUME NEW c \in Cases \ {d} PROVE Kept(c)'
    BY <1>3, <1>7, <2>2 DEF Removes
  <2> QED
    BY <1>2, <2>4, <2>5
<1> QED
  BY <1>4, <1>5, <1>6, <1>7, CountMoves

\* A thread of execute() that will take case c out of the state it is halfway in.
Carries(r, c) ==
    /\ req[r] # Idle /\ CaseOf(r) = c /\ req[r].action # "declare"
    /\ \/ state[c] = "AUTHORIZED" /\ Place(r) \in {"gate", "dispatch", "refused", "deliver",
                                                   "credit", "mark", "count", "counted", "EXECUTED", "block", "BLOCKED"}
       \/ state[c] = "EXECUTED" /\ Place(r) = "VERIFYING"
       \/ state[c] = "VERIFYING" /\ Place(r) \in {"verify", "RESOLVED", "ESCALATED",
                                                  "RECOVERY_PROPOSED"}

Carried ==
    \A c \in Cases \ (declared \cup lost) :
        state[c] \in Midway => \E r \in Requests : Carries(r, c)

\* As long as the case's state is not written, such a thread remains one.
LEMMA CarriesOn ==
    ASSUME TypeOK, Shapes, NEW r \in Requests, NEW c \in Cases, Carries(r, c),
           UNCHANGED state, Serve(r) \/ Store(r)
    PROVE  Carries(r, c)'
<1>1. req[r] # Idle /\ CaseOf(r) = c /\ StateOf(r) = state[c] /\ state'[c] = state[c]
  BY DEF Carries, StateOf, CaseOf
<1>2. ASSUME NEW place, Comes(r, place),
             \/ state[c] = "AUTHORIZED" /\ place \in {"gate", "dispatch", "refused", "deliver", "credit",
                                        "mark", "count", "counted", "EXECUTED", "block", "BLOCKED"}
             \/ state[c] = "VERIFYING" /\ place \in {"verify", "RESOLVED", "ESCALATED",
                                                     "RECOVERY_PROPOSED"}
      PROVE  Carries(r, c)'
  BY <1>1, <1>2 DEF Carries, Comes, Moves, CaseOf
<1>3. CASE CheckTransition(r)
  <2>1. Place(r) \in States /\ CanTransition(state[c], Place(r))
    <3>1. Place(r) \in States
      BY <1>3, CheckMoves
    <3>2. \/ state[c] = "AUTHORIZED" /\ Place(r) \in {"EXECUTED", "BLOCKED"}
          \/ state[c] = "EXECUTED" /\ Place(r) = "VERIFYING"
          \/ state[c] = "VERIFYING" /\ Place(r) \in {"RESOLVED", "ESCALATED", "RECOVERY_PROPOSED"}
      BY <3>1 DEF Carries, States
    <3> QED
      BY <3>1, <3>2 DEF CanTransition, AllowedTransitions
  <2>2. /\ req'[r] # Idle /\ req'[r].case = req[r].case /\ req'[r].action = req[r].action
        /\ Place(r)' = Place(r)
    BY <1>1, <1>3, <2>1, CheckMoves DEF Place
  <2> QED
    BY <1>1, <2>2 DEF Carries, CaseOf
<1>4. CASE Propose(r) \/ Authorize(r) \/ Store(r)
  <2>1. Place(r) \in {"propose", "authorize"} \cup DiskSteps
    BY <1>4, ProposeMoves, AuthorizeMoves, StoreMoves, BuildMoves DEF DiskSteps
  <2> QED
    BY <2>1 DEF Carries, DiskSteps
<1>5. CASE WriteTransition(r)
  <2>1. Place(r) = state[c] /\ Place(r) \in States
    BY <1>1, <1>5, WriteMoves, SMTT(30) DEF TypeOK
  <2> QED
    BY <2>1 DEF Carries, States
<1>6. CASE Gate(r)
  BY <1>2, <1>6, GateMoves DEF Carries
<1>7. CASE Dispatch(r)
  BY <1>2, <1>7, DispatchMoves DEF Carries
<1>8. CASE DeliverWebhook(r) \/ CreditCustomer(r) \/ MarkExecuted(r) \/ CountAttempt(r)
  <2>1. PICK step \in {"deliver", "credit", "mark", "counted"} : At(r, step) /\ Then(r, <<>>)
    BY <1>8 DEF DeliverWebhook, CreditCustomer, MarkExecuted, CountAttempt
  <2>2. step \in Steps \ (States \cup {"case"})
    BY <2>1 DEF Steps, States
  <2>3. /\ Place(r) = step
        /\ Comes(r, "credit") \/ Comes(r, "mark") \/ Comes(r, "count") \/ Comes(r, "EXECUTED")
    BY <2>1, <2>2, PlainMoves, InExecute
  <2> QED
    BY <1>2, <2>1, <2>3 DEF Carries
<1>9. CASE ReadAttempts(r)
  BY <1>2, <1>9, ReadMoves DEF Carries
<1>10. CASE Verify(r)
  BY <1>2, <1>10, VerifyMoves DEF Carries
<1>11. CASE Refused(r)
  BY <1>2, <1>11, RefusedMoves DEF Carries
<1>12. CASE Block(r)
  BY <1>1, <1>2, <1>12, BlockMoves DEF Carries
<1> QED
  BY <1>3, <1>4, <1>5, <1>6, <1>7, <1>8, <1>9, <1>10, <1>11, <1>12 DEF Serve

LEMMA StepCarried ==
    ASSUME TypeOK, Shapes, InService, LostExisted, Carried, [Next]_vars
    PROVE  Carried'
<1>1. CASE Restart
  <2>1. /\ lost' = {c \in Cases : kind[c] # "absent"} /\ UNCHANGED <<kind, state, declared>>
    BY <1>1 DEF Restart, caseVars
  <2>2. ASSUME NEW c \in Cases \ (declared' \cup lost'), state'[c] \in Midway PROVE FALSE
    <3>1. kind[c] = "absent" /\ c \in Cases \ (declared \cup lost) /\ state[c] \in Midway
      BY <2>1, <2>2 DEF LostExisted
    <3>2. PICK r \in Requests : Carries(r, c)
      BY <3>1 DEF Carried
    <3> QED
      BY <3>1, <3>2 DEF Carries, InService, Backed
  <2> QED
    BY <2>2 DEF Carried
<1>2. ASSUME NEW r \in Requests, WriteTransition(r), ~Restart PROVE Carried'
  <2>1. /\ req[r] # Idle /\ CaseOf(r) \in Cases /\ At(r, Place(r)) /\ Place(r) \in States
        /\ state' = [state EXCEPT ![CaseOf(r)] = Place(r)] /\ lost' = lost
        /\ \A s \in Requests \ {r} : req'[s] = req[s]
    BY <1>2, WriteMoves, Served, Stays DEF CaseOf, Moves
  <2>2. /\ declared' = IF req[r].action = "declare" THEN declared \cup {CaseOf(r)}
                       ELSE declared \ {CaseOf(r)}
        /\ Then(r, <<>>)
    BY <1>2 DEF WriteTransition
  <2>3. ASSUME NEW c \in Cases \ (declared' \cup lost'), state'[c] \in Midway
        PROVE  \E s \in Requests : Carries(s, c)'
    <3>1. CASE c = CaseOf(r)
      <4>1. req[r].action # "declare" /\ state'[c] = Place(r) /\ Place(r) \in Midway
        BY <2>1, <2>2, <2>3, <3>1 DEF TypeOK
      <4>2. Place(r) \in Steps
        BY <2>1 DEF Steps
      <4>3. \/ Place(r) = "AUTHORIZED" /\ Comes(r, "gate")
            \/ Place(r) = "EXECUTED" /\ Comes(r, "VERIFYING")
            \/ Place(r) = "VERIFYING" /\ Comes(r, "verify")
        BY <2>1, <2>2, <4>1, <4>2, PlainMoves DEF Midway
      <4>4. Carries(r, c)'
        BY <3>1, <4>1, <4>3 DEF Carries, Comes, Moves, CaseOf
      <4> QED
        BY <4>4
    <3>2. CASE c # CaseOf(r)
      <4>1. c \in Cases \ (declared \cup lost) /\ state'[c] = state[c]
        BY <2>1, <2>2, <2>3, <3>2
      <4>2. PICK s \in Requests : Carries(s, c)
        BY <2>3, <4>1 DEF Carried
      <4>3. s # r
        BY <3>2, <4>2 DEF Carries
      <4>4. Carries(s, c)'
        BY <2>1, <4>1, <4>2, <4>3 DEF Carries, CaseOf, Place
      <4> QED
        BY <4>4
    <3> QED
      BY <3>1, <3>2
  <2> QED
    BY <2>3 DEF Carried
<1>3. ASSUME UNCHANGED <<state, declared>>, ~Restart,
             \A r \in Requests, c \in Cases : Carries(r, c) => Carries(r, c)'
      PROVE  Carried'
  <2>1. ASSUME NEW c \in Cases \ (declared' \cup lost'), state'[c] \in Midway
        PROVE  \E r \in Requests : Carries(r, c)'
    <3>1. c \in Cases \ (declared \cup lost) /\ state[c] \in Midway
      BY <1>3, <2>1, Stays
    <3>2. PICK r \in Requests : Carries(r, c)
      BY <3>1 DEF Carried
    <3>3. Carries(r, c)'
      BY <1>3, <3>2
    <3> QED
      BY <3>3
  <2> QED
    BY <2>1 DEF Carried
<1>4. ASSUME NEW r \in Requests, NEW c \in Cases, UNCHANGED <<state, req[r]>>, Carries(r, c)
      PROVE  Carries(r, c)'
  BY <1>4 DEF Carries, CaseOf, Place
<1>5. ASSUME UNCHANGED <<state, declared>>, ~Restart, NEW r \in Requests, Serve(r) \/ Store(r)
      PROVE  Carried'
  <2>1. \A s \in Requests \ {r} : req'[s] = req[s]
    BY <1>5, CountPlaces
  <2> QED
    BY <1>3, <1>4, <1>5, <2>1, CarriesOn
<1>6. ASSUME UNCHANGED <<state, declared>>, ~Restart, NEW r \in Requests, Receive(r) PROVE Carried'
  <2>1. req[r] = Idle /\ \A s \in Requests \ {r} : req'[s] = req[s]
    BY <1>6, ReceiveStarts DEF Starts
  <2>2. \A c \in Cases : ~Carries(r, c)
    BY <2>1 DEF Carries
  <2> QED
    BY <1>3, <1>4, <1>6, <2>1, <2>2
<1>7. ASSUME UNCHANGED <<state, declared>>, ~Restart, UNCHANGED req PROVE Carried'
  BY <1>3, <1>4, <1>7
<1>8. ASSUME NEW c \in Cases, ExpireEnvelope(c) \/ \E k \in Kinds : CreateException(c, k)
      PROVE  UNCHANGED req
  BY <1>8 DEF ExpireEnvelope, CreateException
<1>9. UNCHANGED vars => UNCHANGED req
  BY DEF vars
<1>10. (\E r \in Requests : WriteTransition(r)) \/ UNCHANGED <<state, declared>>
  BY Frames
<1> QED
  BY <1>1, <1>2, <1>5, <1>6, <1>7, <1>8, <1>9, <1>10 DEF Next

-----------------------------------------------------------------------------
\* The table of cases.

LEMMA DiskFrames ==
    ASSUME TypeOK, [Next]_vars
    PROVE  /\ \/ UNCHANGED <<kind, saved>>
              \/ UNCHANGED kind /\ \E r \in Requests : SaveCase(r)
              \/ \E c \in Cases, k \in Kinds : CreateException(c, k)
           /\ unsaved \subseteq unsaved'
           /\ (\E r \in Requests : RecordTransition(r)) \/ UNCHANGED trail
           /\ (\E r \in Requests : RecordTransition(r) \/ RecordRow(r)) \/ UNCHANGED records
<1> DEFINE Goal == /\ \/ UNCHANGED <<kind, saved>>
                      \/ UNCHANGED kind /\ \E r \in Requests : SaveCase(r)
                      \/ \E c \in Cases, k \in Kinds : CreateException(c, k)
                   /\ unsaved \subseteq unsaved'
                   /\ (\E r \in Requests : RecordTransition(r)) \/ UNCHANGED trail
                   /\ (\E r \in Requests : RecordTransition(r) \/ RecordRow(r)) \/ UNCHANGED records
<1>1. ASSUME NEW r \in Requests, Receive(r) \/ Serve(r) PROVE Goal
  BY <1>1 DEF Receive, Investigate, Transition, Execute, Accept, Serve, CheckTransition,
     WriteTransition, Propose, Authorize, MoveOnFrom, Gate, Dispatch, DeliverWebhook,
     CreditCustomer, MarkExecuted, ReadAttempts, CountAttempt, Verify, Refused, Block, caseVars, diskVars
<1>2. ASSUME NEW r \in Requests, Store(r) PROVE Goal
  BY <1>2 DEF Store, BuildRow, diskVars, SaveCase, RecordTransition, RecordRow, DropWrites, Refuses, caseVars
<1>3. ASSUME NEW c \in Cases, ExpireEnvelope(c) PROVE Goal
  BY <1>3 DEF ExpireEnvelope, diskVars
<1>4. ASSUME NEW c \in Cases, NEW k \in Kinds, CreateException(c, k) PROVE Goal
  BY <1>4 DEF CreateException, Refuses
<1>5. Restart => Goal
  BY DEF Restart, caseVars, diskVars
<1>6. UNCHANGED vars => Goal
  BY DEF vars, caseVars, diskVars
<1> HIDE DEF Goal
<1>7. Goal
  BY <1>1, <1>2, <1>3, <1>4, <1>5, <1>6 DEF Next
<1> QED
  BY <1>7 DEF Goal

\* Without a database every case has a write that was refused, its first one.
NoDisk == ~DiskWorks => \A c \in Cases : kind[c] # "absent" => c \in unsaved

LEMMA StepNoDisk ==
    ASSUME TypeOK, NoDisk, [Next]_vars
    PROVE  NoDisk'
<1>1. ASSUME ~DiskWorks, NEW c \in Cases, NEW k \in Kinds, CreateException(c, k) PROVE NoDisk'
  BY <1>1 DEF CreateException, Refuses, NoDisk, TypeOK
<1> QED
  BY <1>1, DiskFrames DEF NoDisk

-----------------------------------------------------------------------------
\* The records.

LEMMA InRest ==
    ASSUME NEW s \in Seq(Steps), NEW t \in Seq(Steps), NEW S, In(t, S)
    PROVE  In(s \o t, S)
<1>1. /\ Len(s \o t) = Len(s) + Len(t) /\ Len(s) \in Nat /\ Len(t) \in Nat
      /\ DOMAIN (s \o t) = 1..(Len(s) + Len(t)) /\ DOMAIN t = 1..Len(t)
  BY ConcatProperties, LenProperties
<1>2. PICK i \in 1..Len(t) : t[i] \in S
  BY <1>1 DEF In
<1>3. /\ i + Len(s) \in 1..(Len(s) + Len(t)) /\ ~(i + Len(s) <= Len(s)) /\ (i + Len(s)) - Len(s) = i
  BY <1>1
<1>4. (s \o t)[i + Len(s)] = t[i]
  BY <1>1, <1>3, ConcatProperties
<1> QED
  BY <1>1, <1>2, <1>3, <1>4 DEF In

\* Of the steps that matter a thread leaves out none.
Keeps(r) ==
    req'[r] # Idle => \A s \in Needing : In(req[r].todo, {s}) => Place(r) = s \/ In(req'[r].todo, {s})

LEMMA ThenKeeps ==
    ASSUME TypeOK, Shapes, NEW r \in Requests, req[r] # Idle, NEW steps \in Seq(Steps),
           Then(r, steps), steps = <<>> \/ Head(steps) \notin DiskSteps
    PROVE  Keeps(r)
<1> DEFINE rest == Tail(req[r].todo)
           t == steps \o rest
<1>1. /\ req[r].todo \in Seq(Steps) /\ req[r].todo # <<>> /\ rest \in Seq(Steps) /\ t \in Seq(Steps)
      /\ Place(r) = Head(req[r].todo)
  BY Served, ConcatProperties DEF Place
<1>2. req'[r] # Idle => req'[r].todo = Doable(t) /\ Doable(t) # <<>>
  <2>1. PICK q \in Threads : Becomes(r, q) /\ q.todo = t
    BY ThenBecomes
  <2> QED
    BY <2>1, BecomesIs
<1>3. SUFFICES ASSUME req'[r] # Idle, NEW s \in Needing, In(req[r].todo, {s}), Place(r) # s
               PROVE  In(Doable(t), {s})
  BY <1>2 DEF Keeps
<1>4. In(rest, {s})
  BY <1>1, <1>3, InParts
<1>5. In(t, {s}) /\ s # "case"
  BY <1>1, <1>4, InRest DEF Needing
<1>6. Doable(t) = t \/ (t # <<>> /\ Head(t) = "case" /\ Doable(t) = Tail(t))
  <2>1. CASE steps # <<>>
    <3>1. Head(t) = Head(steps) /\ t # <<>>
      <4>1. /\ Len(t) = Len(steps) + Len(rest) /\ Len(steps) \in Nat \ {0} /\ Len(rest) \in Nat
            /\ t[1] = steps[1] /\ Head(steps) = steps[1]
        <5>1. Len(steps) \in Nat \ {0} /\ Head(steps) = steps[1] /\ Len(rest) \in Nat
          BY <1>1, <2>1, HeadIsFirst, LenProperties
        <5>2. 1 \in 1..(Len(steps) + Len(rest)) /\ 1 <= Len(steps)
          BY <5>1
        <5> QED
          BY <1>1, <5>1, <5>2, ConcatProperties
      <4>2. t # <<>>
        BY <1>1, <4>1, EmptySeq
      <4> QED
        BY <1>1, <4>1, <4>2, HeadIsFirst
    <3> QED
      BY <1>1, <2>1, <3>1, DoableIs
  <2>2. CASE steps = <<>> /\ req[r].action = "declare"
    <3>1. req[r].todo = <<"case">> \/ \E to \in States : req[r].todo = <<to, "case">>
      BY <2>2 DEF Shapes, Shape
    <3>2. rest = <<>> \/ rest = <<"case">>
      BY <3>1, Short DEF Steps, DiskSteps
    <3>3. ~In(rest, {s})
      <4>1. DOMAIN <<"case">> = {1} /\ <<"case">>[1] = "case"
        OBVIOUS
      <4>2. ~In(<<"case">>, {s})
        BY <1>5, <4>1 DEF In
      <4> QED
        BY <3>2, <4>2, InNothing
    <3> QED
      BY <1>4, <3>3
  <2>3. CASE steps = <<>> /\ req[r].action # "declare"
    <3>1. Chain(req[r].todo) /\ t = rest
      BY <1>1, <2>3, ConcatEmptySeq DEF Shapes, Shape
    <3>2. rest # <<>>
      BY <1>4, InNothing
    <3>3. Chain(rest)
      BY <3>1, <3>2, ChainTail
    <3> QED
      BY <1>1, <1>2, <1>3, <3>1, <3>2, <3>3, DoableIs
  <2> QED
    BY <2>1, <2>2, <2>3
<1>7. CASE t # <<>> /\ Head(t) = "case" /\ Doable(t) = Tail(t)
  BY <1>1, <1>5, <1>7, InParts
<1> QED
  BY <1>5, <1>6, <1>7

LEMMA WorkKeeps ==
    ASSUME TypeOK, Shapes, NEW r \in Requests, Serve(r) \/ Store(r)
    PROVE  Keeps(r)
<1>1. req[r] # Idle /\ req[r].todo \in Seq(Steps) /\ req[r].todo # <<>> /\ <<>> \in Seq(Steps)
      /\ Place(r) = Head(req[r].todo) /\ Tail(req[r].todo) \in Seq(Steps)
  BY WorkMoves, CheckMoves, BuildMoves, Served, EmptySeq DEF Arms, Place
<1>2. ASSUME req'[r] = Idle PROVE Keeps(r)
  BY <1>2 DEF Keeps
<1>3. ASSUME Then(r, <<>>) PROVE Keeps(r)
  BY <1>1, <1>3, ThenKeeps
<1>4. ASSUME NEW steps, Then(r, steps), steps \in Seq(Steps), Head(steps) \notin DiskSteps
      PROVE  Keeps(r)
  BY <1>1, <1>4, ThenKeeps
<1>5. CASE Arms(r)
  BY <1>2, <1>5, CheckMoves, BuildMoves DEF Arms, Keeps
<1>6. ASSUME NEW step, NEW in, NEW steps \in Seq(Steps), MoveOnFrom(r, step, in, steps),
             Head(steps) \notin DiskSteps
      PROVE  Keeps(r)
  BY <1>3, <1>4, <1>6 DEF MoveOnFrom
<1>7. CASE Propose(r) \/ Authorize(r) \/ Block(r)
  <2>1. /\ <<"RECOVERY_PROPOSED", "case">> \in Seq(Steps) /\ <<"AUTHORIZED">> \in Seq(Steps)
        /\ <<"BLOCKED">> \in Seq(Steps)
    BY DEF Steps, States, DiskSteps
  <2>2. /\ Head(<<"RECOVERY_PROPOSED", "case">>) = "RECOVERY_PROPOSED"
        /\ Head(<<"AUTHORIZED">>) = "AUTHORIZED" /\ Head(<<"BLOCKED">>) = "BLOCKED"
    OBVIOUS
  <2> QED
    BY <1>6, <1>7, <2>1, <2>2 DEF Propose, Authorize, Block, DiskSteps
<1>8. CASE Gate(r) \/ Dispatch(r)
  <2>1. /\ <<"dispatch">> \in Seq(Steps) /\ <<"refused">> \in Seq(Steps) /\ AfterDispatch \in Seq(Steps)
        /\ <<"deliver", "credit">> \o AfterDispatch \in Seq(Steps)
    BY FixedChains DEF Chain
  <2>2. /\ Head(<<"dispatch">>) = "dispatch" /\ Head(<<"refused">>) = "refused"
        /\ Head(AfterDispatch) = "mark" /\ Head(<<"deliver", "credit">> \o AfterDispatch) = "deliver"
    BY FixedChains
  <2>3. \E steps \in {<<"dispatch">>, <<"refused">>, AfterDispatch, <<"deliver", "credit">> \o AfterDispatch} :
           Then(r, steps)
    BY <1>8 DEF Gate, Dispatch, ReplayWebhook, SyncCustomer, Unserved
  <2> HIDE DEF AfterDispatch
  <2> QED
    BY <1>4, <2>1, <2>2, <2>3 DEF DiskSteps
<1>9. CASE WriteTransition(r) \/ DeliverWebhook(r) \/ CreditCustomer(r) \/ MarkExecuted(r) \/ CountAttempt(r)
  BY <1>3, <1>9 DEF WriteTransition, DeliverWebhook, CreditCustomer, MarkExecuted, CountAttempt
<1>10. CASE Store(r) /\ ~BuildRow(r)
  BY <1>2, <1>3, <1>10, ReturnMoves DEF Store, SaveCase, RecordTransition, RecordRow, DropWrites
<1>11. CASE ReadAttempts(r)
  <2>1. req'[r].todo = Tail(req[r].todo)
    BY <1>11, ReadMoves
  <2> QED
    BY <1>1, <2>1, InParts DEF Keeps
<1>12. CASE Verify(r)
  <2>1. req'[r].todo = <<Verdict(r)>> \o Tail(req[r].todo) /\ <<Verdict(r)>> \in Seq(Steps)
    BY <1>12, VerifyMoves DEF Steps, States
  <2> QED
    <3>1. ASSUME NEW s \in Needing, In(req[r].todo, {s}), Place(r) # s PROVE In(req'[r].todo, {s})
      <4>1. In(Tail(req[r].todo), {s})
        BY <1>1, <3>1, InParts
      <4> QED
        BY <1>1, <2>1, <4>1, InRest
    <3> QED
      BY <3>1 DEF Keeps
<1>13. CASE Refused(r)
  <2>1. Tail(req[r].todo) = <<>>
    BY <1>13, InExecute DEF Refused, Steps, States, Ends, DiskSteps
  <2> QED
    BY <1>1, <2>1, InParts, InNothing DEF Keeps
<1> QED
  BY <1>5, <1>7, <1>8, <1>9, <1>10, <1>11, <1>12, <1>13 DEF Serve, Arms

\* A thread at a write to the tables does it, or is done.
LEMMA AtStore ==
    ASSUME TypeOK, Shapes, NEW r \in Requests, Serve(r) \/ Store(r), req'[r] # Idle \/ ~DropWrites(r)
    PROVE  /\ Place(r) \in {"investigated", "refusal", "executed", "verified"} => RecordTransition(r)
           /\ Place(r) \in {"cap", "verdict", "escalation"} => RecordRow(r)
<1>1. ASSUME NEW step, At(r, step) PROVE Place(r) = step
  BY <1>1, AtServed, Served
<1>2. \/ RecordTransition(r) \/ RecordRow(r) \/ DropWrites(r)
      \/ \E step \in Steps \ (DiskSteps \ {"case"}) : At(r, step)
  BY DEF Serve, Store, CheckTransition, WriteTransition, Moving, Propose, Authorize, MoveOnFrom,
     Gate, Dispatch, DeliverWebhook, CreditCustomer, MarkExecuted, ReadAttempts, CountAttempt, Verify,
     Refused, Block, BuildRow, SaveCase, Steps, States, DiskSteps
<1>3. ASSUME DropWrites(r), req'[r] # Idle PROVE Place(r) = "case"
  BY <1>1, <1>3, ReturnMoves DEF DropWrites
<1> QED
  BY <1>1, <1>2, <1>3 DEF RecordTransition, RecordRow, DiskSteps

\* A thread that has still to write of a mutation, and of its verdict.
Writing(r) ==
    LET c == CaseOf(r) IN
    /\ In(req[r].todo, {"executed"}) => Mutated(c) > 0
    /\ In(req[r].todo, {"verdict"}) =>
           /\ In(req[r].todo, {"cap"}) \/ "capability" \in records[c]
           /\ In(req[r].todo, {"executed"}) \/ "executed" \in records[c]

\* What the rows of a case say, but for its escalation.
RowsHold(c) ==
    /\ "executed" \in records[c] => Mutated(c) > 0
    /\ {"PASS", "FAIL"} \cap records[c] # {} => {"capability", "executed"} \subseteq records[c]
    /\ "PASS" \in records[c] => kind[c] = "payment_webhook_failed" /\ (c \in lost \/ Passed(kind[c]))

RowsTrue ==
    /\ \A c \in Cases : RowsHold(c)
    /\ \A r \in Requests : req[r] # Idle => Writing(r)

\* The rows of a case only become more, and each is written by a thread that is at it.
LEMMA RecordsGrow ==
    ASSUME TypeOK, Shapes, [Next]_vars
    PROVE  \/ UNCHANGED records
           \/ \E r \in Requests :
                /\ req[r] # Idle /\ CaseOf(r) \in Cases
                /\ \A c \in Cases \ {CaseOf(r)} : records'[c] = records[c]
                /\ \/ /\ RecordTransition(r)
                      /\ records'[CaseOf(r)] = IF Place(r) = "executed" THEN records[CaseOf(r)] \cup {"executed"}
                                               ELSE records[CaseOf(r)]
                   \/ /\ RecordRow(r) /\ Place(r) \in {"cap", "verdict", "escalation"}
                      /\ records'[CaseOf(r)] = records[CaseOf(r)] \cup RowOf(r)
<1>1. ASSUME NEW r \in Requests, NEW step, At(r, step)
      PROVE  req[r] # Idle /\ CaseOf(r) \in Cases /\ Place(r) = step /\ \A t : At(r, t) <=> t = Place(r)
  BY <1>1, AtServed, Served DEF CaseOf
<1>2. ASSUME NEW r \in Requests, RecordTransition(r)
      PROVE  /\ req[r] # Idle /\ CaseOf(r) \in Cases
             /\ \A c \in Cases \ {CaseOf(r)} : records'[c] = records[c]
             /\ records'[CaseOf(r)] = IF Place(r) = "executed" THEN records[CaseOf(r)] \cup {"executed"}
                                      ELSE records[CaseOf(r)]
  <2>1. /\ req[r] # Idle /\ CaseOf(r) \in Cases /\ (At(r, "executed") <=> Place(r) = "executed")
    BY <1>1, <1>2 DEF RecordTransition
  <2>2. records' = [records EXCEPT ![CaseOf(r)] = IF At(r, "executed") THEN @ \cup {"executed"} ELSE @]
    BY <1>2 DEF RecordTransition
  <2> QED
    BY <2>1, <2>2 DEF TypeOK
<1>3. ASSUME NEW r \in Requests, RecordRow(r)
      PROVE  /\ req[r] # Idle /\ CaseOf(r) \in Cases /\ Place(r) \in {"cap", "verdict", "escalation"}
             /\ \A c \in Cases \ {CaseOf(r)} : records'[c] = records[c]
             /\ records'[CaseOf(r)] = records[CaseOf(r)] \cup RowOf(r)
  <2>1. req[r] # Idle /\ CaseOf(r) \in Cases /\ Place(r) \in {"cap", "verdict", "escalation"}
    BY <1>1, <1>3 DEF RecordRow
  <2>2. records' = [records EXCEPT ![CaseOf(r)] = @ \cup RowOf(r)]
    BY <1>3 DEF RecordRow
  <2> QED
    BY <2>1, <2>2 DEF TypeOK
<1> QED
  BY <1>2, <1>3, DiskFrames

\* A mutation is never undone.
LEMMA MutatedGrows ==
    ASSUME TypeOK, [Next]_vars, NEW c \in Cases
    PROVE  Mutated(c) \in Nat /\ Mutated(c)' \in Nat /\ Mutated(c)' >= Mutated(c)
<1>1. <<c, "replay_webhook">> \in Keys /\ <<c, "sync_crm">> \in Keys
  BY DEF Keys, Mutations
<1>2. CASE Restart
  BY <1>1, <1>2 DEF Restart, Mutated, TypeOK
<1>3. CASE ~Restart
  <2>1. \A k \in Keys : effects[k] \in Nat /\ effects'[k] \in Nat /\ effects'[k] >= effects[k]
    BY <1>3, Stays DEF TypeOK
  <2> QED
    BY <1>1, <2>1 DEF Mutated
<1> QED
  BY <1>2, <1>3

\* A thread whose mutation the adapter has just taken on.
Dispatched(r) ==
    /\ Dispatch(r) /\ effects' = [effects EXCEPT ![KeyOf(r)] = @ + 1] /\ KeyOf(r) \in Keys
    /\ \/ Comes(r, "mark") /\ req'[r].todo = AfterDispatch
       \/ Comes(r, "deliver") /\ req'[r].todo = <<"deliver", "credit">> \o AfterDispatch

\* It has all these writes left.
LEMMA LeftToDo ==
    ASSUME NEW todo \in {AfterDispatch, <<"deliver", "credit">> \o AfterDispatch}
    PROVE  /\ \A s \in {"cap", "executed", "verified", "verdict", "escalation"} : In(todo, {s})
           /\ \A s \in {"investigated", "refusal"} : ~In(todo, {s})
<1>1. /\ DOMAIN AfterDispatch = 1..12 /\ AfterDispatch[8] = "cap" /\ AfterDispatch[9] = "executed"
      /\ AfterDispatch[10] = "verified" /\ AfterDispatch[11] = "verdict"
      /\ AfterDispatch[12] = "escalation"
      /\ \A i \in 1..12 : AfterDispatch[i] \notin {"investigated", "refusal"}
  BY DEF AfterDispatch
<1>2. ASSUME NEW s \in {"cap", "executed", "verified", "verdict", "escalation"}
      PROVE  In(AfterDispatch, {s})
  BY <1>1 DEF In
<1>3. ASSUME NEW s \in {"investigated", "refusal"} PROVE ~In(AfterDispatch, {s})
  BY <1>1 DEF In
<1>4. AfterDispatch \in Seq(Steps) /\ <<"deliver", "credit">> \in Seq(Steps)
  BY FixedChains DEF Chain, Steps
<1> HIDE DEF AfterDispatch
<1>5. \A S : /\ In(AfterDispatch, S) => In(<<"deliver", "credit">> \o AfterDispatch, S)
            /\ In(<<"deliver", "credit">> \o AfterDispatch, S)
                  => In(<<"deliver", "credit">>, S) \/ In(AfterDispatch, S)
  BY <1>4, InConcat, InRest
<1>6. ~In(<<"deliver", "credit">>, {"investigated"}) /\ ~In(<<"deliver", "credit">>, {"refusal"})
  BY DEF In
<1>7. CASE todo = AfterDispatch
  BY <1>2, <1>3, <1>7
<1>8. CASE todo = <<"deliver", "credit">> \o AfterDispatch
  <2>1. ASSUME NEW s \in {"cap", "executed", "verified", "verdict", "escalation"} PROVE In(todo, {s})
    <3>1. In(AfterDispatch, {s})
      BY <1>2
    <3>2. In(<<"deliver", "credit">> \o AfterDispatch, {s})
      BY <1>4, <3>1, InRest
    <3> QED
      BY <1>8, <3>2
  <2>2. ~In(todo, {"investigated"}) /\ ~In(todo, {"refusal"})
    <3>1. ~In(AfterDispatch, {"investigated"}) /\ ~In(AfterDispatch, {"refusal"})
      BY <1>3
    <3> QED
      BY <1>5, <1>6, <1>8, <3>1, Zenon
  <2> QED
    BY <2>1, <2>2
<1> QED
  BY <1>7, <1>8

\* A handler comes to have writes before it only when it has been at the adapter, or is
\* refused.
LEMMA WorkNoNew ==
    ASSUME TypeOK, Shapes, NEW r \in Requests, Serve(r) \/ Store(r), req'[r] # Idle,
           NEW s \in Needing, In(req'[r].todo, {s})
    PROVE  \/ In(req[r].todo, {s})
           \/ Dispatched(r)
           \/ Refused(r) /\ s \in {"cap", "refusal"}
<1>1. ASSUME NoNew(r) PROVE In(req[r].todo, {s})
  BY <1>1 DEF NoNew
<1>2. CASE Refused(r)
  <2>1. req'[r].todo = <<"block", "case", "cap", "refusal">>
    BY <1>2, RefusedMoves
  <2> QED
    BY <1>2, <2>1 DEF In, Needing
<1>3. CASE Dispatch(r)
  <2>1. req[r].action \in Mutations => KeyOf(r) \in Keys
    BY <1>3, DispatchMoves, Served DEF KeyOf, Keys
  <2> QED
    BY <1>1, <1>3, <2>1, DispatchMoves DEF Dispatched
<1>4. CASE Arms(r)
  BY <1>4, CheckMoves, BuildMoves DEF Arms
<1>5. CASE ReadAttempts(r)
  BY <1>5, ReadMoves, Served, InParts
<1>6. CASE DeliverWebhook(r) \/ CreditCustomer(r) \/ MarkExecuted(r) \/ CountAttempt(r)
  <2>1. req[r] # Idle /\ Then(r, <<>>)
    BY <1>6, AtServed DEF DeliverWebhook, CreditCustomer, MarkExecuted, CountAttempt
  <2> QED
    BY <1>1, <2>1, ThenMoves
<1> QED
  BY <1>1, <1>2, <1>3, <1>4, <1>5, <1>6, ProposeMoves, AuthorizeMoves, BlockMoves, GateMoves,
     VerifyMoves, StoreMoves, WriteMoves DEF Serve, Arms

LEMMA StepRows ==
    ASSUME TypeOK, Shapes, InService, RowsTrue, [Next]_vars, NEW c \in Cases
    PROVE  RowsHold(c)'
<1>1. /\ RowsHold(c) /\ Mutated(c) \in Nat /\ Mutated(c)' \in Nat /\ Mutated(c)' >= Mutated(c)
      /\ records[c] \in SUBSET {"capability", "executed", "PASS", "FAIL", "escalation"}
  BY MutatedGrows DEF RowsTrue, TypeOK
<1>2. ASSUME kind[c] = "payment_webhook_failed", c \in lost \/ Passed(kind[c])
      PROVE  kind'[c] = "payment_webhook_failed" /\ (c \in lost' \/ Passed(kind[c])')
  <2>1. CASE Restart
    BY <1>2, <2>1 DEF Restart, caseVars
  <2>2. CASE ~Restart
    BY <1>2, <2>2, Stays
  <2> QED
    BY <2>1, <2>2
<1>3. ASSUME records'[c] = records[c] PROVE RowsHold(c)'
  BY <1>1, <1>2, <1>3 DEF RowsHold
<1>4. ASSUME NEW r \in Requests, req[r] # Idle, CaseOf(r) = c, Place(r) = "executed",
             records'[c] = records[c] \cup {"executed"}
      PROVE  RowsHold(c)'
  <2>1. In(req[r].todo, {"executed"})
    BY <1>4, Served, InParts DEF Place
  <2>2. Mutated(c) > 0
    BY <1>4, <2>1 DEF RowsTrue, Writing
  <2> QED
    BY <1>1, <1>2, <1>4, <2>2 DEF RowsHold
<1>5. ASSUME NEW r \in Requests, req[r] # Idle, CaseOf(r) = c,
             Place(r) \in {"cap", "verdict", "escalation"}, records'[c] = records[c] \cup RowOf(r)
      PROVE  RowsHold(c)'
  <2>1. \A t : At(r, t) <=> t = Place(r)
    BY <1>5, Served
  <2>2. CASE Place(r) \in {"cap", "escalation"}
    <3>1. RowOf(r) \subseteq {"capability", "escalation"}
      BY <2>1, <2>2 DEF RowOf
    <3> QED
      BY <1>1, <1>2, <1>5, <3>1 DEF RowsHold
  <2>3. CASE Place(r) = "verdict"
    <3>1. RowOf(r) = {IF req[r].passed THEN "PASS" ELSE "FAIL"}
      BY <2>1, <2>3 DEF RowOf
    <3>2. Chain(req[r].todo)
      BY <1>5, <2>1, <2>3, InExecute DEF Steps, DiskSteps, States
    <3>3. Chain(Tail(req[r].todo)) /\ Head(Tail(req[r].todo)) = "escalation"
      BY <2>3, <3>2, ChainTail DEF Place, Follows, Ends
    <3>4. Tail(Tail(req[r].todo)) = <<>> /\ Tail(req[r].todo) \in Seq(Steps) /\ Tail(req[r].todo) # <<>>
      BY <3>3, ChainTail DEF Ends, Chain
    <3>5. /\ In(req[r].todo, {"verdict"}) /\ ~In(req[r].todo, {"cap"})
          /\ ~In(req[r].todo, {"executed"})
      BY <1>5, <2>3, <3>3, <3>4, Served, InParts, InNothing DEF Place
    <3>6. {"capability", "executed"} \subseteq records[c]
      BY <1>5, <3>5 DEF RowsTrue, Writing
    <3>7. req[r].passed => kind[c] = "payment_webhook_failed" /\ Passed(kind[c])
      BY <1>5 DEF InService, Backed, Passed, HasPostconditions
    <3> QED
      BY <1>1, <1>2, <1>5, <3>1, <3>6, <3>7 DEF RowsHold
  <2> QED
    BY <1>5, <2>2, <2>3
<1> QED
  BY <1>3, <1>4, <1>5, RecordsGrow

LEMMA StepWriting ==
    ASSUME TypeOK, Shapes, RowsTrue, [Next]_vars, NEW r \in Requests, req'[r] # Idle
    PROVE  Writing(r)'
<1>1. \A c \in Cases : records[c] \subseteq records'[c]
  <2>1. ASSUME NEW s \in Requests, NEW c \in Cases,
               \A d \in Cases \ {CaseOf(s)} : records'[d] = records[d],
               \/ records'[CaseOf(s)] \in {records[CaseOf(s)], records[CaseOf(s)] \cup {"executed"}}
               \/ records'[CaseOf(s)] = records[CaseOf(s)] \cup RowOf(s)
        PROVE  records[c] \subseteq records'[c]
    BY <2>1
  <2> QED
    BY <2>1, RecordsGrow
<1>2. \A c \in Cases : Mutated(c) \in Nat /\ Mutated(c)' \in Nat /\ Mutated(c)' >= Mutated(c)
  BY MutatedGrows
<1>3. ASSUME UNCHANGED req[r] PROVE Writing(r)'
  <2>1. Writing(r) /\ CaseOf(r) \in Cases /\ CaseOf(r)' = CaseOf(r)
    BY <1>3, Served DEF RowsTrue, CaseOf
  <2> QED
    BY <1>1, <1>2, <1>3, <2>1 DEF Writing
<1>4. ASSUME Receive(r) PROVE Writing(r)'
  <2>1. ~In(req'[r].todo, {"executed"}) /\ ~In(req'[r].todo, {"verdict"})
    <3>1. \/ req'[r].todo = <<"INVESTIGATING", "case", "investigated">>
          \/ req'[r].todo = <<"propose", "authorize", "gate">>
          \/ req'[r].action = "declare" /\ Shape(req'[r])
      BY <1>4, ReceiveStarts DEF Starts
    <3>2. \/ req'[r].todo = <<"INVESTIGATING", "case", "investigated">>
          \/ req'[r].todo = <<"propose", "authorize", "gate">>
          \/ req'[r].todo = <<"case">>
          \/ \E to \in States : req'[r].todo = <<to, "case">>
      BY <3>1 DEF Shape
    <3> QED
      BY <3>2 DEF In, States
  <2> QED
    BY <2>1 DEF Writing
<1>5. ASSUME Serve(r) \/ Store(r) PROVE Writing(r)'
  <2>1. /\ req[r] # Idle /\ Writing(r) /\ CaseOf(r) \in Cases /\ CaseOf(r)' = CaseOf(r) /\ Keeps(r)
    <3>1. req[r] # Idle /\ req'[r].case = req[r].case
      BY <1>5, CountPlaces
    <3> QED
      BY <1>5, <3>1, Served, WorkKeeps DEF RowsTrue, CaseOf
  <2>2. CASE Dispatched(r)
    <3>1. In(req'[r].todo, {"cap"}) /\ In(req'[r].todo, {"executed"})
      BY <2>2, LeftToDo DEF Dispatched
    <3>2. Mutated(CaseOf(r))' > 0
      <4>1. req[r].action \in Mutations /\ KeyOf(r) = <<CaseOf(r), req[r].action>>
        BY <2>2, <2>1 DEF Dispatched, Keys, KeyOf, CaseOf
      <4>2. /\ <<CaseOf(r), "replay_webhook">> \in Keys /\ <<CaseOf(r), "sync_crm">> \in Keys
        BY <2>1 DEF Keys, Mutations
      <4>3. effects'[KeyOf(r)] > 0 /\ \A k \in Keys : effects'[k] \in Nat
        BY <2>2 DEF Dispatched, TypeOK
      <4> QED
        BY <2>1, <4>1, <4>2, <4>3 DEF Mutated, Mutations
    <3> QED
      BY <3>1, <3>2 DEF Writing
  <2>3. CASE ~Dispatched(r)
    <3>1. ASSUME NEW s \in {"executed", "verdict"}, In(req'[r].todo, {s}) PROVE In(req[r].todo, {s})
      BY <1>5, <2>3, <3>1, WorkNoNew DEF Needing
    <3>2. In(req'[r].todo, {"executed"}) => Mutated(CaseOf(r))' > 0
      BY <1>2, <2>1, <3>1 DEF Writing
    <3>3. ASSUME In(req'[r].todo, {"verdict"}), ~In(req'[r].todo, {"cap"})
          PROVE  "capability" \in records'[CaseOf(r)]
      <4>1. In(req[r].todo, {"verdict"})
        BY <3>1, <3>3
      <4>2. Place(r) = "cap" \/ "capability" \in records[CaseOf(r)]
        BY <2>1, <3>3, <4>1 DEF Writing, Keeps, Needing
      <4>3. CASE Place(r) = "cap"
        <5>1. RecordRow(r) /\ At(r, "cap")
          BY <1>5, <2>1, <4>3, AtStore, Served
        <5> QED
          BY <2>1, <5>1 DEF RecordRow, RowOf, TypeOK
      <4> QED
        BY <1>1, <2>1, <4>2, <4>3
    <3>4. ASSUME In(req'[r].todo, {"verdict"}), ~In(req'[r].todo, {"executed"})
          PROVE  "executed" \in records'[CaseOf(r)]
      <4>1. In(req[r].todo, {"verdict"})
        BY <3>1, <3>4
      <4>2. Place(r) = "executed" \/ "executed" \in records[CaseOf(r)]
        BY <2>1, <3>4, <4>1 DEF Writing, Keeps, Needing
      <4>3. CASE Place(r) = "executed"
        <5>1. RecordTransition(r) /\ At(r, "executed")
          BY <1>5, <2>1, <4>3, AtStore, Served
        <5> QED
          BY <2>1, <5>1 DEF RecordTransition, TypeOK
      <4> QED
        BY <1>1, <2>1, <4>2, <4>3
    <3> QED
      BY <2>1, <3>2, <3>3, <3>4 DEF Writing
  <2> QED
    BY <2>2, <2>3
<1>6. ASSUME NEW s \in Requests, s # r, Receive(s) \/ Serve(s) \/ Store(s) PROVE UNCHANGED req[r]
  BY <1>6, ReceiveStarts, CountPlaces DEF Starts
<1>7. ASSUME NEW c \in Cases, ExpireEnvelope(c) \/ \E k \in Kinds : CreateException(c, k)
      PROVE  UNCHANGED req
  BY <1>7 DEF ExpireEnvelope, CreateException
<1>8. ~Restart
  BY DEF Restart
<1>9. UNCHANGED vars => UNCHANGED req
  BY DEF vars
<1> QED
  BY <1>3, <1>4, <1>5, <1>6, <1>7, <1>8, <1>9 DEF Next

LEMMA StepRowsTrue ==
    ASSUME TypeOK, Shapes, InService, RowsTrue, [Next]_vars
    PROVE  RowsTrue'
<1>1. \A c \in Cases : RowsHold(c)'
  BY StepRows
<1>2. \A r \in Requests : req'[r] # Idle => Writing(r)'
  BY StepWriting
<1> QED
  BY <1>1, <1>2 DEF RowsTrue

\* The rows that a case has, it keeps.
LEMMA RecordsStay ==
    ASSUME TypeOK, Shapes, [Next]_vars, NEW c \in Cases
    PROVE  records[c] \subseteq records'[c]
<1>1. ASSUME NEW s \in Requests, \A d \in Cases \ {CaseOf(s)} : records'[d] = records[d],
             \/ records'[CaseOf(s)] \in {records[CaseOf(s)], records[CaseOf(s)] \cup {"executed"}}
             \/ records'[CaseOf(s)] = records[CaseOf(s)] \cup RowOf(s)
      PROVE  records[c] \subseteq records'[c]
  BY <1>1
<1> QED
  BY <1>1, RecordsGrow

-----------------------------------------------------------------------------
\* The inductive invariant, for any number of threads.

IInv ==
    /\ TypeOK /\ Shapes /\ FromKnown /\ InService /\ LostExisted
    /\ ResolvedIsProved /\ EffectsWithinPolicy /\ Backing /\ Carried
    /\ NoDisk /\ RowsTrue

LEMMA InitIInv == Init => IInv
<1> SUFFICES ASSUME Init PROVE IInv
  OBVIOUS
<1>1. TypeOK /\ Shapes
  BY InitThreads
<1>2. FromKnown /\ InService
  BY DEF Init, FromKnown, InService
<1>3. LostExisted /\ ResolvedIsProved /\ Carried
  BY DEF Init, LostExisted, ResolvedIsProved, Carried, Midway
<1>4. EffectsWithinPolicy
  BY DEF Init, EffectsWithinPolicy
<1>5. Backing
  <2>1. \A c : Counting(c) = {}
    BY DEF Init, Counting
  <2>2. \A c \in Cases : attempts[c] = 0 /\ Mutated(c) \in Nat
    BY <1>1, MutatedIsNat DEF Init
  <2>3. ASSUME NEW c \in Cases
        PROVE  IsFiniteSet(Counting(c)) /\ attempts[c] + Cardinality(Counting(c)) <= Mutated(c)
    BY <2>1, <2>2, FS_EmptySet
  <2> QED
    BY <2>1, <2>3 DEF Backing
<1>6. NoDisk
  BY DEF Init, NoDisk
<1>7. RowsTrue
  BY DEF Init, RowsTrue, RowsHold
<1> QED
  BY <1>1, <1>2, <1>3, <1>4, <1>5, <1>6, <1>7 DEF IInv

LEMMA StepIInv == IInv /\ [Next]_vars => IInv'
<1> SUFFICES ASSUME IInv, [Next]_vars PROVE IInv'
  OBVIOUS
<1> USE DEF IInv
<1>1. TypeOK'
  <2>1. VarsTyped' /\ ThreadsTyped'
    BY StepVars, StepThreads
  <2> QED
    BY <2>1 DEF TypeOK, VarsTyped, ThreadsTyped, Threads
<1>2. Shapes' /\ FromKnown' /\ InService' /\ LostExisted'
  BY StepThreads, StepFrom, StepInService, StepLost
<1>3. ResolvedIsProved' /\ EffectsWithinPolicy' /\ Backing' /\ Carried'
  BY StepResolved, StepPolicy, StepBacking, StepCarried
<1>4. NoDisk' /\ RowsTrue'
  BY StepNoDisk, StepRowsTrue
<1> QED
  BY <1>1, <1>2, <1>3, <1>4

\* Whatever the server's threads do to each other, the disk refuses and a restart cuts off,
\* all of this holds at every moment.
THEOREM Inductive == Spec => []IInv
BY InitIInv, StepIInv, PTL DEF Spec

\* Every variable of the API keeps its type, and a thread is only ever armed for a
\* transition or for the commit of a row: no handler of routes.py goes on with steps that no state is left for.
THEOREM TypeCorrect == Spec => []TypeOK
<1>1. IInv => TypeOK
  BY DEF IInv
<1> QED
  BY <1>1, Inductive, PTL

\* A case that execute() resolved has its postconditions in the world, for any number of
\* concurrent requests: what verify_resolution() saw cannot be undone before the case's
\* state is written (api/routes.py and verification/resolution.py).
THEOREM ResolutionProved == Spec => []ResolvedIsProved
<1>1. IInv => ResolvedIsProved
  BY DEF IInv
<1> QED
  BY <1>1, Inductive, PTL

\* No mutation happens but under an envelope that permits it, and the idempotency store
\* knows of none that did not happen (recovery/executor.py).
THEOREM PolicyKept == Spec => []EffectsWithinPolicy
<1>1. IInv => EffectsWithinPolicy
  BY DEF IInv
<1> QED
  BY <1>1, Inductive, PTL

\* attempt_count, though it is incremented by a read and a write, never exceeds the number
\* of mutations: a case is never escalated before its attempts are exhausted.
THEOREM AttemptsBacked == Spec => []AttemptsAreBacked
<1>1. ASSUME TypeOK, Backing PROVE AttemptsAreBacked
  <2>1. ASSUME NEW c \in Cases PROVE attempts[c] <= Mutated(c)
    <3>1. IsFiniteSet(Counting(c)) /\ attempts[c] + Cardinality(Counting(c)) <= Mutated(c)
      BY <1>1 DEF Backing
    <3>2. Cardinality(Counting(c)) \in Nat
      BY <3>1, FS_CardinalityType
    <3>3. attempts[c] \in Nat /\ Mutated(c) \in Nat
      BY <1>1, MutatedIsNat DEF TypeOK
    <3> HIDE DEF Counting, Mutated
    <3> QED
      BY <3>1, <3>2, <3>3
  <2> QED
    BY <2>1 DEF AttemptsAreBacked
<1>2. IInv => AttemptsAreBacked
  BY <1>1 DEF IInv
<1> QED
  BY <1>2, Inductive, PTL

\* Requests that race for one case can fail each other's transitions, but one of them always
\* takes the case out of the middle of execute(): when all have returned, no case is stuck
\* there, unless a client declared that state.
THEOREM NoneStranded == Spec => []NoStrandedCase
<1>1. Carried => NoStrandedCase
  BY DEF Carried, NoStrandedCase, Quiescent, Carries
<1>2. IInv => NoStrandedCase
  BY <1>1 DEF IInv
<1> QED
  BY <1>2, Inductive, PTL

\* The records of executions and verdicts claim nothing that did not happen, whatever
\* requests interleave and wherever a restart or a refused write cuts them off (the
\* writes at the end of execute() in api/routes.py).
THEOREM RowsBelievable == Spec => []\A c \in Cases : RowsHold(c)
<1>1. IInv => \A c \in Cases : RowsHold(c)
  BY DEF IInv, RowsTrue
<1> QED
  BY <1>1, Inductive, PTL

-----------------------------------------------------------------------------
\* Requests one after the other.

\* No two requests overlap, as when the only client waits for each answer.  The server does
\* not see to that: when requests race, a row of the table of cases can be committed after
\* a later one, a row of the trail can be of another request's move, and one request's word
\* can take a case to ESCALATED while another verifies it.
OneAtATime == \A r, s \in Requests : r = s

\* The case of a thread armed for a transition is still in the state it was checked for.
Armed ==
    \A r \in Requests : req[r] # Idle /\ req[r].armed /\ Place(r) \in States
                           => CanTransition(StateOf(r), Place(r))

LEMMA StepArmed ==
    ASSUME OneAtATime, TypeOK, Shapes, Armed, [Next]_vars
    PROVE  Armed'
<1>1. ASSUME NEW r \in Requests,
             req'[r] # Idle /\ req'[r].armed /\ Place(r)' \in States => CanTransition(StateOf(r), Place(r))'
      PROVE  Armed'
  BY <1>1, OneAtATime DEF Armed, OneAtATime
<1>2. ASSUME NEW r \in Requests, Serve(r) \/ Store(r), ~CheckTransition(r) PROVE Armed'
  <2>1. CASE BuildRow(r)
    BY <1>1, <2>1, BuildMoves DEF Place, States
  <2>2. CASE ~BuildRow(r)
    BY <1>1, <1>2, <2>2, WorkMoves DEF Moves, Arms
  <2> QED
    BY <2>1, <2>2
<1>3. ASSUME NEW r \in Requests, CheckTransition(r) PROVE Armed'
  <2>1. UNCHANGED state
    BY <1>3 DEF CheckTransition, caseVars
  <2>2. req'[r] # Idle => /\ CanTransition(StateOf(r), Place(r)) /\ Place(r)' = Place(r)
                          /\ req'[r].case = req[r].case
    BY <1>3, CheckMoves DEF Place
  <2> QED
    BY <1>1, <2>1, <2>2 DEF StateOf, CaseOf
<1>4. ASSUME NEW r \in Requests, Receive(r) PROVE Armed'
  BY <1>1, <1>4, ReceiveStarts DEF Starts
<1>5. UNCHANGED <<req, state>> => Armed'
  BY DEF Armed, StateOf, CaseOf, Place
<1>6. ASSUME NEW c \in Cases, ExpireEnvelope(c) \/ \E k \in Kinds : CreateException(c, k)
      PROVE  UNCHANGED <<req, state>>
  BY <1>6 DEF ExpireEnvelope, CreateException
<1>7. Restart => Armed'
  BY DEF Restart, Armed
<1>8. UNCHANGED vars => UNCHANGED <<req, state>>
  BY DEF vars, caseVars
<1> QED
  BY <1>2, <1>3, <1>4, <1>5, <1>6, <1>7, <1>8 DEF Next

\* Every mutation is counted, or the thread that will count it has just read the count.
Counted ==
    \A c \in Cases \ lost :
        /\ attempts[c] + Cardinality(Counting(c)) = Mutated(c)
        /\ \A r \in Requests : SawThen(r, c) => req[r].seen = attempts[c]

LEMMA StepCounted ==
    ASSUME OneAtATime, TypeOK, Shapes, InService, LostExisted, Backing, Counted, [Next]_vars
    PROVE  Counted'
<1> DEFINE Kept(c) ==
             /\ attempts[c] + Cardinality(Counting(c)) = Mutated(c)
             /\ \A r \in Requests : SawThen(r, c) => req[r].seen = attempts[c]
<1>1. Counted <=> \A c \in Cases \ lost : Kept(c)
  BY DEF Counted
<1>2. Counted' <=> \A c \in Cases \ lost' : Kept(c)'
  BY DEF Counted
<1>3. ASSUME NEW c \in Cases
      PROVE  /\ IsFiniteSet(Counting(c)) /\ Cardinality(Counting(c)) \in Nat
             /\ attempts[c] \in Nat /\ Mutated(c) \in Nat
  BY MutatedIsNat, FS_CardinalityType DEF TypeOK, Backing
<1>4. CASE Restart
  <2>1. ASSUME NEW c \in Cases \ lost' PROVE Kept(c)'
    <3>1. kind[c] = "absent" /\ c \notin lost
      BY <1>4, <2>1 DEF Restart, LostExisted
    <3>2. Counting(c) = {} /\ Counting(c)' = {}
      BY <1>4, <3>1 DEF Restart, Counting, InService, Backed
    <3>3. Mutated(c)' = Mutated(c) /\ attempts'[c] = attempts[c]
      BY <1>4 DEF Restart, Mutated, caseVars
    <3>4. Kept(c)
      BY <1>1, <3>1
    <3> QED
      BY <3>2, <3>3, <3>4 DEF SawThen
  <2> QED
    BY <1>2, <2>1
<1>5. CASE ~Restart /\ Steady
  <2>1. ASSUME NEW c \in Cases \ lost' PROVE Kept(c)'
    <3>1. Kept(c)
      BY <1>1, <1>5, <2>1, Stays
    <3> QED
      BY <1>5, <3>1 DEF Steady
  <2> QED
    BY <1>2, <2>1
<1>6. ASSUME ~Restart, NEW d \in Cases, NEW r \in Requests, Adds(d, r) PROVE Counted'
  <2>1. ASSUME NEW c \in Cases \ lost' PROVE Kept(c)
    BY <1>1, <1>6, <2>1, Stays
  <2>2. Cardinality(Counting(d)') = Cardinality(Counting(d)) + 1
    BY <1>3, <1>6, FS_AddElement DEF Adds
  <2>3. ASSUME d \notin lost' PROVE Kept(d)'
    <3>1. Kept(d)
      BY <2>1, <2>3
    <3>2. /\ attempts' = attempts /\ Mutated(d)' = Mutated(d) + 1
          /\ \A s \in Requests : SawThen(s, d)' => SawThen(s, d) /\ req'[s].seen = req[s].seen
      BY <1>6 DEF Adds
    <3>3. attempts'[d] + Cardinality(Counting(d)') = Mutated(d)'
      BY <1>3, <2>2, <3>1, <3>2
    <3> QED
      BY <3>1, <3>2, <3>3
  <2>4. ASSUME NEW c \in Cases \ lost', c # d PROVE Kept(c)'
    BY <1>6, <2>1, <2>4 DEF Adds
  <2> QED
    BY <1>2, <2>3, <2>4
<1>7. ASSUME ~Restart, NEW d \in Cases, NEW r \in Requests, Removes(d, r) PROVE Counted'
  <2>1. ASSUME NEW c \in Cases \ lost' PROVE Kept(c)
    BY <1>1, <1>7, <2>1, Stays
  <2>2. Cardinality(Counting(d)') = Cardinality(Counting(d)) - 1
    BY <1>3, <1>7, FS_RemoveElement DEF Removes, SawThen
  <2>3. attempts'[d] = req[r].seen + 1 /\ \A c \in Cases \ {d} : attempts'[c] = attempts[c]
    BY <1>7 DEF Removes, TypeOK
  <2>4. ASSUME d \notin lost' PROVE Kept(d)'
    <3>1. Kept(d) /\ SawThen(r, d)
      BY <1>7, <2>1, <2>4 DEF Removes
    <3>2. req[r].seen = attempts[d] /\ Mutated(d)' = Mutated(d)
      BY <1>7, <3>1 DEF Removes
    <3>3. attempts'[d] + Cardinality(Counting(d)') = Mutated(d)'
      BY <1>3, <2>2, <2>3, <3>1, <3>2
    <3>4. ASSUME NEW s \in Requests, SawThen(s, d)' PROVE FALSE
      <4>1. s = r
        BY OneAtATime DEF OneAtATime
      <4> QED
        BY <1>7, <3>4, <4>1 DEF Removes, SawThen
    <3> QED
      BY <3>3, <3>4
  <2>5. ASSUME NEW c \in Cases \ lost', c # d PROVE Kept(c)'
    BY <1>7, <2>1, <2>3, <2>5 DEF Removes
  <2> QED
    BY <1>2, <2>4, <2>5
<1> QED
  BY <1>4, <1>5, <1>6, <1>7, CountMoves

\* What a case has been through is never taken back.
LEMMA AttemptsGrow ==
    ASSUME OneAtATime, TypeOK, Shapes, InService, Counted, [Next]_vars, NEW c \in Cases
    PROVE  attempts'[c] \in Nat /\ attempts'[c] >= attempts[c]
<1>1. attempts[c] \in Nat
  BY DEF TypeOK
<1>2. CASE Restart \/ Steady \/ \E d \in Cases, r \in Requests : Adds(d, r)
  BY <1>1, <1>2 DEF Restart, Steady, Adds, caseVars
<1>3. ASSUME NEW d \in Cases, NEW r \in Requests, Removes(d, r)
      PROVE  attempts'[c] \in Nat /\ attempts'[c] >= attempts[c]
  <2>1. SawThen(r, d) /\ d \notin lost
    BY <1>3 DEF Removes, SawThen, Counting, InService, Backed
  <2>2. req[r].seen = attempts[d]
    BY <2>1 DEF Counted
  <2> QED
    BY <1>1, <1>3, <2>2 DEF Removes, TypeOK
<1> QED
  BY <1>2, <1>3, CountMoves

-----------------------------------------------------------------------------
\* The rows of the cases, when requests do not overlap.

\* What an armed thread at the save of its case will commit is what the case is.
Built ==
    \A r \in Requests :
        req[r] # Idle /\ Place(r) = "case" /\ req[r].armed => req[r].row = Row(CaseOf(r))

LEMMA StepBuilt ==
    ASSUME OneAtATime, TypeOK, Shapes, Built, [Next]_vars
    PROVE  Built'
<1>1. ASSUME NEW r \in Requests,
             req'[r] # Idle /\ Place(r)' = "case" /\ req'[r].armed => req'[r].row = Row(CaseOf(r))'
      PROVE  Built'
  <2>1. \A s \in Requests : s = r
    BY OneAtATime DEF OneAtATime
  <2> QED
    BY <1>1, <2>1, Zenon DEF Built
<1>2. ASSUME NEW r \in Requests, Serve(r) \/ Store(r) PROVE Built'
  <2>1. CASE BuildRow(r)
    <3>1. req'[r].row = Row(CaseOf(r)) /\ UNCHANGED <<state, attempts, declared>>
      BY <2>1, BuildMoves DEF caseVars
    <3>2. CaseOf(r)' = CaseOf(r)
      BY <2>1, BuildMoves DEF CaseOf
    <3>3. Row(CaseOf(r))' = Row(CaseOf(r))
      BY <3>1, <3>2, Zenon DEF Row
    <3> QED
      BY <1>1, <3>1, <3>3, Zenon
  <2>2. CASE CheckTransition(r)
    BY <1>1, <2>2, CheckMoves DEF Place, States
  <2>3. CASE ~Arms(r)
    BY <1>1, <1>2, <2>3, WorkMoves DEF Moves
  <2> QED
    BY <2>1, <2>2, <2>3 DEF Arms
<1>3. ASSUME NEW r \in Requests, Receive(r) PROVE Built'
  BY <1>1, <1>3, ReceiveStarts DEF Starts
<1>4. UNCHANGED <<req, state, attempts, declared>> => Built'
  BY DEF Built, Row, CaseOf, Place
<1>5. ASSUME NEW c \in Cases, ExpireEnvelope(c) \/ \E k \in Kinds : CreateException(c, k)
      PROVE  UNCHANGED <<req, state, attempts, declared>>
  BY <1>5 DEF ExpireEnvelope, CreateException
<1>6. Restart => Built'
  BY DEF Restart, Built
<1>7. UNCHANGED vars => UNCHANGED <<req, state, attempts, declared>>
  BY DEF vars, caseVars
<1> QED
  BY <1>2, <1>3, <1>4, <1>5, <1>6, <1>7 DEF Next

\* So a save puts the case in the table as it is.
LEMMA SavesCurrent ==
    ASSUME TypeOK, Built, NEW r \in Requests, SaveCase(r)
    PROVE  /\ req[r] # Idle /\ Place(r) = "case" /\ CaseOf(r) \in Cases
           /\ \A c \in Cases : saved'[c] = IF c = CaseOf(r) THEN Row(c) ELSE saved[c]
           /\ saved'[CaseOf(r)].state = StateOf(r)
<1>1. req[r] # Idle /\ Place(r) = "case" /\ CaseOf(r) \in Cases /\ req[r].armed
  BY AtServed, Served DEF SaveCase, CaseOf
<1>2. saved' = [saved EXCEPT ![CaseOf(r)] = Row(CaseOf(r))]
  BY <1>1 DEF SaveCase, Built
<1>3. ASSUME NEW c \in Cases PROVE saved'[c] = IF c = CaseOf(r) THEN Row(c) ELSE saved[c]
  BY <1>2 DEF TypeOK
<1>4. Row(CaseOf(r)).state = StateOf(r)
  BY DEF Row, StateOf
<1>5. saved'[CaseOf(r)] = Row(CaseOf(r))
  BY <1>1, <1>3
<1> QED
  BY <1>1, <1>3, <1>4, <1>5

\* The thread that will write what case c is now.
Saving(r, c) == req[r] # Idle /\ CaseOf(r) = c /\ (Place(r) = "case" \/ Carries(r, c))

SavedState ==
    \A c \in Cases \ (unsaved \cup lost) :
        kind[c] # "absent" /\ saved[c].state # state[c] => \E r \in Requests : Saving(r, c)

\* What a handler does after the write of a state, with a database: it writes the case.
LEMMA WriteThen ==
    ASSUME TypeOK, Shapes, DiskWorks, NEW r \in Requests, WriteTransition(r),
           Place(r) \notin Midway \/ req[r].action = "declare"
    PROVE  req'[r] # Idle /\ Place(r)' = "case"
<1>1. /\ req[r] # Idle /\ req[r].todo \in Seq(Steps) /\ req[r].todo # <<>> /\ Then(r, <<>>)
      /\ Place(r) = Head(req[r].todo) /\ Place(r) \in States
  BY WriteMoves, Served DEF WriteTransition, Place
<1>2. CASE req[r].action = "declare"
  <2>1. req[r].todo = <<"case">> \/ \E to \in States : req[r].todo = <<to, "case">>
    BY <1>1, <1>2 DEF Shapes, Shape
  <2>2. req[r].todo # <<"case">>
    BY <1>1 DEF States
  <2>3. Tail(req[r].todo) = <<"case">>
    BY <2>1, <2>2, Short DEF Steps, DiskSteps
  <2>4. Head(<<"case">>) = "case" /\ <<"case">> # <<>>
    OBVIOUS
  <2> QED
    BY <1>1, <2>3, <2>4, ThenMoves DEF Place
<1>3. CASE req[r].action # "declare"
  <2>1. Chain(req[r].todo) /\ Place(r) \notin Ends
    BY <1>1, <1>3 DEF Shapes, Shape, States, Ends
  <2>2. Chain(Tail(req[r].todo)) /\ Follows(Place(r), Head(Tail(req[r].todo)))
    BY <1>1, <2>1, ChainTail
  <2>3. Head(Tail(req[r].todo)) = "case"
    BY <1>1, <1>3, <2>2 DEF Follows, Midway, States
  <2> QED
    BY <1>1, <2>2, <2>3, ThenMoves DEF Place, Chain
<1> QED
  BY <1>2, <1>3

\* A thread at the save of its case builds the row, commits it or drops it.
LEMMA AtCase ==
    ASSUME TypeOK, NEW r \in Requests, Serve(r) \/ Store(r), Place(r) = "case"
    PROVE  BuildRow(r) \/ SaveCase(r) \/ DropWrites(r)
<1>1. ASSUME NEW step, At(r, step) PROVE Place(r) = step
  BY <1>1, AtServed, Served
<1>2. BuildRow(r) \/ SaveCase(r) \/ DropWrites(r) \/ \E step \in Steps \ {"case"} : At(r, step)
  BY DEF Serve, Store, CheckTransition, WriteTransition, Moving, Propose, Authorize, MoveOnFrom,
     Gate, Dispatch, DeliverWebhook, CreditCustomer, MarkExecuted, ReadAttempts, CountAttempt, Verify, Refused, Block,
     RecordTransition, RecordRow, Steps, States, DiskSteps
<1> QED
  BY <1>1, <1>2

LEMMA StepSavedState ==
    ASSUME TypeOK, Shapes, InService, LostExisted, NoDisk, Carried', Built, SavedState, [Next]_vars
    PROVE  SavedState'
<1> DEFINE Behind(c) == kind[c] # "absent" /\ saved[c].state # state[c]
<1>1. CASE Restart
  BY <1>1 DEF Restart, SavedState, caseVars
<1>2. SUFFICES ASSUME ~Restart, NEW c \in Cases \ (unsaved' \cup lost'), Behind(c)'
               PROVE  \E r \in Requests : Saving(r, c)'
  BY <1>1 DEF SavedState
<1>3. c \in Cases \ (unsaved \cup lost)
  BY <1>2, Stays, DiskFrames
<1>4. ASSUME NEW r \in Requests, Saving(r, c), UNCHANGED <<req[r], state>> PROVE Saving(r, c)'
  BY <1>4 DEF Saving, Carries, CaseOf, Place
<1>5. ASSUME NEW r \in Requests, Saving(r, c), UNCHANGED req[r], state'[c] = state[c]
      PROVE  Saving(r, c)'
  BY <1>5 DEF Saving, Carries, CaseOf, Place
<1>6. ASSUME NEW r \in Requests, WriteTransition(r), CaseOf(r) = c PROVE \E s \in Requests : Saving(s, c)'
  <2>1. DiskWorks
    <3>1. kind'[c] # "absent" /\ c \notin unsaved /\ UNCHANGED kind
      BY <1>2, <1>3, <1>6 DEF WriteTransition
    <3> QED
      BY <3>1 DEF NoDisk
  <2>2. req[r] # Idle /\ Place(r) \in States /\ state' = [state EXCEPT ![c] = Place(r)]
        /\ (req'[r] # Idle => CaseOf(r)' = c)
    BY <1>6, WriteMoves DEF CaseOf, Moves
  <2>3. CASE Place(r) \notin Midway \/ req[r].action = "declare"
    BY <1>6, <2>1, <2>2, <2>3, WriteThen DEF Saving
  <2>4. CASE Place(r) \in Midway /\ req[r].action # "declare"
    <3>1. state'[c] \in Midway /\ c \notin declared' /\ c \notin lost'
      BY <1>2, <1>6, <2>2, <2>4 DEF WriteTransition, TypeOK
    <3>2. PICK s \in Requests : Carries(s, c)'
      BY <3>1 DEF Carried
    <3> QED
      BY <3>2 DEF Saving, Carries
  <2> QED
    BY <2>3, <2>4
<1>7. CASE Behind(c) /\ state'[c] = state[c]
  <2>1. PICK r \in Requests : Saving(r, c)
    BY <1>3, <1>7 DEF SavedState
  <2>2. CASE UNCHANGED req[r]
    BY <1>5, <1>7, <2>1, <2>2
  <2>3. CASE ~ UNCHANGED req[r]
    <3>1. Serve(r) \/ Store(r)
      <4>1. req[r] # Idle
        BY <2>1 DEF Saving
      <4>2. ASSUME NEW s \in Requests, Receive(s) PROVE UNCHANGED req[r]
        BY <4>1, <4>2, ReceiveStarts DEF Starts
      <4>3. ASSUME NEW s \in Requests, Serve(s) \/ Store(s), s # r PROVE UNCHANGED req[r]
        BY <4>3, CountPlaces
      <4>4. ASSUME NEW d \in Cases, ExpireEnvelope(d) \/ \E k \in Kinds : CreateException(d, k)
            PROVE  UNCHANGED req
        BY <4>4 DEF ExpireEnvelope, CreateException
      <4>5. UNCHANGED vars => UNCHANGED req
        BY DEF vars
      <4> QED
        BY <1>2, <2>3, <4>2, <4>3, <4>4, <4>5 DEF Next
    <3>2. CASE Place(r) = "case"
      <4>1. CaseOf(r) = c
        BY <2>1 DEF Saving
      <4>2. ~DropWrites(r)
        BY <1>2, <4>1 DEF DropWrites, Refuses
      <4>3. CASE BuildRow(r)
        <5>1. req'[r] # Idle /\ CaseOf(r)' = c /\ Place(r)' = "case"
          BY <3>2, <4>1, <4>3, BuildMoves DEF CaseOf, Place
        <5> QED
          BY <5>1 DEF Saving
      <4>4. CASE SaveCase(r)
        <5>1. saved'[c].state = state[c]
          BY <4>1, <4>4, SavesCurrent DEF StateOf
        <5> QED
          BY <1>2, <1>7, <5>1
      <4> QED
        BY <3>1, <3>2, <4>2, <4>3, <4>4, AtCase
    <3>3. CASE Place(r) # "case"
      <4>1. Carries(r, c) /\ req[r] # Idle
        BY <2>1, <3>3 DEF Saving
      <4>2. CASE UNCHANGED state
        <5>1. Carries(r, c)'
          BY <3>1, <4>1, <4>2, CarriesOn
        <5> QED
          BY <5>1 DEF Saving, Carries
      <4>3. CASE state' # state
        <5>1. PICK s \in Requests : WriteTransition(s)
          BY <4>3, Frames
        <5>2. CASE s = r
          BY <1>6, <2>1, <5>1, <5>2 DEF Saving
        <5>3. CASE s # r
          BY <2>3, <5>1, <5>3, CountPlaces DEF Serve
        <5> QED
          BY <5>2, <5>3
      <4> QED
        BY <4>2, <4>3
    <3> QED
      BY <3>2, <3>3
  <2> QED
    BY <2>2, <2>3
<1>8. CASE state'[c] # state[c]
  <2>1. PICK r \in Requests : WriteTransition(r)
    BY <1>8, Frames
  <2>2. CaseOf(r) = c
    BY <1>8, <2>1, WriteMoves DEF TypeOK
  <2> QED
    BY <1>6, <2>1, <2>2
<1>9. CASE ~Behind(c) /\ state'[c] = state[c]
  <2>1. CASE UNCHANGED <<kind, saved>>
    BY <1>2, <1>9, <2>1
  <2>2. ASSUME UNCHANGED kind, NEW r \in Requests, SaveCase(r) PROVE FALSE
    <3>1. CASE c = CaseOf(r)
      <4>1. saved'[c].state = state[c]
        BY <2>2, <3>1, SavesCurrent DEF StateOf
      <4> QED
        BY <1>2, <1>9, <4>1
    <3>2. CASE c # CaseOf(r)
      BY <1>2, <1>9, <2>2, <3>2, SavesCurrent
    <3> QED
      BY <3>1, <3>2
  <2>3. ASSUME NEW d \in Cases, NEW k \in Kinds, CreateException(d, k) PROVE FALSE
    BY <1>2, <1>9, <2>3 DEF CreateException, Refuses, Row, TypeOK
  <2> QED
    BY <2>1, <2>2, <2>3, DiskFrames
<1> QED
  BY <1>7, <1>8, <1>9

\* A row never shows a case halfway through execute() that no client declared so, and
\* never more attempts than the case has.
SavedRow(c) ==
    /\ saved[c].state \in Midway => saved[c].declared
    /\ saved[c].attempts <= attempts[c]

SavedRows == \A c \in Cases : SavedRow(c)

LEMMA StepSavedRows ==
    ASSUME OneAtATime, TypeOK, Shapes, InService, LostExisted, Carried, Counted, Built,
           SavedRows, [Next]_vars
    PROVE  SavedRows'
<1>1. ASSUME NEW c \in Cases
      PROVE  attempts[c] \in Nat /\ saved[c].attempts \in Nat /\ attempts'[c] \in Nat
             /\ attempts'[c] >= attempts[c] /\ SavedRow(c)
  BY AttemptsGrow DEF TypeOK, Rows, SavedRows
<1>2. ASSUME NEW c \in Cases, saved'[c] = saved[c] PROVE SavedRow(c)'
  BY <1>1, <1>2 DEF SavedRow
<1>3. ASSUME NEW c \in Cases, saved'[c] = Row(c), state[c] \notin Midway \/ c \in declared
      PROVE  SavedRow(c)'
  <2>1. saved'[c].state = state[c] /\ saved'[c].attempts = attempts[c]
    BY <1>3 DEF Row
  <2>2. ASSUME c \in declared PROVE saved'[c].declared
    <3>1. (c \in declared) = TRUE
      BY <2>2
    <3>2. Row(c) = [state |-> state[c], attempts |-> attempts[c], declared |-> TRUE]
      BY <3>1, Zenon DEF Row
    <3>3. saved'[c].declared = TRUE
      BY <1>3, <3>2
    <3> QED
      BY <3>3
  <2>3. saved'[c].attempts <= attempts'[c]
    BY <1>1, <2>1
  <2> QED
    BY <1>3, <2>1, <2>2, <2>3 DEF SavedRow
<1>4. ASSUME NEW r \in Requests, SaveCase(r) PROVE SavedRows'
  <2>1. /\ req[r] # Idle /\ Place(r) = "case" /\ CaseOf(r) \in Cases
    BY <1>4, SavesCurrent
  <2>2. state[CaseOf(r)] \notin Midway \/ CaseOf(r) \in declared
    <3>1. SUFFICES ASSUME state[CaseOf(r)] \in Midway, CaseOf(r) \notin declared PROVE FALSE
      OBVIOUS
    <3>2. CaseOf(r) \notin lost
      BY <2>1 DEF InService, Backed
    <3>3. PICK s \in Requests : Carries(s, CaseOf(r))
      BY <2>1, <3>1, <3>2 DEF Carried
    <3>4. s = r
      BY OneAtATime DEF OneAtATime
    <3> QED
      BY <2>1, <3>3, <3>4 DEF Carries
  <2>3. ASSUME NEW c \in Cases PROVE saved'[c] = IF c = CaseOf(r) THEN Row(c) ELSE saved[c]
    BY <1>4, SavesCurrent
  <2> QED
    BY <1>2, <1>3, <2>2, <2>3 DEF SavedRows
<1>5. ASSUME NEW d \in Cases, NEW k \in Kinds, CreateException(d, k) PROVE SavedRows'
  <2>1. saved' = saved \/ saved' = [saved EXCEPT ![d] = Row(d)]
    BY <1>5 DEF CreateException, Refuses
  <2>2. state[d] \notin Midway \/ d \in declared
    <3>1. SUFFICES ASSUME state[d] \in Midway, d \notin declared PROVE FALSE
      OBVIOUS
    <3>2. kind[d] = "absent" /\ d \notin lost
      BY <1>5 DEF CreateException, LostExisted
    <3> QED
      BY <3>1, <3>2 DEF Carried, Carries, InService, Backed
  <2>3. ASSUME NEW c \in Cases PROVE saved'[c] = saved[c] \/ (c = d /\ saved'[c] = Row(c))
    BY <2>1 DEF TypeOK
  <2> QED
    BY <1>2, <1>3, <2>2, <2>3 DEF SavedRows
<1>6. UNCHANGED saved => SavedRows'
  BY <1>2 DEF SavedRows
<1> QED
  BY <1>4, <1>5, <1>6, DiskFrames

-----------------------------------------------------------------------------
\* The escalations, which a client's word could come between: serially again.

\* The steps after which a handler may still record an escalation, and some that cannot
\* come before one.
Late == {"deliver", "credit", "mark", "count", "counted", "EXECUTED", "VERIFYING", "verify",
         "RESOLVED", "ESCALATED", "RECOVERY_PROPOSED", "case", "cap", "executed", "verified", "verdict", "escalation"}
Early == {"authorize", "AUTHORIZED", "gate", "dispatch", "refused", "refusal", "investigated"}

LEMMA NotEarly ==
    ASSUME NEW t, Chain(t), NEW s \in {"verified", "escalation"}, In(t, {s})
    PROVE  Head(t) \notin Early
<1>1. t \in Seq(Steps) /\ t # <<>> /\ \A S : ~In(<<>>, S)
  BY InNothing DEF Chain
<1>2. Head(t) \notin Ends \/ Head(t) = "escalation"
  BY <1>1, ChainTail, InParts DEF Ends
<1>3. SUFFICES ASSUME Head(t) \in {"authorize", "AUTHORIZED"} PROVE FALSE
  BY <1>2 DEF Early, Ends
<1>4. Chain(Tail(t)) /\ Head(Tail(t)) = "gate"
  BY <1>3, ChainTail DEF Follows, Ends
<1>5. Tail(t) \in Seq(Steps) /\ Tail(t) # <<>> /\ Tail(Tail(t)) = <<>>
  BY <1>4, ChainTail DEF Chain, Ends
<1>6. ~In(Tail(t), {s})
  BY <1>1, <1>4, <1>5, InParts
<1> QED
  BY <1>1, <1>3, <1>6, InParts

\* A thread on its way to escalate its case.
Escalating(r) ==
    \/ Place(r) = "ESCALATED"
    \/ /\ Place(r) \in {"case", "cap", "executed", "verified", "verdict", "escalation"}
       /\ StateOf(r) = "ESCALATED"

EscalatesRightly(r) ==
    LET c == CaseOf(r) IN
    In(req[r].todo, {"escalation"}) =>
        /\ Place(r) \in Late
        /\ Place(r) = "escalation" \/ In(req[r].todo, {"verdict"})
        /\ Escalating(r) => /\ Mutated(c) >= MaxAttempts
                            /\ \/ "FAIL" \in records[c]
                               \/ In(req[r].todo, {"verdict"}) /\ req[r].passed = FALSE

Escalations ==
    /\ \A c \in Cases : "escalation" \in records[c] =>
           "FAIL" \in records[c] /\ Mutated(c) >= MaxAttempts
    /\ \A r \in Requests : req[r] # Idle => EscalatesRightly(r)

LEMMA StepEscalated ==
    ASSUME TypeOK, Shapes, Escalations, [Next]_vars, NEW c \in Cases, "escalation" \in records'[c]
    PROVE  "FAIL" \in records'[c] /\ Mutated(c)' >= MaxAttempts
<1>1. /\ records[c] \subseteq records'[c] /\ MaxAttempts \in Nat
      /\ Mutated(c) \in Nat /\ Mutated(c)' \in Nat /\ Mutated(c)' >= Mutated(c)
  BY RecordsStay, MutatedGrows, ApiAssumption
<1>2. SUFFICES "FAIL" \in records[c] /\ Mutated(c) >= MaxAttempts
  BY <1>1
<1>3. CASE "escalation" \in records[c]
  BY <1>3 DEF Escalations
<1>4. CASE "escalation" \notin records[c]
  <2>1. PICK r \in Requests : /\ req[r] # Idle /\ CaseOf(r) = c /\ "escalation" \in RowOf(r)
                              /\ Place(r) \in {"cap", "verdict", "escalation"}
    BY <1>4, RecordsGrow
  <2>2. At(r, "escalation") /\ StateOf(r) = "ESCALATED"
    <3>1. \A step : At(r, step) <=> Place(r) = step
      BY <2>1, Served
    <3> QED
      BY <2>1, <3>1 DEF RowOf
  <2>3. Place(r) = "escalation" /\ Tail(req[r].todo) = <<>>
    BY <2>2, InExecute DEF Steps, States, DiskSteps, Ends
  <2>4. In(req[r].todo, {"escalation"}) /\ ~In(req[r].todo, {"verdict"})
    BY <2>1, <2>3, Served, InParts, InNothing DEF Place
  <2> QED
    BY <2>1, <2>2, <2>3, <2>4 DEF Escalations, EscalatesRightly, Escalating
<1> QED
  BY <1>3, <1>4

\* A request starts with nothing of this to do.
LEMMA ReceiveNothing ==
    ASSUME TypeOK, NEW r \in Requests, Receive(r), NEW s \in Needing \ {"investigated"}
    PROVE  ~In(req'[r].todo, {s})
<1>1. \/ req'[r].todo = <<"INVESTIGATING", "case", "investigated">>
      \/ req'[r].todo = <<"propose", "authorize", "gate">>
      \/ req'[r].action = "declare" /\ Shape(req'[r])
  BY ReceiveStarts DEF Starts
<1>2. \/ req'[r].todo = <<"INVESTIGATING", "case", "investigated">>
      \/ req'[r].todo = <<"propose", "authorize", "gate">>
      \/ req'[r].todo = <<"case">>
      \/ \E to \in States : req'[r].todo = <<to, "case">>
  BY <1>1 DEF Shape
<1> QED
  BY <1>2 DEF In, States, Needing

LEMMA StepEscalating ==
    ASSUME OneAtATime, TypeOK, Shapes, Shapes', Backing, Escalations, [Next]_vars,
           NEW r \in Requests, req'[r] # Idle
    PROVE  EscalatesRightly(r)'
<1>1. \A c \in Cases : /\ records[c] \subseteq records'[c]
                       /\ Mutated(c) \in Nat /\ Mutated(c)' \in Nat /\ Mutated(c)' >= Mutated(c)
  BY RecordsStay, MutatedGrows
<1>2. MaxAttempts \in Nat
  BY ApiAssumption
<1>3. ASSUME UNCHANGED <<req[r], state>> PROVE EscalatesRightly(r)'
  <2>1. /\ EscalatesRightly(r) /\ CaseOf(r) \in Cases /\ CaseOf(r)' = CaseOf(r)
        /\ Place(r)' = Place(r) /\ (Escalating(r)' <=> Escalating(r))
    BY <1>3, Served DEF Escalations, CaseOf, Place, Escalating, StateOf
  <2> QED
    BY <1>1, <1>2, <1>3, <2>1 DEF EscalatesRightly
<1>4. ASSUME Receive(r) PROVE EscalatesRightly(r)'
  BY <1>4, ReceiveNothing DEF EscalatesRightly, Needing
<1>5. ASSUME Serve(r) \/ Store(r) PROVE EscalatesRightly(r)'
  <2> SUFFICES ASSUME In(req'[r].todo, {"escalation"}) PROVE EscalatesRightly(r)'
    BY DEF EscalatesRightly
  <2>1. /\ req[r] # Idle /\ EscalatesRightly(r) /\ CaseOf(r) \in Cases /\ CaseOf(r)' = CaseOf(r)
        /\ Keeps(r)
    <3>1. req[r] # Idle /\ req'[r].case = req[r].case
      BY <1>5, CountPlaces
    <3> QED
      BY <1>5, <3>1, Served, WorkKeeps DEF Escalations, CaseOf
  <2>2. CASE Dispatched(r)
    <3>1. In(req'[r].todo, {"verdict"}) /\ Place(r)' \in {"deliver", "mark"}
      BY <2>2, LeftToDo DEF Dispatched, Comes, Moves
    <3> QED
      BY <3>1 DEF EscalatesRightly, Escalating, Late
  <2>3. CASE ~Dispatched(r)
    <3>1. In(req[r].todo, {"escalation"})
      BY <1>5, <2>3, WorkNoNew DEF Needing
    <3>2. /\ Place(r) \in Late /\ (Place(r) = "escalation" \/ In(req[r].todo, {"verdict"}))
          /\ Escalating(r) => /\ Mutated(CaseOf(r)) >= MaxAttempts
                              /\ \/ "FAIL" \in records[CaseOf(r)]
                                 \/ In(req[r].todo, {"verdict"}) /\ req[r].passed = FALSE
      BY <2>1, <3>1 DEF EscalatesRightly
    <3>3. CASE Arms(r)
      <4>1. req'[r].todo = req[r].todo /\ req'[r].passed = req[r].passed /\ UNCHANGED state
        BY <3>3, CheckMoves, BuildMoves DEF Arms, CheckTransition, caseVars
      <4>2. Place(r)' = Place(r) /\ (Escalating(r)' <=> Escalating(r))
        BY <2>1, <4>1 DEF Place, Escalating, StateOf, CaseOf
      <4> QED
        BY <1>1, <1>2, <2>1, <3>2, <4>1, <4>2 DEF EscalatesRightly
    <3>4. CASE Verify(r)
      <4>1. /\ Place(r) = "verify" /\ Place(r)' = Verdict(r)
            /\ Verdict(r) \in {"RESOLVED", "ESCALATED", "RECOVERY_PROPOSED"}
            /\ In(req'[r].todo, {"verdict"}) => req'[r].passed = Passed(kind[CaseOf(r)])
        BY <3>4, VerifyMoves DEF Comes, Moves, Remembers
      <4>2. In(req'[r].todo, {"verdict"})
        BY <2>1, <3>2, <4>1 DEF Keeps, Needing
      <4>3. Escalating(r)' => Verdict(r) = "ESCALATED"
        BY <4>1 DEF Escalating
      <4>4. ASSUME Verdict(r) = "ESCALATED"
            PROVE  Mutated(CaseOf(r))' >= MaxAttempts /\ req'[r].passed = FALSE
        <5>1. ~Passed(kind[CaseOf(r)]) /\ attempts[CaseOf(r)] >= MaxAttempts
          <6> DEFINE passed == Passed(kind[CaseOf(r)])
                     enough == attempts[CaseOf(r)] >= MaxAttempts
          <6>1. Verdict(r) = IF passed THEN "RESOLVED" ELSE IF enough THEN "ESCALATED"
                             ELSE "RECOVERY_PROPOSED"
            BY DEF Verdict
          <6> HIDE DEF passed, enough
          <6>2. ~passed /\ enough
            BY <4>4, <6>1
          <6> QED
            BY <6>2 DEF passed, enough
        <5>2. req'[r].passed = FALSE
          <6>1. req'[r].passed = Passed(kind[CaseOf(r)])
            BY <4>1, <4>2
          <6>2. Passed(kind[CaseOf(r)]) = FALSE
            BY <5>1 DEF Passed, HasPostconditions
          <6> QED
            BY <6>1, <6>2
        <5>3. /\ attempts[CaseOf(r)] \in Nat /\ Cardinality(Counting(CaseOf(r))) \in Nat
              /\ attempts[CaseOf(r)] + Cardinality(Counting(CaseOf(r))) <= Mutated(CaseOf(r))
          BY <2>1, FS_CardinalityType DEF TypeOK, Backing
        <5> QED
          BY <1>1, <1>2, <2>1, <5>1, <5>2, <5>3
      <4> QED
        BY <2>1, <4>1, <4>2, <4>3, <4>4 DEF EscalatesRightly, Late
    <3>5. CASE ReadAttempts(r)
      <4>1. /\ Place(r) = "count" /\ Place(r)' = "counted"
        BY <3>5, ReadMoves DEF Comes, Moves
      <4>2. In(req'[r].todo, {"verdict"}) /\ ~Escalating(r)'
        BY <2>1, <3>2, <4>1 DEF Keeps, Needing, Escalating
      <4> QED
        BY <4>1, <4>2 DEF EscalatesRightly, Late
    <3>6. CASE \/ WriteTransition(r) \/ DeliverWebhook(r) \/ CreditCustomer(r)
               \/ MarkExecuted(r) \/ CountAttempt(r) \/ (Store(r) /\ ~BuildRow(r))
      <4>1. /\ Moves(r, After(r)) /\ Forgets(r)
            /\ Place(r) \in States \cup {"deliver", "credit", "mark", "counted"} \cup DiskSteps
            /\ \/ /\ WriteTransition(r) /\ Place(r) \in States
                  /\ state' = [state EXCEPT ![CaseOf(r)] = Place(r)]
               \/ UNCHANGED state /\ Place(r) \notin States
        <5>1. ASSUME NEW step \in {"deliver", "credit", "mark", "counted"}, At(r, step), Then(r, <<>>)
              PROVE  Moves(r, After(r)) /\ Forgets(r) /\ Place(r) = step
          BY <5>1, PlainMoves DEF Steps
        <5>2. WriteTransition(r) \/ UNCHANGED state
          BY <3>6 DEF DeliverWebhook, CreditCustomer, MarkExecuted, CountAttempt, Store, SaveCase, RecordTransition, RecordRow, DropWrites,
             caseVars
        <5>3. CASE WriteTransition(r)
          BY <5>3, WriteMoves
        <5>4. CASE Store(r) /\ ~BuildRow(r)
          BY <5>2, <5>4, StoreMoves, WriteMoves DEF States, DiskSteps
        <5>5. CASE DeliverWebhook(r) \/ CreditCustomer(r) \/ MarkExecuted(r) \/ CountAttempt(r)
          <6>1. \E step \in {"deliver", "credit", "mark", "counted"} : At(r, step) /\ Then(r, <<>>)
            BY <5>5 DEF DeliverWebhook, CreditCustomer, MarkExecuted, CountAttempt
          <6>2. /\ Moves(r, After(r)) /\ Forgets(r)
                /\ Place(r) \in {"deliver", "credit", "mark", "counted"}
            BY <5>1, <6>1
          <6> QED
            BY <5>2, <6>2, WriteMoves DEF States
        <5> QED
          BY <3>6, <5>3, <5>4, <5>5
      <4>2. /\ req[r].action # "declare" /\ Chain(req'[r].todo) /\ req'[r].action = req[r].action
        <5>1. req'[r].action = req[r].action
          BY <4>1 DEF Moves
        <5>2. ASSUME req[r].action = "declare" PROVE FALSE
          <6>1. req[r].todo = <<"case">> \/ \E to \in States : req[r].todo = <<to, "case">>
            BY <2>1, <5>2 DEF Shapes, Shape
          <6> QED
            BY <3>1, <6>1 DEF In, States
        <5> QED
          BY <5>1, <5>2 DEF Shapes, Shape
      <4>3. Place(r)' \notin Early /\ Successor(Place(r), Place(r)')
        <5>1. Place(r)' \notin Early
          BY <4>2, NotEarly DEF Place
        <5> QED
          BY <4>1, <4>2, <5>1 DEF Moves, After
      <4>4. Place(r)' \in Late /\ Place(r) # "escalation"
        BY <3>2, <4>3 DEF Successor, Follows, Late, Early
      <4>5. In(req'[r].todo, {"verdict"}) \/ Place(r) = "verdict"
        BY <2>1, <3>2, <4>4 DEF Keeps, Needing
      <4>6. Place(r) = "verdict" => Place(r)' = "escalation"
        BY <4>3 DEF Successor, Follows
      <4>7. ASSUME Escalating(r)' PROVE Escalating(r)
        <5>1. Place(r)' # "ESCALATED"
          BY <4>3 DEF Successor, Follows
        <5>2. /\ Place(r)' \in {"case", "cap", "executed", "verified", "verdict", "escalation"}
              /\ state'[CaseOf(r)] = "ESCALATED"
          BY <2>1, <4>7, <5>1 DEF Escalating, StateOf, CaseOf
        <5>3. CASE Place(r) \in States
          BY <2>1, <4>1, <5>2, <5>3 DEF Escalating, TypeOK
        <5>4. CASE Place(r) \notin States
          BY <3>2, <4>1, <4>3, <5>2, <5>4 DEF Escalating, StateOf, Successor, Follows, States, DiskSteps, Late
        <5> QED
          BY <5>3, <5>4
      <4>8. ASSUME Place(r) = "verdict", req[r].passed = FALSE PROVE "FAIL" \in records'[CaseOf(r)]
        <5>1. RecordRow(r) /\ At(r, "verdict")
          BY <1>5, <2>1, <4>8, AtStore, Served
        <5>2. At(r, "verdict") /\ ~At(r, "cap")
          BY <2>1, <5>1, Served
        <5>3. RowOf(r) = {"FAIL"}
          BY <4>8, <5>2 DEF RowOf
        <5> QED
          BY <2>1, <5>1, <5>3 DEF RecordRow, TypeOK
      <4>9. In(req'[r].todo, {"verdict"}) => req'[r].passed = req[r].passed
        BY <4>1 DEF Forgets, Remembers
      <4>10. ASSUME Escalating(r)'
             PROVE  /\ Mutated(CaseOf(r))' >= MaxAttempts
                    /\ \/ "FAIL" \in records'[CaseOf(r)]
                       \/ In(req'[r].todo, {"verdict"}) /\ req'[r].passed = FALSE
        <5>1. /\ Mutated(CaseOf(r)) >= MaxAttempts
              /\ \/ "FAIL" \in records[CaseOf(r)]
                 \/ In(req[r].todo, {"verdict"}) /\ req[r].passed = FALSE
          BY <3>2, <4>7, <4>10
        <5>2. Mutated(CaseOf(r))' >= MaxAttempts
          BY <1>1, <1>2, <2>1, <5>1
        <5> QED
          BY <1>1, <2>1, <4>5, <4>8, <4>9, <5>1, <5>2
      <4> QED
        BY <2>1, <4>4, <4>5, <4>6, <4>10 DEF EscalatesRightly
    <3>7. ~(Propose(r) \/ Authorize(r) \/ Gate(r) \/ Dispatch(r) \/ Refused(r) \/ Block(r))
      BY <3>2, ProposeMoves, AuthorizeMoves, GateMoves, DispatchMoves, RefusedMoves, BlockMoves DEF Late
    <3> QED
      BY <1>5, <3>3, <3>4, <3>5, <3>6, <3>7 DEF Serve, Arms
  <2> QED
    BY <2>2, <2>3
<1>6. ASSUME NEW s \in Requests, Receive(s) \/ Serve(s) \/ Store(s) PROVE s = r
  BY OneAtATime DEF OneAtATime
<1>7. ASSUME NEW c \in Cases, ExpireEnvelope(c) \/ \E k \in Kinds : CreateException(c, k)
      PROVE  UNCHANGED <<req, state>>
  BY <1>7 DEF ExpireEnvelope, CreateException
<1>8. ~Restart
  BY DEF Restart
<1>9. UNCHANGED vars => UNCHANGED <<req, state>>
  BY DEF vars, caseVars
<1> QED
  BY <1>3, <1>4, <1>5, <1>6, <1>7, <1>8, <1>9 DEF Next

-----------------------------------------------------------------------------
\* The trail.

\* Which state a case comes from, where it matters.
LEMMA CameFrom ==
    ASSUME NEW s \in States
    PROVE  /\ CanTransition(s, "BLOCKED") => s = "AUTHORIZED"
           /\ CanTransition(s, "EXECUTED") => s = "AUTHORIZED"
           /\ s \in Terminal => \A t : ~CanTransition(s, t)
BY DEF States, Terminal, CanTransition, AllowedTransitions

\* What is left of a handler that has come to its writes.
LEMMA Tracks ==
    ASSUME NEW t, Chain(t), Head(t) \in DiskSteps \cup {"authorize"}
    PROVE  /\ In(t, {"investigated"}) => Head(t) \in {"case", "investigated"}
           /\ In(t, {"refusal"}) => Head(t) \in {"case", "cap", "refusal"}
           /\ In(t, {"executed"}) => Head(t) \in {"case", "cap", "executed"}
           /\ In(t, {"verified"}) => Head(t) \in {"case", "cap", "executed", "verified"}
           /\ Head(t) = "case" => \/ In(t, {"investigated", "refusal", "executed"})
                                  \/ Head(Tail(t)) = "authorize"
<1> DEFINE All == {"investigated", "refusal", "executed", "verified"}
<1>1. ASSUME NEW u, Chain(u)
      PROVE  /\ u \in Seq(Steps) /\ u # <<>>
             /\ Head(u) \in Ends => \A S : In(u, S) <=> Head(u) \in S
             /\ Head(u) \notin Ends => /\ Chain(Tail(u)) /\ Follows(Head(u), Head(Tail(u)))
                                       /\ \A S : In(u, S) <=> Head(u) \in S \/ In(Tail(u), S)
  <2>1. u \in Seq(Steps) /\ u # <<>>
    BY <1>1 DEF Chain
  <2> QED
    BY <1>1, <2>1, ChainTail, InParts, InNothing
<1>2. ASSUME NEW u, Chain(u), Head(u) \in {"escalation", "verdict", "verified"}, NEW s \in All, In(u, {s})
      PROVE  s = Head(u)
  <2>1. ASSUME NEW v, Chain(v), Head(v) = "escalation" PROVE ~In(v, {s})
    BY <1>1, <2>1 DEF Ends
  <2>2. ASSUME NEW v, Chain(v), Head(v) = "verdict" PROVE ~In(v, {s})
    <3>1. Chain(Tail(v)) /\ Head(Tail(v)) = "escalation" /\ (In(v, {s}) => In(Tail(v), {s}))
      BY <1>1, <2>2 DEF Ends, Follows
    <3> QED
      BY <2>1, <3>1
  <2>3. CASE Head(u) = "verified"
    <3>1. Chain(Tail(u)) /\ Head(Tail(u)) = "verdict" /\ (In(u, {s}) => s = "verified" \/ In(Tail(u), {s}))
      BY <1>1, <1>2, <2>3 DEF Ends, Follows
    <3> QED
      BY <1>2, <2>2, <2>3, <3>1
  <2> QED
    BY <1>2, <2>1, <2>2, <2>3
<1>3. ASSUME NEW u, Chain(u), Head(u) = "executed", NEW s \in All, In(u, {s})
      PROVE  s \in {"executed", "verified"}
  <2>1. Chain(Tail(u)) /\ Head(Tail(u)) = "verified" /\ (s = "executed" \/ In(Tail(u), {s}))
    BY <1>1, <1>3 DEF Ends, Follows
  <2> QED
    BY <1>2, <2>1
<1>4. ASSUME NEW u, Chain(u), Head(u) \in {"investigated", "refusal"}, NEW s \in All, In(u, {s})
      PROVE  s = Head(u)
  BY <1>1, <1>4 DEF Ends
<1>5. ASSUME NEW u, Chain(u), Head(u) = "cap"
      PROVE  /\ In(u, {"refusal", "executed"}) /\ ~In(u, {"investigated"})
  <2>1. /\ Chain(Tail(u)) /\ Head(Tail(u)) \in {"refusal", "executed"}
        /\ \A S : In(u, S) <=> Head(u) \in S \/ In(Tail(u), S)
    <3>1. Head(u) \notin Ends
      BY <1>5 DEF Ends
    <3> QED
      BY <1>1, <1>5, <3>1 DEF Follows
  <2>2. In(Tail(u), {"refusal", "executed"})
    BY <1>1, <2>1 DEF Ends
  <2>3. ~In(Tail(u), {"investigated"})
    BY <1>3, <1>4, <2>1
  <2> QED
    BY <1>5, <2>1, <2>2, <2>3
<1>6. ASSUME NEW u, Chain(u), Head(u) = "authorize", NEW s \in All PROVE ~In(u, {s})
  <2>1. /\ Chain(Tail(u)) /\ Head(Tail(u)) = "gate" /\ (In(u, {s}) => In(Tail(u), {s}))
    BY <1>1, <1>6 DEF Ends, Follows
  <2> QED
    BY <1>1, <2>1 DEF Ends
<1>7. CASE Head(t) = "case"
  <2>1. /\ Chain(Tail(t)) /\ Head(Tail(t)) \in {"investigated", "authorize", "cap"}
        /\ \A S : In(t, S) <=> Head(t) \in S \/ In(Tail(t), S)
    <3>1. Head(t) \notin Ends
      BY <1>7 DEF Ends
    <3> QED
      BY <1>1, <1>7, <3>1 DEF Follows
  <2>2. Head(Tail(t)) = "investigated" => In(Tail(t), {"investigated", "refusal", "executed"})
    BY <2>1, InParts DEF Chain
  <2>3. Head(Tail(t)) = "cap" => In(Tail(t), {"refusal", "executed"})
    BY <1>5, <2>1
  <2>4. In(Tail(t), {"refusal", "executed"}) => In(Tail(t), {"investigated", "refusal", "executed"})
    BY DEF In
  <2> QED
    BY <1>7, <2>1, <2>2, <2>3, <2>4
<1>8. CASE Head(t) # "case"
  BY <1>2, <1>3, <1>4, <1>5, <1>6, <1>8 DEF DiskSteps
<1> QED
  BY <1>7, <1>8

\* Where the verdict of an execution can lead.
Outcomes == {"RESOLVED", "ESCALATED", "RECOVERY_PROPOSED"}

\* The steps that matter and that a thread has still to do.
Left(t) == {s \in Needing : In(t, {s})}

\* What a thread at step p will write to the trail: what it moves from is what the case
\* was when it began to move.
LawOf(p, from, now, left) ==
    /\ "investigated" \in left =>
           \/ p = "INVESTIGATING" /\ from = now
           \/ p \in {"case", "investigated"} /\ CanTransition(from, now)
    /\ "refusal" \in left =>
           \/ p \in {"block", "BLOCKED"} /\ from = now
           \/ /\ p \in {"case", "cap", "refusal"}
              /\ from = now \/ (from = "AUTHORIZED" /\ now = "BLOCKED")
    /\ "executed" \in left =>
           \/ p \in Reached
           \/ p \in {"counted", "EXECUTED"} /\ from = now
           \/ /\ p \in {"VERIFYING", "verify", "case", "cap", "executed"} \cup Outcomes
              /\ from = "AUTHORIZED"
    /\ "verified" \in left =>
           \/ p \in Reached \cup {"counted", "EXECUTED", "VERIFYING", "verify"} \cup Outcomes
           \/ p \in {"case", "cap", "executed", "verified"} /\ now \in Outcomes
    /\ p = "INVESTIGATING" => "investigated" \in left
    /\ p \in {"block", "BLOCKED"} => "refusal" \in left
    /\ p \in Reached \cup {"counted", "EXECUTED", "VERIFYING", "verify", "RESOLVED", "ESCALATED"}
          => "executed" \in left

Lawful(r) ==
    req[r].action # "declare" => LawOf(Place(r), req[r].from, StateOf(r), Left(req[r].todo))

Laws == \A r \in Requests : req[r] # Idle => Lawful(r)

\* What a thread that goes on leaves and forgets, in terms of the steps that are left.
LEMMA LeftOf ==
    ASSUME NEW r \in Requests, req'[r] # Idle
    PROVE  /\ NoNew(r) => Left(req'[r].todo) \subseteq Left(req[r].todo)
           /\ Keeps(r) => Left(req[r].todo) \ {Place(r)} \subseteq Left(req'[r].todo)
           /\ \A from, seen, passed :
                 Remembers(req'[r], from, seen, passed) /\ Left(req'[r].todo) \cap Naming # {}
                 => req'[r].from = from
<1>1. NoNew(r) => Left(req'[r].todo) \subseteq Left(req[r].todo)
  <2>1. ASSUME NoNew(r), NEW s \in Needing, In(req'[r].todo, {s}) PROVE In(req[r].todo, {s})
    BY <2>1 DEF NoNew
  <2> QED
    BY <2>1 DEF Left
<1>2. Keeps(r) => Left(req[r].todo) \ {Place(r)} \subseteq Left(req'[r].todo)
  BY DEF Keeps, Left
<1>3. ASSUME NEW from, NEW seen, NEW passed, Remembers(req'[r], from, seen, passed),
             Left(req'[r].todo) \cap Naming # {}
      PROVE  req'[r].from = from
  BY <1>3 DEF Remembers, Left, In, Naming
<1> QED
  BY <1>1, <1>2, <1>3

LEMMA StepLaws ==
    ASSUME OneAtATime, TypeOK, Shapes, Shapes', Armed, Laws, [Next]_vars
    PROVE  Laws'
<1>1. SUFFICES ASSUME NEW r \in Requests, req'[r] # Idle, req'[r].action # "declare"
               PROVE  LawOf(Place(r)', req'[r].from, StateOf(r)', Left(req'[r].todo))
  BY DEF Laws, Lawful
<1> DEFINE p == Place(r)
           from == req[r].from
           now == StateOf(r)
           left == Left(req[r].todo)
<1>2. ASSUME UNCHANGED <<req[r], state>>
      PROVE  LawOf(Place(r)', req'[r].from, StateOf(r)', Left(req'[r].todo))
  BY <1>1, <1>2 DEF Laws, Lawful, Place, StateOf, CaseOf
<1>3. ASSUME Receive(r)
      PROVE  LawOf(Place(r)', req'[r].from, StateOf(r)', Left(req'[r].todo))
  <2>1. Left(req'[r].todo) \subseteq {"investigated"}
    BY <1>3, ReceiveNothing DEF Left
  <2>2. PICK c \in Cases :
          \/ Starts(r, c, "none", "INVESTIGATING") /\ req'[r].todo = <<"INVESTIGATING", "case", "investigated">>
          \/ \E action \in Asked : Starts(r, c, action, "propose") /\ req'[r].todo = <<"propose", "authorize", "gate">>
    BY <1>1, <1>3, ReceiveStarts DEF Starts
  <2>3. UNCHANGED state
    BY <1>3 DEF Receive, Investigate, Transition, Execute, Accept, caseVars
  <2>4. CASE Starts(r, c, "none", "INVESTIGATING") /\ req'[r].todo = <<"INVESTIGATING", "case", "investigated">>
    <3>1. DOMAIN <<"INVESTIGATING", "case", "investigated">> = 1..3
          /\ <<"INVESTIGATING", "case", "investigated">>[3] = "investigated"
      OBVIOUS
    <3>2. "investigated" \in Left(req'[r].todo)
      BY <2>4, <3>1 DEF Left, Needing, In
    <3>3. req'[r].from = state[c] /\ Place(r)' = "INVESTIGATING" /\ StateOf(r)' = state[c]
      BY <1>1, <2>3, <2>4, <3>2, LeftOf DEF Starts, Naming, StateOf, CaseOf
    <3> QED
      BY <2>1, <3>2, <3>3 DEF LawOf, Reached, Outcomes
  <2>5. CASE \E action \in Asked : Starts(r, c, action, "propose")
                                   /\ req'[r].todo = <<"propose", "authorize", "gate">>
    <3>1. Left(req'[r].todo) = {} /\ Place(r)' = "propose"
      BY <2>5 DEF Left, In, Needing, Starts
    <3> QED
      BY <3>1 DEF LawOf, Reached, Outcomes
  <2> QED
    BY <2>2, <2>4, <2>5
<1>4. ASSUME Serve(r) \/ Store(r)
      PROVE  LawOf(Place(r)', req'[r].from, StateOf(r)', Left(req'[r].todo))
  <2>1. /\ req[r] # Idle /\ req'[r].case = req[r].case /\ req'[r].action = req[r].action
        /\ Keeps(r) /\ CaseOf(r) \in Cases
    <3>1. req[r] # Idle /\ req'[r].case = req[r].case /\ req'[r].action = req[r].action
      BY <1>1, <1>4, WorkMoves, CheckMoves, BuildMoves DEF Moves, Arms
    <3> QED
      BY <1>4, <3>1, WorkKeeps, Served DEF CaseOf
  <2>2. LawOf(p, from, now, left) /\ now \in States
    BY <1>1, <2>1 DEF Laws, Lawful, StateOf, TypeOK
  <2>3. StateOf(r)' = state'[CaseOf(r)] /\ (UNCHANGED state => StateOf(r)' = now)
    BY <2>1 DEF StateOf, CaseOf
  <2>4. left \ {p} \subseteq Left(req'[r].todo)
    BY <1>1, <2>1, LeftOf
  <2>5. Place(r)' \in DiskSteps \cup {"authorize"} =>
          /\ "investigated" \in Left(req'[r].todo) => Place(r)' \in {"case", "investigated"}
          /\ "refusal" \in Left(req'[r].todo) => Place(r)' \in {"case", "cap", "refusal"}
          /\ "executed" \in Left(req'[r].todo) => Place(r)' \in {"case", "cap", "executed"}
          /\ "verified" \in Left(req'[r].todo) => Place(r)' \in {"case", "cap", "executed", "verified"}
    <3>1. Chain(req'[r].todo)
      BY <1>1 DEF Shapes, Shape
    <3> QED
      BY <3>1, Tracks DEF Left, Place
  <2> HIDE DEF p, from, now, left
  <2>6. ASSUME NoNew(r), Forgets(r)
        PROVE  /\ Left(req'[r].todo) \subseteq left
               /\ Left(req'[r].todo) \cap Naming # {} => req'[r].from = from
    BY <1>1, <2>6, LeftOf DEF Forgets, left, from
  <2>7. CASE Arms(r)
    <3>1. /\ req'[r].todo = req[r].todo /\ req'[r].from = from /\ Place(r)' = p /\ UNCHANGED state
      BY <1>1, <2>7, CheckMoves, BuildMoves DEF Arms, CheckTransition, caseVars, Place, from, p
    <3> QED
      BY <2>2, <2>3, <3>1 DEF left
  <2>8. CASE WriteTransition(r)
    <3>1. /\ p \in States /\ Then(r, <<>>) /\ At(r, p) /\ Forgets(r) /\ NoNew(r)
          /\ state'[CaseOf(r)] = p /\ CanTransition(now, p)
      <4>1. /\ p \in States /\ At(r, p) /\ Forgets(r) /\ NoNew(r) /\ req[r].armed
            /\ state' = [state EXCEPT ![CaseOf(r)] = p]
        BY <2>8, WriteMoves DEF p
      <4>2. Then(r, <<>>)
        BY <2>8 DEF WriteTransition
      <4>3. CanTransition(now, p)
        BY <2>1, <4>1 DEF Armed, p, now
      <4> QED
        BY <2>1, <4>1, <4>2, <4>3 DEF TypeOK
    <3>2. /\ p = "EXECUTED" => Place(r)' = "VERIFYING"
          /\ p = "VERIFYING" => Place(r)' = "verify"
          /\ p \in Outcomes \cup {"INVESTIGATING", "BLOCKED"} => Place(r)' \in {"case", "authorize"}
          /\ p = "AUTHORIZED" => Place(r)' = "gate"
          /\ p \in States \ (Outcomes \cup {"INVESTIGATING", "BLOCKED", "AUTHORIZED", "EXECUTED",
                                            "VERIFYING"}) => FALSE
      <4>1. p \in Steps /\ p # "dispatch"
        BY <3>1 DEF Steps, States
      <4>2. /\ Moves(r, After(r))
            /\ p = "EXECUTED" => Comes(r, "VERIFYING")
            /\ p = "VERIFYING" => Comes(r, "verify")
            /\ p = "AUTHORIZED" => Comes(r, "gate")
            /\ p \in Outcomes \cup {"INVESTIGATING", "BLOCKED"} => Moves(r, {"case", "authorize"})
        BY <1>1, <2>1, <3>1, <4>1, PlainMoves DEF Outcomes
      <4>3. Successor(p, Place(r)')
        BY <1>1, <2>1, <4>2 DEF Moves, After, p
      <4> QED
        BY <1>1, <4>2, <4>3 DEF Comes, Moves, Successor, Follows, States, Outcomes
    <3>3. /\ p = "EXECUTED" => now = "AUTHORIZED"
          /\ p = "BLOCKED" => now = "AUTHORIZED"
      BY <2>2, <3>1, CameFrom
    <3> DEFINE to == Place(r)'
               after == Left(req'[r].todo)
               by == req'[r].from
    <3>4. /\ LawOf(p, from, now, left) /\ after \subseteq left /\ StateOf(r)' = p
          /\ after \cap Naming # {} => by = from
          /\ left \ {p} \subseteq after /\ p \notin Needing
      BY <2>2, <2>3, <2>4, <2>6, <3>1 DEF States, Needing
    <3> HIDE DEF to, after, by
    <3>5. LawOf(to, by, p, after)
      BY <2>5, <3>1, <3>2, <3>3, <3>4 DEF LawOf, Reached, Outcomes, Naming, Needing, DiskSteps, to, after
    <3> QED
      BY <3>4, <3>5 DEF to, after, by
  <2>9. CASE Store(r) /\ ~BuildRow(r)
    <3>1. p \in DiskSteps /\ Moves(r, After(r)) /\ Forgets(r) /\ NoNew(r) /\ UNCHANGED state
      BY <2>9, StoreMoves DEF Store, SaveCase, RecordTransition, RecordRow, DropWrites, caseVars, p
    <3>2. Place(r)' \in {"investigated", "authorize", "cap", "refusal", "executed", "verified", "verdict",
                        "escalation"}
      BY <1>1, <2>1, <3>1 DEF Moves, After, Successor, Follows, DiskSteps, p
    <3>3. /\ Left(req'[r].todo) \subseteq left /\ StateOf(r)' = now
          /\ Left(req'[r].todo) \cap Naming # {} => req'[r].from = from
      BY <2>3, <2>6, <3>1
    <3> QED
      BY <2>2, <2>5, <3>1, <3>2, <3>3 DEF LawOf, Reached, DiskSteps, Outcomes, Naming
  <2>10. CASE DeliverWebhook(r) \/ CreditCustomer(r) \/ MarkExecuted(r) \/ CountAttempt(r)
    <3>1. /\ p \in {"deliver", "credit", "mark", "counted"} /\ Forgets(r) /\ NoNew(r) /\ UNCHANGED state
          /\ p = "deliver" => Comes(r, "credit")
          /\ p = "credit" => Comes(r, "mark")
          /\ p = "mark" => Comes(r, "count")
          /\ p = "counted" => Comes(r, "EXECUTED")
      <4>1. PICK step \in {"deliver", "credit", "mark", "counted"} : At(r, step) /\ Then(r, <<>>)
        BY <2>10 DEF DeliverWebhook, CreditCustomer, MarkExecuted, CountAttempt
      <4>2. UNCHANGED state
        BY <2>10 DEF DeliverWebhook, CreditCustomer, MarkExecuted, CountAttempt, caseVars
      <4> QED
        BY <1>1, <2>1, <4>1, <4>2, PlainMoves DEF Steps, p
    <3>2. /\ Left(req'[r].todo) \subseteq left /\ StateOf(r)' = now
          /\ Left(req'[r].todo) \cap Naming # {} => req'[r].from = from
          /\ IF p = "counted" THEN Place(r)' = "EXECUTED" ELSE Place(r)' \in Reached
      BY <2>3, <2>6, <3>1 DEF Comes, Moves, Reached
    <3> QED
      BY <2>2, <2>4, <3>1, <3>2 DEF LawOf, Reached, Outcomes, Naming, Needing
  <2>11. CASE ReadAttempts(r)
    <3>1. /\ p = "count" /\ Place(r)' = "counted" /\ UNCHANGED state
          /\ Remembers(req'[r], now, attempts[CaseOf(r)], req[r].passed)
          /\ req'[r].todo = Tail(req[r].todo)
      BY <2>11, ReadMoves DEF ReadAttempts, caseVars, Comes, Moves, p, now
    <3>2. Left(req'[r].todo) \subseteq left
      BY <2>1, <3>1, Served, InParts DEF Left, left
    <3>3. Left(req'[r].todo) \cap Naming # {} => req'[r].from = now
      BY <1>1, <3>1, LeftOf
    <3> QED
      BY <2>2, <2>3, <2>4, <3>1, <3>2, <3>3 DEF LawOf, Reached, Outcomes, Naming, Needing
  <2>12. CASE Verify(r)
    <3>1. /\ p = "verify" /\ Place(r)' \in Outcomes /\ UNCHANGED state /\ NoNew(r)
          /\ Remembers(req'[r], from, req[r].seen, Passed(kind[CaseOf(r)]))
      BY <2>12, VerifyMoves DEF Verify, caseVars, Comes, Moves, Outcomes, p, from
    <3>2. /\ Left(req'[r].todo) \subseteq left
          /\ Left(req'[r].todo) \cap Naming # {} => req'[r].from = from
      BY <1>1, <3>1, LeftOf DEF left
    <3> QED
      BY <2>2, <2>3, <2>4, <3>1, <3>2 DEF LawOf, Reached, Outcomes, Naming, Needing
  <2>13. CASE Block(r)
    <3>1. /\ p = "block" /\ UNCHANGED state /\ NoNew(r) /\ Forgets(r)
          /\ IF now = "AUTHORIZED" THEN Place(r)' = "BLOCKED" ELSE Place(r)' \in {"case", "authorize"}
      BY <1>1, <2>13, BlockMoves DEF Block, MoveOnFrom, caseVars, Comes, Moves, p, now
    <3>2. /\ Left(req'[r].todo) \subseteq left /\ StateOf(r)' = now
          /\ Left(req'[r].todo) \cap Naming # {} => req'[r].from = from
      BY <2>3, <2>6, <3>1
    <3> QED
      BY <2>2, <2>4, <2>5, <3>1, <3>2 DEF LawOf, Reached, Outcomes, Naming, Needing, DiskSteps
  <2>14. CASE Propose(r) \/ Authorize(r) \/ Gate(r)
    <3>1. /\ p \in {"propose", "authorize", "gate"} /\ NoNew(r)
          /\ Place(r)' \in {"RECOVERY_PROPOSED", "authorize", "AUTHORIZED", "gate", "dispatch", "refused"}
      BY <1>1, <2>14, ProposeMoves, AuthorizeMoves, GateMoves DEF Comes, Moves, p
    <3>2. Left(req'[r].todo) \subseteq left
      BY <1>1, <3>1, LeftOf DEF left
    <3> QED
      BY <2>2, <3>1, <3>2 DEF LawOf, Reached, Outcomes
  <2>15. CASE Dispatch(r)
    <3>1. /\ p = "dispatch"
          /\ \/ /\ Place(r)' \in Reached
                /\ req'[r].todo \in {AfterDispatch, <<"deliver", "credit">> \o AfterDispatch}
             \/ Place(r)' = "refused" /\ NoNew(r)
      BY <2>15, DispatchMoves DEF Comes, Moves, Reached, p
    <3>2. CASE /\ Place(r)' \in Reached
               /\ req'[r].todo \in {AfterDispatch, <<"deliver", "credit">> \o AfterDispatch}
      <4>1. "executed" \in Left(req'[r].todo) /\ Left(req'[r].todo) \cap {"investigated", "refusal"} = {}
        BY <3>2, LeftToDo DEF Left, Needing
      <4> QED
        BY <3>2, <4>1 DEF LawOf, Reached
    <3>3. CASE Place(r)' = "refused" /\ NoNew(r)
      <4>1. Left(req'[r].todo) \subseteq left
        BY <1>1, <3>3, LeftOf DEF left
      <4> QED
        BY <2>2, <3>1, <3>3, <4>1 DEF LawOf, Reached, Outcomes
    <3> QED
      BY <3>1, <3>2, <3>3
  <2>16. CASE Refused(r)
    <3>1. /\ Place(r)' = "block" /\ UNCHANGED state
          /\ Remembers(req'[r], now, req[r].seen, req[r].passed)
          /\ req'[r].todo = <<"block", "case", "cap", "refusal">>
      BY <2>16, RefusedMoves DEF Refused, caseVars, Comes, Moves, now
    <3>2. Left(req'[r].todo) = {"cap", "refusal"}
      <4>1. /\ DOMAIN <<"block", "case", "cap", "refusal">> = 1..4
            /\ <<"block", "case", "cap", "refusal">>[1] = "block"
            /\ <<"block", "case", "cap", "refusal">>[2] = "case"
            /\ <<"block", "case", "cap", "refusal">>[3] = "cap"
            /\ <<"block", "case", "cap", "refusal">>[4] = "refusal"
        OBVIOUS
      <4>2. \A s : In(req'[r].todo, {s}) <=> s \in {"block", "case", "cap", "refusal"}
        BY <3>1, <4>1 DEF In
      <4> QED
        BY <4>2 DEF Left, Needing
    <3>3. req'[r].from = now
      BY <1>1, <3>1, <3>2, LeftOf DEF Naming
    <3> QED
      BY <2>3, <3>1, <3>2, <3>3 DEF LawOf, Reached
  <2> QED
    BY <1>4, <2>7, <2>8, <2>9, <2>10, <2>11, <2>12, <2>13, <2>14, <2>15, <2>16 DEF Serve, Arms
<1>5. ASSUME NEW s \in Requests, Receive(s) \/ Serve(s) \/ Store(s) PROVE s = r
  BY OneAtATime DEF OneAtATime
<1>6. ASSUME NEW c \in Cases, ExpireEnvelope(c) \/ \E k \in Kinds : CreateException(c, k)
      PROVE  UNCHANGED <<req, state>>
  BY <1>6 DEF ExpireEnvelope, CreateException
<1>7. ~Restart
  BY <1>1 DEF Restart
<1>8. UNCHANGED vars => UNCHANGED <<req, state>>
  BY DEF vars, caseVars
<1> QED
  BY <1>2, <1>3, <1>4, <1>5, <1>6, <1>7, <1>8 DEF Next

\* Every row of the trail is a step of the machine.
TrailRows ==
    \A c \in Cases : \/ trail[c][1] = trail[c][2]
                     \/ trail[c] = <<"AUTHORIZED", "VERIFYING">>
                     \/ CanTransition(trail[c][1], trail[c][2])

LEMMA StepTrailRows ==
    ASSUME TypeOK, Shapes, Laws, TrailRows, [Next]_vars
    PROVE  TrailRows'
<1>1. ASSUME NEW r \in Requests, RecordTransition(r) PROVE TrailRows'
  <2>1. PICK step \in {"investigated", "refusal", "executed", "verified"} : At(r, step)
    BY <1>1 DEF RecordTransition
  <2>2. /\ req[r] # Idle /\ req[r].action # "declare" /\ Place(r) = step /\ CaseOf(r) \in Cases
        /\ \A s : At(r, s) <=> s = step
    BY <2>1, InExecute, Served DEF Steps, States, DiskSteps, CaseOf
  <2>3. step \in Left(req[r].todo)
    BY <2>2, Served, InParts DEF Left, Needing, Place
  <2>4. LawOf(step, req[r].from, StateOf(r), Left(req[r].todo))
    BY <2>2 DEF Laws, Lawful
  <2>5. TrailRow(r) = IF step = "executed" THEN <<req[r].from, "VERIFYING">>
                      ELSE IF step = "verified" THEN <<"VERIFYING", StateOf(r)>>
                      ELSE <<req[r].from, StateOf(r)>>
    BY <2>2 DEF TrailRow
  <2>6. \/ TrailRow(r)[1] = TrailRow(r)[2]
        \/ TrailRow(r) = <<"AUTHORIZED", "VERIFYING">>
        \/ CanTransition(TrailRow(r)[1], TrailRow(r)[2])
    <3>1. CASE step = "investigated"
      BY <2>3, <2>4, <2>5, <3>1 DEF LawOf, Reached
    <3>2. CASE step = "refusal"
      BY <2>3, <2>4, <2>5, <3>2 DEF LawOf, Reached, CanTransition, AllowedTransitions
    <3>3. CASE step = "executed"
      BY <2>3, <2>4, <2>5, <3>3 DEF LawOf, Reached, Outcomes
    <3>4. CASE step = "verified"
      BY <2>3, <2>4, <2>5, <3>4 DEF LawOf, Reached, Outcomes, CanTransition, AllowedTransitions
    <3> QED
      BY <3>1, <3>2, <3>3, <3>4
  <2>7. \A c \in Cases : trail'[c] = IF c = CaseOf(r) THEN TrailRow(r) ELSE trail[c]
    BY <1>1 DEF RecordTransition, TypeOK
  <2> QED
    BY <2>6, <2>7 DEF TrailRows
<1> QED
  BY <1>1, DiskFrames DEF TrailRows

\* The rows of the trail that are still to come.
TrailSteps == {"investigated", "refusal", "executed", "verified"}

\* The thread that will write to the trail where case c is now.  The first step of an
\* execution has no row of its own: it is part of the second one's.
Recording(r, c) ==
    /\ req[r] # Idle /\ CaseOf(r) = c /\ req[r].action # "declare"
    /\ \/ Place(r) \in DiskSteps /\ In(req[r].todo, TrailSteps)
       \/ state[c] = "RECOVERY_PROPOSED" /\ Place(r) \in {"case", "authorize", "AUTHORIZED"}

Followed ==
    \A c \in Cases \ (unsaved \cup lost \cup declared) :
        trail[c][2] # state[c] /\ state[c] \notin Midway => \E r \in Requests : Recording(r, c)

\* A thread at a write of the disk makes it.
LEMMA AtDisk ==
    ASSUME TypeOK, NEW r \in Requests, Serve(r) \/ Store(r), Place(r) \in DiskSteps
    PROVE  Store(r)
<1>1. ASSUME NEW step, At(r, step) PROVE Place(r) = step
  BY <1>1, AtServed, Served
<1>2. Store(r) \/ \E step \in Steps \ DiskSteps : At(r, step)
  BY DEF Serve, CheckTransition, WriteTransition, Moving, Propose, Authorize, MoveOnFrom,
     Gate, Dispatch, DeliverWebhook, CreditCustomer, MarkExecuted, ReadAttempts, CountAttempt, Verify, Refused, Block,
     Steps, States, DiskSteps
<1> QED
  BY <1>1, <1>2

\* A thread that has written something, and no row of the trail but that of an execution,
\* goes on to the next.
LEMMA RecordingOn ==
    ASSUME TypeOK, Shapes, Shapes', DiskWorks, NEW r \in Requests,
           Store(r), ~DropWrites(r), ~BuildRow(r),
           req[r].action # "declare", In(req[r].todo, TrailSteps),
           Place(r) \notin {"investigated", "refusal", "verified"}, NEW c, CaseOf(r) = c
    PROVE  Recording(r, c)'
<1>1. /\ req[r] # Idle /\ Place(r) \in DiskSteps /\ Moves(r, After(r)) /\ Then(r, <<>>)
      /\ req[r].todo \in Seq(Steps) /\ req[r].todo # <<>> /\ Place(r) = Head(req[r].todo)
      /\ Chain(req[r].todo)
  BY StoreMoves, Served DEF Store, SaveCase, RecordTransition, RecordRow, Place, Shapes, Shape
<1>2. In(Tail(req[r].todo), TrailSteps)
  <2>1. CASE Place(r) # "executed"
    BY <1>1, <2>1, InParts DEF TrailSteps
  <2>2. CASE Place(r) = "executed"
    <3>1. Chain(Tail(req[r].todo)) /\ Head(Tail(req[r].todo)) = "verified"
      BY <1>1, <2>2, ChainTail DEF Ends, Follows
    <3> QED
      BY <3>1, InParts DEF Chain, TrailSteps
  <2> QED
    BY <2>1, <2>2
<1>3. req'[r] # Idle /\ req'[r].todo = Tail(req[r].todo)
  BY <1>1, <1>2, ThenMoves, InNothing
<1>4. /\ req'[r].case = req[r].case /\ req'[r].action = req[r].action
      /\ Successor(Place(r), Place(r)')
  BY <1>1, <1>3 DEF Moves, After
<1>5. Place(r)' \in DiskSteps
  <2>1. Chain(req'[r].todo) /\ Place(r)' = Head(req'[r].todo)
    BY <1>3, <1>4 DEF Shapes, Shape, Place
  <2>2. Place(r)' \in DiskSteps \cup {"authorize"}
    BY <1>1, <1>4 DEF Successor, Follows, DiskSteps
  <2>3. PICK s \in TrailSteps : In(req'[r].todo, {s})
    BY <1>2, <1>3 DEF In
  <2> QED
    BY <2>1, <2>2, <2>3, Tracks DEF TrailSteps, DiskSteps
<1> QED
  BY <1>2, <1>3, <1>4, <1>5 DEF Recording, CaseOf

LEMMA StepFollowed ==
    ASSUME TypeOK, TypeOK', Shapes, Shapes', InService, LostExisted, NoDisk, Laws, Followed,
           [Next]_vars
    PROVE  Followed'
<1>1. CASE Restart
  <2>1. ASSUME NEW c \in Cases \ (unsaved' \cup lost' \cup declared'), trail'[c][2] # state'[c],
               state'[c] \notin Midway
        PROVE  FALSE
    <3>1. /\ kind[c] = "absent" /\ c \notin unsaved \cup lost \cup declared
          /\ trail[c][2] # state[c] /\ state[c] \notin Midway
      BY <1>1, <2>1 DEF Restart, LostExisted, caseVars, diskVars
    <3>2. PICK r \in Requests : Recording(r, c)
      BY <3>1 DEF Followed
    <3> QED
      BY <3>1, <3>2 DEF Recording, InService, Backed
  <2> QED
    BY <2>1 DEF Followed
<1>2. SUFFICES ASSUME ~Restart, NEW c \in Cases \ (unsaved' \cup lost' \cup declared'),
                      trail'[c][2] # state'[c], state'[c] \notin Midway
               PROVE  \E r \in Requests : Recording(r, c)'
  BY <1>1 DEF Followed
<1>3. c \notin unsaved /\ c \notin lost
  BY <1>2, Stays, DiskFrames
<1>4. ASSUME NEW r \in Requests, req[r] # Idle, CaseOf(r) = c PROVE DiskWorks
  BY <1>3, <1>4 DEF NoDisk, InService, Backed
<1>5. ASSUME NEW r \in Requests, WriteTransition(r), CaseOf(r) = c PROVE Recording(r, c)'
  <2>1. /\ req[r] # Idle /\ Place(r) \in States /\ Moves(r, After(r)) /\ NoNew(r)
        /\ state'[c] = Place(r) /\ req[r].action # "declare" /\ Place(r) \notin Midway
    <3>1. /\ req[r] # Idle /\ Place(r) \in States /\ Moves(r, After(r)) /\ NoNew(r)
          /\ state' = [state EXCEPT ![c] = Place(r)]
      BY <1>5, WriteMoves
    <3>2. state'[c] = Place(r)
      BY <3>1 DEF TypeOK
    <3>3. req[r].action # "declare"
      BY <1>2, <1>5 DEF WriteTransition
    <3> QED
      BY <1>2, <3>1, <3>2, <3>3
  <2>2. /\ req'[r] # Idle /\ Place(r)' = "case"
    BY <1>4, <1>5, <2>1, WriteThen
  <2>3. req'[r].case = req[r].case /\ req'[r].action = req[r].action /\ Successor(Place(r), "case")
    BY <2>1, <2>2 DEF Moves, After
  <2>4. Place(r) \in {"INVESTIGATING", "RESOLVED", "ESCALATED", "BLOCKED", "RECOVERY_PROPOSED"}
    BY <2>1, <2>3 DEF Successor, Follows, States
  <2>5. CASE Place(r) = "RECOVERY_PROPOSED"
    BY <1>5, <2>1, <2>2, <2>3, <2>5 DEF Recording, CaseOf
  <2>6. CASE Place(r) # "RECOVERY_PROPOSED"
    <3>1. \E s \in Naming : s \in Left(req[r].todo)
      BY <2>1, <2>4, <2>6 DEF Laws, Lawful, LawOf, Reached, Naming
    <3>2. PICK s \in Naming : s \in Left(req[r].todo)
      BY <3>1
    <3>3. Keeps(r) /\ s # Place(r) /\ s \in Needing
      BY <1>5, <2>4, <3>2, WorkKeeps DEF Serve, Naming, Needing
    <3>4. In(req'[r].todo, {s})
      BY <2>2, <3>2, <3>3 DEF Keeps, Left
    <3>5. In(req'[r].todo, TrailSteps)
      BY <3>2, <3>4 DEF In, TrailSteps, Naming
    <3> QED
      BY <1>5, <2>1, <2>2, <2>3, <3>5 DEF Recording, CaseOf, DiskSteps
  <2> QED
    BY <2>5, <2>6
<1>6. SUFFICES ASSUME \A r \in Requests : WriteTransition(r) => CaseOf(r) # c
               PROVE  \E r \in Requests : Recording(r, c)'
  BY <1>5
<1>7. state'[c] = state[c] /\ c \notin declared
  <2>1. ASSUME NEW r \in Requests, WriteTransition(r) PROVE state'[c] = state[c] /\ c \notin declared
    BY <1>2, <1>6, <2>1 DEF WriteTransition, TypeOK
  <2> QED
    BY <1>2, <2>1, Frames
<1>8. ASSUME NEW r \in Requests, RecordTransition(r), CaseOf(r) = c, trail'[c] = TrailRow(r)
      PROVE  Recording(r, c)'
  <2>1. PICK step \in TrailSteps : At(r, step)
    BY <1>8 DEF RecordTransition, TrailSteps
  <2>2. /\ req[r] # Idle /\ req[r].action # "declare" /\ Place(r) = step
        /\ \A s : At(r, s) <=> s = step
    BY <2>1, InExecute, Served DEF Steps, States, DiskSteps, TrailSteps
  <2>3. step = "executed"
    BY <1>2, <1>7, <1>8, <2>2 DEF TrailRow, StateOf
  <2>4. In(req[r].todo, TrailSteps)
    BY <2>2, <2>3, Served, InParts DEF Place, TrailSteps
  <2>5. Store(r) /\ ~DropWrites(r) /\ ~BuildRow(r)
    BY <1>2, <1>8, <2>2, <2>3 DEF Store, DropWrites, Refuses, BuildRow
  <2> QED
    BY <1>4, <1>8, <2>2, <2>3, <2>4, <2>5, RecordingOn DEF TrailSteps
<1>9. ASSUME trail'[c] # trail[c] PROVE \E r \in Requests : Recording(r, c)'
  <2>1. PICK r \in Requests : RecordTransition(r)
    BY <1>9, DiskFrames
  <2>2. CaseOf(r) = c /\ trail'[c] = TrailRow(r)
    BY <1>9, <2>1 DEF RecordTransition, TypeOK
  <2> QED
    BY <1>8, <2>1, <2>2
<1>10. ASSUME trail'[c] = trail[c] PROVE \E r \in Requests : Recording(r, c)'
  <2>1. PICK r \in Requests : Recording(r, c)
    BY <1>2, <1>3, <1>7, <1>10 DEF Followed
  <2>2. CASE UNCHANGED req[r]
    BY <1>7, <2>1, <2>2 DEF Recording, CaseOf, Place
  <2>3. CASE ~UNCHANGED req[r]
    <3>1. req[r] # Idle /\ CaseOf(r) = c /\ req[r].action # "declare" /\ DiskWorks
      BY <1>4, <2>1 DEF Recording
    <3>2. Serve(r) \/ Store(r)
      <4>1. ASSUME NEW s \in Requests, Receive(s) PROVE UNCHANGED req[r]
        BY <3>1, <4>1, ReceiveStarts DEF Starts
      <4>2. ASSUME NEW s \in Requests, Serve(s) \/ Store(s), s # r PROVE UNCHANGED req[r]
        BY <4>2, CountPlaces
      <4>3. ASSUME NEW d \in Cases, ExpireEnvelope(d) \/ \E k \in Kinds : CreateException(d, k)
            PROVE  UNCHANGED req
        BY <4>3 DEF ExpireEnvelope, CreateException
      <4>4. UNCHANGED vars => UNCHANGED req
        BY DEF vars
      <4> QED
        BY <1>2, <2>3, <4>1, <4>2, <4>3, <4>4 DEF Next
    <3>3. ~DropWrites(r)
      BY <1>2, <3>1 DEF DropWrites, Refuses
    <3>4. CASE Place(r) \in DiskSteps /\ In(req[r].todo, TrailSteps)
      <4>1. Store(r)
        BY <3>2, <3>4, AtDisk
      <4>2. ASSUME Place(r) \in {"investigated", "refusal", "verified"} PROVE FALSE
        <5>1. RecordTransition(r)
          BY <3>2, <3>3, <4>2, AtStore
        <5>2. trail'[c] = TrailRow(r)
          BY <3>1, <5>1 DEF RecordTransition, TypeOK
        <5>3. ~At(r, "executed")
          BY <3>1, <4>2, Served
        <5> QED
          BY <1>2, <1>7, <3>1, <5>2, <5>3 DEF TrailRow, StateOf
      <4>3. CASE BuildRow(r)
        BY <1>7, <3>1, <3>4, <4>3, BuildMoves DEF Recording, CaseOf, Place
      <4>4. CASE ~BuildRow(r)
        BY <3>1, <3>3, <3>4, <4>1, <4>2, <4>4, RecordingOn
      <4> QED
        BY <4>3, <4>4
    <3>5. CASE ~(Place(r) \in DiskSteps /\ In(req[r].todo, TrailSteps))
      <4>1. state[c] = "RECOVERY_PROPOSED" /\ Place(r) \in {"case", "authorize", "AUTHORIZED"}
        BY <2>1, <3>5 DEF Recording
      <4>2. CASE Place(r) = "case"
        <5>1. Chain(req[r].todo) /\ Head(req[r].todo) = "case"
          BY <3>1, <4>2 DEF Shapes, Shape, Place
        <5>2. Chain(Tail(req[r].todo)) /\ Head(Tail(req[r].todo)) = "authorize"
          <6>1. ~In(req[r].todo, {"investigated", "refusal", "executed"})
            BY <3>5, <4>2 DEF In, TrailSteps, DiskSteps
          <6> QED
            BY <5>1, <6>1, Tracks, ChainTail DEF DiskSteps, Ends
        <5>3. CASE SaveCase(r)
          <6>1. Moves(r, After(r)) /\ req'[r] # Idle /\ req'[r].todo = Tail(req[r].todo)
            BY <3>1, <5>2, <5>3, ThenMoves DEF SaveCase, Chain
          <6> QED
            BY <1>7, <3>1, <4>1, <5>2, <6>1 DEF Recording, Moves, CaseOf, Place
        <5>4. CASE BuildRow(r)
          <6>1. /\ req'[r] # Idle /\ req'[r].case = req[r].case /\ req'[r].action = req[r].action
                /\ Place(r)' = "case"
            BY <4>2, <5>4, BuildMoves DEF Place
          <6> QED
            BY <1>7, <3>1, <4>1, <6>1 DEF Recording, CaseOf
        <5> QED
          BY <3>2, <3>3, <4>2, <5>3, <5>4, AtCase
      <4>3. CASE Place(r) = "authorize"
        <5>1. Authorize(r)
          <6>1. ASSUME NEW step, At(r, step) PROVE step = "authorize"
            BY <3>1, <4>3, <6>1, Served
          <6>2. Authorize(r) \/ \E step \in Steps \ {"authorize"} : At(r, step)
            BY <3>2 DEF Serve, Store, CheckTransition, WriteTransition, Moving, Propose, MoveOnFrom,
               Gate, Dispatch, DeliverWebhook, CreditCustomer, MarkExecuted, ReadAttempts, CountAttempt, Verify, Refused, Block,
               BuildRow, SaveCase, RecordTransition, RecordRow, DropWrites, Steps, States, DiskSteps
          <6> QED
            BY <6>1, <6>2
        <5>2. StateOf(r) = "RECOVERY_PROPOSED"
          BY <3>1, <4>1 DEF StateOf
        <5>3. Comes(r, "AUTHORIZED")
          BY <5>1, <5>2, AuthorizeMoves
        <5> QED
          BY <1>7, <3>1, <4>1, <5>3 DEF Recording, Comes, Moves, CaseOf
      <4>4. CASE Place(r) = "AUTHORIZED"
        <5>1. CheckTransition(r)
          <6>1. ASSUME NEW step, At(r, step) PROVE step = "AUTHORIZED"
            BY <3>1, <4>4, <6>1, Served
          <6>2. \/ CheckTransition(r) \/ WriteTransition(r)
                \/ \E step \in Steps \ {"AUTHORIZED"} : At(r, step)
            BY <3>2 DEF Serve, Store, Propose, Authorize, MoveOnFrom,
               Gate, Dispatch, DeliverWebhook, CreditCustomer, MarkExecuted, ReadAttempts, CountAttempt, Verify, Refused, Block,
               BuildRow, SaveCase, RecordTransition, RecordRow, DropWrites, Steps, States, DiskSteps
          <6> QED
            BY <1>6, <3>1, <6>1, <6>2
        <5>2. CanTransition(StateOf(r), Place(r))
          BY <3>1, <4>1, <4>4 DEF StateOf, CanTransition, AllowedTransitions
        <5>3. /\ req'[r] # Idle /\ req'[r].todo = req[r].todo /\ req'[r].case = req[r].case
              /\ req'[r].action = req[r].action
          BY <5>1, <5>2, CheckMoves
        <5> QED
          BY <1>7, <3>1, <4>1, <4>4, <5>3 DEF Recording, CaseOf, Place
      <4> QED
        BY <4>1, <4>2, <4>3, <4>4
    <3> QED
      BY <3>4, <3>5
  <2> QED
    BY <2>2, <2>3
<1> QED
  BY <1>9, <1>10

-----------------------------------------------------------------------------
\* The inductive invariant of a server that serves one request at a time.

SInv ==
    /\ IInv /\ Armed /\ Counted /\ Built /\ SavedState /\ SavedRows /\ Escalations
    /\ Laws /\ TrailRows /\ Followed

LEMMA InitSInv == Init => SInv
<1> SUFFICES ASSUME Init PROVE SInv
  OBVIOUS
<1>1. IInv /\ TypeOK /\ \A r \in Requests : req[r] = Idle
  BY InitIInv DEF IInv, Init
<1>2. Armed /\ Laws /\ Built
  BY <1>1 DEF Armed, Laws, Built
<1>3. SavedState
  BY DEF Init, SavedState
<1>4. Counted
  <2>1. \A c : Counting(c) = {}
    BY <1>1 DEF Counting
  <2>2. ASSUME NEW c \in Cases PROVE attempts[c] = 0 /\ Mutated(c) = 0
    <3>1. <<c, "replay_webhook">> \in Keys /\ <<c, "sync_crm">> \in Keys
      BY DEF Keys, Mutations
    <3> QED
      BY <3>1 DEF Init, Mutated
  <2> QED
    BY <2>1, <2>2, FS_EmptySet DEF Counted, SawThen
<1>5. SavedRows
  BY DEF Init, SavedRows, SavedRow, NoRow, Midway
<1>6. Escalations
  BY <1>1 DEF Init, Escalations
<1>7. TrailRows /\ Followed
  BY DEF Init, TrailRows, Followed
<1> QED
  BY <1>1, <1>2, <1>3, <1>4, <1>5, <1>6, <1>7 DEF SInv

LEMMA StepSInv ==
    ASSUME OneAtATime, SInv, [Next]_vars
    PROVE  SInv'
<1>1. /\ TypeOK /\ Shapes /\ InService /\ LostExisted /\ EffectsWithinPolicy /\ Backing
      /\ Carried /\ NoDisk
      /\ Armed /\ Counted /\ Built /\ SavedState /\ SavedRows /\ Escalations
      /\ Laws /\ TrailRows /\ Followed
  BY DEF SInv, IInv
<1>2. IInv' /\ TypeOK' /\ Shapes' /\ Carried'
  BY StepIInv DEF SInv, IInv
<1>3. Armed' /\ Counted' /\ Built' /\ SavedState' /\ SavedRows'
  BY <1>1, <1>2, StepArmed, StepCounted, StepBuilt, StepSavedState, StepSavedRows
<1>4. Escalations'
  <2>1. \A c \in Cases : "escalation" \in records'[c] =>
           "FAIL" \in records'[c] /\ Mutated(c)' >= MaxAttempts
    BY <1>1, StepEscalated
  <2>2. \A r \in Requests : req'[r] # Idle => EscalatesRightly(r)'
    BY <1>1, <1>2, StepEscalating
  <2> QED
    BY <2>1, <2>2 DEF Escalations
<1>5. Laws' /\ TrailRows' /\ Followed'
  BY <1>1, <1>2, StepLaws, StepTrailRows, StepFollowed
<1> QED
  BY <1>2, <1>3, <1>4, <1>5 DEF SInv

\* What a server that serves one request at a time keeps at every moment.
THEOREM SerialInductive ==
    ASSUME OneAtATime
    PROVE  Spec => []SInv
<1>1. SInv /\ [Next]_vars => SInv'
  BY StepSInv
<1> QED
  BY <1>1, InitSInv, PTL DEF Spec

\* The table `exceptions' can be trusted as long as requests do not overlap: wherever the
\* server dies, no row shows a case halfway through execute(), and between requests a row
\* that no write was refused for shows the state its case is in (_persist_case() in
\* api/routes.py).
THEOREM SavedTrusted ==
    ASSUME OneAtATime
    PROVE  Spec => []SavedIsCurrent
<1>1. ASSUME SavedState, SavedRows PROVE SavedIsCurrent
  <2>1. \A c \in Cases : SavedRow(c)
    BY <1>1 DEF SavedRows
  <2>2. ASSUME Quiescent, NEW c \in Cases \ (unsaved \cup lost), kind[c] # "absent"
        PROVE  saved[c].state = state[c]
    BY <1>1, <2>2 DEF SavedState, Quiescent, Saving
  <2> QED
    BY <2>1, <2>2 DEF SavedIsCurrent, SavedRow
<1>2. SInv => SavedIsCurrent
  BY <1>1 DEF SInv, IInv
<1> QED
  BY <1>2, SerialInductive, PTL

\* Of requests that do not overlap every row of the table `state_transitions' is a step of
\* the machine, and between them the last one names the state the case is in, unless a write
\* of it was refused or a client declared the state (record_transition() in api/routes.py).
\* It says nothing of the rows before: a move that leaves none is missing from the table.
THEOREM TrailNamesState ==
    ASSUME OneAtATime
    PROVE  Spec => []LastRowNamesState
<1>1. ASSUME TrailRows, Followed, Carried PROVE LastRowNamesState
  <2>1. ASSUME Quiescent, NEW c \in Cases \ (unsaved \cup lost \cup declared)
        PROVE  trail[c][2] = state[c]
    <3>1. state[c] \notin Midway
      BY <1>1, <2>1 DEF Carried, Quiescent, Carries
    <3> QED
      BY <1>1, <2>1, <3>1 DEF Followed, Quiescent, Recording
  <2> QED
    BY <1>1, <2>1 DEF LastRowNamesState, TrailRows
<1>2. SInv => LastRowNamesState
  BY <1>1 DEF SInv, IInv
<1> QED
  BY <1>2, SerialInductive, PTL

\* The records claim nothing that did not happen: an execution follows a mutation, a
\* verdict its execution, a PASS postconditions that the world has, an escalation a failed
\* verification and exhausted attempts (the writes at the end of execute()).
THEOREM RecordsBelievable ==
    ASSUME OneAtATime
    PROVE  Spec => []RecordsAreTrue
<1>1. ASSUME RowsTrue, Escalations PROVE RecordsAreTrue
  <2>1. ASSUME NEW c \in Cases, "PASS" \in records[c]
        PROVE  HasPostconditions(kind[c]) /\ (c \in lost \/ Proved(c))
    BY <1>1, <2>1 DEF Proved, RowsTrue, RowsHold, Passed, HasPostconditions, PostconditionsHold, AmbiguousRefund
  <2>2. ASSUME NEW c \in Cases
        PROVE  /\ "executed" \in records[c] => Mutated(c) > 0
               /\ {"PASS", "FAIL"} \cap records[c] # {} => {"capability", "executed"} \subseteq records[c]
               /\ "escalation" \in records[c] => "FAIL" \in records[c] /\ Mutated(c) >= MaxAttempts
    BY <1>1 DEF RowsTrue, RowsHold, Escalations
  <2> QED
    BY <2>1, <2>2 DEF RecordsAreTrue
<1>2. SInv => RecordsAreTrue
  BY <1>1 DEF SInv, IInv
<1> QED
  BY <1>2, SerialInductive, PTL
=============================================================================
