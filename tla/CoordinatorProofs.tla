------------------------- MODULE CoordinatorProofs -------------------------
(***************************************************************************)
(* The agent's coordinator keeps its bounds and its scopes, whatever the   *)
(* model asks for and however the framework schedules its calls: types     *)
(* first, then the scopes, then the count of the executions.               *)
(***************************************************************************)
EXTENDS Coordinator, FiniteSetTheorems, TLAPS

Pcs == {"propose", "check", "answered"} \cup Uncounted

\* The fields of a call that is under way.
LEMMA CallTyped ==
    ASSUME TypeOK, NEW s \in Slots, call[s] # NoCall
    PROVE  /\ call[s] \in Calls
           /\ call[s].pc \in Pcs /\ call[s].agent \in Agents /\ call[s].ctx \in Coordinators
           /\ call[s].pair \in Pairs /\ call[s].seen \in Nat /\ call[s].verdict \in Verdicts
           /\ call[s].pair[2] \in Asked
           /\ call[s].pc \in PastBound => call[s].pair[1] \in Items
<1>1. call[s] \in Calls
  BY DEF TypeOK
<1> QED
  BY <1>1, CoordinatorAssumption DEF Calls, Pcs, TypeOK

\* The call in thread s becomes v, those in the other threads stay what they are.
Becomes(s, v) == call' = [call EXCEPT ![s] = v]

LEMMA BecomesTyped ==
    ASSUME TypeOK, NEW s \in Slots, NEW v \in Calls \cup {NoCall}, Becomes(s, v)
    PROVE  call' \in [Slots -> Calls \cup {NoCall}]
BY DEF TypeOK, Becomes

\* What a step makes of its call: nothing, or the same call at another place.
LEMMA Successors ==
    ASSUME TypeOK, NEW s \in Slots, call[s] # NoCall
    PROVE  /\ \A pc \in Pcs : GoesTo(s, pc) =>
                 \E v \in Calls : Becomes(s, v) /\ v.pc = pc /\ v.agent = call[s].agent
                    /\ v.ctx = call[s].ctx /\ v.pair = call[s].pair /\ v.seen = call[s].seen
           /\ Returns(s) => Becomes(s, NoCall)
           /\ \A verdict \in Verdicts : Answered(s, verdict) =>
                 \E v \in Calls : Becomes(s, v) /\ v.pc = "answered" /\ v.agent = call[s].agent
                    /\ v.ctx = call[s].ctx /\ v.pair = call[s].pair
<1>1. call[s] \in Calls
  BY CallTyped
<1>2. ASSUME NEW pc \in Pcs, GoesTo(s, pc)
      PROVE  \E v \in Calls : Becomes(s, v) /\ v.pc = pc /\ v.agent = call[s].agent
                /\ v.ctx = call[s].ctx /\ v.pair = call[s].pair /\ v.seen = call[s].seen
  <2> DEFINE v == [call[s] EXCEPT !.pc = pc]
  <2>1. v \in Calls /\ v.pc = pc /\ v.agent = call[s].agent /\ v.ctx = call[s].ctx
           /\ v.pair = call[s].pair /\ v.seen = call[s].seen
    BY <1>1 DEF Calls, Pcs
  <2>2. Becomes(s, v)
    BY <1>2 DEF GoesTo, Becomes, TypeOK
  <2> QED
    BY <2>1, <2>2
<1>3. ASSUME NEW verdict \in Verdicts, Answered(s, verdict)
      PROVE  \E v \in Calls : Becomes(s, v) /\ v.pc = "answered" /\ v.agent = call[s].agent
                /\ v.ctx = call[s].ctx /\ v.pair = call[s].pair
  <2> DEFINE v == [call[s] EXCEPT !.pc = "answered", !.verdict = verdict]
  <2>1. v \in Calls /\ v.pc = "answered" /\ v.agent = call[s].agent /\ v.ctx = call[s].ctx
           /\ v.pair = call[s].pair
    BY <1>1 DEF Calls
  <2>2. Becomes(s, v)
    BY <1>3 DEF Answered, Becomes, TypeOK
  <2> QED
    BY <2>1, <2>2
<1>4. Returns(s) => Becomes(s, NoCall)
  BY DEF Returns, Becomes
<1> QED
  BY <1>2, <1>3, <1>4

LEMMA VerdictInVerdicts ==
    ASSUME NEW item, NEW out
    PROVE  VerdictOf(item, out) \in Verdicts
BY DEF VerdictOf, Verdicts

LEMMA Started ==
    ASSUME NEW s \in Slots, NEW a \in Agents, NEW p \in Pairs, NEW op \in {"propose", "check"},
           StartCall(s, a, p, op), TypeOK
    PROVE  \E v \in Calls : Becomes(s, v) /\ v.pc = op /\ v.agent = a /\ v.ctx = bound /\ v.pair = p
<1> DEFINE v == [pc |-> op, agent |-> a, ctx |-> bound, pair |-> p, seen |-> 0, verdict |-> "none"]
<1>1. v \in Calls
  BY DEF StartCall, Calls, Verdicts
<1>2. Becomes(s, v)
  BY DEF StartCall, Becomes
<1> QED
  BY <1>1, <1>2

-----------------------------------------------------------------------------
\* Types.

LEMMA InitType == Init => TypeOK
BY DEF Init, TypeOK, Verdicts

\* A step of a call leaves it a call, or ends it.
LEMMA StepTypeOfCall ==
    ASSUME TypeOK, NEW s \in Slots, CallStep(s)
    PROVE  call' \in [Slots -> Calls \cup {NoCall}]
<1>1. call[s] # NoCall
  BY DEF CallStep, Propose, Check, Discard, AskAttempts, ReadAttempts, WriteAttempts, Refuse,
         Reach, Finish, At
<1>2. ASSUME NEW pc \in Pcs, GoesTo(s, pc)
      PROVE  call' \in [Slots -> Calls \cup {NoCall}]
  <2>1. PICK v \in Calls : Becomes(s, v)
    BY <1>1, <1>2, Successors
  <2> QED
    BY <2>1, BecomesTyped
<1>3. Returns(s) => call' \in [Slots -> Calls \cup {NoCall}]
  BY <1>1, Successors, BecomesTyped
<1>4. ASSUME NEW verdict \in Verdicts, Answered(s, verdict)
      PROVE  call' \in [Slots -> Calls \cup {NoCall}]
  <2>1. PICK v \in Calls : Becomes(s, v)
    BY <1>1, <1>4, Successors
  <2> QED
    BY <2>1, BecomesTyped
<1>5. {"discard", "bound", "read", "write", "call"} \subseteq Pcs /\ "refused" \in Verdicts
  BY DEF Pcs, Uncounted, Verdicts
<1>6. CASE Propose(s) \/ Finish(s)
  BY <1>3, <1>6 DEF Propose, Finish
<1>7. CASE Check(s) \/ Discard(s) \/ WriteAttempts(s)
  BY <1>2, <1>3, <1>5, <1>7 DEF Check, Discard, WriteAttempts
<1>8. CASE AskAttempts(s) \/ Refuse(s)
  BY <1>2, <1>3, <1>4, <1>5, <1>8 DEF AskAttempts, Refuse
<1>9. CASE Reach(s)
  <2>1. PICK verdict \in {"refused"} \cup {VerdictOf(call[s].pair[1], out) : out \in Answers} :
            Answered(s, verdict)
    BY <1>9 DEF Reach
  <2>2. verdict \in Verdicts
    BY <2>1, <1>5, VerdictInVerdicts
  <2> QED
    BY <2>1, <2>2, <1>4
<1>10. CASE ReadAttempts(s)
  <2> DEFINE v == [call[s] EXCEPT !.pc = "write", !.seen = attempts[call[s].ctx][call[s].pair[1]]]
  <2>1. attempts[call[s].ctx][call[s].pair[1]] \in Nat
    BY <1>1, <1>10, CallTyped DEF TypeOK, ReadAttempts, At, PastBound
  <2>2. v \in Calls
    BY <2>1, <1>1, CallTyped DEF Calls, Uncounted
  <2>3. Becomes(s, v)
    BY <1>10 DEF ReadAttempts, Becomes, TypeOK
  <2> QED
    BY <2>2, <2>3, BecomesTyped
<1> QED
  BY <1>6, <1>7, <1>8, <1>9, <1>10 DEF CallStep

\* One more in a table of counts.
LEMMA OneMore ==
    ASSUME NEW f \in [Coordinators -> [Pairs -> Nat]], NEW c \in Coordinators, NEW p \in Pairs
    PROVE  [f EXCEPT ![c][p] = @ + 1] \in [Coordinators -> [Pairs -> Nat]]
<1>1. [f[c] EXCEPT ![p] = @ + 1] \in [Pairs -> Nat]
  OBVIOUS
<1> QED
  BY <1>1

LEMMA StepTypeOfBooks ==
    ASSUME TypeOK, NEW s \in Slots, CallStep(s)
    PROVE  /\ accepted' \in [Coordinators -> SUBSET Pairs]
           /\ proposals' \in [Coordinators -> [Pairs -> Nat]]
           /\ executions' \in [Coordinators -> [Pairs -> Nat]]
           /\ attempts' \in [Coordinators -> [Items -> Nat]]
           /\ last' \in [Coordinators -> [Items -> Verdicts]]
           /\ reached' \subseteq Agents \X Coordinators \X Asked
<1> DEFINE c == call[s].ctx
           p == call[s].pair
<1>1. call[s] # NoCall
  BY DEF CallStep, Propose, Check, Discard, AskAttempts, ReadAttempts, WriteAttempts, Refuse,
         Reach, Finish, At
<1>2. /\ c \in Coordinators /\ p \in Pairs /\ p[2] \in Asked
      /\ call[s].agent \in Agents /\ call[s].seen \in Nat /\ call[s].verdict \in Verdicts
  BY <1>1, CallTyped
<1>20. p[1] \in Items \/ call[s].pc \notin PastBound
  BY <1>1, CallTyped
<1> HIDE DEF c, p
<1>3. ASSUME NEW verdict, Answered(s, verdict)
      PROVE  executions' \in [Coordinators -> [Pairs -> Nat]]
  BY <1>2, <1>3, OneMore DEF Answered, TypeOK, c, p
<1>4. CASE Propose(s)
  <2>1. /\ [accepted EXCEPT ![c] = @ \cup {p}] \in [Coordinators -> SUBSET Pairs]
        /\ [proposals EXCEPT ![c][p] = @ + 1] \in [Coordinators -> [Pairs -> Nat]]
    BY <1>2, OneMore DEF TypeOK
  <2>2. UNCHANGED <<executions, attempts, last, reached>>
    BY <1>4 DEF Propose
  <2>3. /\ accepted' \in {accepted, [accepted EXCEPT ![c] = @ \cup {p}]}
        /\ proposals' \in {proposals, [proposals EXCEPT ![c][p] = @ + 1]}
    BY <1>4 DEF Propose, c, p
  <2> QED
    BY <2>1, <2>2, <2>3 DEF TypeOK
<1>5. CASE Discard(s)
  <2>1. accepted' \in [Coordinators -> SUBSET Pairs]
    BY <1>2, <1>5 DEF Discard, TypeOK, c
  <2> QED
    BY <1>5, <2>1 DEF Discard, TypeOK
<1>6. CASE WriteAttempts(s)
  <2>1. attempts' \in [Coordinators -> [Items -> Nat]]
    BY <1>2, <1>20, <1>6 DEF WriteAttempts, At, PastBound, TypeOK, c, p
  <2> QED
    BY <1>6, <2>1 DEF WriteAttempts, TypeOK
<1>7. CASE Finish(s)
  <2>1. last' \in [Coordinators -> [Items -> Verdicts]]
    BY <1>2, <1>20, <1>7 DEF Finish, At, PastBound, TypeOK, c, p
  <2> QED
    BY <1>7, <2>1 DEF Finish, TypeOK
<1>8. CASE Check(s) \/ ReadAttempts(s)
  BY <1>8 DEF Check, ReadAttempts, books, TypeOK
<1>9. CASE AskAttempts(s) \/ Refuse(s)
  <2>1. executions' \in [Coordinators -> [Pairs -> Nat]]
    BY <1>3, <1>9 DEF AskAttempts, Refuse, TypeOK
  <2> QED
    BY <1>9, <2>1 DEF AskAttempts, Refuse, TypeOK
<1>10. CASE Reach(s)
  <2>1. executions' \in [Coordinators -> [Pairs -> Nat]]
    BY <1>3, <1>10 DEF Reach
  <2>2. reached' \subseteq Agents \X Coordinators \X Asked
    BY <1>2, <1>10 DEF Reach, TypeOK, c, p
  <2> QED
    BY <1>10, <2>1, <2>2 DEF Reach, TypeOK
<1> QED
  BY <1>4, <1>5, <1>6, <1>7, <1>8, <1>9, <1>10 DEF CallStep

\* What a call that got past the bound is about is an item of the run.
LEMMA StepKnown ==
    ASSUME TypeOK, NEW s \in Slots, CallStep(s)
    PROVE  \A t \in Slots :
              call'[t] # NoCall /\ call'[t].pc \in PastBound => call'[t].pair[1] \in Items
<1>1. call[s] # NoCall
  BY DEF CallStep, Propose, Check, Discard, AskAttempts, ReadAttempts, WriteAttempts, Refuse,
         Reach, Finish, At
<1>2. call[s] \in Calls /\ (call[s].pc \in PastBound => call[s].pair[1] \in Items)
  BY <1>1, CallTyped
<1>3. ASSUME NEW v, Becomes(s, v),
             v # NoCall /\ v.pc \in PastBound => v.pair[1] \in Items
      PROVE  \A t \in Slots :
                call'[t] # NoCall /\ call'[t].pc \in PastBound => call'[t].pair[1] \in Items
  <2>1. call'[s] = v /\ \A t \in Slots : t # s => call'[t] = call[t]
    BY <1>3 DEF Becomes, TypeOK
  <2> QED
    BY <1>3, <2>1 DEF TypeOK
<1>4. Returns(s) => Becomes(s, NoCall)
  BY DEF Returns, Becomes
<1>5. CASE Propose(s) \/ Finish(s)
  BY <1>3, <1>4, <1>5 DEF Propose, Finish
<1>6. ASSUME NEW pc \in {"discard", "bound"}, GoesTo(s, pc)
      PROVE  \A t \in Slots :
                call'[t] # NoCall /\ call'[t].pc \in PastBound => call'[t].pair[1] \in Items
  <2>1. pc \in Pcs /\ pc \notin PastBound
    BY DEF Pcs, Uncounted, PastBound
  <2>2. PICK v \in Calls : Becomes(s, v) /\ v.pc = pc
    BY <1>1, <1>6, <2>1, Successors
  <2> QED
    BY <1>3, <2>1, <2>2
<1>7. CASE Check(s) \/ Discard(s)
  BY <1>3, <1>4, <1>6, <1>7 DEF Check, Discard
<1>8. ASSUME NEW pc \in PastBound, GoesTo(s, pc), call[s].pair[1] \in Items
      PROVE  \A t \in Slots :
                call'[t] # NoCall /\ call'[t].pc \in PastBound => call'[t].pair[1] \in Items
  <2>1. pc \in Pcs
    BY DEF Pcs, Uncounted, PastBound
  <2>2. PICK v \in Calls : Becomes(s, v) /\ v.pair = call[s].pair
    BY <1>1, <1>8, <2>1, Successors
  <2> QED
    BY <1>3, <1>8, <2>2
<1>9. ASSUME NEW verdict \in Verdicts, Answered(s, verdict), call[s].pair[1] \in Items
      PROVE  \A t \in Slots :
                call'[t] # NoCall /\ call'[t].pc \in PastBound => call'[t].pair[1] \in Items
  <2>1. PICK v \in Calls : Becomes(s, v) /\ v.pair = call[s].pair
    BY <1>1, <1>9, Successors
  <2> QED
    BY <1>3, <1>9, <2>1
<1>10. {"read", "write", "call"} \subseteq PastBound /\ "refused" \in Verdicts
  BY DEF PastBound, Verdicts
<1>11. CASE AskAttempts(s)
  BY <1>3, <1>4, <1>8, <1>9, <1>10, <1>11 DEF AskAttempts
<1>12. CASE ReadAttempts(s)
  <2> DEFINE v == [call[s] EXCEPT !.pc = "write", !.seen = attempts[call[s].ctx][call[s].pair[1]]]
  <2>1. Becomes(s, v)
    BY <1>12 DEF ReadAttempts, Becomes, TypeOK
  <2>2. v.pair[1] \in Items
    BY <1>2, <1>12 DEF Calls, ReadAttempts, At, PastBound
  <2> HIDE DEF v
  <2> QED
    BY <1>3, <2>1, <2>2
<1>13. CASE WriteAttempts(s)
  BY <1>2, <1>8, <1>10, <1>13 DEF WriteAttempts, At
<1>14. CASE Refuse(s)
  BY <1>2, <1>9, <1>10, <1>14 DEF Refuse, At
<1>15. CASE Reach(s)
  <2>1. PICK verdict \in {"refused"} \cup {VerdictOf(call[s].pair[1], out) : out \in Answers} :
            Answered(s, verdict)
    BY <1>15 DEF Reach
  <2>2. verdict \in Verdicts
    BY <2>1, <1>10, VerdictInVerdicts
  <2> QED
    BY <1>2, <1>9, <1>10, <1>15, <2>1, <2>2 DEF Reach, At
<1> QED
  BY <1>5, <1>7, <1>11, <1>12, <1>13, <1>14, <1>15 DEF CallStep

\* The three other kinds of steps keep the books as they are.
LEMMA StepType == TypeOK /\ [Next]_vars => TypeOK'
<1> SUFFICES ASSUME TypeOK, [Next]_vars PROVE TypeOK'
  OBVIOUS
<1>1. ASSUME NEW c \in Coordinators \cup {Unbound}, Bind(c)
      PROVE  TypeOK'
  BY <1>1 DEF Bind, books, TypeOK
<1>2. ASSUME NEW c \in Coordinators, Expire(c)
      PROVE  TypeOK'
  BY <1>2 DEF Expire, books, TypeOK
<1>3. ASSUME NEW s \in Slots, NEW a \in Agents, NEW p \in Pairs,
             CallPropose(s, a, p) \/ CallRecover(s, a, p)
      PROVE  TypeOK'
  <2>1. PICK op \in {"propose", "check"} : StartCall(s, a, p, op)
    BY <1>3 DEF CallPropose, CallRecover
  <2>2. PICK v \in Calls : Becomes(s, v) /\ v.pc = op
    BY <2>1, Started
  <2>3. call' \in [Slots -> Calls \cup {NoCall}]
    BY <2>2, BecomesTyped
  <2>4. \A t \in Slots :
            call'[t] # NoCall /\ call'[t].pc \in PastBound => call'[t].pair[1] \in Items
    BY <2>2 DEF Becomes, PastBound, TypeOK
  <2> QED
    BY <2>1, <2>3, <2>4 DEF StartCall, books, TypeOK
<1>4. ASSUME NEW s \in Slots, CallStep(s)
      PROVE  TypeOK'
  <2>1. UNCHANGED <<parallel, bound, late>>
    BY <1>4 DEF CallStep, Propose, Check, Discard, AskAttempts, ReadAttempts, WriteAttempts,
           Refuse, Reach, Finish
  <2> QED
    BY <1>4, <2>1, StepTypeOfCall, StepTypeOfBooks, StepKnown DEF TypeOK
<1>5. CASE UNCHANGED vars
  BY <1>5 DEF vars, books, TypeOK
<1> QED
  BY <1>1, <1>2, <1>3, <1>4, <1>5 DEF Next

-----------------------------------------------------------------------------
\* What a step of a call does to that call, and to no other one.

LEMMA CallMoves ==
    ASSUME TypeOK, NEW s \in Slots, CallStep(s)
    PROVE  /\ call[s] # NoCall
           /\ \E v \in Calls \cup {NoCall} :
                 /\ Becomes(s, v)
                 /\ v # NoCall => /\ v.agent = call[s].agent /\ v.ctx = call[s].ctx
                                  /\ v.pair = call[s].pair
                                  /\ v.pc # "check" /\ v.pc # "propose"
                                  /\ v.pc \in Uncounted => call[s].pc \in Uncounted \cup {"check"}
<1>1. call[s] # NoCall
  BY DEF CallStep, Propose, Check, Discard, AskAttempts, ReadAttempts, WriteAttempts, Refuse,
         Reach, Finish, At
<1>2. {"discard", "bound", "read", "write", "call"} \subseteq Pcs /\ "refused" \in Verdicts
  BY DEF Pcs, Uncounted, Verdicts
<1>3. ASSUME NEW pc \in Uncounted, GoesTo(s, pc), call[s].pc \in Uncounted \cup {"check"}
      PROVE  \E v \in Calls \cup {NoCall} :
                 /\ Becomes(s, v)
                 /\ v # NoCall => /\ v.agent = call[s].agent /\ v.ctx = call[s].ctx
                                  /\ v.pair = call[s].pair
                                  /\ v.pc # "check" /\ v.pc # "propose"
                                  /\ v.pc \in Uncounted => call[s].pc \in Uncounted \cup {"check"}
  <2>1. pc \in Pcs /\ pc # "check" /\ pc # "propose"
    BY DEF Pcs, Uncounted
  <2>2. PICK v \in Calls : Becomes(s, v) /\ v.pc = pc /\ v.agent = call[s].agent
                /\ v.ctx = call[s].ctx /\ v.pair = call[s].pair
    BY <1>1, <1>3, <2>1, Successors
  <2> QED
    BY <1>3, <2>1, <2>2
<1>4. ASSUME Returns(s)
      PROVE  \E v \in Calls \cup {NoCall} : Becomes(s, v) /\ v = NoCall
  BY <1>1, <1>4, Successors
<1>5. ASSUME NEW verdict \in Verdicts, Answered(s, verdict)
      PROVE  \E v \in Calls \cup {NoCall} : Becomes(s, v) /\ v.pc = "answered"
                /\ v.agent = call[s].agent /\ v.ctx = call[s].ctx /\ v.pair = call[s].pair
  BY <1>1, <1>5, Successors
<1>6. "answered" \notin Uncounted
  BY DEF Uncounted
<1>7. CASE Propose(s) \/ Finish(s)
  BY <1>1, <1>4, <1>7 DEF Propose, Finish
<1>8. CASE Check(s)
  <2>1. call[s].pc \in Uncounted \cup {"check"} /\ "discard" \in Uncounted
    BY <1>8 DEF Check, At, Uncounted
  <2> QED
    BY <1>1, <1>3, <1>4, <1>8, <2>1 DEF Check
<1>9. CASE Discard(s) \/ WriteAttempts(s)
  <2>1. call[s].pc \in Uncounted \cup {"check"} /\ {"bound", "call"} \subseteq Uncounted
    BY <1>9 DEF Discard, WriteAttempts, At, Uncounted
  <2> QED
    BY <1>1, <1>3, <1>9, <2>1 DEF Discard, WriteAttempts
<1>10. CASE AskAttempts(s) \/ Refuse(s)
  <2>1. call[s].pc \in Uncounted \cup {"check"} /\ "read" \in Uncounted
    BY <1>10 DEF AskAttempts, Refuse, At, Uncounted
  <2> QED
    BY <1>1, <1>2, <1>3, <1>4, <1>5, <1>6, <1>10, <2>1 DEF AskAttempts, Refuse
<1>11. CASE Reach(s)
  <2>1. PICK verdict \in {"refused"} \cup {VerdictOf(call[s].pair[1], out) : out \in Answers} :
            Answered(s, verdict)
    BY <1>11 DEF Reach
  <2>2. verdict \in Verdicts
    BY <2>1, <1>2, VerdictInVerdicts
  <2> QED
    BY <2>1, <2>2, <1>1, <1>5, <1>6
<1>12. CASE ReadAttempts(s)
  <2> DEFINE v == [call[s] EXCEPT !.pc = "write", !.seen = attempts[call[s].ctx][call[s].pair[1]]]
  <2>1. attempts[call[s].ctx][call[s].pair[1]] \in Nat
    BY <1>1, <1>12, CallTyped DEF TypeOK, ReadAttempts, At, PastBound
  <2>2. v \in Calls /\ v.agent = call[s].agent /\ v.ctx = call[s].ctx /\ v.pair = call[s].pair
           /\ v.pc = "write"
    BY <2>1, <1>1, CallTyped DEF Calls, Uncounted
  <2>3. Becomes(s, v) /\ call[s].pc \in Uncounted
    BY <1>12 DEF ReadAttempts, Becomes, TypeOK, At, Uncounted
  <2> QED
    BY <1>1, <2>2, <2>3
<1> QED
  BY <1>7, <1>8, <1>9, <1>10, <1>11, <1>12 DEF CallStep

-----------------------------------------------------------------------------
\* Scopes: a recovery that is under way is in the scope of its agent's hook.
Asking ==
    \A s \in Slots : call[s] # NoCall /\ call[s].pc \in Uncounted \cup {"check"} =>
        call[s].pair[2] \in HookScope[call[s].agent]

\* The calls of a turn run one after the other, unless they run in parallel.
OneByOne ==
    ~parallel => \A s, t \in Slots : call[s] # NoCall /\ call[t] # NoCall => s = t

LEMMA StepAsking == TypeOK /\ Asking /\ [Next]_vars => Asking'
<1> SUFFICES ASSUME TypeOK, Asking, [Next]_vars PROVE Asking'
  OBVIOUS
<1>1. CASE UNCHANGED call
  BY <1>1 DEF Asking
<1>2. ASSUME NEW s \in Slots, NEW a \in Agents, NEW p \in Pairs,
             CallPropose(s, a, p) \/ CallRecover(s, a, p)
      PROVE  Asking'
  <2>1. PICK op \in {"propose", "check"} :
            StartCall(s, a, p, op) /\ (op = "check" => p[2] \in HookScope[a])
    BY <1>2 DEF CallPropose, CallRecover, HookAllows
  <2>2. PICK v \in Calls : Becomes(s, v) /\ v.pc = op /\ v.agent = a /\ v.pair = p
    BY <2>1, Started
  <2>3. op \in Uncounted \cup {"check"} => op = "check"
    BY DEF Uncounted
  <2> QED
    BY <2>1, <2>2, <2>3 DEF Asking, Becomes, TypeOK
<1>3. ASSUME NEW s \in Slots, CallStep(s)
      PROVE  Asking'
  <2>1. PICK v \in Calls \cup {NoCall} :
                 /\ Becomes(s, v)
                 /\ v # NoCall => /\ v.agent = call[s].agent /\ v.pair = call[s].pair
                                  /\ v.pc # "check"
                                  /\ v.pc \in Uncounted => call[s].pc \in Uncounted \cup {"check"}
    BY <1>3, CallMoves
  <2>2. call[s] # NoCall
    BY <1>3, CallMoves
  <2> QED
    BY <2>1, <2>2 DEF Asking, Becomes, TypeOK
<1> QED
  BY <1>1, <1>2, <1>3 DEF Next, Bind, Expire, vars

LEMMA StepOneByOne == TypeOK /\ OneByOne /\ [Next]_vars => OneByOne'
<1> SUFFICES ASSUME TypeOK, OneByOne, [Next]_vars PROVE OneByOne'
  OBVIOUS
<1>1. CASE UNCHANGED <<call, parallel>>
  BY <1>1 DEF OneByOne
<1>2. ASSUME NEW s \in Slots, NEW a \in Agents, NEW p \in Pairs,
             CallPropose(s, a, p) \/ CallRecover(s, a, p)
      PROVE  OneByOne'
  <2>1. PICK op \in {"propose", "check"} : StartCall(s, a, p, op)
    BY <1>2 DEF CallPropose, CallRecover
  <2>2. PICK v \in Calls : Becomes(s, v)
    BY <2>1, Started
  <2> QED
    BY <2>1, <2>2 DEF OneByOne, Becomes, StartCall, TypeOK
<1>3. ASSUME NEW s \in Slots, CallStep(s)
      PROVE  OneByOne'
  <2>1. PICK v \in Calls \cup {NoCall} : Becomes(s, v)
    BY <1>3, CallMoves
  <2>2. call[s] # NoCall
    BY <1>3, CallMoves
  <2>3. parallel' = parallel
    BY <1>3 DEF CallStep, Propose, Check, Discard, AskAttempts, ReadAttempts, WriteAttempts,
           Refuse, Reach, Finish
  <2> QED
    BY <2>1, <2>2, <2>3 DEF OneByOne, Becomes, TypeOK
<1> QED
  BY <1>1, <1>2, <1>3 DEF Next, Bind, Expire, vars

\* Only a call of a source adds to what was reached, and it passed both gates.
LEMMA StepScopes == TypeOK /\ Asking /\ BothScopesHold /\ [Next]_vars => BothScopesHold'
<1> SUFFICES ASSUME TypeOK, Asking, BothScopesHold, [Next]_vars PROVE BothScopesHold'
  OBVIOUS
<1>1. CASE UNCHANGED reached
  BY <1>1 DEF BothScopesHold
<1>2. ASSUME NEW s \in Slots, Reach(s)
      PROVE  BothScopesHold'
  <2>1. call[s].pair[2] \in HookScope[call[s].agent]
    BY <1>2 DEF Asking, Reach, At, Uncounted
  <2>2. call[s].pair[2] \in Scope[call[s].ctx]
    BY <1>2 DEF Reach, Authorized, InEnvelope
  <2>3. reached' = reached \cup {<<call[s].agent, call[s].ctx, call[s].pair[2]>>}
    BY <1>2 DEF Reach
  <2> QED
    BY <2>1, <2>2, <2>3 DEF BothScopesHold
<1>3. ASSUME NEW s \in Slots, CallStep(s), ~Reach(s)
      PROVE  UNCHANGED reached
  BY <1>3 DEF CallStep, Propose, Check, Discard, AskAttempts, ReadAttempts, WriteAttempts,
         Refuse, Finish, books
<1> QED
  BY <1>1, <1>2, <1>3 DEF Next, vars, Bind, Expire, CallPropose, CallRecover, StartCall

-----------------------------------------------------------------------------
\* Attempts, where calls run one after the other: what is compared with the bound is
\* what is then counted.
Budgeted ==
    ~parallel =>
        /\ \A c \in Coordinators, i \in Items : attempts[c][i] <= MaxAttempts
        /\ \A s \in Slots : call[s] # NoCall =>
              /\ call[s].pc = "read" => ~Exhausted(call[s].ctx, call[s].pair[1])
              /\ call[s].pc = "write" => call[s].seen + 1 <= MaxAttempts

LEMMA StepBudgeted == TypeOK /\ OneByOne /\ Budgeted /\ [Next]_vars => Budgeted'
<1> SUFFICES ASSUME TypeOK, OneByOne, Budgeted, [Next]_vars PROVE Budgeted'
  OBVIOUS
<1>1. CASE UNCHANGED <<call, parallel, attempts>>
  BY <1>1 DEF Budgeted, Exhausted
<1>2. ASSUME NEW s \in Slots, NEW a \in Agents, NEW p \in Pairs,
             CallPropose(s, a, p) \/ CallRecover(s, a, p)
      PROVE  Budgeted'
  <2>1. PICK op \in {"propose", "check"} : StartCall(s, a, p, op)
    BY <1>2 DEF CallPropose, CallRecover
  <2>2. PICK v \in Calls : Becomes(s, v) /\ v.pc = op
    BY <2>1, Started
  <2>3. UNCHANGED <<parallel, attempts>>
    BY <2>1 DEF StartCall, books
  <2> QED
    BY <2>2, <2>3 DEF Budgeted, Becomes, TypeOK, Exhausted
<1>3. ASSUME NEW s \in Slots, CallStep(s)
      PROVE  Budgeted'
  <2>1. PICK v \in Calls \cup {NoCall} :
                 /\ Becomes(s, v)
                 /\ v # NoCall => v.ctx = call[s].ctx /\ v.pair = call[s].pair
    BY <1>3, CallMoves
  <2>2. call[s] # NoCall /\ parallel' = parallel
    <3>1. call[s] # NoCall
      BY <1>3, CallMoves
    <3> QED
      BY <1>3, <3>1 DEF CallStep, Propose, Check, Discard, AskAttempts, ReadAttempts,
         WriteAttempts, Refuse, Reach, Finish
  <2>3. /\ call[s].ctx \in Coordinators /\ call[s].seen \in Nat
        /\ call[s].pc \in PastBound => call[s].pair[1] \in Items
    BY <2>2, CallTyped
  <2> SUFFICES ASSUME ~parallel PROVE Budgeted'
    BY <2>2 DEF Budgeted
  <2>4. \A t \in Slots : t # s => call'[t] = NoCall
    BY <2>1, <2>2 DEF OneByOne, Becomes, TypeOK
  <2>5. call'[s] = v
    BY <2>1 DEF Becomes, TypeOK
  <2>6. ASSUME /\ \A c \in Coordinators, i \in Items : attempts'[c][i] <= MaxAttempts
               /\ v # NoCall => /\ v.pc = "read" => ~Exhausted(v.ctx, v.pair[1])'
                                /\ v.pc = "write" => v.seen + 1 <= MaxAttempts
        PROVE  Budgeted'
    BY <2>2, <2>4, <2>5, <2>6 DEF Budgeted, Exhausted
  <2>7. ASSUME call'[s] = NoCall \/ call'[s].pc \in {"discard", "bound", "call", "answered"},
               UNCHANGED attempts
        PROVE  Budgeted'
    BY <2>5, <2>6, <2>7 DEF Budgeted
  <2>8. ASSUME NEW pc, GoesTo(s, pc)
        PROVE  call'[s].pc = pc /\ call'[s].ctx = call[s].ctx /\ call'[s].pair = call[s].pair
                 /\ call'[s].seen = call[s].seen
    <3>1. call'[s] = [call[s] EXCEPT !.pc = pc]
      BY <2>8 DEF GoesTo, TypeOK
    <3> QED
      BY <3>1, <2>2, CallTyped DEF Calls
  <2>9. ASSUME NEW verdict, Answered(s, verdict)
        PROVE  call'[s].pc = "answered"
    <3>1. call'[s] = [call[s] EXCEPT !.pc = "answered", !.verdict = verdict]
      BY <2>9 DEF Answered, TypeOK
    <3> QED
      BY <3>1, <2>2, CallTyped DEF Calls
  <2>10. Returns(s) => call'[s] = NoCall
    BY DEF Returns, TypeOK
  <2>11. CASE Propose(s) \/ Finish(s)
    BY <2>7, <2>10, <2>11 DEF Propose, Finish
  <2>12. CASE Check(s) \/ Discard(s)
    BY <2>7, <2>8, <2>10, <2>12 DEF Check, Discard, books
  <2>13. CASE Refuse(s) \/ Reach(s)
    BY <2>7, <2>9, <2>13 DEF Refuse, Reach
  <2>14. CASE AskAttempts(s)
    <3>1. UNCHANGED attempts
      BY <2>14 DEF AskAttempts
    <3>2. CASE Returns(s)
      BY <2>7, <2>10, <3>1, <3>2
    <3>3. CASE Answered(s, "refused")
      BY <2>7, <2>9, <3>1, <3>3
    <3>4. CASE ~Exhausted(call[s].ctx, call[s].pair[1]) /\ GoesTo(s, "read")
      <4>1. v.pc = "read" /\ v.ctx = call[s].ctx /\ v.pair = call[s].pair
        BY <2>5, <2>8, <3>4
      <4> QED
        BY <2>6, <3>1, <3>4, <4>1 DEF Budgeted, Exhausted
    <3> QED
      BY <2>14, <3>2, <3>3, <3>4 DEF AskAttempts
  <2>15. CASE ReadAttempts(s)
    <3>1. UNCHANGED attempts
      BY <2>15 DEF ReadAttempts, books
    <3>2. call'[s] = [call[s] EXCEPT !.pc = "write",
                                     !.seen = attempts[call[s].ctx][call[s].pair[1]]]
      BY <2>15 DEF ReadAttempts, TypeOK
    <3>3. v.pc = "write" /\ v.seen = attempts[call[s].ctx][call[s].pair[1]]
      BY <2>2, <2>5, <3>2, CallTyped DEF Calls
    <3>4. ~Exhausted(call[s].ctx, call[s].pair[1])
      BY <2>2, <2>15 DEF Budgeted, ReadAttempts, At
    <3>5. attempts[call[s].ctx][call[s].pair[1]] + 1 <= MaxAttempts
      BY <2>3, <2>15, <3>4, CoordinatorAssumption
         DEF Exhausted, TypeOK, ReadAttempts, At, PastBound
    <3> QED
      BY <2>6, <3>1, <3>3, <3>5 DEF Budgeted
  <2>16. CASE WriteAttempts(s)
    <3>1. call[s].seen + 1 <= MaxAttempts
      BY <2>2, <2>16 DEF Budgeted, WriteAttempts, At
    <3>2. \A c \in Coordinators, i \in Items : attempts'[c][i] <= MaxAttempts
      BY <2>3, <2>16, <3>1 DEF Budgeted, WriteAttempts, TypeOK
    <3>3. v.pc = "call"
      BY <2>5, <2>8, <2>16 DEF WriteAttempts
    <3> QED
      BY <2>6, <3>2, <3>3
  <2> QED
    BY <1>3, <2>11, <2>12, <2>13, <2>14, <2>15, <2>16 DEF CallStep
<1> QED
  BY <1>1, <1>2, <1>3 DEF Next, vars, Bind, Expire, books

-----------------------------------------------------------------------------
\* Executions.  For one pair of one coordinator they are counted together with the
\* calls that will be, and with those that may still pass the check: as many as can
\* run at a time, less those that passed it and have not discarded the pair yet.

Discarding(c, p) ==
    {s \in Slots : call[s] # NoCall /\ call[s].pc = "discard" /\ call[s].ctx = c /\ call[s].pair = p}

Width == IF parallel THEN Cardinality(Slots) ELSE 1

Room(c, p) == IF p \in accepted[c] THEN Width - Cardinality(Discarding(c, p)) ELSE 0

Covered(c, p) ==
    executions[c][p] + Cardinality(Pending(c, p)) + Room(c, p) <= Width * proposals[c][p]

Tallied == \A c \in Coordinators, p \in Pairs : Covered(c, p)

LEMMA SlotSets ==
    ASSUME NEW c, NEW p
    PROVE  /\ IsFiniteSet(Pending(c, p)) /\ Cardinality(Pending(c, p)) \in Nat
           /\ IsFiniteSet(Discarding(c, p)) /\ Cardinality(Discarding(c, p)) \in Nat
           /\ Cardinality(Discarding(c, p)) <= Cardinality(Slots)
           /\ Cardinality(Slots) \in Nat /\ Cardinality(Slots) >= 1
<1>1. Pending(c, p) \in SUBSET Slots /\ Discarding(c, p) \in SUBSET Slots
  BY DEF Pending, Discarding
<1>2. IsFiniteSet(Slots) /\ Slots # {}
  BY CoordinatorAssumption
<1>3. Cardinality(Slots) \in Nat /\ Cardinality(Slots) # 0
  BY <1>2, FS_CardinalityType, FS_EmptySet
<1>4. IsFiniteSet(Pending(c, p)) /\ IsFiniteSet(Discarding(c, p))
         /\ Cardinality(Discarding(c, p)) <= Cardinality(Slots)
  BY <1>1, <1>2, FS_Subset
<1> QED
  BY <1>3, <1>4, FS_CardinalityType

\* No more calls are about to discard a pair than can run at a time.
LEMMA RoomIsLeft ==
    ASSUME OneByOne, NEW c, NEW p
    PROVE  /\ Width \in Nat
           /\ Cardinality(Discarding(c, p)) <= Width
           /\ Room(c, p) \in 0..Width
<1>1. Width \in Nat
  BY SlotSets DEF Width
<1>2. Cardinality(Discarding(c, p)) <= Width
  <2>1. CASE parallel
    BY <2>1, SlotSets DEF Width
  <2>2. CASE ~parallel
    <3>1. CASE Discarding(c, p) = {}
      BY <2>2, <3>1, FS_EmptySet DEF Width
    <3>2. ASSUME NEW s \in Discarding(c, p)
          PROVE  Discarding(c, p) = {s}
      BY <2>2, <3>2 DEF OneByOne, Discarding
    <3> QED
      BY <2>2, <3>1, <3>2, FS_Singleton DEF Width
  <2> QED
    BY <2>1, <2>2
<1> QED
  BY <1>1, <1>2, SlotSets DEF Room

\* What a changed call does to the two sets.
LEMMA SetsMove ==
    ASSUME TypeOK, NEW s \in Slots, NEW v \in Calls \cup {NoCall}, Becomes(s, v), NEW c, NEW p
    PROVE  /\ Pending(c, p)' = IF v # NoCall /\ v.pc \in Uncounted /\ v.ctx = c /\ v.pair = p
                               THEN Pending(c, p) \cup {s} ELSE Pending(c, p) \ {s}
           /\ Discarding(c, p)' = IF v # NoCall /\ v.pc = "discard" /\ v.ctx = c /\ v.pair = p
                                  THEN Discarding(c, p) \cup {s} ELSE Discarding(c, p) \ {s}
<1>1. call'[s] = v /\ \A t \in Slots : t # s => call'[t] = call[t]
  BY DEF Becomes, TypeOK
<1>2. Pending(c, p)' = {t \in Slots : call'[t] # NoCall /\ call'[t].pc \in Uncounted
                                         /\ call'[t].ctx = c /\ call'[t].pair = p}
  BY DEF Pending
<1>3. Discarding(c, p)' = {t \in Slots : call'[t] # NoCall /\ call'[t].pc = "discard"
                                            /\ call'[t].ctx = c /\ call'[t].pair = p}
  BY DEF Discarding
<1>4. Pending(c, p)' = IF v # NoCall /\ v.pc \in Uncounted /\ v.ctx = c /\ v.pair = p
                       THEN Pending(c, p) \cup {s} ELSE Pending(c, p) \ {s}
  BY <1>1, <1>2 DEF Pending
<1>5. Discarding(c, p)' = IF v # NoCall /\ v.pc = "discard" /\ v.ctx = c /\ v.pair = p
                          THEN Discarding(c, p) \cup {s} ELSE Discarding(c, p) \ {s}
  BY <1>1, <1>3 DEF Discarding
<1> QED
  BY <1>4, <1>5

\* The other entries of a table of counts, and of accepted pairs.
LEMMA OtherEntry ==
    ASSUME NEW f \in [Coordinators -> [Pairs -> Nat]], NEW c \in Coordinators, NEW p \in Pairs,
           NEW d \in Coordinators, NEW q \in Pairs, ~(d = c /\ q = p)
    PROVE  [f EXCEPT ![d][q] = @ + 1][c][p] = f[c][p]
<1>1. CASE d = c
  <2>1. [f EXCEPT ![d][q] = @ + 1][c] = [f[c] EXCEPT ![q] = @ + 1]
    BY <1>1
  <2> QED
    BY <1>1, <2>1
<1>2. CASE d # c
  BY <1>2
<1> QED
  BY <1>1, <1>2

LEMMA OtherPair ==
    ASSUME NEW f \in [Coordinators -> SUBSET Pairs], NEW c \in Coordinators, NEW p \in Pairs,
           NEW d \in Coordinators, NEW q \in Pairs, ~(d = c /\ q = p)
    PROVE  /\ p \in [f EXCEPT ![d] = @ \cup {q}][c] <=> p \in f[c]
           /\ p \in [f EXCEPT ![d] = @ \ {q}][c] <=> p \in f[c]
<1>1. CASE d = c
  BY <1>1
<1>2. CASE d # c
  BY <1>2
<1> QED
  BY <1>1, <1>2

\* The pairs that a call is not about are not touched by it.
LEMMA OthersStayCovered ==
    ASSUME TypeOK, NEW s \in Slots, CallStep(s), NEW c \in Coordinators, NEW p \in Pairs,
           ~(call[s].ctx = c /\ call[s].pair = p), Covered(c, p)
    PROVE  Covered(c, p)'
<1>1. PICK v \in Calls \cup {NoCall} :
          Becomes(s, v) /\ (v # NoCall => v.ctx = call[s].ctx /\ v.pair = call[s].pair)
  BY CallMoves
<1>2. s \notin Pending(c, p) /\ s \notin Discarding(c, p)
  BY DEF Pending, Discarding
<1>3. Pending(c, p)' = Pending(c, p) /\ Discarding(c, p)' = Discarding(c, p)
  BY <1>1, <1>2, SetsMove
<1>4. call[s].ctx \in Coordinators /\ call[s].pair \in Pairs
  BY CallMoves, CallTyped
<1>5. parallel' = parallel
  BY DEF CallStep, Propose, Check, Discard, AskAttempts, ReadAttempts, WriteAttempts, Refuse,
         Reach, Finish
<1>6. executions'[c][p] = executions[c][p]
  <2>1. executions' \in {executions, [executions EXCEPT ![call[s].ctx][call[s].pair] = @ + 1]}
    BY DEF CallStep, Propose, Check, Discard, AskAttempts, ReadAttempts, WriteAttempts, Refuse,
           Reach, Finish, Answered, books
  <2>2. executions \in [Coordinators -> [Pairs -> Nat]]
    BY DEF TypeOK
  <2>3. [executions EXCEPT ![call[s].ctx][call[s].pair] = @ + 1][c][p] = executions[c][p]
    BY <1>4, <2>2, OtherEntry
  <2> QED
    BY <2>1, <2>3, Zenon
<1>7. proposals'[c][p] = proposals[c][p]
  <2>1. proposals' \in {proposals, [proposals EXCEPT ![call[s].ctx][call[s].pair] = @ + 1]}
    BY DEF CallStep, Propose, Check, Discard, AskAttempts, ReadAttempts, WriteAttempts, Refuse,
           Reach, Finish, books
  <2>2. proposals \in [Coordinators -> [Pairs -> Nat]]
    BY DEF TypeOK
  <2>3. [proposals EXCEPT ![call[s].ctx][call[s].pair] = @ + 1][c][p] = proposals[c][p]
    BY <1>4, <2>2, OtherEntry
  <2> QED
    BY <2>1, <2>3, Zenon
<1>8. p \in accepted'[c] <=> p \in accepted[c]
  <2>1. accepted' \in {accepted, [accepted EXCEPT ![call[s].ctx] = @ \cup {call[s].pair}],
                       [accepted EXCEPT ![call[s].ctx] = @ \ {call[s].pair}]}
    BY DEF CallStep, Propose, Check, Discard, AskAttempts, ReadAttempts, WriteAttempts, Refuse,
           Reach, Finish, books
  <2> QED
    <3>1. accepted \in [Coordinators -> SUBSET Pairs]
      BY DEF TypeOK
    <3>2. /\ p \in [accepted EXCEPT ![call[s].ctx] = @ \cup {call[s].pair}][c] <=> p \in accepted[c]
          /\ p \in [accepted EXCEPT ![call[s].ctx] = @ \ {call[s].pair}][c] <=> p \in accepted[c]
      BY <1>4, <3>1, OtherPair
    <3> QED
      BY <2>1, <3>2, Zenon
<1> QED
  BY <1>3, <1>5, <1>6, <1>7, <1>8 DEF Covered, Room, Width

\* A call that keeps its place among the pending ones, and its books.
LEMMA QuietStays ==
    ASSUME TypeOK, NEW s \in Slots, NEW v \in Calls \cup {NoCall}, Becomes(s, v),
           NEW c, NEW p, Covered(c, p),
           s \in Pending(c, p) <=> v # NoCall /\ v.pc \in Uncounted /\ v.ctx = c /\ v.pair = p,
           s \in Discarding(c, p) <=> v # NoCall /\ v.pc = "discard" /\ v.ctx = c /\ v.pair = p,
           UNCHANGED <<parallel, executions, proposals, accepted>>
    PROVE  Covered(c, p)'
<1>1. Pending(c, p)' = Pending(c, p) /\ Discarding(c, p)' = Discarding(c, p)
  BY SetsMove
<1> QED
  BY <1>1 DEF Covered, Room, Width

\* An execution that is recorded was pending before.
LEMMA AnsweredStays ==
    ASSUME TypeOK, NEW s \in Slots, NEW c \in Coordinators, NEW p \in Pairs, Covered(c, p),
           s \in Pending(c, p), s \notin Discarding(c, p),
           NEW verdict \in Verdicts, Answered(s, verdict),
           UNCHANGED <<parallel, proposals, accepted>>
    PROVE  Covered(c, p)'
<1>1. call[s] # NoCall /\ call[s].ctx = c /\ call[s].pair = p
  BY DEF Pending
<1>2. PICK v \in Calls : Becomes(s, v) /\ v.pc = "answered"
  BY <1>1, Successors
<1>3. Pending(c, p)' = Pending(c, p) \ {s} /\ Discarding(c, p)' = Discarding(c, p)
  BY <1>2, SetsMove DEF Uncounted
<1>4. Cardinality(Pending(c, p) \ {s}) = Cardinality(Pending(c, p)) - 1
  BY SlotSets, FS_RemoveElement
<1>5. executions'[c][p] = executions[c][p] + 1
  BY <1>1 DEF Answered, TypeOK
<1>6. Room(c, p)' = Room(c, p) /\ Width' = Width
  BY <1>3 DEF Room, Width
<1>7. executions[c][p] \in Nat /\ Cardinality(Pending(c, p)) \in Nat
  BY SlotSets DEF TypeOK
<1>8. executions'[c][p] + Cardinality(Pending(c, p)') = executions[c][p] + Cardinality(Pending(c, p))
  BY <1>3, <1>4, <1>5, <1>7
<1> QED
  BY <1>6, <1>8 DEF Covered

\* A pending call that ends without an execution only makes room.
LEMMA EndedStays ==
    ASSUME TypeOK, NEW s \in Slots, Becomes(s, NoCall), NEW c \in Coordinators, NEW p \in Pairs,
           Covered(c, p), s \in Pending(c, p), s \notin Discarding(c, p),
           UNCHANGED <<parallel, executions, proposals, accepted>>
    PROVE  Covered(c, p)'
<1>1. Pending(c, p)' = Pending(c, p) \ {s} /\ Discarding(c, p)' = Discarding(c, p)
  BY SetsMove
<1>2. Cardinality(Pending(c, p) \ {s}) = Cardinality(Pending(c, p)) - 1
  BY SlotSets, FS_RemoveElement
<1>3. Room(c, p)' = Room(c, p) /\ Width' = Width
  BY <1>1 DEF Room, Width
<1>4. /\ executions[c][p] \in Nat /\ Cardinality(Pending(c, p)) \in Nat
      /\ Cardinality(Discarding(c, p)) \in Nat /\ Cardinality(Slots) \in Nat
      /\ proposals[c][p] \in Nat
  BY SlotSets DEF TypeOK
<1>5. Width \in Nat /\ Room(c, p) \in Int
  BY <1>4 DEF Width, Room
<1>6. Width * proposals[c][p] \in Nat
  BY <1>4, <1>5
<1>7. executions[c][p] + Cardinality(Pending(c, p)') + Room(c, p)' <= Width * proposals[c][p]
  BY <1>1, <1>2, <1>3, <1>4, <1>5, <1>6 DEF Covered
<1> QED
  BY <1>3, <1>7 DEF Covered

LEMMA StepTallied == TypeOK /\ OneByOne /\ Tallied /\ [Next]_vars => Tallied'
<1> SUFFICES ASSUME TypeOK, OneByOne, Tallied, [Next]_vars,
                    NEW c \in Coordinators, NEW p \in Pairs
             PROVE  Covered(c, p)'
  BY DEF Tallied
<1>0. Covered(c, p)
  BY DEF Tallied
<1>1. CASE UNCHANGED <<parallel, call, executions, proposals, accepted>>
  BY <1>0, <1>1 DEF Covered, Room, Width, Pending, Discarding
<1>2. ASSUME NEW s \in Slots, NEW a \in Agents, NEW q \in Pairs,
             CallPropose(s, a, q) \/ CallRecover(s, a, q)
      PROVE  Covered(c, p)'
  <2>1. PICK op \in {"propose", "check"} : StartCall(s, a, q, op)
    BY <1>2 DEF CallPropose, CallRecover
  <2>2. PICK v \in Calls : Becomes(s, v) /\ v.pc = op
    BY <2>1, Started
  <2>3. s \notin Pending(c, p) /\ s \notin Discarding(c, p) /\ op \notin Uncounted
    BY <2>1 DEF StartCall, Pending, Discarding, Uncounted
  <2>4. UNCHANGED <<parallel, executions, proposals, accepted>>
    BY <2>1 DEF StartCall, books
  <2> QED
    BY <1>0, <2>2, <2>3, <2>4, QuietStays
<1>3. ASSUME NEW s \in Slots, CallStep(s)
      PROVE  Covered(c, p)'
  <2>1. call[s] # NoCall
    BY <1>3, CallMoves
  <2> SUFFICES ASSUME call[s].ctx = c, call[s].pair = p
               PROVE  Covered(c, p)'
    BY <1>0, <1>3, OthersStayCovered
  <2>2. /\ s \in Pending(c, p) <=> call[s].pc \in Uncounted
        /\ s \in Discarding(c, p) <=> call[s].pc = "discard"
    BY <2>1 DEF Pending, Discarding
  <2>3. {"discard", "bound", "read", "write", "call"} \subseteq Pcs /\ "refused" \in Verdicts
    BY DEF Pcs, Uncounted, Verdicts
  <2>4. parallel' = parallel /\ Width' = Width
    BY <1>3 DEF CallStep, Propose, Check, Discard, AskAttempts, ReadAttempts, WriteAttempts,
           Refuse, Reach, Finish, Width
  <2>5. /\ executions[c][p] \in Nat /\ proposals[c][p] \in Nat
        /\ Width \in Nat /\ Room(c, p) \in 0..Width
    BY RoomIsLeft DEF TypeOK
  <2>6. CASE Propose(s)
    <3>1. Pending(c, p)' = Pending(c, p) /\ Discarding(c, p)' = Discarding(c, p)
      <4>1. Becomes(s, NoCall)
        BY <2>1, <2>6, Successors DEF Propose
      <4>2. s \notin Pending(c, p) /\ s \notin Discarding(c, p)
        BY <2>2, <2>6 DEF Propose, At, Uncounted
      <4> QED
        BY <4>1, <4>2, SetsMove
    <3>2. executions' = executions
      BY <2>6 DEF Propose
    <3>3. CASE UNCHANGED <<proposals, accepted>>
      BY <1>0, <2>4, <3>1, <3>2, <3>3 DEF Covered, Room
    <3>4. CASE proposals' = [proposals EXCEPT ![c][p] = @ + 1]
      <4>1. proposals'[c][p] = proposals[c][p] + 1
        BY <3>4 DEF TypeOK
      <4>2. Width * (proposals[c][p] + 1) = Width * proposals[c][p] + Width
        BY <2>5
      <4>3. Width * proposals[c][p] \in Nat /\ Cardinality(Pending(c, p)) \in Nat
        BY <2>5, SlotSets
      <4>4. executions[c][p] + Cardinality(Pending(c, p)) <= Width * proposals[c][p]
        BY <1>0, <2>5, <4>3 DEF Covered
      <4>5. Room(c, p)' \in Int /\ Room(c, p)' <= Width
        BY <2>4, <2>5, <3>1, SlotSets DEF Room
      <4>6. executions[c][p] + Cardinality(Pending(c, p)) + Room(c, p)'
               <= Width * proposals[c][p] + Width
        BY <2>5, <4>3, <4>4, <4>5
      <4> QED
        BY <2>4, <3>1, <3>2, <4>1, <4>2, <4>6 DEF Covered
    <3> QED
      BY <2>6, <3>3, <3>4 DEF Propose
  <2>7. CASE Check(s)
    <3>1. s \notin Pending(c, p) /\ s \notin Discarding(c, p)
      BY <2>2, <2>7 DEF Check, At, Uncounted
    <3>2. UNCHANGED <<parallel, executions, proposals, accepted>>
      BY <2>7 DEF Check, books
    <3>3. CASE p \in accepted[c]
      <4>1. PICK v \in Calls :
        v # NoCall /\ Becomes(s, v) /\ v.pc = "discard" /\ v.ctx = c /\ v.pair = p
        BY <2>1, <2>3, <2>7, <3>3, Successors, CoordinatorAssumption DEF Check
      <4>2. /\ Pending(c, p)' = Pending(c, p) \cup {s}
            /\ Discarding(c, p)' = Discarding(c, p) \cup {s}
        BY <4>1, SetsMove DEF Uncounted
      <4>3. /\ Cardinality(Pending(c, p)') = Cardinality(Pending(c, p)) + 1
            /\ Cardinality(Discarding(c, p)') = Cardinality(Discarding(c, p)) + 1
        <5>1. /\ Cardinality(Pending(c, p) \cup {s}) = Cardinality(Pending(c, p)) + 1
              /\ Cardinality(Discarding(c, p) \cup {s}) = Cardinality(Discarding(c, p)) + 1
          BY <3>1, SlotSets, FS_AddElement
        <5> QED
          BY <4>2, <5>1
      <4>4. /\ Room(c, p) = Width - Cardinality(Discarding(c, p))
            /\ Room(c, p)' = Width - Cardinality(Discarding(c, p)')
        BY <2>4, <3>2, <3>3 DEF Room
      <4>5. Cardinality(Pending(c, p)) \in Nat /\ Cardinality(Discarding(c, p)) \in Nat
        BY SlotSets
      <4>6. executions[c][p] + Cardinality(Pending(c, p)') + Room(c, p)'
               = executions[c][p] + Cardinality(Pending(c, p)) + Room(c, p)
        BY <2>5, <4>3, <4>4, <4>5
      <4> QED
        BY <1>0, <2>4, <3>2, <4>6 DEF Covered
    <3>4. CASE p \notin accepted[c]
      <4>1. Becomes(s, NoCall)
        BY <2>1, <2>7, <3>4, Successors DEF Check
      <4> QED
        BY <1>0, <3>1, <3>2, <4>1, QuietStays
    <3> QED
      BY <3>3, <3>4
  <2>8. CASE Discard(s)
    <3>1. PICK v \in Calls :
      v # NoCall /\ Becomes(s, v) /\ v.pc = "bound" /\ v.ctx = c /\ v.pair = p
      BY <2>1, <2>3, <2>8, Successors, CoordinatorAssumption DEF Discard
    <3>2. Pending(c, p)' = Pending(c, p)
      BY <2>2, <2>8, <3>1, SetsMove DEF Discard, At, Uncounted
    <3>3. Room(c, p)' = 0
      BY <2>8 DEF Discard, Room, TypeOK
    <3>4. UNCHANGED <<executions, proposals>>
      BY <2>8 DEF Discard
    <3>5. executions[c][p] + Cardinality(Pending(c, p)) + 0 <= Width * proposals[c][p]
      <4>1. Cardinality(Pending(c, p)) \in Nat /\ Width * proposals[c][p] \in Nat
        BY <2>5, SlotSets
      <4> QED
        BY <1>0, <2>5, <4>1 DEF Covered
    <3> QED
      BY <2>4, <3>2, <3>3, <3>4, <3>5 DEF Covered
  <2>9. CASE AskAttempts(s)
    <3>1. s \in Pending(c, p) /\ s \notin Discarding(c, p)
      BY <2>2, <2>9 DEF AskAttempts, At, Uncounted
    <3>2. CASE Answered(s, "refused")
      BY <1>0, <2>3, <2>4, <2>9, <3>1, <3>2, AnsweredStays DEF AskAttempts
    <3>3. CASE GoesTo(s, "read") /\ UNCHANGED executions
      <4>1. PICK v \in Calls :
        v # NoCall /\ Becomes(s, v) /\ v.pc = "read" /\ v.ctx = c /\ v.pair = p
        BY <2>1, <2>3, <3>3, Successors, CoordinatorAssumption
      <4> QED
        BY <1>0, <2>9, <3>1, <3>3, <4>1, QuietStays DEF AskAttempts, Uncounted
    <3>4. CASE Returns(s) /\ UNCHANGED executions
      <4>1. Becomes(s, NoCall)
        BY <2>1, <3>4, Successors
      <4>2. UNCHANGED <<parallel, executions, proposals, accepted>>
        BY <2>9, <3>4 DEF AskAttempts
      <4> QED
        BY <1>0, <3>1, <4>1, <4>2, EndedStays
    <3> QED
      BY <2>9, <3>2, <3>3, <3>4 DEF AskAttempts
  <2>10. CASE ReadAttempts(s)
    <3>1. s \in Pending(c, p) /\ s \notin Discarding(c, p)
      BY <2>2, <2>10 DEF ReadAttempts, At, Uncounted
    <3> DEFINE v == [call[s] EXCEPT !.pc = "write", !.seen = attempts[c][p[1]]]
    <3>2. attempts[c][p[1]] \in Nat
      BY <2>1, <2>10, CallTyped DEF TypeOK, ReadAttempts, At, PastBound
    <3>3. v \in Calls /\ v.pc = "write" /\ v.ctx = c /\ v.pair = p
      BY <2>1, <3>2, CallTyped DEF Calls, Uncounted
    <3>6. v # NoCall
      BY <3>3, CoordinatorAssumption
    <3>4. Becomes(s, v)
      BY <2>10 DEF ReadAttempts, Becomes, TypeOK
    <3>5. UNCHANGED <<parallel, executions, proposals, accepted>>
      BY <2>10 DEF ReadAttempts, books
    <3> HIDE DEF v
    <3> QED
      BY <1>0, <3>1, <3>3, <3>6, <3>4, <3>5, QuietStays DEF Uncounted
  <2>11. CASE WriteAttempts(s)
    <3>1. s \in Pending(c, p) /\ s \notin Discarding(c, p)
      BY <2>2, <2>11 DEF WriteAttempts, At, Uncounted
    <3>2. PICK v \in Calls :
      v # NoCall /\ Becomes(s, v) /\ v.pc = "call" /\ v.ctx = c /\ v.pair = p
      BY <2>1, <2>3, <2>11, Successors, CoordinatorAssumption, SMTT(30) DEF WriteAttempts
    <3> QED
      BY <1>0, <2>11, <3>1, <3>2, QuietStays DEF WriteAttempts, Uncounted
  <2>12. CASE Refuse(s) \/ Reach(s)
    <3>1. s \in Pending(c, p) /\ s \notin Discarding(c, p)
      BY <2>2, <2>12 DEF Refuse, Reach, At, Uncounted
    <3>2. PICK verdict \in Verdicts : Answered(s, verdict)
      BY <2>3, <2>12, VerdictInVerdicts DEF Refuse, Reach
    <3> QED
      BY <1>0, <2>12, <3>1, <3>2, AnsweredStays DEF Refuse, Reach
  <2>13. CASE Finish(s)
    <3>1. s \notin Pending(c, p) /\ s \notin Discarding(c, p)
      BY <2>2, <2>13 DEF Finish, At, Uncounted
    <3>2. Becomes(s, NoCall)
      BY <2>1, <2>13, Successors DEF Finish
    <3> QED
      BY <1>0, <2>13, <3>1, <3>2, QuietStays DEF Finish
  <2> QED
    BY <1>3, <2>6, <2>7, <2>8, <2>9, <2>10, <2>11, <2>12, <2>13 DEF CallStep
<1> QED
  BY <1>1, <1>2, <1>3 DEF Next, vars, Bind, Expire, books

-----------------------------------------------------------------------------
\* How far replays go where calls run in parallel: a proposal may be executed by every
\* call that saw it before the first of them discarded it, once per thread at most.
ReplaysPerThread ==
    \A c \in Coordinators, p \in Pairs :
        executions[c][p] <= Cardinality(Slots) * proposals[c][p]

IInv == TypeOK /\ Asking /\ OneByOne /\ Budgeted /\ Tallied /\ BothScopesHold

LEMMA InitInv == Init => IInv
<1> SUFFICES ASSUME Init PROVE Asking /\ OneByOne /\ Budgeted /\ Tallied /\ BothScopesHold
  BY InitType DEF IInv
<1>1. Asking /\ OneByOne /\ BothScopesHold
  BY DEF Init, Asking, OneByOne, BothScopesHold
<1>2. Budgeted
  BY CoordinatorAssumption DEF Init, Budgeted
<1>3. ASSUME NEW c \in Coordinators, NEW p \in Pairs
      PROVE  Covered(c, p)
  <2>1. Pending(c, p) = {} /\ Room(c, p) = 0
    BY DEF Init, Pending, Room
  <2>2. executions[c][p] = 0 /\ proposals[c][p] = 0
    BY DEF Init
  <2>3. Width * 0 = 0
    BY SlotSets DEF Width
  <2> QED
    BY <2>1, <2>2, <2>3, FS_EmptySet DEF Covered
<1> QED
  BY <1>1, <1>2, <1>3 DEF Tallied

LEMMA InvBounds == IInv => RecoveriesAreBounded /\ ReplaysPerThread
<1> SUFFICES ASSUME IInv PROVE RecoveriesAreBounded /\ ReplaysPerThread
  OBVIOUS
<1>1. ASSUME NEW c \in Coordinators, NEW p \in Pairs
      PROVE  /\ executions[c][p] \in Nat /\ proposals[c][p] \in Nat
             /\ Cardinality(Pending(c, p)) \in Nat
             /\ executions[c][p] + Cardinality(Pending(c, p)) <= Width * proposals[c][p]
  <2>1. executions[c][p] \in Nat /\ proposals[c][p] \in Nat /\ Cardinality(Pending(c, p)) \in Nat
    BY SlotSets DEF IInv, TypeOK
  <2>2. Width \in Nat /\ Room(c, p) \in 0..Width
    BY RoomIsLeft DEF IInv
  <2>3. Width * proposals[c][p] \in Nat
    BY <2>1, <2>2
  <2>4. Covered(c, p)
    BY DEF IInv, Tallied
  <2> QED
    BY <2>1, <2>2, <2>3, <2>4 DEF Covered
<1>2. RecoveriesAreBounded
  <2> SUFFICES ASSUME ~parallel PROVE RecoveriesAreBounded
    BY DEF RecoveriesAreBounded
  <2>1. ASSUME NEW c \in Coordinators, NEW p \in Pairs
        PROVE  executions[c][p] + Cardinality(Pending(c, p)) <= proposals[c][p]
    BY <1>1 DEF Width
  <2>2. \A c \in Coordinators, i \in Items : attempts[c][i] <= MaxAttempts
    BY DEF IInv, Budgeted
  <2> QED
    BY <2>1, <2>2 DEF RecoveriesAreBounded
<1>3. ASSUME NEW c \in Coordinators, NEW p \in Pairs
      PROVE  executions[c][p] <= Cardinality(Slots) * proposals[c][p]
  <2>1. Cardinality(Slots) \in Nat /\ Cardinality(Slots) >= 1
    BY SlotSets
  <2>2. CASE parallel
    <3>1. Width = Cardinality(Slots)
      BY <2>2 DEF Width
    <3>2. Cardinality(Slots) * proposals[c][p] \in Nat
      BY <1>1, <2>1
    <3> QED
      BY <1>1, <3>1, <3>2
  <2>3. CASE ~parallel
    <3>1. executions[c][p] <= proposals[c][p]
      BY <1>1, <2>3 DEF Width
    <3>2. proposals[c][p] <= Cardinality(Slots) * proposals[c][p]
      BY <1>1, <2>1
    <3>3. Cardinality(Slots) * proposals[c][p] \in Nat
      BY <1>1, <2>1
    <3> QED
      BY <1>1, <3>1, <3>2, <3>3
  <2> QED
    BY <2>2, <2>3
<1> QED
  BY <1>2, <1>3 DEF ReplaysPerThread

\* The inductive invariant (who is under way, scopes, attempts and the tally of
\* executions) holds of every reachable state, for every set of threads, agents,
\* coordinators, items, actions, scopes and answers.
THEOREM Inductive == Spec => []IInv
<1>1. IInv /\ [Next]_vars => IInv'
  <2> SUFFICES ASSUME IInv, [Next]_vars PROVE IInv'
    OBVIOUS
  <2>1. TypeOK' /\ Asking' /\ OneByOne' /\ Budgeted' /\ BothScopesHold'
    BY StepType, StepAsking, StepOneByOne, StepBudgeted, StepScopes DEF IInv
  <2>2. Tallied'
    BY <2>1, StepTallied DEF IInv
  <2> QED
    BY <2>1, <2>2 DEF IInv
<1> QED
  BY <1>1, InitInv, PTL DEF Spec

\* Every variable of the coordinators has its type.
THEOREM TypeCorrect == Spec => []TypeOK
<1>1. IInv => TypeOK
  BY DEF IInv
<1> QED
  BY <1>1, Inductive, PTL

\* One call after the other, an execution takes a proposal of its own, and proposing
\* again buys no attempts.
THEOREM RecoveriesStayBounded == Spec => []RecoveriesAreBounded
<1>1. IInv => RecoveriesAreBounded
  BY InvBounds
<1> QED
  BY <1>1, Inductive, PTL

\* coordinator.py:7 calls a proposal single-use; in parallel it is not, and this is how
\* often it is used at most: once per thread.
THEOREM ReplaysStayBounded == Spec => []ReplaysPerThread
<1>1. IInv => ReplaysPerThread
  BY InvBounds
<1> QED
  BY <1>1, Inductive, PTL

\* A source is reached within the agent's scope and within the coordinator's.
THEOREM ScopesHold == Spec => []BothScopesHold
<1>1. IInv => BothScopesHold
  BY DEF IInv
<1> QED
  BY <1>1, Inductive, PTL
=============================================================================
