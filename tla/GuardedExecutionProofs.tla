----------------------- MODULE GuardedExecutionProofs -----------------------
(***************************************************************************)
(* What execute_recovery() promises for every set of tools, stores,        *)
(* capabilities and faults: a mutation is repeated only for a reason that  *)
(* can be named.                                                           *)
(*                                                                         *)
(* RepeatsAreExplained is not inductive: that a key has an excuse to spare *)
(* while its effect is not on record (Unrecorded), and while its call is   *)
(* about to be dispatched (Cleared), is what makes the next effect safe.   *)
(***************************************************************************)
EXTENDS GuardedExecution, TLAPS

\* What may have let a mutation be repeated.
Excuses(k) == lost[k] + crashes + faults

\* The effect of key k has happened and is about to be recorded.
Recording(k) == pc = "record" /\ Mutating(call.action) /\ KeyOf = k

\* A mutation without a row, that no call is about to give one, has an excuse for
\* every effect it had.
Unrecorded ==
    \A k \in Keys : k \notin rows /\ ~Recording(k) => effects[k] <= Excuses(k)

\* So has the one that is about to be dispatched.
Cleared ==
    pc = "dispatch" /\ Mutating(call.action) => effects[KeyOf] <= Excuses(KeyOf)

\* A key reaches the store after its effect.
Done ==
    /\ pc = "record" /\ Mutating(call.action) => effects[KeyOf] > 0
    /\ pc = "check" => Mutating(call.action)
    /\ \A k \in rows : effects[k] > 0
    /\ \A s \in Stores : \A k \in memory[s] : effects[k] > 0

\* The capability of the call in progress has a call left.
Budgeted ==
    /\ \A c \in Caps : caps[c] # NoCap =>
          /\ caps[c].won = caps[c].used
          /\ caps[c].used <= caps[c].budget
    /\ call # NoCall => caps[call.cap].used < caps[call.cap].budget

IInv ==
    /\ TypeOK
    /\ RepeatsAreExplained
    /\ Unrecorded
    /\ Cleared
    /\ Done
    /\ Budgeted

-----------------------------------------------------------------------------
\* The key of a call in progress is a key.
LEMMA KeyOfCall == ASSUME TypeOK, call # NoCall
                   PROVE  KeyOf \in Keys /\ call \in Call /\ caps[call.cap] \in Capability
BY GuardAssumption DEF TypeOK, Call, Keys, KeyOf

\* The counts of a capability are numbers, and it is not the missing one.
LEMMA CapabilityNumbers == ASSUME NEW cap \in Capability
                           PROVE  /\ cap.used \in Nat /\ cap.won \in Nat /\ cap.budget \in Nat
                                  /\ cap # NoCap
<1>1. cap.budget \in Budgets
  BY DEF Capability
<1> QED
  BY <1>1, GuardAssumption DEF Capability

\* consume() counts one call, and ends the capability at its budget.
LEMMA ConsumeCounts == ASSUME NEW cap \in Capability
                       PROVE  /\ Consume(cap) \in Capability
                              /\ Consume(cap).used = cap.used + 1
                              /\ Consume(cap).won = cap.won + 1
                              /\ Consume(cap).budget = cap.budget
<1> DEFINE status == IF cap.used + 1 >= cap.budget THEN "CONSUMED" ELSE cap.status
<1>1. cap.used + 1 \in Nat /\ cap.won + 1 \in Nat
  BY DEF Capability
<1>2. status \in {"ACTIVE", "CONSUMED", "EXPIRED"}
  BY DEF Capability
<1>3. Consume(cap) = [cap EXCEPT !.used = cap.used + 1, !.won = cap.won + 1, !.status = status]
  BY DEF Consume
<1> HIDE DEF status
<1> QED
  BY <1>1, <1>2, <1>3 DEF Capability

\* Nothing has happened yet.
LEMMA InitInv == Init => IInv
<1> SUFFICES ASSUME Init PROVE IInv
  OBVIOUS
<1>1. TypeOK
  BY DEF Init, TypeOK, Answers
<1>2. RepeatsAreExplained /\ Unrecorded
  BY DEF Init, RepeatsAreExplained, Unrecorded, Excuses
<1>3. Cleared /\ Done /\ Budgeted
  BY DEF Init, Cleared, Done, Budgeted
<1> QED
  BY <1>1, <1>2, <1>3 DEF IInv

LEMMA StepType == ASSUME TypeOK, [Next]_vars PROVE TypeOK'
<1> USE GuardAssumption
<1>1. ASSUME NEW c \in Caps, NEW action \in Asked, NEW resource \in Resources,
             Refuse(c, action, resource)
      PROVE  TypeOK'
  BY <1>1 DEF Refuse, TypeOK, Answered, Validated, Capability, Answers, Call, store, history
<1>2. ASSUME NEW s \in Stores, NEW c \in Caps, NEW action \in Asked,
             NEW resource \in Resources, Admit(s, c, action, resource)
      PROVE  TypeOK'
  BY <1>2 DEF Admit, TypeOK, Call, Answers, store, history
<1>3. ASSUME CheckDuplicate PROVE TypeOK'
  <2>1. call \in Call /\ KeyOf \in Keys
    BY <1>3, KeyOfCall DEF CheckDuplicate, TypeOK
  <2>2. memory' \in [Stores -> SUBSET Keys]
    BY <1>3, <2>1 DEF CheckDuplicate, TypeOK, Call
  <2> QED
    BY <1>3, <2>2 DEF CheckDuplicate, TypeOK, Answered, Answers, history, bounds
<1>4. ASSUME CheckNew \/ CheckUnreadable PROVE TypeOK'
  BY <1>4 DEF CheckNew, CheckUnreadable, TypeOK, store, history, bounds
<1>5. ASSUME Perform PROVE TypeOK'
  BY <1>5, KeyOfCall DEF Perform, Effect, TypeOK, store, bounds
<1>6. ASSUME PerformUnanswered PROVE TypeOK'
  BY <1>6, KeyOfCall DEF PerformUnanswered, Effect, Failures, Answered, TypeOK, Answers, store, bounds
<1>7. ASSUME Fail \/ UnknownAction PROVE TypeOK'
  BY <1>7 DEF Fail, UnknownAction, Failures, Answered, TypeOK, Answers, store, history, bounds
<1>8. ASSUME Record PROVE TypeOK'
  <2>1. call # NoCall
    BY <1>8 DEF Record, TypeOK
  <2>2. call \in Call /\ KeyOf \in Keys /\ caps[call.cap] \in Capability
    BY <2>1, KeyOfCall
  <2>3. Consume(caps[call.cap]) \in Capability
    BY <2>2, ConsumeCounts
  <2>4. caps' \in [Caps -> Capability \cup {NoCap}]
    BY <1>8, <2>2, <2>3 DEF Record, TypeOK, Call
  <2>5. memory' \in [Stores -> SUBSET Keys] /\ rows' \in SUBSET Keys /\ faults' \in Nat
    BY <1>8, <2>2 DEF Record, MarkRows, TypeOK, Call, store
  <2> QED
    BY <1>8, <2>4, <2>5 DEF Record, Answered, TypeOK, Answers, history
<1>9. ASSUME NEW c \in Caps, NEW action \in Asked, NEW resource \in Resources,
             NEW budget \in Budgets, Issue(c, action, resource, budget)
      PROVE  TypeOK'
  BY <1>9 DEF Issue, TypeOK, Capability, store, history, bounds
<1>10. ASSUME NEW c \in Caps, ExpireCapability(c) PROVE TypeOK'
  <2>1. caps[c] \in Capability
    BY <1>10 DEF ExpireCapability, TypeOK
  <2>2. [caps[c] EXCEPT !.late = TRUE] \in Capability
    BY <2>1 DEF Capability
  <2>3. caps' = [caps EXCEPT ![c] = [caps[c] EXCEPT !.late = TRUE]]
    BY <1>10 DEF ExpireCapability
  <2>4. caps' \in [Caps -> Capability \cup {NoCap}]
    BY <2>2, <2>3 DEF TypeOK
  <2>5. [caps[c] EXCEPT !.late = TRUE] # NoCap
    BY <2>2 DEF Capability
  <2> QED
    BY <1>10, <2>3, <2>4, <2>5 DEF ExpireCapability, TypeOK, store, history, bounds
<1>11. ASSUME ExpireEnvelope PROVE TypeOK'
  BY <1>11 DEF ExpireEnvelope, TypeOK, store, history, bounds
<1>12. ASSUME Crash PROVE TypeOK'
  BY <1>12 DEF Crash, TypeOK, Answers, history
<1>13. ASSUME UNCHANGED vars PROVE TypeOK'
  BY <1>13 DEF vars, store, history, bounds, TypeOK
<1> QED
  BY <1>1, <1>2, <1>3, <1>4, <1>5, <1>6, <1>7, <1>8, <1>9, <1>10, <1>11, <1>12, <1>13
     DEF Next, ExecuteRecovery, Environment

-----------------------------------------------------------------------------
\* The part of IInv about effects and keys, and the part about capabilities.
Keyed == RepeatsAreExplained /\ Unrecorded /\ Cleared /\ Done

\* Actions that touch neither the effects, the excuses, the store nor the call.
LEMMA KeyedFrame ==
    ASSUME Keyed, UNCHANGED <<store, call, pc, history, crashes, faults>>
    PROVE  Keyed'
BY DEF Keyed, RepeatsAreExplained, Unrecorded, Cleared, Done, Excuses, Recording, KeyOf,
       Mutating, store, history

LEMMA StepKeyed == ASSUME TypeOK, Keyed, Next PROVE Keyed'
<1> USE DEF TypeOK
<1>1. ASSUME NEW c \in Caps,
             \/ \E action \in Asked, resource \in Resources : Refuse(c, action, resource)
             \/ \E action \in Asked, resource \in Resources, budget \in Budgets :
                   Issue(c, action, resource, budget)
             \/ ExpireCapability(c)
      PROVE  Keyed'
  <2>1. UNCHANGED <<store, call, pc, history, crashes, faults>>
    BY <1>1 DEF Refuse, Answered, Issue, ExpireCapability, store, history, bounds
  <2> QED
    BY <2>1, KeyedFrame
<1>2. ASSUME NEW s \in Stores, NEW c \in Caps, NEW action \in Asked,
             NEW resource \in Resources, Admit(s, c, action, resource)
      PROVE  Keyed'
  <2>1. pc' \in {"check", "dispatch"} /\ (pc' = "check" <=> Mutating(call'.action))
    BY <1>2 DEF Admit, Mutating
  <2>2. UNCHANGED <<memory, rows, effects, lost, crashes, faults>> /\ pc = "idle"
    BY <1>2 DEF Admit, store, history
  <2> QED
    BY <2>1, <2>2 DEF Keyed, RepeatsAreExplained, Unrecorded, Cleared, Done, Excuses, Recording,
       Mutating
<1>3. ASSUME CheckDuplicate PROVE Keyed'
  <2>1. call \in Call /\ KeyOf \in Keys
    BY <1>3, KeyOfCall DEF CheckDuplicate
  <2>2. effects[KeyOf] > 0
    BY <1>3, <2>1 DEF CheckDuplicate, Seen, Keyed, Done, Call
  <2>3. /\ pc' = "idle" /\ UNCHANGED <<rows, effects, lost, crashes, faults>>
        /\ pc = "check"
    BY <1>3 DEF CheckDuplicate, Answered, history, bounds
  <2>4. \A s \in Stores : memory'[s] \subseteq memory[s] \cup {KeyOf}
    BY <1>3 DEF CheckDuplicate
  <2> QED
    BY <2>2, <2>3, <2>4 DEF Keyed, RepeatsAreExplained, Unrecorded, Cleared, Done, Excuses, Recording
<1>4. ASSUME CheckNew \/ CheckUnreadable PROVE Keyed'
  <2>1. call \in Call /\ KeyOf \in Keys
    BY <1>4, KeyOfCall DEF CheckNew, CheckUnreadable
  <2>2. /\ pc = "check" /\ pc' = "dispatch"
        /\ UNCHANGED <<memory, rows, call, effects, lost, crashes>>
    BY <1>4 DEF CheckNew, CheckUnreadable, store, history, bounds
  <2>3. \/ KeyOf \notin rows /\ faults' = faults
        \/ faults' = faults + 1
    BY <1>4 DEF CheckNew, CheckUnreadable, Seen, bounds
  <2>4. effects[KeyOf] <= lost[KeyOf] + crashes + faults'
    <3>1. CASE KeyOf \notin rows /\ faults' = faults
      BY <2>1, <2>2, <3>1 DEF Keyed, Unrecorded, Recording, Excuses
    <3>2. CASE faults' = faults + 1
      BY <2>1, <3>2 DEF Keyed, RepeatsAreExplained
    <3> QED
      BY <2>3, <3>1, <3>2
  <2>5. faults' \in Nat /\ faults' >= faults
    BY <2>3
  <2>6. RepeatsAreExplained'
    BY <2>2, <2>5 DEF Keyed, RepeatsAreExplained
  <2>7. Unrecorded'
    BY <2>2, <2>5 DEF Keyed, Unrecorded, Excuses, Recording
  <2>8. Cleared' /\ Done'
    BY <2>2, <2>4 DEF Keyed, Cleared, Done, Excuses, KeyOf
  <2> QED
    BY <2>6, <2>7, <2>8 DEF Keyed
<1>5. ASSUME Perform PROVE Keyed'
  <2>1. call \in Call /\ KeyOf \in Keys
    BY <1>5, KeyOfCall DEF Perform
  <2>2. /\ pc = "dispatch" /\ pc' = "record"
        /\ UNCHANGED <<memory, rows, call, lost, crashes, faults>>
    BY <1>5 DEF Perform, store, bounds
  <2>3. CASE ~Mutating(call.action)
    <3>1. effects' = effects
      BY <1>5, <2>3 DEF Perform, Effect, Mutating
    <3> QED
      BY <2>2, <2>3, <3>1 DEF Keyed, RepeatsAreExplained, Unrecorded, Cleared, Done, Excuses,
         Recording, Mutating, KeyOf
  <2>4. CASE Mutating(call.action)
    <3>1. effects' = [effects EXCEPT ![KeyOf] = @ + 1]
      BY <1>5, <2>4 DEF Perform, Effect, Mutating
    <3>2. effects[KeyOf] <= Excuses(KeyOf)
      BY <2>2, <2>4 DEF Keyed, Cleared
    <3>3. \A k \in Keys : k # KeyOf => effects'[k] = effects[k]
      BY <3>1
    <3>4. effects'[KeyOf] = effects[KeyOf] + 1
      BY <2>1, <3>1
    <3>5. RepeatsAreExplained'
      BY <2>1, <2>2, <3>2, <3>3, <3>4 DEF Keyed, RepeatsAreExplained, Excuses
    <3>6. Unrecorded'
      BY <2>1, <2>2, <2>4, <3>3 DEF Keyed, Unrecorded, Recording, Excuses, KeyOf, Mutating
    <3>7. Cleared' /\ Done'
      BY <2>1, <2>2, <3>3, <3>4 DEF Keyed, Cleared, Done, KeyOf
    <3> QED
      BY <3>5, <3>6, <3>7 DEF Keyed
  <2> QED
    BY <2>3, <2>4
<1>6. ASSUME PerformUnanswered PROVE Keyed'
  <2>1. call \in Call /\ KeyOf \in Keys
    BY <1>6, KeyOfCall DEF PerformUnanswered
  <2>2. /\ pc = "dispatch" /\ pc' = "idle" /\ Mutating(call.action)
        /\ UNCHANGED <<memory, rows, crashes, faults>>
    BY <1>6 DEF PerformUnanswered, Answered, store, bounds
  <2>3. /\ effects' = [effects EXCEPT ![KeyOf] = @ + 1]
        /\ lost' = [lost EXCEPT ![KeyOf] = @ + 1]
    BY <1>6, <2>2 DEF PerformUnanswered, Effect, Mutating
  <2>4. effects[KeyOf] <= Excuses(KeyOf)
    BY <2>2 DEF Keyed, Cleared
  <2>5. \A k \in Keys : k # KeyOf => effects'[k] = effects[k] /\ lost'[k] = lost[k]
    BY <2>3
  <2>6. effects'[KeyOf] = effects[KeyOf] + 1 /\ lost'[KeyOf] = lost[KeyOf] + 1
    BY <2>1, <2>3
  <2>7. effects'[KeyOf] <= lost'[KeyOf] + crashes + faults
    BY <2>1, <2>4, <2>6 DEF Excuses
  <2>8. RepeatsAreExplained'
    <3> SUFFICES ASSUME NEW k \in Keys
                 PROVE  effects'[k] <= 1 + lost'[k] + crashes + faults
      BY <2>2 DEF RepeatsAreExplained
    <3>1. CASE k = KeyOf
      BY <2>1, <2>6, <2>7, <3>1
    <3>2. CASE k # KeyOf
      BY <2>5, <3>2 DEF Keyed, RepeatsAreExplained
    <3> QED
      BY <3>1, <3>2
  <2>9. Unrecorded'
    <3> SUFFICES ASSUME NEW k \in Keys, k \notin rows
                 PROVE  effects'[k] <= lost'[k] + crashes + faults
      BY <2>2 DEF Unrecorded, Excuses
    <3>1. CASE k = KeyOf
      BY <2>7, <3>1
    <3>2. CASE k # KeyOf
      BY <2>2, <2>5, <3>2 DEF Keyed, Unrecorded, Excuses, Recording
    <3> QED
      BY <3>1, <3>2
  <2>10. Cleared' /\ Done'
    <3>1. \A k \in Keys : effects[k] > 0 => effects'[k] > 0
      BY <2>1, <2>5, <2>6
    <3> QED
      BY <2>2, <3>1 DEF Keyed, Cleared, Done
  <2> QED
    BY <2>8, <2>9, <2>10 DEF Keyed
<1>7. ASSUME Fail \/ UnknownAction PROVE Keyed'
  <2>1. /\ pc = "dispatch" /\ pc' = "idle"
        /\ UNCHANGED <<memory, rows, effects, lost, crashes, faults>>
    BY <1>7 DEF Fail, UnknownAction, Answered, store, history, bounds
  <2> QED
    BY <2>1 DEF Keyed, RepeatsAreExplained, Unrecorded, Cleared, Done, Excuses, Recording
<1>8. ASSUME Record PROVE Keyed'
  <2>1. call \in Call /\ KeyOf \in Keys
    BY <1>8, KeyOfCall DEF Record
  <2>2. /\ pc = "record" /\ pc' = "idle" /\ UNCHANGED <<effects, lost, crashes>>
    BY <1>8 DEF Record, Answered, history
  <2>3. CASE ~Mutating(call.action)
    <3>1. UNCHANGED <<memory, rows, faults>>
      BY <1>8, <2>3 DEF Record, store
    <3> QED
      BY <2>2, <2>3, <3>1 DEF Keyed, RepeatsAreExplained, Unrecorded, Cleared, Done, Excuses, Recording
  <2>4. CASE Mutating(call.action)
    <3>1. memory' = [memory EXCEPT ![call.store] = @ \cup {KeyOf}] /\ MarkRows
      BY <1>8, <2>4 DEF Record
    <3>2. effects[KeyOf] > 0
      BY <2>2, <2>4 DEF Keyed, Done
    <3>3. Done' /\ Cleared'
      <4>1. \A s \in Stores : memory'[s] \subseteq memory[s] \cup {KeyOf}
        BY <3>1
      <4>2. rows' \subseteq rows \cup {KeyOf}
        BY <3>1 DEF MarkRows
      <4> QED
        BY <2>2, <3>2, <4>1, <4>2 DEF Keyed, Done, Cleared
    <3>4. \/ rows' = rows \cup {KeyOf} /\ faults' = faults
          \/ rows' = rows /\ faults' = faults + 1
      BY <3>1 DEF MarkRows
    <3>5. RepeatsAreExplained'
      BY <2>2, <3>4 DEF Keyed, RepeatsAreExplained
    <3>6. Unrecorded'
      <4> SUFFICES ASSUME NEW k \in Keys, k \notin rows'
                   PROVE  effects[k] <= lost[k] + crashes + faults'
        BY <2>2 DEF Unrecorded, Excuses
      <4>1. CASE k = KeyOf
        BY <2>1, <3>4, <4>1 DEF Keyed, RepeatsAreExplained
      <4>2. CASE k # KeyOf
        BY <3>4, <4>2 DEF Keyed, Unrecorded, Excuses, Recording
      <4> QED
        BY <4>1, <4>2
    <3> QED
      BY <3>3, <3>5, <3>6 DEF Keyed
  <2> QED
    BY <2>3, <2>4
<1>9. ASSUME Crash PROVE Keyed'
  <2>1. /\ pc' = "idle" /\ crashes' = crashes + 1 /\ UNCHANGED <<rows, effects, lost, faults>>
        /\ memory' = [s \in Stores |-> {}]
    BY <1>9 DEF Crash, history
  <2>2. RepeatsAreExplained' /\ Unrecorded'
    BY <2>1 DEF Keyed, RepeatsAreExplained, Unrecorded, Excuses
  <2>3. Cleared' /\ Done'
    BY <2>1 DEF Keyed, Cleared, Done
  <2> QED
    BY <2>2, <2>3 DEF Keyed
<1>10. CASE ExpireEnvelope
  BY <1>10, KeyedFrame DEF ExpireEnvelope, store, history, bounds
<1> QED
  BY <1>1, <1>2, <1>3, <1>4, <1>5, <1>6, <1>7, <1>8, <1>9, <1>10
     DEF Next, ExecuteRecovery, Environment

-----------------------------------------------------------------------------
\* Actions that leave the counts of the capabilities alone.
LEMMA BudgetedFrame ==
    ASSUME Budgeted, UNCHANGED caps, call' = call \/ call' = NoCall
    PROVE  Budgeted'
BY DEF Budgeted

\* validate() writes the status only.
LEMMA ValidatedKeeps == ASSUME NEW cap \in Capability
                        PROVE  /\ Validated(cap).used = cap.used
                               /\ Validated(cap).won = cap.won
                               /\ Validated(cap).budget = cap.budget
BY DEF Validated, Capability

LEMMA StepBudgeted == ASSUME TypeOK, Budgeted, Next PROVE Budgeted'
<1> USE DEF TypeOK
<1>1. ASSUME NEW c \in Caps, NEW action \in Asked, NEW resource \in Resources,
             Refuse(c, action, resource)
      PROVE  Budgeted'
  <2>1. call' = NoCall /\ caps[c] \in Capability
    BY <1>1 DEF Refuse, Answered
  <2>2. \/ caps' = caps
        \/ caps' = [caps EXCEPT ![c] = Validated(caps[c])]
    BY <1>1 DEF Refuse
  <2>3. \A d \in Caps : /\ caps'[d] # NoCap => caps[d] # NoCap
                        /\ caps[d] # NoCap => /\ caps'[d].used = caps[d].used
                                              /\ caps'[d].won = caps[d].won
                                              /\ caps'[d].budget = caps[d].budget
    BY <2>1, <2>2, ValidatedKeeps, CapabilityNumbers
  <2> QED
    BY <2>1, <2>3 DEF Budgeted
<1>2. ASSUME NEW s \in Stores, NEW c \in Caps, NEW action \in Asked,
             NEW resource \in Resources, Admit(s, c, action, resource)
      PROVE  Budgeted'
  <2>1. UNCHANGED caps /\ call'.cap = c
    BY <1>2 DEF Admit
  <2>2. caps[c] \in Capability /\ ~Spent(caps[c])
    BY <1>2 DEF Admit, Valid
  <2>3. caps[c].used < caps[c].budget
    BY <2>2, CapabilityNumbers DEF Spent
  <2> QED
    BY <2>1, <2>3 DEF Budgeted
<1>3. ASSUME \/ CheckDuplicate \/ CheckNew \/ CheckUnreadable \/ Perform
             \/ PerformUnanswered \/ Fail \/ UnknownAction \/ ExpireEnvelope
      PROVE  Budgeted'
  <2>1. UNCHANGED caps /\ (call' = call \/ call' = NoCall)
    BY <1>3 DEF CheckDuplicate, CheckNew, CheckUnreadable, Perform, PerformUnanswered, Fail,
       UnknownAction, ExpireEnvelope, Answered
  <2> QED
    BY <2>1, BudgetedFrame
<1>4. ASSUME Record PROVE Budgeted'
  <2>1. call \in Call /\ caps[call.cap] \in Capability /\ call # NoCall
    BY <1>4, KeyOfCall DEF Record
  <2>2. call' = NoCall /\ caps' = [caps EXCEPT ![call.cap] = Consume(caps[call.cap])]
    BY <1>4 DEF Record, Answered
  <2>3. /\ caps[call.cap].used < caps[call.cap].budget
        /\ caps[call.cap].won = caps[call.cap].used
    BY <2>1, GuardAssumption DEF Budgeted, Call
  <2>4. Consume(caps[call.cap]).used <= caps[call.cap].budget
    BY <2>1, <2>3, ConsumeCounts, CapabilityNumbers
  <2> QED
    BY <2>1, <2>2, <2>3, <2>4, ConsumeCounts DEF Budgeted, Call
<1>5. ASSUME NEW c \in Caps, NEW action \in Asked, NEW resource \in Resources,
             NEW budget \in Budgets, Issue(c, action, resource, budget)
      PROVE  Budgeted'
  <2>1. UNCHANGED call /\ call = NoCall
    BY <1>5 DEF Issue
  <2>2. \A d \in Caps \ {c} : caps'[d] = caps[d]
    BY <1>5 DEF Issue
  <2>3. caps'[c].won = 0 /\ caps'[c].used = 0 /\ caps'[c].budget = budget
    BY <1>5 DEF Issue
  <2> QED
    BY <2>1, <2>2, <2>3, GuardAssumption DEF Budgeted
<1>6. ASSUME NEW c \in Caps, ExpireCapability(c) PROVE Budgeted'
  <2>1. caps[c] \in Capability /\ caps' = [caps EXCEPT ![c] = [caps[c] EXCEPT !.late = TRUE]]
    BY <1>6 DEF ExpireCapability
  <2>2. \A d \in Caps : /\ caps'[d] # NoCap => caps[d] # NoCap
                        /\ caps'[d].used = caps[d].used
                        /\ caps'[d].won = caps[d].won
                        /\ caps'[d].budget = caps[d].budget
    BY <1>6, <2>1 DEF ExpireCapability, Capability
  <2>3. UNCHANGED call
    BY <1>6 DEF ExpireCapability
  <2> QED
    BY <2>2, <2>3 DEF Budgeted, Call
<1>7. ASSUME Crash PROVE Budgeted'
  BY <1>7 DEF Crash, Budgeted
<1> QED
  BY <1>1, <1>2, <1>3, <1>4, <1>5, <1>6, <1>7 DEF Next, ExecuteRecovery, Environment

-----------------------------------------------------------------------------
\* The inductive invariant holds of every reachable state.
THEOREM Inductive == Spec => []IInv
<1>1. Init => IInv
  BY InitInv
<1>2. IInv /\ [Next]_vars => IInv'
  <2> SUFFICES ASSUME IInv, [Next]_vars PROVE IInv'
    OBVIOUS
  <2>1. TypeOK'
    BY StepType DEF IInv
  <2>2. CASE Next
    BY <2>1, <2>2, StepKeyed, StepBudgeted DEF IInv, Keyed
  <2>3. CASE UNCHANGED vars
    BY <2>1, <2>3 DEF IInv, RepeatsAreExplained, Unrecorded, Cleared, Done, Budgeted, Excuses,
       Recording, KeyOf, Mutating, vars, store, history, bounds
  <2> QED
    BY <2>2, <2>3
<1> QED
  BY <1>1, <1>2, PTL DEF Spec

\* Every variable of execute_recovery() and of its store has its type.
THEOREM TypeCorrect == Spec => []TypeOK
<1>1. IInv => TypeOK
  BY DEF IInv
<1> QED
  BY <1>1, Inductive, PTL

\* A mutation is repeated only for a lost answer, a kill between its effect and
\* its record, or an operation that the database refused.
THEOREM RepeatsHaveAReason == Spec => []RepeatsAreExplained
<1>1. IInv => RepeatsAreExplained
  BY DEF IInv
<1> QED
  BY <1>1, Inductive, PTL

\* What already_executed() knows did happen.
THEOREM StoreIsTruthful == Spec => []KnownIsDone
<1>1. IInv => KnownIsDone
  BY DEF IInv, Done, KnownIsDone
<1> QED
  BY <1>1, Inductive, PTL

\* A capability is used up by max_attempts successful calls.
THEOREM CapabilitiesRunOut == Spec => []CapabilityIsSpent
<1>1. IInv => CapabilityIsSpent
  BY DEF IInv, Budgeted, CapabilityIsSpent
<1> QED
  BY <1>1, Inductive, PTL
=============================================================================
