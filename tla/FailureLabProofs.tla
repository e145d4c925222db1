-------------------------- MODULE FailureLabProofs --------------------------
(***************************************************************************)
(* What is proved of the runner and its sources, for every set of invoices,*)
(* every combination of the sources' modes and every wiring: each item     *)
(* meets the fate that its sources' modes foretell.                        *)
(***************************************************************************)
EXTENDS FailureLab, FailurePolicyProofs

-----------------------------------------------------------------------------
\* The life of an item, told by its sources' modes.

\* The classes that a hopeless item wanders between: none of them freezes it.
Hopeless == {"TRANSIENT", "TOOL_UNAVAILABLE", "MALFORMED_OUTPUT", "STALE_DATA"}

\* The item is still where the modes of the primary source alone lead it.
OnCourse(i) ==
    \/ /\ mode[i] \in FailingByTurns
       /\ cls = "TRANSIENT" /\ step = 0 /\ attempts[i] = 0 /\ fetched[i] = 1 /\ prior = NoData
    \/ /\ mode[i] = "http_503"
       /\ cls = "TRANSIENT" /\ step \in 0..2 /\ attempts[i] = step /\ fetched[i] = step + 1
       /\ prior = NoData
    \/ /\ mode[i] = "http_401"
       /\ cls = "AUTHENTICATION" /\ step = 0 /\ attempts[i] = 0 /\ fetched[i] = 1
    \/ /\ mode[i] = "malformed_amount"
       /\ cls = "MALFORMED_OUTPUT" /\ step \in 0..1 /\ attempts[i] = 0 /\ fetched[i] = 1
       /\ prior = NoData
    \/ /\ mode[i] = "stale"
       /\ cls = "STALE_DATA" /\ step = 0 /\ attempts[i] = 0 /\ fetched[i] = 1
       /\ prior = Invoice(i, Due, "PAID", "stale")
    \/ /\ mode[i] = "conflict"
       /\ cls = "CONFLICTING_RESULT" /\ step = 0 /\ attempts[i] = 0 /\ fetched[i] = 1

\* No answer that can still come completes or freezes it.
Lost(i) ==
    /\ mode[i] \in Cured /\ cls \in Hopeless /\ step \in Nat
    /\ wiring = "ledger" \/ (wiring = "alternate" /\ altMode[i] \in {"malformed", "stale", "down"})

\* What becomes of it: its fate, and an oscillating source has answered when it is asked
\* again.
Ending(i) == IF mode[i] = "oscillating" THEN "COMPLETED" ELSE Fate(i)

\* The substitute contradicts what is expected or what came before.
Doomed(i) == mode[i] \in Cured /\ Ending(i) = "FROZEN" /\ cls = "CONFLICTING_RESULT" /\ step = 0

\* The primary source has answered again.
Retried(i) ==
    \/ /\ mode[i] \in FailingByTurns
       /\ obs = PrimaryAnswer("ok", 0, i)
       /\ attempts[i] = 1 /\ fetched[i] = 2 /\ prior = NoData
    \/ /\ mode[i] = "http_503"
       /\ obs = Error("TRANSIENT") /\ cls = "TRANSIENT"
       /\ step \in 0..1 /\ attempts[i] = step + 1 /\ fetched[i] = step + 2 /\ prior = NoData

\* A substitute that has an answer worth judging has given it.
Judging(i) ==
    /\ mode[i] \in Cured /\ cls \in Hopeless
    /\ \/ wiring \in {"alternate", "worker"} /\ altMode[i] \in {"ok", "inflated"}
          /\ obs = AlternateAnswer(altMode[i], i)
       \/ wiring = "authoritative" /\ obs = AuthoritativeAnswer(truth[i], i)
    /\ prior = IF mode[i] = "stale" THEN Invoice(i, Due, "PAID", "stale") ELSE NoData

Hand(i) ==
    /\ state = "ACTION_PENDING" =>
          attempts[i] = 0 /\ fetched[i] <= 1 /\ (fault = "none" => fetched[i] = 0)
    /\ state = "OBSERVING" =>
          /\ attempts[i] = 0 /\ fetched[i] = 1
          /\ mode[i] # "unknown" /\ obs = PrimaryAnswer(mode[i], 0, i)
    /\ state \in {"CLASSIFYING", "RECOVERY_FAILED"} => OnCourse(i) \/ Lost(i) \/ Doomed(i)
    /\ state = "RECOVERY_SELECTED" => OnCourse(i) \/ Lost(i)
    /\ state = "VERIFYING" =>
          Retried(i) \/ Judging(i) \/ (Lost(i) /\ Classify(obs) \in Hopeless)

\* What has become of an item that is not PENDING any more.
Settled(i) ==
    /\ items[i] = Ending(i) \/ (expired /\ items[i] = "ESCALATED")
    /\ (/\ items[i] = "ESCALATED" /\ ~expired
        /\ wiring = "narrow" /\ mode[i] = "http_503") => fetched[i] = 3

\* How often the sources were asked.
Counted(i) ==
    /\ fetched[i] <= 1 + attempts[i] /\ attempts[i] <= MaxAttempts
    /\ mode[i] \in {"ok", "http_401", "conflict", "unknown"} => fetched[i] <= 1
    /\ mode[i] \in FailingByTurns => fetched[i] <= 2

InHand == {"ACTION_PENDING", "OBSERVING", "CLASSIFYING", "RECOVERY_SELECTED", "VERIFYING",
           "RECOVERY_FAILED"}

TypeInv ==
    /\ items \in [Items -> {"PENDING", "COMPLETED", "ESCALATED", "FROZEN"}]
    /\ attempts \in [Items -> Nat] /\ fetched \in [Items -> Nat]
    /\ todo \subseteq Items /\ item \in Items \cup {NoItem} /\ halted \in BOOLEAN
    /\ wiring \in Wirings /\ mode \in [Items -> LabModes]
    /\ altMode \in [Items -> AlternateModes] /\ truth \in [Items -> {"PAID", "REFUNDED"}]
    /\ wiring # "alternate" => \A i \in Items : altMode[i] = "ok"
    /\ ledger \in [Items -> LedgerModes] /\ server \in ServerStates

PlaceInv ==
    /\ item \in Items =>
          /\ state \in InHand /\ items[item] = "PENDING" /\ item \notin todo
          /\ report = "none" /\ ~halted
    /\ item = NoItem => state \in {"PLANNED", "RUNNING", "RESUMED", "FROZEN", "COMPLETED"}
    /\ item = NoItem /\ report = "none" /\ ~halted => state \in {"PLANNED", "RUNNING", "RESUMED"}
    /\ halted => state = "FROZEN"
    /\ report # "none" => state # "PLANNED" /\ (halted \/ todo = {})
    /\ \A i \in todo : items[i] = "PENDING"
    /\ \A i \in Items : items[i] = "PENDING" /\ i # item =>
          fetched[i] = 0 /\ attempts[i] = 0 /\ (i \in todo \/ state = "PLANNED")

LabInv ==
    /\ TypeInv
    /\ PlaceInv
    /\ item \in Items => Hand(item)
    /\ \A i \in Items : items[i] # "PENDING" => Settled(i)
    /\ \A i \in Items : Counted(i)

-----------------------------------------------------------------------------
\* What the sources' answers amount to.

\* An error with one code is of that code's class.
LEMMA CodeOfOne ==
    ASSUME NEW class \in CodedClasses
    PROVE  CodeOf({class}) = class
<1> DEFINE First(k) == /\ CodeOrder[k] \in {class}
                       /\ \A j \in 1..(k - 1) : CodeOrder[j] \notin {class}
<1>1. /\ Len(CodeOrder) = 8
      /\ CodeOrder[1] = "AUTHENTICATION" /\ CodeOrder[2] = "AUTHORIZATION"
      /\ CodeOrder[3] = "INVALID_INPUT" /\ CodeOrder[4] = "CONFLICTING_RESULT"
      /\ CodeOrder[5] = "TRANSIENT" /\ CodeOrder[6] = "TOOL_UNAVAILABLE"
      /\ CodeOrder[7] = "STALE_DATA" /\ CodeOrder[8] = "PARTIAL_RESULT"
  BY DEF CodeOrder
<1>2. \E k \in 1..8 : CodeOrder[k] = class
  BY <1>1 DEF CodedClasses
<1>3. \A j, k \in 1..8 : CodeOrder[j] = CodeOrder[k] => j = k
  BY <1>1, SMTT(30)
<1>4. \E k \in 1..Len(CodeOrder) : First(k)
  BY <1>1, <1>2, <1>3
<1>5. CodeOrder[CHOOSE k \in 1..Len(CodeOrder) : First(k)] = class
  BY <1>4
<1>6. QED
  BY <1>5 DEF CodeOf

\* An error is classified by its code, and is no record.
LEMMA Errors ==
    ASSUME NEW class \in CodedClasses
    PROVE  Classify(Error(class)) = class /\ ~IsRecord(Error(class).data)
  BY CodeOfOne DEF Classify, Error, NoData, IsRecord

\* An answer without an error is classified by its payload.
LEMMA Answers ==
    ASSUME NEW i
    PROVE  /\ Classify(Answer(Junk)) = "MALFORMED_OUTPUT" /\ ~IsRecord(Answer(Junk).data)
           /\ \A amount, status : Classify(Answer(Invoice(i, amount, status, "stale"))) = "STALE_DATA"
           /\ \A amount, status : Classify(Answer(Invoice(i, amount, status, "fresh"))) = NoFailure
           /\ \A amount, status, age : /\ IsRecord(Answer(Invoice(i, amount, status, age)).data)
                                       /\ Answer(Invoice(i, amount, status, age)).data
                                             = Invoice(i, amount, status, age)
  BY DEF Classify, Answer, Junk, IsRecord, Invoice, NoFailure

\* The primary source in each of its modes.
LEMMA PrimaryAnswers ==
    ASSUME NEW i, NEW n \in Nat
    PROVE  /\ PrimaryAnswer("ok", n, i) = Answer(Invoice(i, Due, "PAID", "fresh"))
           /\ \A m \in FailingByTurns : /\ PrimaryAnswer(m, 0, i) = Error("TRANSIENT")
                                        /\ PrimaryAnswer(m, 1, i) = PrimaryAnswer("ok", 0, i)
           /\ PrimaryAnswer("http_503", n, i) = Error("TRANSIENT")
           /\ PrimaryAnswer("http_401", n, i) = Error("AUTHENTICATION")
           /\ PrimaryAnswer("malformed_amount", n, i) = Answer(Junk)
           /\ PrimaryAnswer("stale", n, i) = Answer(Invoice(i, Due, "PAID", "stale"))
           /\ PrimaryAnswer("conflict", n, i)
                 = [Answer(Invoice(i, Due, "PAID", "fresh")) EXCEPT !.mark = "conflict"]
<1>1. PrimaryAnswer("ok", n, i) = Answer(Invoice(i, Due, "PAID", "fresh"))
  BY DEF PrimaryAnswer
<1>2. PrimaryAnswer("flaky", 0, i) = Error("TRANSIENT")
  BY DEF PrimaryAnswer
<1>3. PrimaryAnswer("flaky", 1, i) = Answer(Invoice(i, Due, "PAID", "fresh"))
  BY DEF PrimaryAnswer
<1>4. PrimaryAnswer("oscillating", 0, i) = Error("TRANSIENT")
  BY DEF PrimaryAnswer
<1>5. PrimaryAnswer("oscillating", 1, i) = Answer(Invoice(i, Due, "PAID", "fresh"))
  BY DEF PrimaryAnswer
<1>6. PrimaryAnswer("http_503", n, i) = Error("TRANSIENT")
  BY DEF PrimaryAnswer
<1>7. PrimaryAnswer("http_401", n, i) = Error("AUTHENTICATION")
  BY DEF PrimaryAnswer
<1>8. PrimaryAnswer("malformed_amount", n, i) = Answer(Junk)
  BY DEF PrimaryAnswer
<1>9. PrimaryAnswer("stale", n, i) = Answer(Invoice(i, Due, "PAID", "stale"))
  BY DEF PrimaryAnswer
<1>10. PrimaryAnswer("conflict", n, i)
          = [Answer(Invoice(i, Due, "PAID", "fresh")) EXCEPT !.mark = "conflict"]
  BY DEF PrimaryAnswer
<1>11. PrimaryAnswer("ok", 0, i) = Answer(Invoice(i, Due, "PAID", "fresh"))
  BY DEF PrimaryAnswer
<1>12. QED
  BY <1>1, <1>2, <1>3, <1>4, <1>5, <1>6, <1>7, <1>8, <1>9, <1>10, <1>11 DEF FailingByTurns

LEMMA ConflictClass ==
    ASSUME NEW i, NEW n \in Nat
    PROVE  Classify(PrimaryAnswer("conflict", n, i)) = "CONFLICTING_RESULT"
<1> DEFINE out == [Answer(Invoice(i, Due, "PAID", "fresh")) EXCEPT !.mark = "conflict"]
<1>1. out.env = "dict" /\ out.data.kind = "record" /\ out.ok /\ out.mark = "conflict"
  BY DEF Answer, Invoice
<1>2. PrimaryAnswer("conflict", n, i) = out
  BY PrimaryAnswers
<1> HIDE DEF out
<1>3. QED
  BY <1>1, <1>2 DEF Classify

\* A source that is cured by a substitute never answers otherwise than hopelessly, and
\* no more does the ledger, whatever it is put through.
LEMMA HopelessAnswers ==
    ASSUME NEW i, NEW n \in Nat
    PROVE  /\ \A m \in Cured : Classify(PrimaryAnswer(m, n, i)) \in Hopeless
           /\ \A m \in {"malformed", "stale", "down"} : Classify(AlternateAnswer(m, i)) \in Hopeless
           /\ \A s \in ServerStates, m \in LedgerModes : Classify(LedgerAnswer(s, m, i)) \in Hopeless
<1>1. {"TRANSIENT", "TOOL_UNAVAILABLE"} \subseteq CodedClasses
  BY DEF CodedClasses
<1>2. \A m \in Cured : Classify(PrimaryAnswer(m, n, i)) \in Hopeless
  BY <1>1, PrimaryAnswers, Errors, Answers DEF Cured, Hopeless
<1>3. \A m \in {"malformed", "stale", "down"} : Classify(AlternateAnswer(m, i)) \in Hopeless
  BY <1>1, Errors, Answers DEF AlternateAnswer, Hopeless
<1>4. \A m : LedgerRecord(m, i) = Junk \/ LedgerRecord(m, i) = Invoice(i, Due, "PAID", "stale")
  BY DEF LedgerRecord
<1>5. ASSUME NEW s \in ServerStates, NEW m \in LedgerModes
      PROVE  Classify(LedgerAnswer(s, m, i)) \in Hopeless
  <2>1. \/ LedgerAnswer(s, m, i) = Error("TOOL_UNAVAILABLE")
        \/ LedgerAnswer(s, m, i) = Error("TRANSIENT")
        \/ LedgerAnswer(s, m, i) = Answer(LedgerRecord(m, i))
    BY <1>5 DEF LedgerAnswer, ServerStates
  <2>2. QED
    BY <1>1, <1>4, <2>1, Errors, Answers DEF Hopeless
<1>6. QED
  BY <1>2, <1>3, <1>5

\* What the verifier says of an invoice, and the cross-source check of it and the stale
\* record of the primary source.
LEMMA Verdicts ==
    ASSUME NEW i \in Items, NEW amount, NEW status
    PROVE  LET out == Answer(Invoice(i, amount, status, "fresh"))
           IN  /\ amount = Due => VerifyProblems(out.data, out.source, {Due}) = {}
               /\ amount # Due => VerifyProblems(out.data, out.source, {Due}) = {"AMOUNT_MISMATCH"}
               /\ amount = Due /\ status = "PAID" =>
                      CrossProblems(Invoice(i, Due, "PAID", "stale"), out.data) = {}
               /\ amount = Due /\ status # "PAID" =>
                      CrossProblems(Invoice(i, Due, "PAID", "stale"), out.data) = {"CONFLICT"}
  BY DEF Answer, Invoice, VerifyProblems, CrossProblems, IsRecord,
     SourceProblems

-----------------------------------------------------------------------------
\* The runner's steps, with the lab's constants filled in.

\* The transitions that the runner asks for are listed.
LEMMA Rows ==
    ASSUME NEW w \in Wirings
    PROVE  LET row == Run(w)!WorkflowTransitions
           IN  /\ row["PLANNED"] = {"RUNNING"}
               /\ row["RUNNING"] = {"ACTION_PENDING", "FROZEN", "ESCALATED", "COMPLETED"}
               /\ row["ACTION_PENDING"] = {"OBSERVING", "FAILURE"}
               /\ row["OBSERVING"] = {"SUCCESS", "FAILURE"}
               /\ row["SUCCESS"] = {"RESUMED"}
               /\ row["FAILURE"] = {"CLASSIFYING"}
               /\ row["CLASSIFYING"] = {"RECOVERY_SELECTED", "ESCALATED", "FROZEN"}
               /\ row["RECOVERY_SELECTED"] = {"VERIFYING", "ESCALATED", "FROZEN"}
               /\ row["VERIFYING"] = {"VERIFIED", "RECOVERY_FAILED"}
               /\ row["VERIFIED"] = {"RESUMED"}
               /\ row["RECOVERY_FAILED"] = {"RECOVERY_SELECTED", "ESCALATED", "FROZEN"}
               /\ row["RESUMED"] = {"ACTION_PENDING", "COMPLETED"}
               /\ row["ESCALATED"] = {"RESUMED"}
  BY DEF Run!WorkflowTransitions

LEMMA MovesOnce ==
    ASSUME NEW w \in Wirings, NEW a, Run(w)!MoveTo(<<a>>),
           a = state \/ a \in Run(w)!WorkflowTransitions[state]
    PROVE  state' = a /\ fault' = fault
<1>1. Run(w)!Legal(<<a>>)
  BY SMT DEF Run!Legal, Run!CanMove
<1>2. QED
  BY <1>1, SMT DEF Run!MoveTo

LEMMA MovesTwice ==
    ASSUME NEW w \in Wirings, NEW a, NEW b, Run(w)!MoveTo(<<a, b>>),
           a \in Run(w)!WorkflowTransitions[state], b \in Run(w)!WorkflowTransitions[a]
    PROVE  state' = b /\ fault' = fault
<1>1. Run(w)!Legal(<<a, b>>)
  BY SMT DEF Run!Legal, Run!CanMove
<1>2. QED
  BY <1>1, SMT DEF Run!MoveTo

\* What the runner chooses next.
Choice(w) == NextAction(DefaultChains, cls, step, w # "narrow")

\* The substitute of each wiring, and the action that is selected in it.
LEMMA Substitutes ==
    ASSUME NEW w \in Wirings
    PROVE  /\ Run(w)!Selected = Choice(w)
           /\ w \in {"alternate", "worker"} => Run(w)!Substitute = "fetch_alternate"
           /\ w \in {"authoritative", "ledger"} => Run(w)!Substitute = "fetch_authoritative"
<1>1. Run(w)!SubstituteCandidates # {} <=> w # "narrow"
  BY SMT DEF Run!SubstituteCandidates, Wirings, ScopeOf, AdaptersOf
<1>2. "fetch_alternate" \in Run(w)!SubstituteCandidates <=> w \in {"alternate", "worker"}
  BY SMT DEF Run!SubstituteCandidates, Wirings, ScopeOf, AdaptersOf
<1>3. Run(w)!Selected = Choice(w)
  BY <1>1, SMT DEF Run!Selected, Choice, Run!NextAction, NextAction, 
     Run!ChainOf, ChainOf, Run!TableOf, TableOf, Run!DefaultChains, DefaultChains,
     Run!FailureClass, FailureClass
<1>4. QED
  BY <1>2, <1>3, SMT DEF Run!Substitute

\* The default chains, step by step.
LEMMA Chained ==
    ASSUME NEW w
    PROVE  /\ cls = "TRANSIENT" =>
                 /\ step \in 0..1 => Choice(w) = "retry"
                 /\ step = 2 => Choice(w) = IF w = "narrow" THEN "escalate" ELSE "substitute"
           /\ cls = "MALFORMED_OUTPUT" =>
                 /\ step = 0 => Choice(w) = "reject"
                 /\ step = 1 => Choice(w) = IF w = "narrow" THEN "escalate" ELSE "substitute"
           /\ cls = "STALE_DATA" /\ step = 0 =>
                 Choice(w) = IF w = "narrow" THEN "escalate" ELSE "substitute"
           /\ cls = "AUTHENTICATION" /\ step = 0 => Choice(w) = "escalate"
           /\ cls = "CONFLICTING_RESULT" /\ step = 0 => Choice(w) = "freeze"
           /\ cls \in Hopeless /\ step \in Nat =>
                 Choice(w) \in {"retry", "substitute", "reject", "escalate"}
<1>0. TableOf(DefaultChains) = DefaultChains
  BY DEF TableOf
<1> USE <1>0 DEF Choice, NextAction, ChainOf
<1>1. CASE cls = "TRANSIENT"
  <2>1. cls \in DOMAIN DefaultChains
           /\ DefaultChains[cls] = <<"retry", "retry", "substitute", "escalate">>
    BY <1>1 DEF DefaultChains, FailureClass
  <2>2. QED
    BY <1>1, <2>1
<1>2. CASE cls = "MALFORMED_OUTPUT"
  <2>1. cls \in DOMAIN DefaultChains
           /\ DefaultChains[cls] = <<"reject", "substitute", "escalate">>
    BY <1>2 DEF DefaultChains, FailureClass
  <2>2. QED
    BY <1>2, <2>1
<1>3. CASE cls = "STALE_DATA"
  <2>1. cls \in DOMAIN DefaultChains /\ DefaultChains[cls] = <<"substitute", "escalate">>
    BY <1>3 DEF DefaultChains, FailureClass
  <2>2. QED
    BY <1>3, <2>1
<1>4. CASE cls = "AUTHENTICATION"
  <2>1. cls \in DOMAIN DefaultChains /\ DefaultChains[cls] = <<"escalate">>
    BY <1>4 DEF DefaultChains, FailureClass
  <2>2. QED
    BY <1>4, <2>1 DEF Hopeless
<1>5. CASE cls = "CONFLICTING_RESULT"
  <2>1. cls \in DOMAIN DefaultChains /\ DefaultChains[cls] = <<"freeze">>
    BY <1>5 DEF DefaultChains, FailureClass
  <2>2. QED
    BY <1>5, <2>1 DEF Hopeless
<1>6. CASE cls = "TOOL_UNAVAILABLE"
  <2>1. cls \in DOMAIN DefaultChains
           /\ DefaultChains[cls] = <<"retry", "substitute", "escalate">>
    BY <1>6 DEF DefaultChains, FailureClass
  <2>2. QED
    BY <1>6, <2>1
<1>7. CASE cls \notin Hopeless \cup {"AUTHENTICATION", "CONFLICTING_RESULT"}
  BY <1>7 DEF Hopeless
<1>8. QED
  BY <1>1, <1>2, <1>3, <1>4, <1>5, <1>6, <1>7 DEF Hopeless

\* The decision procedures do not depend on the wiring.
LEMMA SameClassify ==
    ASSUME NEW w \in Wirings, NEW out
    PROVE  Run(w)!Classify(out) = Classify(out)
<1>1. \A err : Run(w)!CodeOf(err) = CodeOf(err)
  BY SMT DEF Run!CodeOf, CodeOf, Run!CodedClasses, CodedClasses, Run!CodeOrder, CodeOrder
<1>2. QED
  BY <1>1, SMT DEF Run!Classify, Classify, Run!NoFailure, NoFailure

LEMMA SameVerdicts ==
    ASSUME NEW w \in Wirings, NEW data, NEW other, NEW source, NEW expected, NEW problems
    PROVE  /\ Run(w)!VerifyProblems(data, source, expected) = VerifyProblems(data, source, expected)
           /\ Run(w)!CrossProblems(other, data) = CrossProblems(other, data)
           /\ Run(w)!VerifyProblemClass(problems) = VerifyProblemClass(problems)
           /\ Run(w)!IsRecord(data) <=> IsRecord(data)
           /\ Run(w)!NoData = NoData /\ Run(w)!NoFailure = NoFailure
<1>1. Run(w)!IsRecord(data) <=> IsRecord(data)
  BY SMT DEF Run!IsRecord, IsRecord
<1>2. Run(w)!VerifyProblems(data, source, expected) = VerifyProblems(data, source, expected)
  BY <1>1, SMT DEF Run!VerifyProblems, VerifyProblems, Run!SourceProblems, SourceProblems
<1>3. Run(w)!CrossProblems(other, data) = CrossProblems(other, data)
  BY SMT DEF Run!CrossProblems, CrossProblems
<1>4. Run(w)!VerifyProblemClass(problems) = VerifyProblemClass(problems)
  BY SMT DEF Run!VerifyProblemClass, VerifyProblemClass
<1>5. Run(w)!NoData = NoData /\ Run(w)!NoFailure = NoFailure
  BY SMT DEF Run!NoData, NoData, Run!NoFailure, NoFailure
<1>6. QED
  BY <1>1, <1>2, <1>3, <1>4, <1>5

\* The problems of the answer in hand, which owes the amount Due, and those of an answer
\* in a recovery; and the anchor that a refused answer leaves.
JudgedNow == VerifyProblems(obs.data, obs.source, {Due})
JudgedThen == IF JudgedNow = {} /\ prior # NoData THEN CrossProblems(prior, obs.data) ELSE JudgedNow
Anchor(class, default) ==
    IF IsRecord(obs.data) /\ class # "MALFORMED_OUTPUT" THEN obs.data ELSE default

LEMMA SameJudged ==
    ASSUME NEW w \in Wirings, item \in Items, NEW class, NEW default
    PROVE  /\ Run(w)!Judged = JudgedNow
           /\ Run(w)!JudgedRecovery = JudgedThen
           /\ Run(w)!PriorOf(class, default) = Anchor(class, default)
<1>1. Run(w)!Judged = JudgedNow
  <2>1. [i \in Items |-> {Due}][item] = {Due}
    OBVIOUS
  <2>2. Run(w)!IsRecord(obs.data) <=> IsRecord(obs.data)
    BY SameVerdicts, SMT
  <2>3. QED
    BY <2>1, <2>2, SMT DEF Run!Judged, JudgedNow, Run!VerifyProblems, VerifyProblems,
       Run!SourceProblems, SourceProblems
<1>2. Run(w)!JudgedRecovery = JudgedThen
  BY <1>1, SameVerdicts, SMT DEF Run!JudgedRecovery, JudgedThen
<1>3. Run(w)!PriorOf(class, default) = Anchor(class, default)
  BY SameVerdicts, SMT DEF Run!PriorOf, Anchor
<1>4. QED
  BY <1>1, <1>2, <1>3

-----------------------------------------------------------------------------
\* What the runner's steps do, in terms of what decides an item's fate.

\* The item stays in hand; the item leaves the runner's hand.
Held(where) == item \in Items /\ state = where /\ report = "none" /\ fault = "none"
Stays == UNCHANGED <<items, halted, todo, item, expired, report>>
Leaves(status) ==
    /\ items' = [items EXCEPT ![item] = status] /\ item' = NoItem
    /\ UNCHANGED <<todo, expired, report>>

LEMMA InHandIsHeld ==
    ASSUME NEW w \in Wirings, NEW where, TypeInv, Run(w)!InItem(where)
    PROVE  Held(where)
  BY SMT DEF Run!InItem, Run!Running, TypeInv, Held

LEMMA HeadIsHeld ==
    ASSUME NEW w \in Wirings, TypeInv, Run(w)!AtLoopHead
    PROVE  Held("CLASSIFYING") \/ Held("RECOVERY_FAILED")
  BY InHandIsHeld, SMT DEF Run!AtLoopHead

LEMMA StartDoes ==
    ASSUME NEW w \in Wirings, Run(w)!Start
    PROVE  /\ state = "PLANNED" /\ state' = "RUNNING" /\ fault' = fault
           /\ todo' = {i \in Items : items[i] = "PENDING"}
           /\ UNCHANGED <<items, attempts, halted, item, expired, report>>
<1>1. /\ state = "PLANNED" /\ Run(w)!MoveTo(<<"RUNNING">>)
      /\ todo' = {i \in Items : items[i] = "PENDING"}
      /\ UNCHANGED <<items, attempts, halted, item, expired, report>>
  BY SMT DEF Run!Start, Run!Pending, Run!runVars, Run!localVars
<1>2. QED
  BY <1>1, Rows, MovesOnce

LEMMA BeginDoes ==
    ASSUME NEW w \in Wirings, NEW i \in Items, Run(w)!BeginItem(i), TypeInv, PlaceInv
    PROVE  /\ item = NoItem /\ ~halted /\ report = "none" /\ fault = "none" /\ state # "PLANNED"
           /\ i \in todo /\ todo' = todo \ {i} /\ item' = i
           /\ state' = "ACTION_PENDING" /\ fault' = "none"
           /\ UNCHANGED <<items, attempts, halted, expired, report>>
<1>1. /\ item = NoItem /\ ~halted /\ state # "PLANNED" /\ report = "none" /\ fault = "none"
      /\ i \in todo /\ todo' = todo \ {i} /\ item' = i
      /\ Run(w)!MoveTo(<<"ACTION_PENDING">>)
      /\ UNCHANGED <<items, attempts, halted, expired, report>>
  BY SMT DEF Run!BeginItem, Run!Running, Run!runVars
<1>2. state \in {"RUNNING", "RESUMED"}
  BY <1>1 DEF PlaceInv
<1>3. QED
  BY <1>1, <1>2, Rows, MovesOnce

LEMMA FinishDoes ==
    ASSUME NEW w \in Wirings, Run(w)!Finish, TypeInv, PlaceInv
    PROVE  /\ item = NoItem /\ report = "none" /\ report' # "none" /\ (halted \/ todo = {})
           /\ state # "PLANNED" /\ state' \in {state, "COMPLETED"}
           /\ halted => state' = "FROZEN"
           /\ UNCHANGED <<items, attempts, halted, todo, item, expired>>
<1>1. /\ item = NoItem /\ report = "none" /\ report' # "none" /\ (halted \/ todo = {})
      /\ state # "PLANNED"
      /\ UNCHANGED <<items, attempts, halted, todo, item, expired>>
      /\ \/ halted /\ Run(w)!MoveTo(<<"FROZEN">>)
         \/ ~halted /\ state' = state
         \/ ~halted /\ Run(w)!MoveTo(<<"COMPLETED">>)
  BY SMT DEF Run!Finish, Run!Running, Run!runVars, Run!localVars
<1>2. halted => state = "FROZEN"
  BY DEF PlaceInv
<1>3. ~halted => state \in {"RUNNING", "RESUMED"}
  BY <1>1 DEF PlaceInv
<1>4. QED
  BY <1>1, <1>2, <1>3, Rows, MovesOnce

LEMMA FetchDoes ==
    ASSUME NEW w \in Wirings, Fetch(w), TypeInv
    PROVE  /\ Held("ACTION_PENDING") /\ Stays
           /\ attempts' = attempts /\ fetched' = [fetched EXCEPT ![item] = @ + 1]
           /\ mode[item] = "unknown" => state' = state /\ fault' = "tool_raised"
           /\ mode[item] # "unknown" =>
                 /\ state' = "OBSERVING" /\ obs' = PrimaryAnswer(mode[item], fetched[item], item)
<1>1. /\ Held("ACTION_PENDING") /\ Stays /\ attempts' = attempts
      /\ \/ Run(w)!MoveTo(<<"OBSERVING">>)
         \/ fault' = "tool_raised" /\ state' = state
  BY InHandIsHeld, SMT DEF Fetch, Run!FetchPrimary, Run!runVars, Stays
<1>2. Run(w)!MoveTo(<<"OBSERVING">>) => state' = "OBSERVING" /\ fault' = "none"
  BY <1>1, Rows, MovesOnce DEF Held
<1>3. fetched' = [fetched EXCEPT ![item] = @ + 1]
  BY DEF Fetch, CountCall
<1>4. IF mode[item] = "unknown" THEN fault' = "tool_raised"
      ELSE fault' # "tool_raised" /\ obs' = PrimaryAnswer(mode[item], fetched[item], item)
  BY DEF Fetch, Served
<1>5. QED
  BY <1>1, <1>2, <1>3, <1>4

LEMMA AcceptPrimaryDoes ==
    ASSUME NEW w \in Wirings, Run(w)!AcceptPrimary, TypeInv
    PROVE  /\ Held("OBSERVING") /\ Classify(obs) = NoFailure /\ JudgedNow = {}
           /\ state' = "RESUMED" /\ Leaves("COMPLETED")
           /\ UNCHANGED <<attempts, halted>>
<1>1. Held("OBSERVING")
  BY InHandIsHeld, SMT DEF Run!AcceptPrimary
<1>2. /\ Run(w)!Classify(obs) = Run(w)!NoFailure /\ Run(w)!Judged = {}
      /\ Run(w)!MoveTo(<<"SUCCESS", "RESUMED">>)
      /\ Leaves("COMPLETED") /\ UNCHANGED <<attempts, halted>>
  BY SMT DEF Run!AcceptPrimary, Run!Complete, Run!LeaveItem, Leaves
<1>3. Classify(obs) = NoFailure /\ JudgedNow = {}
  BY <1>1, <1>2, SameClassify, SameVerdicts, SameJudged, SMT DEF Held
<1>4. state' = "RESUMED"
  BY <1>1, <1>2, Rows, MovesTwice DEF Held
<1>5. QED
  BY <1>1, <1>2, <1>3, <1>4

LEMMA RejectPrimaryDoes ==
    ASSUME NEW w \in Wirings, Run(w)!RejectPrimary, TypeInv
    PROVE  /\ Held("OBSERVING")
           /\ \/ /\ Classify(obs) # NoFailure
                 /\ cls' = Classify(obs) /\ prior' = Anchor(Classify(obs), NoData)
              \/ /\ Classify(obs) = NoFailure /\ JudgedNow # {}
                 /\ cls' = VerifyProblemClass(JudgedNow) /\ prior' = NoData
           /\ state' = "CLASSIFYING" /\ step' = 0 /\ Stays
           /\ UNCHANGED <<attempts, obs>>
<1>1. Held("OBSERVING")
  BY InHandIsHeld, SMT DEF Run!RejectPrimary
<1>2. /\ \/ /\ Run(w)!Classify(obs) # Run(w)!NoFailure
            /\ cls' = Run(w)!Classify(obs)
            /\ prior' = Run(w)!PriorOf(Run(w)!Classify(obs), Run(w)!NoData)
         \/ /\ Run(w)!Classify(obs) = Run(w)!NoFailure
            /\ Run(w)!Judged # {}
            /\ cls' = Run(w)!VerifyProblemClass(Run(w)!Judged)
            /\ prior' = Run(w)!NoData
      /\ Run(w)!MoveTo(<<"FAILURE", "CLASSIFYING">>)
      /\ step' = 0 /\ Stays /\ UNCHANGED <<attempts, obs>>
  BY SMT DEF Run!RejectPrimary, Run!runVars, Stays
<1>3. /\ Run(w)!Classify(obs) = Classify(obs) /\ Run(w)!Judged = JudgedNow
      /\ Run(w)!PriorOf(Classify(obs), NoData) = Anchor(Classify(obs), NoData)
      /\ Run(w)!VerifyProblemClass(JudgedNow) = VerifyProblemClass(JudgedNow)
      /\ Run(w)!NoData = NoData /\ Run(w)!NoFailure = NoFailure
  BY <1>1, SameClassify, SameVerdicts, SameJudged, SMT DEF Held
<1>4. state' = "CLASSIFYING"
  BY <1>1, <1>2, Rows, MovesTwice DEF Held
<1>5. QED
  BY <1>1, <1>2, <1>3, <1>4, SMT

LEMMA EscalateDoes ==
    ASSUME NEW w \in Wirings, Run(w)!Escalate, TypeInv
    PROVE  /\ Held("CLASSIFYING") \/ Held("RECOVERY_FAILED")
           /\ Choice(w) = "escalate"
           /\ state' = "RESUMED" /\ Leaves("ESCALATED")
           /\ UNCHANGED <<attempts, halted>>
<1>1. Held("CLASSIFYING") \/ Held("RECOVERY_FAILED")
  BY HeadIsHeld, SMT DEF Run!Escalate
<1>2. /\ Run(w)!Selected = "escalate"
      /\ Run(w)!MoveTo(<<"ESCALATED", "RESUMED">>)
      /\ Leaves("ESCALATED") /\ UNCHANGED <<attempts, halted>>
  BY SMT DEF Run!Escalate, Run!GiveUp, Run!LeaveItem, Leaves
<1>3. state' = "RESUMED"
  BY <1>1, <1>2, Rows, MovesTwice DEF Held
<1>4. QED
  BY <1>1, <1>2, <1>3, Substitutes

LEMMA FreezeDoes ==
    ASSUME NEW w \in Wirings, Run(w)!Freeze, TypeInv
    PROVE  /\ Held("CLASSIFYING") \/ Held("RECOVERY_FAILED")
           /\ Choice(w) = "freeze"
           /\ state' = "FROZEN" /\ halted' = TRUE /\ Leaves("FROZEN")
           /\ UNCHANGED attempts
<1>1. Held("CLASSIFYING") \/ Held("RECOVERY_FAILED")
  BY HeadIsHeld, SMT DEF Run!Freeze
<1>2. /\ Run(w)!Selected = "freeze"
      /\ Run(w)!MoveTo(<<"FROZEN">>) /\ halted' = TRUE
      /\ Leaves("FROZEN") /\ UNCHANGED attempts
  BY SMT DEF Run!Freeze, Run!LeaveItem, Leaves
<1>3. state' = "FROZEN"
  BY <1>1, <1>2, Rows, MovesOnce DEF Held
<1>4. QED
  BY <1>1, <1>2, <1>3, Substitutes

LEMMA SelectDoes ==
    ASSUME NEW w \in Wirings, Run(w)!SelectRecovery, TypeInv
    PROVE  /\ Held("CLASSIFYING") \/ Held("RECOVERY_FAILED")
           /\ Choice(w) \notin {"escalate", "freeze"}
           /\ state' = "RECOVERY_SELECTED" /\ Stays
           /\ UNCHANGED <<attempts, obs, cls, step, prior>>
<1>1. Held("CLASSIFYING") \/ Held("RECOVERY_FAILED")
  BY HeadIsHeld, SMT DEF Run!SelectRecovery
<1>2. /\ Run(w)!Selected \notin {"escalate", "freeze"}
      /\ Run(w)!MoveTo(<<"RECOVERY_SELECTED">>)
      /\ Stays /\ UNCHANGED <<attempts, obs, cls, step, prior>>
  BY SMT DEF Run!SelectRecovery, Run!runVars, Stays
<1>3. state' = "RECOVERY_SELECTED"
  BY <1>1, <1>2, Rows, MovesOnce DEF Held
<1>4. QED
  BY <1>1, <1>2, <1>3, Substitutes

LEMMA SkipDoes ==
    ASSUME NEW w \in Wirings, Run(w)!SkipStep, TypeInv
    PROVE  /\ Held("RECOVERY_SELECTED") /\ Choice(w) \in {"reject", "replan"}
           /\ state' = "RECOVERY_FAILED" /\ step' = step + 1 /\ Stays
           /\ UNCHANGED <<attempts, obs, cls, prior>>
<1>1. Held("RECOVERY_SELECTED")
  BY InHandIsHeld, SMT DEF Run!SkipStep
<1>2. /\ Run(w)!Selected \in {"reject", "replan"}
      /\ Run(w)!MoveTo(<<"VERIFYING", "RECOVERY_FAILED">>)
      /\ step' = step + 1 /\ Stays /\ UNCHANGED <<attempts, obs, cls, prior>>
  BY SMT DEF Run!SkipStep, Run!runVars, Stays
<1>3. state' = "RECOVERY_FAILED"
  BY <1>1, <1>2, Rows, MovesTwice DEF Held
<1>4. QED
  BY <1>1, <1>2, <1>3, Substitutes

LEMMA CallDoes ==
    ASSUME NEW w \in Wirings, Call(w), TypeInv
    PROVE  /\ Held("RECOVERY_SELECTED") /\ Choice(w) \in {"retry", "retry_remainder", "substitute"}
           /\ attempts[item] + 1 <= MaxAttempts
           /\ attempts' = [attempts EXCEPT ![item] = @ + 1]
           /\ state' = "VERIFYING" /\ fault' = "none" /\ Stays /\ UNCHANGED <<cls, step, prior>>
           /\ Choice(w) # "substitute" =>
                 /\ obs' = PrimaryAnswer(mode[item], fetched[item], item)
                 /\ fetched' = [fetched EXCEPT ![item] = @ + 1]
           /\ Choice(w) = "substitute" =>
                 /\ w \in {"alternate", "worker"} => obs' = AlternateAnswer(altMode[item], item)
                 /\ w = "authoritative" => obs' = AuthoritativeAnswer(truth[item], item)
                 /\ w = "ledger" => obs' = LedgerAnswer(server, ledger[item], item)
                 /\ fetched' = fetched
<1>1. Held("RECOVERY_SELECTED")
  BY InHandIsHeld, SMT DEF Call, Run!RecoveryCall
<1>2. /\ Run(w)!Selected \in {"retry", "retry_remainder", "substitute"}
      /\ ~(attempts[item] + 1 > MaxAttempts)
      /\ attempts' = [attempts EXCEPT ![item] = @ + 1]
      /\ tool' = IF Run(w)!Selected = "substitute" THEN Run(w)!Substitute ELSE "fetch_primary"
      /\ Run(w)!MoveTo(<<"VERIFYING">>)
      /\ Stays /\ UNCHANGED <<cls, step, prior>>
  BY SMT DEF Call, Run!RecoveryCall, Run!Calls, Run!Exhausted, Run!ToolFor, Stays
<1>3. state' = "VERIFYING" /\ fault' = "none"
  BY <1>1, <1>2, Rows, MovesOnce DEF Held
<1>4. attempts[item] + 1 <= MaxAttempts
  BY <1>1, <1>2, LabAssumption DEF TypeInv, Held
<1>5. obs' = Served(w, tool', item) /\ CountCall(tool')
  BY DEF Call
<1>6. CASE Choice(w) # "substitute"
  <2>1. tool' = "fetch_primary"
    BY <1>2, <1>6, Substitutes
  <2>2. QED
    BY <1>1, <1>2, <1>3, <1>4, <1>5, <1>6, <2>1, Substitutes DEF Served, CountCall
<1>7. CASE Choice(w) = "substitute"
  <2>1. tool' = Run(w)!Substitute
    BY <1>2, <1>7, Substitutes
  <2>2. /\ w \in {"alternate", "worker"} => tool' = "fetch_alternate"
        /\ w \in {"authoritative", "ledger"} => tool' = "fetch_authoritative"
        /\ tool' \in {"fetch_alternate", "fetch_authoritative"}
    BY <2>1, Substitutes, SMT DEF Run!Substitute
  <2>3. fetched' = fetched
    BY <1>5, <2>2 DEF CountCall
  <2>4. w \in {"alternate", "worker"} => obs' = AlternateAnswer(altMode[item], item)
    BY <1>5, <2>2 DEF Served
  <2>5. w = "authoritative" => obs' = AuthoritativeAnswer(truth[item], item)
    BY <1>5, <2>2 DEF Served
  <2>6. w = "ledger" => obs' = LedgerAnswer(server, ledger[item], item)
    BY <1>5, <2>2 DEF Served
  <2>7. QED
    BY <1>1, <1>2, <1>3, <1>4, <1>7, <2>3, <2>4, <2>5, <2>6
<1>8. QED
  BY <1>6, <1>7

LEMMA RefuseDoes ==
    ASSUME NEW w \in Wirings, Refuse(w), TypeInv
    PROVE  /\ Held("RECOVERY_SELECTED") /\ Choice(w) \in {"retry", "retry_remainder", "substitute"}
           /\ attempts[item] + 1 > MaxAttempts \/ expired
           /\ \/ attempts' = attempts
              \/ /\ attempts[item] + 1 <= MaxAttempts
                 /\ attempts' = [attempts EXCEPT ![item] = @ + 1]
           /\ state' = "RESUMED" /\ Leaves("ESCALATED")
           /\ UNCHANGED <<halted, fetched>>
<1>1. Held("RECOVERY_SELECTED")
  BY InHandIsHeld, SMT DEF Refuse, Run!RecoveryBlocked
<1>2. /\ Run(w)!Selected \in {"retry", "retry_remainder", "substitute"}
      /\ attempts[item] + 1 > MaxAttempts \/ expired
      /\ \/ attempts' = attempts
         \/ /\ ~(attempts[item] + 1 > MaxAttempts)
            /\ attempts' = [attempts EXCEPT ![item] = @ + 1]
      /\ Run(w)!MoveTo(<<"ESCALATED", "RESUMED">>)
      /\ Leaves("ESCALATED") /\ UNCHANGED <<halted, fetched>>
  BY SMT DEF Refuse, Run!RecoveryBlocked, Run!Calls, Run!Exhausted, Run!GiveUp, Run!LeaveItem,
             Leaves
<1>3. state' = "RESUMED"
  BY <1>1, <1>2, Rows, MovesTwice DEF Held
<1>4. ~(attempts[item] + 1 > MaxAttempts) => attempts[item] + 1 <= MaxAttempts
  BY <1>1, LabAssumption DEF TypeInv, Held
<1>5. Choice(w) \in {"retry", "retry_remainder", "substitute"}
  BY <1>2, Substitutes
<1>6. QED
  BY <1>1, <1>2, <1>3, <1>4, <1>5

LEMMA AcceptRecoveryDoes ==
    ASSUME NEW w \in Wirings, Run(w)!AcceptRecovery, TypeInv
    PROVE  /\ Held("VERIFYING") /\ Classify(obs) = NoFailure /\ JudgedThen = {}
           /\ state' = "RESUMED" /\ Leaves("COMPLETED")
           /\ UNCHANGED <<attempts, halted>>
<1>1. Held("VERIFYING")
  BY InHandIsHeld, SMT DEF Run!AcceptRecovery
<1>2. /\ Run(w)!Classify(obs) = Run(w)!NoFailure /\ Run(w)!JudgedRecovery = {}
      /\ Run(w)!MoveTo(<<"VERIFIED", "RESUMED">>)
      /\ Leaves("COMPLETED") /\ UNCHANGED <<attempts, halted>>
  BY SMT DEF Run!AcceptRecovery, Run!Complete, Run!LeaveItem, Leaves
<1>3. Classify(obs) = NoFailure /\ JudgedThen = {}
  BY <1>1, <1>2, SameClassify, SameVerdicts, SameJudged, SMT DEF Held
<1>4. state' = "RESUMED"
  BY <1>1, <1>2, Rows, MovesTwice DEF Held
<1>5. QED
  BY <1>1, <1>2, <1>3, <1>4

LEMMA RejectRecoveryDoes ==
    ASSUME NEW w \in Wirings, Run(w)!RejectRecovery, TypeInv
    PROVE  /\ Held("VERIFYING")
           /\ \/ Classify(obs) # NoFailure /\ cls' = Classify(obs)
              \/ /\ Classify(obs) = NoFailure /\ JudgedThen # {}
                 /\ cls' = VerifyProblemClass(JudgedThen)
           /\ prior' = Anchor(cls', prior)
           /\ step' = IF cls' # cls THEN 0 ELSE step + 1
           /\ state' = "RECOVERY_FAILED" /\ Stays
           /\ UNCHANGED <<attempts, obs>>
<1>1. Held("VERIFYING")
  BY InHandIsHeld, SMT DEF Run!RejectRecovery
<1>2. PICK class :
          /\ \/ /\ Run(w)!Classify(obs) # Run(w)!NoFailure
                /\ class = Run(w)!Classify(obs)
             \/ /\ Run(w)!Classify(obs) = Run(w)!NoFailure
                /\ Run(w)!JudgedRecovery # {}
                /\ class = Run(w)!VerifyProblemClass(Run(w)!JudgedRecovery)
          /\ prior' = Run(w)!PriorOf(class, prior)
          /\ cls' = class
          /\ step' = IF class # cls THEN 0 ELSE step + 1
  BY SMT DEF Run!RejectRecovery
<1>3. /\ Run(w)!MoveTo(<<"RECOVERY_FAILED">>)
      /\ Stays /\ UNCHANGED <<attempts, obs>>
  BY SMT DEF Run!RejectRecovery, Run!runVars, Stays
<1>4. /\ Run(w)!Classify(obs) = Classify(obs) /\ Run(w)!JudgedRecovery = JudgedThen
      /\ Run(w)!PriorOf(class, prior) = Anchor(class, prior)
      /\ Run(w)!VerifyProblemClass(JudgedThen) = VerifyProblemClass(JudgedThen)
      /\ Run(w)!NoFailure = NoFailure
  BY <1>1, SameClassify, SameVerdicts, SameJudged, SMT DEF Held
<1>5. state' = "RECOVERY_FAILED"
  BY <1>1, <1>3, Rows, MovesOnce DEF Held
<1>6. prior' = Anchor(cls', prior)
  BY <1>2, <1>4
<1>7. QED
  BY <1>1, <1>2, <1>3, <1>4, <1>5, <1>6, SMT

LEMMA ExpireDoes ==
    ASSUME NEW w \in Wirings, Run(w)!ExpireEnvelope
    PROVE  /\ expired' = TRUE
           /\ UNCHANGED <<state, items, attempts, halted, todo, item, obs, cls, step, prior,
                          report, fault>>
  BY SMT DEF Run!ExpireEnvelope, Run!runVars, Run!localVars

-----------------------------------------------------------------------------
\* What keeps the invariant.

LEMMA FateKept ==
    ASSUME UNCHANGED setup, NEW i \in Items
    PROVE  Ending(i)' = Ending(i)
  BY DEF setup, Ending, Fate, Substituted

\* The item leaves the runner's hand with its fate.
LEMMA LeaveKeeps ==
    ASSUME LabInv, item \in Items, NEW status \in {"COMPLETED", "ESCALATED", "FROZEN"},
           Leaves(status), UNCHANGED <<setup, service, fetched>>,
           \/ state' = "RESUMED" /\ halted' = halted
           \/ state' = "FROZEN" /\ halted' = TRUE,
           \/ attempts' = attempts
           \/ /\ attempts[item] + 1 <= MaxAttempts
              /\ attempts' = [attempts EXCEPT ![item] = @ + 1],
           status = Ending(item) \/ (expired /\ status = "ESCALATED"),
           ~expired /\ status = "ESCALATED" /\ wiring = "narrow" /\ mode[item] = "http_503"
              => fetched[item] = 3
    PROVE  LabInv'
<1> USE LabAssumption
<1>1. TypeInv'
  <2>1. attempts' \in [Items -> Nat]
    BY DEF LabInv, TypeInv
  <2>2. items' \in [Items -> {"PENDING", "COMPLETED", "ESCALATED", "FROZEN"}]
    BY DEF LabInv, TypeInv, Leaves
  <2>3. halted' \in BOOLEAN
    BY DEF LabInv, TypeInv
  <2>4. QED
    BY <2>1, <2>2, <2>3 DEF LabInv, TypeInv, Leaves, setup, service
<1>2. \A i \in Items : items'[i] = IF i = item THEN status ELSE items[i]
  BY DEF LabInv, TypeInv, Leaves
<1>3. /\ item' = NoItem /\ report' = "none" /\ todo' = todo /\ item \notin todo /\ ~halted
      /\ state \in InHand
  BY DEF LabInv, PlaceInv, Leaves
<1>4. \A i \in Items \ {item} : attempts'[i] = attempts[i]
  BY DEF LabInv, TypeInv
<1>5. PlaceInv'
  <2>1. \A i \in todo' : items'[i] = "PENDING"
    BY <1>2, <1>3 DEF LabInv, PlaceInv, TypeInv
  <2>2. \A i \in Items : items'[i] = "PENDING" /\ i # item' =>
           fetched'[i] = 0 /\ attempts'[i] = 0 /\ (i \in todo' \/ state' = "PLANNED")
    BY <1>2, <1>3, <1>4 DEF LabInv, PlaceInv, InHand
  <2>3. QED
    BY <1>3, <2>1, <2>2 DEF PlaceInv
<1>6. ASSUME NEW i \in Items, items'[i] # "PENDING"
      PROVE  Settled(i)'
  <2>1. Ending(i)' = Ending(i) /\ expired' = expired /\ wiring' = wiring /\ mode' = mode
    BY FateKept DEF Leaves, setup
  <2>2. CASE i = item
    BY <1>2, <2>1, <2>2 DEF Settled
  <2>3. CASE i # item
    BY <1>2, <1>6, <2>1, <2>3 DEF Settled, LabInv
  <2>4. QED
    BY <2>2, <2>3
<1>7. ASSUME NEW i \in Items
      PROVE  Counted(i)'
  <2>1. Counted(i) /\ attempts[i] \in Nat /\ fetched[i] \in Nat
    BY DEF LabInv, TypeInv
  <2>2. attempts'[i] = attempts[i] \/ (attempts'[i] = attempts[i] + 1 /\ attempts'[i] <= MaxAttempts)
    BY <1>4 DEF LabInv, TypeInv
  <2>3. QED
    BY <2>1, <2>2 DEF Counted, setup
<1>8. QED
  BY <1>1, <1>3, <1>5, <1>6, <1>7 DEF LabInv

\* The item stays in the runner's hand.
LEMMA StayKeeps ==
    ASSUME LabInv, item \in Items, Stays, UNCHANGED <<setup, service>>, state' \in InHand,
           NEW a \in Nat, attempts' = [attempts EXCEPT ![item] = a],
           NEW n \in Nat, fetched' = [fetched EXCEPT ![item] = n],
           Hand(item)', Counted(item)'
    PROVE  LabInv'
<1> USE LabAssumption
<1>1. TypeInv'
  BY DEF LabInv, TypeInv, Stays, setup, service
<1>2. \A i \in Items \ {item} : attempts'[i] = attempts[i] /\ fetched'[i] = fetched[i]
  BY DEF LabInv, TypeInv
<1>3. PlaceInv'
  BY <1>2 DEF LabInv, PlaceInv, Stays, InHand
<1>4. ASSUME NEW i \in Items, items'[i] # "PENDING"
      PROVE  Settled(i)'
  <2>1. Ending(i)' = Ending(i) /\ expired' = expired /\ wiring' = wiring /\ mode' = mode
    BY FateKept DEF Stays, setup
  <2>2. i # item /\ items'[i] = items[i]
    BY <1>4 DEF LabInv, PlaceInv, Stays
  <2>3. QED
    BY <1>2, <1>4, <2>1, <2>2 DEF Settled, LabInv
<1>5. ASSUME NEW i \in Items
      PROVE  Counted(i)'
  <2>1. CASE i = item
    BY <2>1 DEF Counted, Stays
  <2>2. CASE i # item
    BY <1>2, <2>2 DEF Counted, LabInv, setup
  <2>3. QED
    BY <2>1, <2>2
<1>6. QED
  BY <1>1, <1>3, <1>4, <1>5 DEF LabInv

\* The envelope expires, or something happens that the runner does not see.
LEMMA AsideKeeps ==
    ASSUME LabInv, UNCHANGED <<state, items, attempts, halted, todo, item, obs, cls, step, prior,
                               report, fault, fetched, setup>>,
           expired => expired', ledger' \in [Items -> LedgerModes], server' \in ServerStates
    PROVE  LabInv'
<1>1. TypeInv'
  BY DEF LabInv, TypeInv, setup
<1>2. PlaceInv'
  BY DEF LabInv, PlaceInv
<1>3. \A i \in Items : Ending(i)' = Ending(i)
  BY FateKept
<1>4. item \in Items => Hand(item)'
  <2>1. SUFFICES ASSUME item \in Items PROVE Hand(item)'
    OBVIOUS
  <2>2. OnCourse(item)' <=> OnCourse(item)
    BY DEF OnCourse, setup
  <2>3. Lost(item)' <=> Lost(item)
    BY DEF Lost, setup
  <2>4. Doomed(item)' <=> Doomed(item)
    BY <1>3, <2>1 DEF Doomed, setup
  <2>5. Retried(item)' <=> Retried(item)
    BY DEF Retried, setup
  <2>6. Judging(item)' <=> Judging(item)
    BY DEF Judging, setup
  <2>7. QED
    BY <2>1, <2>2, <2>3, <2>4, <2>5, <2>6 DEF Hand, LabInv, setup
<1>5. \A i \in Items : items'[i] # "PENDING" => Settled(i)'
  BY <1>3 DEF Settled, LabInv, setup
<1>6. \A i \in Items : Counted(i)'
  BY DEF Counted, LabInv, setup
<1>7. QED
  BY <1>1, <1>2, <1>4, <1>5, <1>6 DEF LabInv

\* Between two items.
LEMMA StartKeeps ==
    ASSUME LabInv, NEW w \in Wirings, Run(w)!Start, UNCHANGED <<setup, service, fetched>>
    PROVE  LabInv'
<1> USE LabAssumption
<1>1. /\ state = "PLANNED" /\ state' = "RUNNING"
      /\ todo' = {i \in Items : items[i] = "PENDING"}
      /\ UNCHANGED <<items, attempts, halted, item, expired, report>>
  BY StartDoes
<1>2. item = NoItem /\ item' = NoItem /\ ~halted /\ report = "none"
  BY <1>1 DEF LabInv, TypeInv, PlaceInv, InHand
<1>3. TypeInv'
  BY <1>1 DEF LabInv, TypeInv, setup, service
<1>4. PlaceInv'
  BY <1>1, <1>2 DEF LabInv, PlaceInv
<1>5. \A i \in Items : items'[i] # "PENDING" => Settled(i)'
  BY <1>1, FateKept DEF Settled, LabInv, setup
<1>6. \A i \in Items : Counted(i)'
  BY <1>1 DEF Counted, LabInv, setup
<1>7. QED
  BY <1>2, <1>3, <1>4, <1>5, <1>6 DEF LabInv

LEMMA BeginKeeps ==
    ASSUME LabInv, NEW w \in Wirings, NEW i \in Items, Run(w)!BeginItem(i),
           UNCHANGED <<setup, service, fetched>>
    PROVE  LabInv'
<1> USE LabAssumption
<1>1. /\ item = NoItem /\ ~halted /\ report = "none" /\ fault = "none" /\ state # "PLANNED"
      /\ i \in todo /\ todo' = todo \ {i} /\ item' = i
      /\ state' = "ACTION_PENDING" /\ fault' = "none"
      /\ UNCHANGED <<items, attempts, halted, expired, report>>
  BY BeginDoes DEF LabInv
<1>2. items[i] = "PENDING" /\ fetched[i] = 0 /\ attempts[i] = 0
  BY <1>1 DEF LabInv, PlaceInv
<1>3. TypeInv'
  BY <1>1 DEF LabInv, TypeInv, setup, service
<1>4. PlaceInv'
  BY <1>1, <1>2 DEF LabInv, PlaceInv, InHand
<1>5. Hand(item)'
  BY <1>1, <1>2 DEF Hand
<1>6. \A j \in Items : items'[j] # "PENDING" => Settled(j)'
  BY <1>1, FateKept DEF Settled, LabInv, setup
<1>7. \A j \in Items : Counted(j)'
  BY <1>1 DEF Counted, LabInv, setup
<1>8. QED
  BY <1>3, <1>4, <1>5, <1>6, <1>7 DEF LabInv

LEMMA FinishKeeps ==
    ASSUME LabInv, NEW w \in Wirings, Run(w)!Finish, UNCHANGED <<setup, service, fetched>>
    PROVE  LabInv'
<1> USE LabAssumption
<1>1. /\ item = NoItem /\ report = "none" /\ report' # "none" /\ (halted \/ todo = {})
      /\ state # "PLANNED" /\ state' \in {state, "COMPLETED"}
      /\ halted => state' = "FROZEN"
      /\ UNCHANGED <<items, attempts, halted, todo, item, expired>>
  BY FinishDoes DEF LabInv
<1>2. TypeInv'
  BY <1>1 DEF LabInv, TypeInv, setup, service
<1>3. PlaceInv'
  <2>1. item' = NoItem /\ item' \notin Items
    BY <1>1
  <2>2. state' \in {"RUNNING", "RESUMED", "FROZEN", "COMPLETED"}
    BY <1>1 DEF LabInv, PlaceInv
  <2>3. QED
    BY <1>1, <2>1, <2>2 DEF LabInv, PlaceInv
<1>4. \A i \in Items : items'[i] # "PENDING" => Settled(i)'
  BY <1>1, FateKept DEF Settled, LabInv, setup
<1>5. \A i \in Items : Counted(i)'
  BY <1>1 DEF Counted, LabInv, setup
<1>6. QED
  BY <1>1, <1>2, <1>3, <1>4, <1>5 DEF LabInv

\* The first answer of the primary source, and what the runner makes of it.
LEMMA FirstAnswers ==
    ASSUME NEW i \in Items, NEW m \in LabModes \ {"unknown"}
    PROVE  LET class == Classify(PrimaryAnswer(m, 0, i))
           IN  /\ m = "ok" => class = NoFailure
               /\ m \in FailingByTurns \cup {"http_503"} => class = "TRANSIENT"
               /\ m = "http_401" => class = "AUTHENTICATION"
               /\ m = "malformed_amount" => class = "MALFORMED_OUTPUT"
               /\ m = "stale" => class = "STALE_DATA"
               /\ m = "conflict" => class = "CONFLICTING_RESULT"
               /\ m # "ok" => class # NoFailure
<1>1. {"TRANSIENT", "AUTHENTICATION"} \subseteq CodedClasses
  BY DEF CodedClasses
<1>2. CASE m = "ok"
  BY <1>2, PrimaryAnswers, Answers DEF FailingByTurns
<1>3. CASE m \in FailingByTurns
  <2>1. PrimaryAnswer(m, 0, i) = Error("TRANSIENT")
    BY <1>3, PrimaryAnswers
  <2>2. QED
    BY <1>1, <1>3, <2>1, Errors DEF FailingByTurns, NoFailure
<1>4. CASE m = "http_503"
  <2>1. PrimaryAnswer(m, 0, i) = Error("TRANSIENT")
    BY <1>4, PrimaryAnswers
  <2>2. QED
    BY <1>1, <1>4, <2>1, Errors DEF FailingByTurns, NoFailure
<1>5. CASE m = "http_401"
  <2>1. PrimaryAnswer(m, 0, i) = Error("AUTHENTICATION")
    BY <1>5, PrimaryAnswers
  <2>2. QED
    BY <1>1, <1>5, <2>1, Errors DEF FailingByTurns, NoFailure
<1>6. CASE m = "malformed_amount"
  BY <1>6, PrimaryAnswers, Answers DEF FailingByTurns, NoFailure
<1>7. CASE m = "stale"
  BY <1>7, PrimaryAnswers, Answers DEF FailingByTurns, NoFailure
<1>8. CASE m = "conflict"
  BY <1>8, ConflictClass DEF FailingByTurns, NoFailure
<1>9. QED
  BY <1>2, <1>3, <1>4, <1>5, <1>6, <1>7, <1>8 DEF LabModes, PrimaryModes, Cured

\* What becomes of an item, mode by mode.
LEMMA Fates ==
    ASSUME NEW i \in Items
    PROVE  /\ mode[i] \in FailingByTurns \cup {"ok"} => Ending(i) = "COMPLETED"
           /\ mode[i] = "http_401" => Ending(i) = "ESCALATED"
           /\ mode[i] = "conflict" => Ending(i) = "FROZEN"
           /\ mode[i] \in Cured /\ wiring = "worker" => Ending(i) = "COMPLETED"
           /\ mode[i] \in Cured /\ wiring # "worker" => Ending(i) = Substituted(i)
<1>1. mode[i] \in PrimaryModes => OutcomeOf[mode[i]] =
         CASE mode[i] \in Cured \cup {"ok"} -> "COMPLETED"
           [] mode[i] = "conflict" -> "FROZEN"
           [] mode[i] = "http_401" -> "ESCALATED"
           [] mode[i] = "unknown" -> "raises"
  BY DEF OutcomeOf
<1>2. CASE mode[i] \in FailingByTurns \cup {"ok"}
  BY <1>1, <1>2 DEF Ending, Fate, FailingByTurns, Cured, PrimaryModes
<1>3. CASE mode[i] = "http_401"
  BY <1>1, <1>3 DEF Ending, Fate, FailingByTurns, Cured, PrimaryModes
<1>4. CASE mode[i] = "conflict"
  BY <1>1, <1>4 DEF Ending, Fate, FailingByTurns, Cured, PrimaryModes
<1>5. CASE mode[i] \in Cured
  BY <1>1, <1>5 DEF Ending, Fate, FailingByTurns, Cured, PrimaryModes
<1>6. QED
  BY <1>2, <1>3, <1>4, <1>5 DEF FailingByTurns, Cured

\* The agent asks the primary source.
LEMMA FetchKeeps ==
    ASSUME LabInv, NEW w \in Wirings, Fetch(w), UNCHANGED <<setup, service>>
    PROVE  LabInv'
<1>1. /\ Held("ACTION_PENDING") /\ Stays
      /\ attempts' = attempts /\ fetched' = [fetched EXCEPT ![item] = @ + 1]
      /\ mode[item] = "unknown" => state' = state /\ fault' = "tool_raised"
      /\ mode[item] # "unknown" =>
            /\ state' = "OBSERVING" /\ obs' = PrimaryAnswer(mode[item], fetched[item], item)
  BY FetchDoes DEF LabInv
<1>2. item \in Items /\ attempts[item] = 0 /\ fetched[item] = 0
  BY <1>1 DEF LabInv, Hand, Held
<1>3. /\ attempts' = [attempts EXCEPT ![item] = 0] /\ fetched' = [fetched EXCEPT ![item] = 1]
      /\ attempts'[item] = 0 /\ fetched'[item] = 1
  BY <1>1, <1>2 DEF LabInv, TypeInv
<1>4. state' \in InHand
  BY <1>1 DEF InHand, Held
<1>5. Hand(item)'
  <2>1. item' = item /\ mode' = mode
    BY <1>1 DEF Stays, setup
  <2>2. CASE mode[item] = "unknown"
    BY <1>1, <1>3, <2>1, <2>2 DEF Hand, Held
  <2>3. CASE mode[item] # "unknown"
    BY <1>1, <1>2, <1>3, <2>1, <2>3 DEF Hand
  <2>4. QED
    BY <2>2, <2>3
<1>6. Counted(item)'
  BY <1>1, <1>3, LabAssumption DEF Counted, Stays
<1>7. QED
  BY <1>1, <1>2, <1>3, <1>4, <1>5, <1>6, StayKeeps

LEMMA AcceptPrimaryKeeps ==
    ASSUME LabInv, NEW w \in Wirings, Run(w)!AcceptPrimary, UNCHANGED <<setup, service, fetched>>
    PROVE  LabInv'
<1>1. /\ Held("OBSERVING") /\ Classify(obs) = NoFailure
      /\ state' = "RESUMED" /\ Leaves("COMPLETED") /\ UNCHANGED <<attempts, halted>>
  BY AcceptPrimaryDoes DEF LabInv
<1>2. /\ item \in Items /\ mode[item] \in LabModes \ {"unknown"}
      /\ obs = PrimaryAnswer(mode[item], 0, item)
  BY <1>1 DEF LabInv, Hand, Held, TypeInv
<1>3. mode[item] = "ok"
  BY <1>1, <1>2, FirstAnswers
<1>4. Ending(item) = "COMPLETED"
  BY <1>2, <1>3, Fates
<1>5. QED
  BY <1>1, <1>2, <1>4, LeaveKeeps

\* A refused first answer sets the item's course.
LEMMA RejectPrimaryKeeps ==
    ASSUME LabInv, NEW w \in Wirings, Run(w)!RejectPrimary, UNCHANGED <<setup, service, fetched>>
    PROVE  LabInv'
<1>1. /\ Held("OBSERVING")
      /\ \/ /\ Classify(obs) # NoFailure
            /\ cls' = Classify(obs) /\ prior' = Anchor(Classify(obs), NoData)
         \/ /\ Classify(obs) = NoFailure /\ JudgedNow # {}
            /\ cls' = VerifyProblemClass(JudgedNow) /\ prior' = NoData
      /\ state' = "CLASSIFYING" /\ step' = 0 /\ Stays
      /\ UNCHANGED <<attempts, obs>>
  BY RejectPrimaryDoes DEF LabInv
<1>2. /\ item \in Items /\ mode[item] \in LabModes \ {"unknown"}
      /\ obs = PrimaryAnswer(mode[item], 0, item) /\ attempts[item] = 0 /\ fetched[item] = 1
  BY <1>1 DEF LabInv, Hand, Held, TypeInv
<1>3. mode[item] # "ok" /\ Classify(obs) # NoFailure
  <2>1. SUFFICES ASSUME mode[item] = "ok" PROVE FALSE
    BY <1>2, FirstAnswers
  <2>2. obs = Answer(Invoice(item, Due, "PAID", "fresh")) /\ Classify(obs) = NoFailure
    BY <1>2, <2>1, FirstAnswers, PrimaryAnswers
  <2>3. JudgedNow = {}
    BY <1>2, <2>2, Verdicts DEF JudgedNow
  <2>4. QED
    BY <1>1, <2>2, <2>3
<1>4. cls' = Classify(obs) /\ prior' = Anchor(Classify(obs), NoData)
  BY <1>1, <1>3
<1>5. /\ step' = 0 /\ attempts'[item] = 0 /\ fetched'[item] = 1 /\ item' = item /\ mode' = mode
      /\ attempts' = [attempts EXCEPT ![item] = 0] /\ fetched' = [fetched EXCEPT ![item] = 1]
  BY <1>1, <1>2 DEF Stays, setup, LabInv, TypeInv
<1>6. OnCourse(item)'
  <2>1. CASE mode[item] \in FailingByTurns \cup {"http_503"}
    <3>1. obs = Error("TRANSIENT") /\ cls' = "TRANSIENT"
      BY <1>2, <1>4, <2>1, FirstAnswers, PrimaryAnswers
    <3>2. prior' = NoData
      BY <1>4, <3>1, Errors DEF Anchor, CodedClasses
    <3>3. QED
      BY <1>5, <2>1, <3>1, <3>2 DEF OnCourse
  <2>2. CASE mode[item] = "http_401"
    BY <1>2, <1>4, <1>5, <2>2, FirstAnswers DEF OnCourse
  <2>3. CASE mode[item] = "malformed_amount"
    <3>1. cls' = "MALFORMED_OUTPUT" /\ prior' = NoData
      BY <1>2, <1>4, <2>3, FirstAnswers DEF Anchor
    <3>2. QED
      BY <1>5, <2>3, <3>1 DEF OnCourse
  <2>4. CASE mode[item] = "stale"
    <3>1. cls' = "STALE_DATA" /\ obs = Answer(Invoice(item, Due, "PAID", "stale"))
      BY <1>2, <1>4, <2>4, FirstAnswers, PrimaryAnswers
    <3>2. prior' = Invoice(item, Due, "PAID", "stale")
      BY <1>4, <3>1, Answers DEF Anchor
    <3>3. QED
      BY <1>5, <2>4, <3>1, <3>2 DEF OnCourse
  <2>5. CASE mode[item] = "conflict"
    BY <1>2, <1>4, <1>5, <2>5, FirstAnswers DEF OnCourse
  <2>6. QED
    BY <1>2, <1>3, <2>1, <2>2, <2>3, <2>4, <2>5 DEF LabModes, PrimaryModes, Cured
<1>7. Hand(item)'
  BY <1>1, <1>6 DEF Hand
<1>8. Counted(item)'
  BY <1>5, LabAssumption DEF Counted
<1>9. state' \in InHand
  BY <1>1 DEF InHand
<1>10. QED
  BY <1>1, <1>2, <1>5, <1>7, <1>8, <1>9, StayKeeps

LEMMA SubstitutedFates ==
    ASSUME NEW i \in Items
    PROVE  /\ wiring = "alternate" =>
                 /\ altMode[i] = "ok" => Substituted(i) = "COMPLETED"
                 /\ altMode[i] = "inflated" => Substituted(i) = "FROZEN"
                 /\ altMode[i] \in {"malformed", "stale", "down"} => Substituted(i) = "ESCALATED"
           /\ wiring = "authoritative" =>
                 Substituted(i) = IF truth[i] = "REFUNDED" /\ mode[i] = "stale" THEN "FROZEN"
                                  ELSE "COMPLETED"
           /\ wiring \in {"narrow", "ledger"} => Substituted(i) = "ESCALATED"
<1>1. CASE wiring = "alternate"
  <2>1. Substituted(i) =
           CASE altMode[i] = "ok" -> "COMPLETED"
             [] altMode[i] = "inflated" -> "FROZEN"
             [] altMode[i] \in {"malformed", "stale", "down"} -> "ESCALATED"
    BY <1>1 DEF Substituted
  <2>2. QED
    BY <1>1, <2>1
<1>2. CASE wiring = "authoritative"
  BY <1>2 DEF Substituted
<1>3. CASE wiring \in {"narrow", "ledger"}
  BY <1>3 DEF Substituted
<1>4. QED
  BY <1>1, <1>2, <1>3

LEMMA LostFate ==
    ASSUME NEW i \in Items, Lost(i)
    PROVE  Ending(i) = "ESCALATED" /\ wiring # "narrow"
  BY Fates, SubstitutedFates DEF Lost

\* What is in the runner's hand in the recovery loop.
LEMMA LoopHand ==
    ASSUME LabInv, \/ Held("CLASSIFYING") \/ Held("RECOVERY_FAILED") \/ Held("RECOVERY_SELECTED")
    PROVE  /\ item \in Items /\ attempts[item] \in Nat /\ fetched[item] \in Nat
           /\ mode[item] \in LabModes
           /\ OnCourse(item) \/ Lost(item) \/ Doomed(item)
           /\ state = "RECOVERY_SELECTED" => OnCourse(item) \/ Lost(item)
  BY DEF LabInv, Hand, Held, TypeInv

LEMMA EscalateKeeps ==
    ASSUME LabInv, NEW w \in Wirings, wiring = w, Run(w)!Escalate,
           UNCHANGED <<setup, service, fetched>>
    PROVE  LabInv'
<1>0. wiring \in Wirings
  BY DEF LabInv, TypeInv
<1>1. /\ Held("CLASSIFYING") \/ Held("RECOVERY_FAILED")
      /\ Choice(wiring) = "escalate"
      /\ state' = "RESUMED" /\ Leaves("ESCALATED") /\ UNCHANGED <<attempts, halted>>
  BY <1>0, EscalateDoes DEF LabInv
<1>2. item \in Items /\ (OnCourse(item) \/ Lost(item) \/ Doomed(item))
  BY <1>1, LoopHand
<1>3. /\ Ending(item) = "ESCALATED"
      /\ wiring = "narrow" /\ mode[item] = "http_503" => fetched[item] = 3
  <2>1. CASE OnCourse(item)
    <3>1. mode[item] \in Cured => wiring = "narrow"
      BY <1>0, <1>1, <2>1, Chained DEF OnCourse, Cured, FailingByTurns
    <3>2. mode[item] = "http_503" => fetched[item] = 3
      BY <1>1, <2>1, Chained DEF OnCourse, FailingByTurns
    <3>3. mode[item] \in Cured \cup {"http_401"}
      BY <1>1, <2>1, Chained DEF OnCourse, Cured
    <3>4. Ending(item) = "ESCALATED"
      BY <1>2, <3>1, <3>3, Fates, SubstitutedFates
    <3>5. QED
      BY <3>2, <3>4
  <2>2. CASE Lost(item)
    BY <1>2, <2>2, LostFate
  <2>3. CASE Doomed(item)
    BY <1>1, <2>3, Chained DEF Doomed
  <2>4. QED
    BY <1>2, <2>1, <2>2, <2>3
<1>4. QED
  BY <1>1, <1>2, <1>3, LeaveKeeps

LEMMA FreezeKeeps ==
    ASSUME LabInv, NEW w \in Wirings, wiring = w, Run(w)!Freeze,
           UNCHANGED <<setup, service, fetched>>
    PROVE  LabInv'
<1>0. wiring \in Wirings
  BY DEF LabInv, TypeInv
<1>1. /\ Held("CLASSIFYING") \/ Held("RECOVERY_FAILED")
      /\ Choice(wiring) = "freeze"
      /\ state' = "FROZEN" /\ halted' = TRUE /\ Leaves("FROZEN") /\ UNCHANGED attempts
  BY <1>0, FreezeDoes DEF LabInv
<1>2. item \in Items /\ (OnCourse(item) \/ Lost(item) \/ Doomed(item))
  BY <1>1, LoopHand
<1>3. Ending(item) = "FROZEN"
  <2>1. CASE OnCourse(item)
    <3>1. mode[item] = "conflict"
      BY <1>1, <2>1, Chained DEF OnCourse
    <3>2. QED
      BY <1>2, <3>1, Fates
  <2>2. CASE Lost(item)
    BY <1>1, <2>2, Chained DEF Lost
  <2>3. CASE Doomed(item)
    BY <2>3 DEF Doomed
  <2>4. QED
    BY <1>2, <2>1, <2>2, <2>3
<1>4. QED
  BY <1>1, <1>2, <1>3, LeaveKeeps

LEMMA SelectKeeps ==
    ASSUME LabInv, NEW w \in Wirings, wiring = w, Run(w)!SelectRecovery,
           UNCHANGED <<setup, service, fetched>>
    PROVE  LabInv'
<1>0. wiring \in Wirings
  BY DEF LabInv, TypeInv
<1>1. /\ Held("CLASSIFYING") \/ Held("RECOVERY_FAILED")
      /\ Choice(wiring) \notin {"escalate", "freeze"}
      /\ state' = "RECOVERY_SELECTED" /\ Stays
      /\ UNCHANGED <<attempts, obs, cls, step, prior>>
  BY <1>0, SelectDoes DEF LabInv
<1>2. /\ item \in Items /\ attempts[item] \in Nat /\ fetched[item] \in Nat
      /\ OnCourse(item) \/ Lost(item) \/ Doomed(item)
  BY <1>1, LoopHand
<1>3. OnCourse(item) \/ Lost(item)
  BY <1>1, <1>2, Chained DEF Doomed
<1>4. OnCourse(item)' \/ Lost(item)'
  <2>1. OnCourse(item) => OnCourse(item)'
    BY <1>1 DEF OnCourse, Stays, setup
  <2>2. Lost(item) => Lost(item)'
    BY <1>1 DEF Lost, Stays, setup
  <2>3. QED
    BY <1>3, <2>1, <2>2
<1>5. Hand(item)' /\ state' \in InHand
  BY <1>1, <1>4 DEF Hand, InHand
<1>6. Counted(item)'
  BY <1>1, <1>2 DEF Counted, LabInv, Stays, setup
<1>7. /\ attempts' = [attempts EXCEPT ![item] = attempts[item]]
      /\ fetched' = [fetched EXCEPT ![item] = fetched[item]]
  BY <1>1 DEF LabInv, TypeInv
<1>8. QED
  BY <1>1, <1>2, <1>5, <1>6, <1>7, StayKeeps

LEMMA SkipKeeps ==
    ASSUME LabInv, NEW w \in Wirings, wiring = w, Run(w)!SkipStep,
           UNCHANGED <<setup, service, fetched>>
    PROVE  LabInv'
<1>0. wiring \in Wirings
  BY DEF LabInv, TypeInv
<1>1. /\ Held("RECOVERY_SELECTED") /\ Choice(wiring) \in {"reject", "replan"}
      /\ state' = "RECOVERY_FAILED" /\ step' = step + 1 /\ Stays
      /\ UNCHANGED <<attempts, obs, cls, prior>>
  BY <1>0, SkipDoes DEF LabInv
<1>2. /\ item \in Items /\ attempts[item] \in Nat /\ fetched[item] \in Nat
      /\ OnCourse(item) \/ Lost(item)
  BY <1>1, LoopHand DEF Held
<1>3. OnCourse(item)' \/ Lost(item)'
  <2>1. CASE OnCourse(item)
    <3>1. mode[item] = "malformed_amount" /\ step = 0
      BY <1>1, <2>1, Chained DEF OnCourse
    <3>2. OnCourse(item)'
      BY <1>1, <2>1, <3>1 DEF OnCourse, Stays, setup, FailingByTurns
    <3>3. QED
      BY <3>2
  <2>2. CASE Lost(item)
    BY <1>1, <2>2 DEF Lost, Stays, setup
  <2>3. QED
    BY <1>2, <2>1, <2>2
<1>4. Hand(item)' /\ state' \in InHand
  BY <1>1, <1>3 DEF Hand, InHand
<1>5. Counted(item)'
  BY <1>1, <1>2 DEF Counted, LabInv, Stays, setup
<1>6. /\ attempts' = [attempts EXCEPT ![item] = attempts[item]]
      /\ fetched' = [fetched EXCEPT ![item] = fetched[item]]
  BY <1>1 DEF LabInv, TypeInv
<1>7. QED
  BY <1>1, <1>2, <1>4, <1>5, <1>6, StayKeeps

\* The substitute answers for an item that its primary source cannot settle.
LEMMA SubstituteGiven ==
    ASSUME LabInv, NEW w \in Wirings, wiring = w, Call(w), UNCHANGED <<setup, service>>,
           mode[item] \in Cured, cls \in Hopeless, step \in Nat,
           Choice(wiring) = "substitute", wiring # "narrow",
           prior = IF mode[item] = "stale" THEN Invoice(item, Due, "PAID", "stale") ELSE NoData
    PROVE  Judging(item)' \/ (Lost(item)' /\ Classify(obs)' \in Hopeless)
<1>0. wiring \in Wirings
  BY DEF LabInv, TypeInv
<1>1. /\ Held("RECOVERY_SELECTED") /\ Stays /\ UNCHANGED <<cls, step, prior>>
      /\ wiring \in {"alternate", "worker"} => obs' = AlternateAnswer(altMode[item], item)
      /\ wiring = "authoritative" => obs' = AuthoritativeAnswer(truth[item], item)
      /\ wiring = "ledger" => obs' = LedgerAnswer(server, ledger[item], item)
  BY <1>0, CallDoes DEF LabInv
<1>2. /\ item \in Items /\ item' = item /\ wiring' = wiring /\ mode' = mode /\ altMode' = altMode
      /\ truth' = truth /\ cls' = cls /\ step' = step /\ prior' = prior
  BY <1>1 DEF Held, Stays, setup
<1>3. CASE wiring \in {"alternate", "worker"} /\ altMode[item] \in {"ok", "inflated"}
  BY <1>1, <1>2, <1>3 DEF Judging
<1>4. CASE wiring \in {"alternate", "worker"} /\ altMode[item] \notin {"ok", "inflated"}
  <2>1. wiring = "alternate" /\ altMode[item] \in {"malformed", "stale", "down"}
    BY <1>2, <1>4 DEF LabInv, TypeInv, AlternateModes
  <2>2. Classify(obs') \in Hopeless
    BY <1>1, <2>1, HopelessAnswers
  <2>3. Lost(item)'
    BY <1>2, <2>1 DEF Lost
  <2>4. QED
    BY <2>2, <2>3
<1>5. CASE wiring = "authoritative"
  BY <1>1, <1>2, <1>5 DEF Judging
<1>6. CASE wiring = "ledger"
  <2>1. Classify(obs') \in Hopeless
    BY <1>1, <1>2, <1>6, HopelessAnswers DEF LabInv, TypeInv
  <2>2. Lost(item)'
    BY <1>2, <1>6 DEF Lost
  <2>3. QED
    BY <2>1, <2>2
<1>7. QED
  BY <1>0, <1>3, <1>4, <1>5, <1>6 DEF Wirings

\* A call in recovery: a retry, or the substitute.
LEMMA CallKeeps ==
    ASSUME LabInv, NEW w \in Wirings, wiring = w, Call(w), UNCHANGED <<setup, service>>
    PROVE  LabInv'
<1>0. wiring \in Wirings
  BY DEF LabInv, TypeInv
<1>1. /\ Held("RECOVERY_SELECTED") /\ Choice(wiring) \in {"retry", "retry_remainder", "substitute"}
      /\ attempts[item] + 1 <= MaxAttempts
      /\ attempts' = [attempts EXCEPT ![item] = @ + 1]
      /\ state' = "VERIFYING" /\ Stays /\ UNCHANGED <<cls, step, prior>>
      /\ Choice(wiring) # "substitute" =>
            /\ obs' = PrimaryAnswer(mode[item], fetched[item], item)
            /\ fetched' = [fetched EXCEPT ![item] = @ + 1]
      /\ Choice(wiring) = "substitute" =>
            /\ wiring = "ledger" => obs' = LedgerAnswer(server, ledger[item], item)
            /\ wiring \in {"alternate", "worker"} => obs' = AlternateAnswer(altMode[item], item)
            /\ fetched' = fetched
  BY <1>0, CallDoes DEF LabInv
<1>2. /\ item \in Items /\ attempts[item] \in Nat /\ fetched[item] \in Nat
      /\ OnCourse(item) \/ Lost(item)
  BY <1>1, LoopHand DEF Held
<1>3. /\ item' = item /\ wiring' = wiring /\ mode' = mode /\ altMode' = altMode
      /\ cls' = cls /\ step' = step /\ prior' = prior
      /\ attempts'[item] = attempts[item] + 1
      /\ Choice(wiring) # "substitute" => fetched'[item] = fetched[item] + 1
      /\ Choice(wiring) = "substitute" => fetched'[item] = fetched[item]
  BY <1>1, <1>2 DEF Stays, setup, LabInv, TypeInv
<1>4. \/ Retried(item)' \/ Judging(item)'
      \/ Lost(item)' /\ Classify(obs)' \in Hopeless
  <2>1. CASE OnCourse(item) /\ mode[item] \in FailingByTurns
    <3>1. /\ Choice(wiring) = "retry"
          /\ attempts[item] = 0 /\ fetched[item] = 1 /\ prior = NoData
      BY <2>1, Chained DEF OnCourse, FailingByTurns
    <3>2. obs' = PrimaryAnswer("ok", 0, item)
      BY <1>1, <2>1, <3>1, PrimaryAnswers
    <3>3. QED
      BY <1>3, <2>1, <3>1, <3>2 DEF Retried
  <2>2. CASE OnCourse(item) /\ mode[item] = "http_503" /\ step \in 0..1
    <3>1. /\ Choice(wiring) = "retry" /\ cls = "TRANSIENT"
          /\ attempts[item] = step /\ fetched[item] = step + 1 /\ prior = NoData
      BY <2>2, Chained DEF OnCourse, FailingByTurns
    <3>2. obs' = Error("TRANSIENT")
      BY <1>1, <1>2, <2>2, <3>1, PrimaryAnswers
    <3>3. QED
      BY <1>3, <2>2, <3>1, <3>2 DEF Retried
  <2>3. CASE /\ OnCourse(item) /\ mode[item] \notin FailingByTurns
             /\ ~(mode[item] = "http_503" /\ step \in 0..1)
    <3>1. /\ mode[item] \in Cured /\ cls \in Hopeless /\ step \in Nat
          /\ prior = IF mode[item] = "stale" THEN Invoice(item, Due, "PAID", "stale") ELSE NoData
          /\ Choice(wiring) = "substitute" /\ wiring # "narrow"
      BY <1>1, <2>3, Chained DEF OnCourse, Cured, Hopeless
    <3>2. QED
      BY <3>1, SubstituteGiven
  <2>4. CASE Lost(item)
    <3>1. Lost(item)'
      BY <1>3, <2>4 DEF Lost
    <3>2. CASE Choice(wiring) # "substitute"
      <4>1. Classify(obs') \in Hopeless
        BY <1>1, <1>2, <2>4, <3>2, HopelessAnswers DEF Lost
      <4>2. QED
        BY <3>1, <4>1
    <3>3. CASE Choice(wiring) = "substitute" /\ wiring = "ledger"
      <4>1. Classify(obs') \in Hopeless
        BY <1>1, <1>2, <3>3, HopelessAnswers DEF LabInv, TypeInv
      <4>2. QED
        BY <3>1, <4>1
    <3>4. CASE Choice(wiring) = "substitute" /\ wiring # "ledger"
      <4>1. Classify(obs') \in Hopeless
        BY <1>1, <1>2, <2>4, <3>4, HopelessAnswers DEF Lost
      <4>2. QED
        BY <3>1, <4>1
    <3>5. QED
      BY <3>2, <3>3, <3>4
  <2>5. QED
    BY <1>2, <2>1, <2>2, <2>3, <2>4
<1>5. Hand(item)' /\ state' \in InHand
  BY <1>1, <1>4 DEF Hand, InHand
<1>6. Counted(item)'
  <2>1. attempts'[item] <= MaxAttempts /\ fetched'[item] <= 1 + attempts'[item]
    BY <1>1, <1>2, <1>3, LabAssumption DEF Counted, LabInv
  <2>2. mode[item] \in FailingByTurns => fetched'[item] <= 2
    BY <1>2, <1>3 DEF OnCourse, Lost, FailingByTurns, Cured
  <2>3. mode[item] \notin {"ok", "http_401", "conflict", "unknown"}
    BY <1>1, <1>2, Chained DEF OnCourse, Lost, FailingByTurns, Cured
  <2>4. QED
    BY <1>3, <2>1, <2>2, <2>3 DEF Counted
<1>7. PICK n \in Nat : fetched' = [fetched EXCEPT ![item] = n]
  <2>1. CASE Choice(wiring) # "substitute"
    BY <1>1, <1>2, <2>1
  <2>2. CASE Choice(wiring) = "substitute"
    <3>1. fetched' = [fetched EXCEPT ![item] = fetched[item]]
      BY <1>1, <2>2 DEF LabInv, TypeInv
    <3>2. QED
      BY <1>2, <3>1
  <2>3. QED
    BY <2>1, <2>2
<1>8. attempts[item] + 1 \in Nat /\ attempts' = [attempts EXCEPT ![item] = attempts[item] + 1]
  BY <1>1, <1>2
<1>9. QED
  BY <1>1, <1>2, <1>5, <1>6, <1>7, <1>8, StayKeeps

LEMMA RefuseKeeps ==
    ASSUME LabInv, NEW w \in Wirings, wiring = w, Refuse(w), UNCHANGED <<setup, service>>
    PROVE  LabInv'
<1>0. wiring \in Wirings
  BY DEF LabInv, TypeInv
<1>1. /\ Held("RECOVERY_SELECTED") /\ Choice(wiring) \in {"retry", "retry_remainder", "substitute"}
      /\ attempts[item] + 1 > MaxAttempts \/ expired
      /\ \/ attempts' = attempts
         \/ /\ attempts[item] + 1 <= MaxAttempts
            /\ attempts' = [attempts EXCEPT ![item] = @ + 1]
      /\ state' = "RESUMED" /\ Leaves("ESCALATED") /\ UNCHANGED <<halted, fetched>>
  BY <1>0, RefuseDoes DEF LabInv
<1>2. /\ item \in Items /\ attempts[item] \in Nat
      /\ OnCourse(item) \/ Lost(item)
  BY <1>1, LoopHand DEF Held
<1>3. OnCourse(item) => attempts[item] + 1 <= MaxAttempts
  <2>1. OnCourse(item) => attempts[item] \in 0..2
    BY DEF OnCourse
  <2>2. QED
    BY <2>1, LabAssumption
<1>4. OnCourse(item) => expired
  BY <1>1, <1>2, <1>3, LabAssumption
<1>5. /\ Ending(item) = "ESCALATED" \/ expired
      /\ wiring = "narrow" => expired
  BY <1>2, <1>4, LostFate
<1>6. QED
  BY <1>1, <1>2, <1>5, LeaveKeeps

\* The verdict on a substitute's answer is the item's fate.
LEMMA JudgingIsFate ==
    ASSUME LabInv, item \in Items, Judging(item)
    PROVE  /\ Classify(obs) = NoFailure
           /\ \/ JudgedThen = {} /\ Ending(item) = "COMPLETED"
              \/ JudgedThen \in {{"AMOUNT_MISMATCH"}, {"CONFLICT"}} /\ Ending(item) = "FROZEN"
<1> DEFINE Before == Invoice(item, Due, "PAID", "stale")
<1>1. PICK amount, status : /\ obs = Answer(Invoice(item, amount, status, "fresh"))
                            /\ \/ /\ wiring \in {"alternate", "worker"} /\ status = "PAID"
                                  /\ \/ altMode[item] = "ok" /\ amount = Due
                                     \/ altMode[item] = "inflated" /\ amount = Inflated
                               \/ wiring = "authoritative" /\ status = truth[item] /\ amount = Due
  <2>1. CASE wiring \in {"alternate", "worker"} /\ altMode[item] = "ok"
    BY <2>1 DEF Judging, AlternateAnswer
  <2>2. CASE wiring \in {"alternate", "worker"} /\ altMode[item] = "inflated"
    BY <2>2 DEF Judging, AlternateAnswer
  <2>3. CASE wiring = "authoritative"
    BY <2>3 DEF Judging, AuthoritativeAnswer
  <2>4. QED
    BY <2>1, <2>2, <2>3 DEF Judging
<1>2. Classify(obs) = NoFailure
  BY <1>1, Answers
<1>3. /\ amount = Due => JudgedNow = {}
      /\ amount # Due => JudgedNow = {"AMOUNT_MISMATCH"}
      /\ amount = Due /\ status = "PAID" => CrossProblems(Before, obs.data) = {}
      /\ amount = Due /\ status # "PAID" => CrossProblems(Before, obs.data) = {"CONFLICT"}
  BY <1>1, Verdicts DEF JudgedNow
<1>4. mode[item] \in Cured /\ prior = IF mode[item] = "stale" THEN Before ELSE NoData
  BY DEF Judging
<1>5. Before # NoData
  BY DEF Invoice, NoData
<1>6. truth[item] \in {"PAID", "REFUNDED"} /\ (wiring = "worker" => altMode[item] = "ok")
  BY DEF LabInv, TypeInv
<1> HIDE DEF Before
<1>7. CASE wiring \in {"alternate", "worker"} /\ altMode[item] = "ok"
  <2>1. amount = Due /\ status = "PAID"
    BY <1>1, <1>7, AmountsDiffer
  <2>2. JudgedThen = {}
    BY <1>3, <1>4, <2>1 DEF JudgedThen
  <2>3. Ending(item) = "COMPLETED"
    BY <1>4, <1>7, Fates, SubstitutedFates
  <2>4. QED
    BY <1>2, <2>2, <2>3
<1>8. CASE wiring \in {"alternate", "worker"} /\ altMode[item] = "inflated"
  <2>1. amount # Due /\ wiring = "alternate"
    BY <1>1, <1>6, <1>8, AmountsDiffer
  <2>2. JudgedThen = {"AMOUNT_MISMATCH"}
    BY <1>3, <2>1 DEF JudgedThen
  <2>3. Ending(item) = "FROZEN"
    BY <1>4, <1>8, <2>1, Fates, SubstitutedFates
  <2>4. QED
    BY <1>2, <2>2, <2>3
<1>9. CASE wiring = "authoritative"
  <2>1. amount = Due /\ status = truth[item]
    BY <1>1, <1>9
  <2>2. Ending(item) = IF truth[item] = "REFUNDED" /\ mode[item] = "stale"
                     THEN "FROZEN" ELSE "COMPLETED"
    BY <1>4, <1>9, Fates, SubstitutedFates
  <2>3. CASE truth[item] = "REFUNDED" /\ mode[item] = "stale"
    <3>1. JudgedThen = {"CONFLICT"}
      BY <1>3, <1>4, <1>5, <2>1, <2>3 DEF JudgedThen
    <3>2. QED
      BY <1>2, <2>2, <2>3, <3>1
  <2>4. CASE ~(truth[item] = "REFUNDED" /\ mode[item] = "stale")
    <3>1. JudgedThen = {}
      BY <1>3, <1>4, <1>6, <2>1, <2>4 DEF JudgedThen
    <3>2. QED
      BY <1>2, <2>2, <2>4, <3>1
  <2>5. QED
    BY <2>3, <2>4
<1>10. QED
  BY <1>1, <1>7, <1>8, <1>9

LEMMA AcceptRecoveryKeeps ==
    ASSUME LabInv, NEW w \in Wirings, wiring = w, Run(w)!AcceptRecovery,
           UNCHANGED <<setup, service, fetched>>
    PROVE  LabInv'
<1>0. wiring \in Wirings
  BY DEF LabInv, TypeInv
<1>1. /\ Held("VERIFYING") /\ Classify(obs) = NoFailure /\ JudgedThen = {}
      /\ state' = "RESUMED" /\ Leaves("COMPLETED") /\ UNCHANGED <<attempts, halted>>
  BY <1>0, AcceptRecoveryDoes DEF LabInv
<1>2. /\ item \in Items
      /\ \/ Retried(item) \/ Judging(item)
         \/ Lost(item) /\ Classify(obs) \in Hopeless
  BY <1>1 DEF LabInv, Hand, Held
<1>3. Ending(item) = "COMPLETED"
  <2>1. CASE Retried(item)
    <3>1. Classify(Error("TRANSIENT")) = "TRANSIENT"
      BY Errors DEF CodedClasses
    <3>2. mode[item] \in FailingByTurns
      BY <1>1, <2>1, <3>1 DEF Retried, NoFailure
    <3>3. QED
      BY <1>2, <3>2, Fates
  <2>2. CASE Judging(item)
    BY <1>1, <1>2, <2>2, JudgingIsFate
  <2>3. CASE Classify(obs) \in Hopeless
    BY <1>1, <2>3 DEF Hopeless, NoFailure
  <2>4. QED
    BY <1>2, <2>1, <2>2, <2>3
<1>4. QED
  BY <1>1, <1>2, <1>3, LeaveKeeps

LEMMA RejectRecoveryKeeps ==
    ASSUME LabInv, NEW w \in Wirings, wiring = w, Run(w)!RejectRecovery,
           UNCHANGED <<setup, service, fetched>>
    PROVE  LabInv'
<1>0. wiring \in Wirings
  BY DEF LabInv, TypeInv
<1>1. /\ Held("VERIFYING")
      /\ \/ Classify(obs) # NoFailure /\ cls' = Classify(obs)
         \/ /\ Classify(obs) = NoFailure /\ JudgedThen # {}
            /\ cls' = VerifyProblemClass(JudgedThen)
      /\ prior' = Anchor(cls', prior)
      /\ step' = IF cls' # cls THEN 0 ELSE step + 1
      /\ state' = "RECOVERY_FAILED" /\ Stays /\ UNCHANGED <<attempts, obs>>
  BY <1>0, RejectRecoveryDoes DEF LabInv
<1>2. /\ item \in Items /\ attempts[item] \in Nat /\ fetched[item] \in Nat
      /\ \/ Retried(item) \/ Judging(item)
         \/ Lost(item) /\ Classify(obs) \in Hopeless
  BY <1>1 DEF LabInv, Hand, Held, TypeInv
<1>3. /\ item' = item /\ wiring' = wiring /\ mode' = mode /\ altMode' = altMode /\ truth' = truth
      /\ attempts' = attempts /\ fetched' = fetched /\ Ending(item)' = Ending(item)
  <2>1. \A i \in Items : Ending(i)' = Ending(i)
    BY FateKept
  <2>2. item' = item
    BY <1>1 DEF Stays
  <2>3. QED
    BY <1>1, <1>2, <2>1, <2>2 DEF setup
<1>4. OnCourse(item)' \/ Lost(item)' \/ Doomed(item)'
  <2>1. CASE Retried(item) /\ mode[item] \in FailingByTurns
    <3>1. obs = Answer(Invoice(item, Due, "PAID", "fresh")) /\ prior = NoData
      BY <2>1, PrimaryAnswers DEF Retried, FailingByTurns
    <3>2. Classify(obs) = NoFailure /\ JudgedNow = {}
      BY <1>2, <3>1, Answers, Verdicts DEF JudgedNow
    <3>3. JudgedThen = {}
      BY <3>1, <3>2 DEF JudgedThen
    <3>4. QED
      BY <1>1, <3>2, <3>3
  <2>2. CASE Retried(item) /\ mode[item] \notin FailingByTurns
    <3>1. /\ mode[item] = "http_503" /\ obs = Error("TRANSIENT") /\ cls = "TRANSIENT"
          /\ step \in 0..1 /\ attempts[item] = step + 1 /\ fetched[item] = step + 2
          /\ prior = NoData
      BY <2>2 DEF Retried
    <3>2. Classify(obs) = "TRANSIENT" /\ ~IsRecord(obs.data)
      BY <3>1, Errors DEF CodedClasses
    <3>3. cls' = "TRANSIENT" /\ step' = step + 1 /\ prior' = NoData
      BY <1>1, <3>1, <3>2 DEF NoFailure, Anchor
    <3>4. OnCourse(item)'
      BY <1>3, <3>1, <3>3 DEF OnCourse
    <3>5. QED
      BY <3>4
  <2>3. CASE Judging(item)
    <3>1. JudgedThen \in {{"AMOUNT_MISMATCH"}, {"CONFLICT"}} /\ Ending(item) = "FROZEN"
      BY <1>1, <1>2, <2>3, JudgingIsFate
    <3>2. cls' = "CONFLICTING_RESULT"
      BY <1>1, <1>2, <2>3, <3>1, JudgingIsFate DEF VerifyProblemClass
    <3>3. step' = 0 /\ mode[item] \in Cured
      BY <1>1, <2>3, <3>2 DEF Judging, Hopeless
    <3>4. Doomed(item)'
      BY <1>3, <3>1, <3>2, <3>3 DEF Doomed
    <3>5. QED
      BY <3>4
  <2>4. CASE Lost(item) /\ Classify(obs) \in Hopeless
    <3>1. cls' \in Hopeless
      BY <1>1, <2>4 DEF Hopeless, NoFailure
    <3>2. step' \in Nat
      BY <1>1, <2>4 DEF Lost
    <3>3. Lost(item)'
      BY <1>3, <2>4, <3>1, <3>2 DEF Lost
    <3>4. QED
      BY <3>3
  <2>5. QED
    BY <1>2, <2>1, <2>2, <2>3, <2>4
<1>5. Hand(item)' /\ state' \in InHand
  BY <1>1, <1>4 DEF Hand, InHand
<1>6. Counted(item)'
  BY <1>2, <1>3 DEF Counted, LabInv
<1>7. /\ attempts' = [attempts EXCEPT ![item] = attempts[item]]
      /\ fetched' = [fetched EXCEPT ![item] = fetched[item]]
  BY <1>3 DEF LabInv, TypeInv
<1>8. QED
  BY <1>1, <1>2, <1>5, <1>6, <1>7, StayKeeps

-----------------------------------------------------------------------------
\* Every behaviour.

LEMMA LabInit == Init => LabInv
<1> USE LabAssumption
<1> SUFFICES ASSUME Init PROVE LabInv
  OBVIOUS
<1>1. PICK w \in Wirings : wiring = w /\ Run(w)!Init
  BY DEF Init
<1>2. /\ state = "PLANNED" /\ attempts = [i \in Items |-> 0] /\ halted = FALSE /\ todo = {}
      /\ item = NoItem /\ expired = FALSE /\ report = "none" /\ wiring \in Wirings
  BY <1>1, SMT DEF Run!Init
<1>3. TypeInv
  BY <1>2 DEF Init, TypeInv, AlternateModes, LedgerModes, ServerStates
<1>4. PlaceInv
  BY <1>2 DEF Init, PlaceInv
<1>5. ASSUME NEW i \in Items
      PROVE  Counted(i)
  <2>1. fetched[i] = 0
    BY DEF Init
  <2>2. attempts[i] = 0
    BY <1>2
  <2>3. QED
    BY <2>1, <2>2 DEF Counted
<1>6. \A i \in Items : items[i] # "PENDING" => Settled(i)
  BY DEF Init
<1>7. item \in Items => Hand(item)
  BY <1>2
<1>8. QED
  BY <1>3, <1>4, <1>5, <1>6, <1>7 DEF LabInv

LEMMA LabStep == LabInv /\ [Next]_vars => LabInv'
<1> SUFFICES ASSUME LabInv, [Next]_vars PROVE LabInv'
  OBVIOUS
<1>0. ledger \in [Items -> LedgerModes] /\ server \in ServerStates
  BY DEF LabInv, TypeInv
<1>1. ASSUME NEW w \in Wirings, RunStep(w)
      PROVE  LabInv'
  <2>1. wiring = w /\ UNCHANGED <<setup, service>>
    BY <1>1 DEF RunStep
  <2>2. CASE Fetch(w)
    BY <2>1, <2>2, FetchKeeps
  <2>3. CASE Call(w)
    BY <2>1, <2>3, CallKeeps
  <2>4. CASE Refuse(w)
    BY <2>1, <2>4, RefuseKeeps
  <2>5. CASE Drive(w)
    <3>0. UNCHANGED fetched
      BY <2>5 DEF Drive
    <3>1. CASE Run(w)!Start
      BY <2>1, <3>0, <3>1, StartKeeps
    <3>2. ASSUME NEW i \in Items, Run(w)!BeginItem(i)
          PROVE  LabInv'
      BY <2>1, <3>0, <3>2, BeginKeeps
    <3>3. CASE Run(w)!Finish
      BY <2>1, <3>0, <3>3, FinishKeeps
    <3>4. CASE Run(w)!AcceptPrimary
      BY <2>1, <3>0, <3>4, AcceptPrimaryKeeps
    <3>5. CASE Run(w)!RejectPrimary
      BY <2>1, <3>0, <3>5, RejectPrimaryKeeps
    <3>6. CASE Run(w)!Escalate
      BY <2>1, <3>0, <3>6, EscalateKeeps
    <3>7. CASE Run(w)!Freeze
      BY <2>1, <3>0, <3>7, FreezeKeeps
    <3>8. CASE Run(w)!SelectRecovery
      BY <2>1, <3>0, <3>8, SelectKeeps
    <3>9. CASE Run(w)!SkipStep
      BY <2>1, <3>0, <3>9, SkipKeeps
    <3>10. CASE Run(w)!AcceptRecovery
      BY <2>1, <3>0, <3>10, AcceptRecoveryKeeps
    <3>11. CASE Run(w)!RejectRecovery
      BY <2>1, <3>0, <3>11, RejectRecoveryKeeps
    <3>12. CASE Run(w)!ExpireEnvelope
      <4>1. /\ expired' = TRUE
            /\ UNCHANGED <<state, items, attempts, halted, todo, item, obs, cls, step, prior,
                           report, fault>>
        BY <3>12, ExpireDoes
      <4>2. QED
        BY <1>0, <2>1, <3>0, <4>1, AsideKeeps DEF service
    <3>13. QED
      BY <2>5, <3>1, <3>2, <3>3, <3>4, <3>5, <3>6, <3>7, <3>8, <3>9, <3>10, <3>11, <3>12, SMT
         DEF Drive
  <2>6. QED
    BY <1>1, <2>2, <2>3, <2>4, <2>5 DEF RunStep
<1>2. ASSUME NEW w \in Wirings, ServiceStep(w)
      PROVE  LabInv'
  <2>1. UNCHANGED <<state, items, attempts, halted, todo, item, obs, cls, step, prior, report,
                    fault, fetched, setup, expired>>
    BY <1>2 DEF ServiceStep
  <2>2. ledger' \in [Items -> LedgerModes] /\ server' \in ServerStates
    <3>1. ASSUME NEW i \in Items, NEW m \in LedgerModes, InjectFault(i, m)
          PROVE  ledger' \in [Items -> LedgerModes] /\ server' \in ServerStates
      BY <1>0, <3>1 DEF InjectFault
    <3>2. CASE ResetLedger
      BY <1>0, <3>2 DEF ResetLedger, LedgerModes
    <3>3. ASSUME NEW s \in ServerStates, ChangeServer(s)
          PROVE  ledger' \in [Items -> LedgerModes] /\ server' \in ServerStates
      BY <1>0, <3>3 DEF ChangeServer, LedgerModes
    <3>4. QED
      BY <1>2, <3>1, <3>2, <3>3 DEF ServiceStep
  <2>3. QED
    BY <2>1, <2>2, AsideKeeps
<1>3. ASSUME NEW w \in Wirings, Terminated(w)
      PROVE  LabInv'
  <2>1. /\ UNCHANGED <<state, items, attempts, halted, todo, item, obs, cls, step, prior, report,
                       fault, expired>>
        /\ UNCHANGED <<setup, service, fetched>>
    BY <1>3, SMT DEF Terminated, Run!Terminated, Run!vars, Run!runVars, Run!localVars
  <2>2. QED
    BY <1>0, <2>1, AsideKeeps DEF service
<1>4. CASE UNCHANGED vars
  BY <1>0, <1>4, AsideKeeps DEF vars, service
<1>5. QED
  BY <1>1, <1>2, <1>3, <1>4 DEF Next

\* An item is never off the course that the modes of its sources set for it, in any
\* wiring, whatever happens to the ledger's service meanwhile.
THEOREM LabInductive == Spec => []LabInv
<1>1. Init => LabInv
  BY LabInit
<1>2. LabInv /\ [Next]_vars => LabInv'
  BY LabStep
<1>3. QED
  BY <1>1, <1>2, PTL DEF Spec

\* Every item meets the fate that its sources' modes foretell; only an envelope that
\* expires hands to a human what recovery would have settled.
THEOREM FatesForetold == Spec => []FateIsForetold
<1>1. LabInv => FateIsForetold
  BY DEF LabInv, Settled, Ending, FateIsForetold
<1>2. QED
  BY <1>1, LabInductive, PTL

\* The primary source is asked as often as its mode asks for, and what is pending when
\* the run returns was never asked for.
THEOREM CallsCounted == Spec => []CallsMatchMode
<1>1. ASSUME LabInv, NEW i \in Items
      PROVE  /\ mode[i] \in {"ok", "http_401", "conflict", "unknown"} => fetched[i] <= 1
             /\ mode[i] \in FailingByTurns => fetched[i] <= 2
             /\ fetched[i] <= 1 + MaxAttempts
  BY <1>1, LabAssumption DEF LabInv, TypeInv, Counted
<1>2. ASSUME LabInv, NEW i \in Items, items[i] = "ESCALATED", ~expired, wiring = "narrow",
             mode[i] = "http_503"
      PROVE  fetched[i] = 3
  BY <1>2 DEF LabInv, Settled
<1>3. ASSUME LabInv, NEW i \in Items, report # "none", items[i] = "PENDING"
      PROVE  halted /\ fetched[i] = 0
  BY <1>3 DEF LabInv, PlaceInv
<1>4. LabInv => CallsMatchMode
  BY <1>1, <1>2, <1>3 DEF CallsMatchMode
<1>5. QED
  BY <1>4, LabInductive, PTL
=============================================================================
